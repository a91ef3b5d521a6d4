----------------------------- MODULE MCDelivery -----------------------------
(***************************************************************************)
(* Two predictions under the flags that take different paths.              *)
(***************************************************************************)
EXTENDS Delivery

Base == [enabled |-> TRUE, strict |-> FALSE, url |-> TRUE, format |-> "generic"]

MCSettings ==
  { Base,
    [Base EXCEPT !.strict = TRUE],
    [Base EXCEPT !.enabled = FALSE],
    [Base EXCEPT !.url = FALSE],
    [Base EXCEPT !.url = FALSE, !.strict = TRUE],
    [Base EXCEPT !.format = "unsupported"] }
=============================================================================
