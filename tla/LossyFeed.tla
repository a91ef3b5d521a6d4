----------------------------- MODULE LossyFeed -----------------------------
(***************************************************************************)
(* What the reader of a probe's events may rely on: records of one source  *)
(* come out in the order in which they were made, none comes out twice and *)
(* none that was never made; any of them may be missing.                   *)
(***************************************************************************)
EXTENDS Integers

CONSTANT Source

VARIABLES made, got   (* per source: the last record made, the last one out *)

Init == made = [s \in Source |-> 0] /\ got = [s \in Source |-> 0]

Make(s) == made' = [made EXCEPT ![s] = @ + 1] /\ UNCHANGED got

Get(s) ==
  /\ \E n \in (got[s] + 1)..made[s] : got' = [got EXCEPT ![s] = n]
  /\ UNCHANGED made

Next == \E s \in Source : Make(s) \/ Get(s)

Spec == Init /\ [][Next]_<<made, got>>
=============================================================================
