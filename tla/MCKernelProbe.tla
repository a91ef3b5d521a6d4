--------------------------- MODULE MCKernelProbe ---------------------------
(***************************************************************************)
(* Two keys, a start map with room for one of them and a ring of two       *)
(* records, under each program of the toolkit in turn.                     *)
(***************************************************************************)
EXTENDS KernelProbe

CONSTANTS k1, k2

MCKeys == {k1, k2}
=============================================================================
