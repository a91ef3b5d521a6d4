---------------------------- MODULE MCRetryStorm ----------------------------
(***************************************************************************)
(* Two pods, a window of two and calls that may be one behind.             *)
(***************************************************************************)
EXTENDS RetryStorm, TLC

CONSTANTS podA, podB

MCPods == {podA, podB}
PodSymmetry == Permutations(MCPods)
=============================================================================
