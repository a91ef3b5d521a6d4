-------------------------- MODULE MCProbePipeline --------------------------
(***************************************************************************)
(* Two probes of one signal, so that the second may overwrite the first,   *)
(* and a third one of a signal the mode does not allow.                    *)
(***************************************************************************)
EXTENDS ProbePipeline, TLC

CONSTANTS tls, dns, gpu, p1, p2, p3

MCSignals == {tls, dns, gpu}
MCProbes == {p1, p2, p3}
MCAllowed == {tls, dns}
MCOrder == <<dns, tls>>

MCSignalOf == p1 :> tls @@ p2 :> tls @@ p3 :> gpu
=============================================================================
