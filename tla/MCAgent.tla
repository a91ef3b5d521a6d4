------------------------------ MODULE MCAgent ------------------------------
(***************************************************************************)
(* Agents small enough for TLC: three signals of the full mode, the two of *)
(* the degraded mode, and the start-up settings that take another path.    *)
(***************************************************************************)
EXTENDS Agent

Three == {"tls_handshake_ms", "dns_latency_ms", "tcp_retransmits_total"}

Base == [kind |-> "both", mode |-> "core_full", configured |-> Three,
         disabled |-> {}, count |-> 0, hello |-> TRUE, guard |-> TRUE,
         scenario |-> "known", output |-> "jsonl"]

MCConfigs ==
  { [Base EXCEPT !.disabled = {"dns_latency_ms"}],
    [Base EXCEPT !.hello = FALSE],
    [Base EXCEPT !.kind = "slo", !.output = "otlp"],
    [Base EXCEPT !.kind = "probe", !.count = 1, !.guard = FALSE,
                 !.output = "stdout", !.configured = {"dns_latency_ms"}],
    [Base EXCEPT !.kind = "probe", !.mode = "bcc_degraded", !.hello = FALSE,
                 !.disabled = Members(bccSignalSet)],
    [Base EXCEPT !.scenario = "unknown", !.hello = FALSE] }
=============================================================================
