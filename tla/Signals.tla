------------------------------ MODULE Signals ------------------------------
(***************************************************************************)
(* The kernel signals of the toolkit (pkg/signals): which ones a           *)
(* capability mode supports, which of them an agent starts with, in which  *)
(* order one sample turns them into events, and in which order the safety  *)
(* governor gives them up.                                                 *)
(***************************************************************************)
EXTENDS Integers, Sequences

coreSignalSet ==
  << "dns_latency_ms", "tcp_retransmits_total", "runqueue_delay_ms",
     "connect_latency_ms", "connect_errors_total", "tls_handshake_ms",
     "tls_handshake_fail_total", "cpu_steal_pct", "cfs_throttled_ms",
     "mem_reclaim_latency_ms", "disk_io_latency_ms", "syscall_latency_ms" >>

bccSignalSet == << "dns_latency_ms", "tcp_retransmits_total" >>

highCostDisableOrder ==
  << "tls_handshake_ms", "syscall_latency_ms", "runqueue_delay_ms",
     "disk_io_latency_ms", "connect_latency_ms", "mem_reclaim_latency_ms",
     "cpu_steal_pct", "dns_latency_ms", "tcp_retransmits_total",
     "cfs_throttled_ms", "connect_errors_total", "tls_handshake_fail_total" >>

Members(list) == { list[i] : i \in DOMAIN list }

(* The names the program knows. *)
Signal == Members(coreSignalSet)

SupportedSignalsForMode(mode) ==
  IF mode = "bcc_degraded" THEN Members(bccSignalSet) ELSE Signal

(* s stands before t in list. *)
Precedes(list, s, t) ==
  \E i, j \in DOMAIN list : i < j /\ list[i] = s /\ list[j] = t

(* The signal of S that comes first in list. *)
FirstOf(list, S, s) == s \in S /\ \A t \in S \ {s} : Precedes(list, s, t)

(***************************************************************************)
(* What an agent starts with.  The configured signals that the mode        *)
(* supports and --disable-signals does not name; when none is left, every  *)
(* supported signal it does not name.                                      *)
(***************************************************************************)
ChooseEnabledSignals(configured, disabled, supported) ==
  LET chosen == (configured \cap supported) \ disabled
  IN  IF chosen = {} THEN supported \ disabled ELSE chosen

(* SetSignals: an empty request enables everything the mode allows. *)
SetSignals(signalSet, allowed) ==
  IF signalSet = {} THEN allowed ELSE signalSet \cap allowed

---------------------------------------------------------------------------
(* DisableHighestCost: the next signal to shed leaves the enabled set. *)
Shed(enabledNow, s) == FirstOf(highCostDisableOrder, enabledNow, s)
=============================================================================
