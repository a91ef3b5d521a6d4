----------------------------- MODULE MCBenchmark -----------------------------
(***************************************************************************)
(* The replays of the Makefile with few samples, one that cannot be made;  *)
(* sample files with every set of elevated signals, each value just below  *)
(* or exactly on its threshold, with the generator's profiles, with        *)
(* several expected domains, and ones the reader or the schema refuses.    *)
(***************************************************************************)
EXTENDS Benchmark

Labelled(label, signals) ==
  [Sample(label, "", << >>) EXCEPT !.signals = signals]
File(lines) == [lines |-> lines, tail |-> ""]
OnThreshold(raised) ==
  [s \in Signals |-> IF s \in raised THEN SignalThresholds[s] ELSE SignalThresholds[s] - 1]
Labels == {"dns_latency", "cpu_throttle", "memory_pressure", "provider_throttle",
           "network_partition", "none"}

Written ==
  { File(<<Labelled("dns_latency", OnThreshold(raised))>>) : raised \in SUBSET Signals }
  \cup { File(<<Labelled(l, ProfileForFault(l)),
                [Labelled(k, ProfileForFault(l)) EXCEPT
                    !.domains = <<MapFaultLabel(l), "unknown", MapFaultLabel(k),
                                  "retrieval_backend">>,
                    !.expected = MapFaultLabel(l)]>>) : l, k \in Labels }
  \cup {NoFile, File(<< >>), [File(<<Labelled("none", << >>)>>) EXCEPT !.tail = "torn"],
        File(<<[Labelled("egress_drop", << >>) EXCEPT !.confident = FALSE]>>),
        File(<<[Labelled("egress_drop", ProfileForFault("none")) EXCEPT !.confident = FALSE]>>),
        File(<<[Labelled("provider_error", << >>) EXCEPT !.window = FALSE]>>)}

ReplayOf(s, n) == [scenario |-> s, count |-> n]
RunOf(s, m, given) == [scenario |-> s, mode |-> m, input |-> given]
Start(r, file, b) == [replay |-> r, input |-> file, run |-> b]

MCStarts ==
  { Start(ReplayOf(s, n), NoFile, RunOf("mixed_faults", "bayes", TRUE)) :
      s \in {"mixed", "mixed_multi", "egress_drop"}, n \in {0, 6} }
  \cup { Start(ReplayOf("none", 0), NoFile, RunOf(s, "bayes", FALSE)) :
           s \in {"mixed_faults", "mixed_multi", "egress_drop", "none"} }
  \cup { Start(ReplayOf("none", 0), file, RunOf("mixed_faults", m, TRUE)) :
           file \in Written, m \in {"bayes", "rule"} }
=============================================================================
