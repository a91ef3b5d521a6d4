---------------------------- MODULE Correlation ----------------------------
(***************************************************************************)
(* pkg/correlation and pkg/otel/processor/ebpfcorrelator: whether a signal *)
(* belongs to a span, and what the signals of a span do to its attributes. *)
(* "" is an empty identity and 0 a zero time or pid, as in Go.  Confidence *)
(* is in percent.  A function from names to values stands for a map.       *)
(***************************************************************************)
EXTENDS Integers, Sequences, FiniteSets

CONSTANTS
  PidWindow, ConnWindow, ServiceWindow,  (* 100 ms, 250 ms and 500 ms        *)
  DefaultWindow,                         (* 2 s                              *)
  DefaultThreshold,                      (* 70                               *)
  DefaultFanout                          (* 3                                *)

CorrelationAssumption ==
  /\ {PidWindow, ConnWindow, ServiceWindow, DefaultWindow} \subseteq Nat
  /\ 0 < PidWindow /\ PidWindow < ConnWindow /\ ConnWindow < ServiceWindow
  /\ ServiceWindow < DefaultWindow
  /\ DefaultThreshold \in 1..100 /\ DefaultFanout \in Nat \ {0}
ASSUME CorrelationAssumption

OrDefault(x, default) == IF x <= 0 THEN default ELSE x
Distance(a, b) == IF a < b THEN b - a ELSE a - b

WithinWindow_Signed(a, b, window) == a # 0 /\ b # 0 /\ a - b <= window
WithinWindow(a, b, window) == a # 0 /\ b # 0 /\ Distance(a, b) <= window

Same(span, signal, identity) == span[identity] # "" /\ span[identity] = signal[identity]
Decision(tier, confidence) == [matched |-> TRUE, tier |-> tier, confidence |-> confidence]
NoDecision == [matched |-> FALSE, tier |-> "", confidence |-> 0]

Match(span, signal, window) ==
  LET within(w) == WithinWindow(span.at, signal.at, w)
  IN  IF ~within(OrDefault(window, DefaultWindow)) THEN NoDecision
      ELSE IF Same(span, signal, "trace") THEN Decision("trace_id_exact", 100)
      ELSE IF /\ Same(span, signal, "pod") /\ span.pid > 0 /\ span.pid = signal.pid
              /\ within(PidWindow) THEN Decision("pod_pid_100ms", 90)
      ELSE IF /\ Same(span, signal, "pod") /\ Same(span, signal, "conn")
              /\ within(ConnWindow) THEN Decision("pod_conn_250ms", 80)
      ELSE IF /\ Same(span, signal, "service") /\ Same(span, signal, "node")
              /\ within(ServiceWindow) THEN Decision("service_node_500ms", 65)
      ELSE NoDecision

(* ----------------------------- one span's signals ----------------------- *)

(* signalAttrKey gives each of these an attribute of its own. *)
Attributed ==
  {"dns_latency_ms", "tcp_retransmits_total", "runqueue_delay_ms", "connect_latency_ms",
   "tls_handshake_ms", "cpu_steal_pct", "cfs_throttled_ms", "mem_reclaim_latency_ms",
   "disk_io_latency_ms", "syscall_latency_ms", "connect_errors_total",
   "tls_handshake_fail_total"}
ConfidenceKey == "correlation_confidence"
KernelKey == "retrieval_kernel_attributed_ms"

Debug(unmatched, low, dropped, unsupported) ==
  [unmatched |-> unmatched, low |-> low, dropped |-> dropped, unsupported |-> unsupported]
MergeDebug_ReplacesDropped(a, b) == [[k \in DOMAIN a |-> a[k] + b[k]] EXCEPT !.dropped = b.dropped]
MergeDebug(a, b) == [k \in DOMAIN a |-> a[k] + b[k]]

Greatest(S) == CHOOSE x \in S : \A y \in S : y <= x
Smaller(a, b) == IF a < b THEN a ELSE b

Confident_Strictly(d, threshold) == d.confidence > OrDefault(threshold, DefaultThreshold)
Confident(d, threshold) == d.confidence >= OrDefault(threshold, DefaultThreshold)

(* What becomes of an attribute with these old values (one or none) when   *)
(* these new ones are joined to it.                                        *)
Joined_LastWins(old, new) == Greatest(IF new = {} THEN old ELSE new)
Joined(old, new) == Greatest(old \cup new)

(* c is a Correlator [window, threshold, fanout].  Candidates are ordered  *)
(* by confidence, then by distance, then as they came; the first fanout of *)
(* them are kept, and an attribute takes the greatest of its values.       *)
EnrichAttributes(c, base, span, signals) ==
  LET verdict == [i \in DOMAIN signals |-> Match(span, signals[i], c.window)]
      supported == { i \in DOMAIN signals : signals[i].signal \in Attributed }
      matched == { i \in supported : verdict[i].matched }
      candidates == { i \in matched : Confident(verdict[i], c.threshold) }
      before(i, j) ==
        LET di == Distance(span.at, signals[i].at) dj == Distance(span.at, signals[j].at)
        IN  \/ verdict[i].confidence > verdict[j].confidence
            \/ /\ verdict[i].confidence = verdict[j].confidence
               /\ di < dj \/ (di = dj /\ i < j)
      place(i) == Cardinality({ j \in candidates : before(j, i) }) + 1
      n == Smaller(Cardinality(candidates), OrDefault(c.fanout, DefaultFanout))
      kept == [k \in 1..n |-> CHOOSE i \in candidates : place(i) = k]
      values(name) ==
        { signals[kept[k]].value : k \in { k \in 1..n : signals[kept[k]].signal = name } }
      old(name) == IF name \in DOMAIN base THEN {base[name]} ELSE {}
      names == DOMAIN base \cup { signals[kept[k]].signal : k \in 1..n }
               \cup (IF n > 0 THEN {ConfidenceKey} ELSE {})
  IN  [attributes |-> [name \in names |->
         IF name = ConfidenceKey /\ n > 0 THEN verdict[kept[1]].confidence
         ELSE Joined(old(name), values(name))],
       kept |-> [k \in 1..n |-> [signal |-> signals[kept[k]], decision |-> verdict[kept[k]]]],
       debug |-> Debug(Cardinality(supported \ matched), Cardinality(matched \ candidates),
                       Cardinality(candidates) - n, Len(signals) - Cardinality(supported))]

(* The DNS, connect and TLS parts of a retrieval are summed when there are any. *)
KernelTotal(attributes) ==
  LET part(name) == IF name \in DOMAIN attributes THEN attributes[name] ELSE 0
  IN  part("dns_latency_ms") + part("connect_latency_ms") + part("tls_handshake_ms")
DecomposeRetrieval(attributes) ==
  IF KernelTotal(attributes) > 0
  THEN [name \in DOMAIN attributes \cup {KernelKey} |->
          IF name = KernelKey THEN KernelTotal(attributes) ELSE attributes[name]]
  ELSE attributes

EnrichDNSAttributes(c, base, span, signal) ==
  LET r == EnrichAttributes(c, base, span, <<signal>>)
  IN  [attributes |-> r.attributes,
       decision |-> IF r.kept = << >> THEN NoDecision ELSE r.kept[1].decision]

(* correlation.EnrichDNS overwrites where the correlator keeps the greater. *)
EnrichDNS(base, span, signal, window, threshold) ==
  LET d == Match(span, signal, window)
  IN  IF ~d.matched \/ d.confidence < OrDefault(threshold, DefaultThreshold)
      THEN [attributes |-> base, decision |-> d]
      ELSE IF signal.signal # "dns_latency_ms" THEN [attributes |-> base, decision |-> NoDecision]
      ELSE [attributes |-> [name \in DOMAIN base \cup {"dns_latency_ms", ConfidenceKey} |->
              IF name = "dns_latency_ms" THEN signal.value
              ELSE IF name = ConfidenceKey THEN d.confidence ELSE base[name]],
            decision |-> d]

(* ------------------------- the labelled evaluation ---------------------- *)
(* A pair is [span, signal, expected, tier]; ratios stay numerator over     *)
(* denominator, and a ratio over nothing is 0, as safeDiv has it.           *)

Predicted(pair, window, threshold) ==
  LET d == Match(pair.span, pair.signal, window)
  IN  d.matched /\ d.confidence >= OrDefault(threshold, DefaultThreshold)

EvaluateLabeledPairs(pairs, window, threshold) ==
  LET of(expected, predicted) == Cardinality({ i \in DOMAIN pairs :
            pairs[i].expected = expected /\ Predicted(pairs[i], window, threshold) = predicted })
      comparable == { i \in DOMAIN pairs : /\ pairs[i].expected /\ pairs[i].tier # ""
                                           /\ Predicted(pairs[i], window, threshold) }
  IN  [tp |-> of(TRUE, TRUE), fp |-> of(FALSE, TRUE),
       fn |-> of(TRUE, FALSE), tn |-> of(FALSE, FALSE), comparable |-> Cardinality(comparable),
       tierCorrect |-> Cardinality({ i \in comparable :
          pairs[i].tier = Match(pairs[i].span, pairs[i].signal, window).tier })]

(* num / den >= percent *)
AtLeast(num, den, percent) == IF den = 0 THEN percent <= 0 ELSE 100 * num >= percent * den

EvaluateGate(report, minPrecision, minRecall) ==
  /\ AtLeast(report.tp, report.tp + report.fp, minPrecision)
  /\ AtLeast(report.tp, report.tp + report.fn, minRecall)
=============================================================================
