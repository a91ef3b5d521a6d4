------------------------------ MODULE SpanBatch ------------------------------
(***************************************************************************)
(* Correlator.ProcessBatch, span by span.  Its caller holds a batch of     *)
(* spans and gives it again, with the attributes it has by then, for every *)
(* delivery of signals: late ones, or the same ones a second time.         *)
(***************************************************************************)
EXTENDS Correlation

CONSTANTS
  Batches,       (* the batches of spans a caller may hold                   *)
  Deliveries,    (* the sequences of signals it may receive                  *)
  Correlators,   (* [window, threshold, fanout]                              *)
  Times,         (* the times of spans and signals, for CloserNeverWeaker    *)
  MaxRounds      (* bound: calls of ProcessBatch on the batch                *)

SpanFields == {"trace", "pod", "pid", "conn", "service", "node", "at", "attributes"}
(* Values are durations, counts and percentages. *)
Signal ==
  [trace: STRING, pod: STRING, pid: Int, conn: STRING, service: STRING, node: STRING,
   at: Nat, signal: STRING, value: Nat]
IsBatch(b) ==
  /\ b \in Seq({ b[i] : i \in DOMAIN b })
  /\ \A i \in DOMAIN b : DOMAIN b[i] = SpanFields /\ b[i].at \in Nat

(* Attributes are measured, but for the sum of parts, which no span has to *)
(* begin with unless its parts make it up.                                 *)
Measured(attributes) ==
  /\ attributes \in [DOMAIN attributes -> Nat]
  /\ KernelKey \in DOMAIN attributes => attributes[KernelKey] <= KernelTotal(attributes)

BatchAssumption ==
  /\ \A b \in Batches : IsBatch(b) /\ \A i \in DOMAIN b : Measured(b[i].attributes)
  /\ Deliveries \subseteq Seq(Signal) /\ Times \subseteq Nat
  /\ \A c \in Correlators : {c.window, c.threshold, c.fanout} \subseteq Int
ASSUME BatchAssumption

VARIABLES
  correlator,
  batch,         (* ProcessBatch's spans: [identity..., attributes]          *)
  signals,       (* ProcessBatch's signals                                   *)
  result,        (* ProcessedBatch.Spans                                     *)
  debug,         (* ProcessedBatch.Debug                                     *)
  kept,          (* history: the candidates of this call, summed             *)
  previous,      (* history: the signals of the call before                  *)
  round

vars == <<correlator, batch, signals, result, debug, kept, previous, round>>

NoDebug == Debug(0, 0, 0, 0)

Init ==
  /\ correlator \in Correlators
  /\ batch \in Batches /\ result = batch
  /\ signals = << >> /\ previous = << >>
  /\ debug = NoDebug /\ kept = 0 /\ round = 0

(* The last call has returned; the next one starts from its spans. *)
ProcessBatch ==
  /\ Len(result) = Len(batch) /\ round < MaxRounds
  /\ batch' = result /\ result' = << >>
  /\ previous' = signals /\ signals' \in Deliveries
  /\ debug' = NoDebug /\ kept' = 0 /\ round' = round + 1
  /\ UNCHANGED correlator

ProcessSpan ==
  /\ Len(result) < Len(batch)
  /\ LET item == batch[Len(result) + 1]
         enriched == EnrichAttributes(correlator, item.attributes, item, signals)
     IN  /\ result' = Append(result,
              [item EXCEPT !.attributes = DecomposeRetrieval(enriched.attributes)])
         /\ debug' = MergeDebug(debug, enriched.debug)
         /\ kept' = kept + Len(enriched.kept)
  /\ UNCHANGED <<correlator, batch, signals, previous, round>>

Next == ProcessBatch \/ ProcessSpan
Spec == Init /\ [][Next]_vars

(* ------------------------------ properties ------------------------------ *)

(* Every signal is accounted for once for every span: it is joined to it,  *)
(* or one of the four counts of DebugStats has it, through the merge over  *)
(* the batch.                                                              *)
DebugAccounts ==
  round > 0 =>
    debug.unmatched + debug.low + debug.dropped + debug.unsupported + kept
      = Len(result) * Len(signals)

(* A signal that is closer to the span in time, on either side of it, is   *)
(* never the weaker one, and one exactly on the edge of a window is in it  *)
(* from both sides; a zero time belongs to nothing.                        *)
CloserNeverWeaker ==
  result = << >> => \A i \in DOMAIN batch, j \in DOMAIN signals, t \in Times :
    LET span == batch[i]
        there == Match(span, signals[j], correlator.window)
        here == Match(span, [signals[j] EXCEPT !.at = t], correlator.window)
    IN  /\ (t = 0 \/ span.at = 0) => ~here.matched
        /\ t # 0 /\ signals[j].at # 0
             /\ Distance(span.at, t) <= Distance(span.at, signals[j].at)
           => here.confidence >= there.confidence

(* What correlationeval measures is what the processor does: labelled with *)
(* the processor's own joins, a data set has no error in it, and both ways *)
(* of enriching one span enrich exactly the pairs it predicts.             *)
EvaluatorPredictsEnrichment ==
  result = << >> =>
  LET joins(i, j) == EnrichDNSAttributes(correlator, batch[i].attributes, batch[i],
                       [signals[j] EXCEPT !.signal = "dns_latency_ms"]).decision
      pair(i, j) == [span |-> batch[i], signal |-> signals[j],
                     expected |-> joins(i, j).matched, tier |-> joins(i, j).tier]
      report(i) == EvaluateLabeledPairs([j \in DOMAIN signals |-> pair(i, j)],
                                        correlator.window, correlator.threshold)
  IN  \A i \in DOMAIN batch :
        /\ report(i).fp = 0 /\ report(i).fn = 0
        /\ report(i).tierCorrect = report(i).comparable
        /\ EvaluateGate(report(i), 100, 100) <=> report(i).tp > 0
        /\ \A j \in DOMAIN signals :
             LET once == EnrichDNS(batch[i].attributes, batch[i],
                           [signals[j] EXCEPT !.signal = "dns_latency_ms"],
                           correlator.window, correlator.threshold)
             IN  IF Predicted(pair(i, j), correlator.window, correlator.threshold)
                 THEN once.attributes["dns_latency_ms"] = signals[j].value
                 ELSE once.attributes = batch[i].attributes

Current(i) == IF i \in DOMAIN result THEN result[i].attributes ELSE batch[i].attributes

(* Late signals only add to what is known: no attribute of a span is lost, *)
(* and none but the confidence goes down.  The same signals delivered a    *)
(* second time change nothing at all.                                      *)
LateSignalsOnlyAdd ==
  [][\A i \in DOMAIN batch :
       /\ \A name \in DOMAIN Current(i) :
            /\ name \in DOMAIN Current(i)'
            /\ name # ConfidenceKey => Current(i)'[name] >= Current(i)[name]
       /\ round > 1 /\ signals = previous /\ signals' = signals
            => Current(i)' = Current(i)]_vars
=============================================================================
