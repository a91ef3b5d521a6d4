-------------------------- MODULE AnalysisProofs --------------------------
(***************************************************************************)
(* What the packages that explain requests guarantee.  Correlation: the    *)
(* joining of signals to spans for every window, threshold and fanout and  *)
(* for any batches and deliveries, and the retry storm detector for every  *)
(* set of pods, window, threshold and lag.  Attribution: the artifacts of  *)
(* a benchmark for any replay, sample file and failures.                   *)
(***************************************************************************)
EXTENDS Benchmark, SpanBatch, RetryStorm, FiniteTheorems

(* ------------------------------- one match ------------------------------ *)

LEMMA Windows ==
  /\ {PidWindow, ConnWindow, ServiceWindow, DefaultWindow, DefaultThreshold, DefaultFanout}
       \subseteq Nat
  /\ DefaultThreshold > 0 /\ DefaultFanout > 0
BY CorrelationAssumption DEF CorrelationAssumption

LEMMA WindowsAreConvex ==
  ASSUME NEW here \in Nat, NEW far \in Nat, NEW near \in Nat, NEW window \in Int,
         near # 0, Distance(here, near) <= Distance(here, far), WithinWindow(here, far, window)
  PROVE  WithinWindow(here, near, window)
BY DEF WithinWindow, Distance

LEMMA CloserMatch ==
  ASSUME NEW span, NEW signal \in Signal, NEW t \in Nat, NEW window \in Int,
         span.at \in Nat, t # 0, signal.at # 0,
         Distance(span.at, t) <= Distance(span.at, signal.at)
  PROVE  Match(span, [signal EXCEPT !.at = t], window).confidence
           >= Match(span, signal, window).confidence
<1> DEFINE there == signal
           here == [signal EXCEPT !.at = t]
           w == OrDefault(window, DefaultWindow)
<1>1. here.at = t /\ here.trace = there.trace /\ here.pod = there.pod /\ here.pid = there.pid
      /\ here.conn = there.conn /\ here.service = there.service /\ here.node = there.node
  BY DEF Signal
<1>2. \A id \in {"trace", "pod", "conn", "service", "node"} :
        Same(span, here, id) <=> Same(span, there, id)
  BY <1>1 DEF Same
<1>3. w \in Int /\ there.at \in Nat
  BY Windows DEF OrDefault, Signal
<1>4. \A v \in {w, PidWindow, ConnWindow, ServiceWindow} :
        WithinWindow(span.at, there.at, v) => WithinWindow(span.at, here.at, v)
  BY <1>1, <1>3, Windows, WindowsAreConvex
<1> HIDE DEF here, w
<1>5. QED
  BY <1>1, <1>2, <1>4 DEF Match, Decision, NoDecision, w, here

(* ------------------------------ one span -------------------------------- *)

LEMMA PartOf ==
  ASSUME NEW S, NEW M, IsFiniteSet(S), M \subseteq S
  PROVE  /\ IsFiniteSet(M) /\ Cardinality(S) \in Nat /\ Cardinality(M) \in Nat
         /\ Cardinality(S \ M) = Cardinality(S) - Cardinality(M)
<1>1. IsFiniteSet(M)
  BY FS_Subset
<1>2. S \cap M = M
  OBVIOUS
<1>3. Cardinality(S \ M) = Cardinality(S) - Cardinality(M)
  BY <1>2, FS_Difference
<1>4. QED
  BY <1>1, <1>3, FS_CardinalityType

(* DebugStats holds four integers, and this is their sum. *)
Counts(d) ==
  /\ DOMAIN d = {"unmatched", "low", "dropped", "unsupported"}
  /\ d.unmatched \in Int /\ d.low \in Int /\ d.dropped \in Int /\ d.unsupported \in Int
Total(d) == d.unmatched + d.low + d.dropped + d.unsupported

(* The four counts and the kept candidates of one span make its signals. *)
LEMMA SpanAccounts ==
  ASSUME NEW c, NEW base, NEW span, NEW sigs \in Seq(Signal), c.fanout \in Int
  PROVE  LET r == EnrichAttributes(c, base, span, sigs)
         IN  /\ Len(r.kept) \in Nat
             /\ Counts(r.debug) /\ Total(r.debug) + Len(r.kept) = Len(sigs)
<1> DEFINE verdict == [i \in DOMAIN sigs |-> Match(span, sigs[i], c.window)]
           supported == { i \in DOMAIN sigs : sigs[i].signal \in Attributed }
           matched == { i \in supported : verdict[i].matched }
           candidates == { i \in matched : Confident(verdict[i], c.threshold) }
           n == Smaller(Cardinality(candidates), OrDefault(c.fanout, DefaultFanout))
           r == EnrichAttributes(c, base, span, sigs)
<1>1. Len(sigs) \in Nat /\ DOMAIN sigs = 1..Len(sigs)
  OBVIOUS
<1>2. /\ supported \subseteq 1..Len(sigs) /\ matched \subseteq supported
      /\ candidates \subseteq matched
  BY <1>1
<1> HIDE DEF supported, matched, candidates
<1>3. /\ Cardinality(supported) \in Nat /\ Cardinality(matched) \in Nat
      /\ Cardinality(candidates) \in Nat
      /\ Cardinality(supported \ matched) = Cardinality(supported) - Cardinality(matched)
      /\ Cardinality(matched \ candidates) = Cardinality(matched) - Cardinality(candidates)
  <2>1. IsFiniteSet(1..Len(sigs))
    BY <1>1, FS_Interval
  <2>2. IsFiniteSet(supported)
    BY <1>2, <2>1, FS_Subset
  <2>3. /\ IsFiniteSet(matched) /\ Cardinality(supported) \in Nat
        /\ Cardinality(supported \ matched) = Cardinality(supported) - Cardinality(matched)
    BY <1>2, <2>2, PartOf
  <2>4. /\ Cardinality(matched) \in Nat /\ Cardinality(candidates) \in Nat
        /\ Cardinality(matched \ candidates) = Cardinality(matched) - Cardinality(candidates)
    BY <1>2, <2>3, PartOf
  <2>5. QED
    BY <2>3, <2>4
<1>4. n \in Nat
  BY <1>3, Windows DEF Smaller, OrDefault
<1>5. r.debug = Debug(Cardinality(supported \ matched), Cardinality(matched \ candidates),
                      Cardinality(candidates) - n, Len(sigs) - Cardinality(supported))
  BY DEF EnrichAttributes, r, n, supported, matched, candidates, verdict
<1>6. DOMAIN r.kept = 1..n /\ r.kept \in Seq({ r.kept[k] : k \in 1..n })
  <2>1. PICK f : r.kept = [k \in 1..n |-> f[k]]
    <3> DEFINE before(i, j) ==
          LET di == Distance(span.at, sigs[i].at) dj == Distance(span.at, sigs[j].at)
          IN  \/ verdict[i].confidence > verdict[j].confidence
              \/ /\ verdict[i].confidence = verdict[j].confidence
                 /\ di < dj \/ (di = dj /\ i < j)
        place(i) == Cardinality({ j \in candidates : before(j, i) }) + 1
        chosen == [k \in 1..n |-> CHOOSE i \in candidates : place(i) = k]
        f == [k \in 1..n |-> [signal |-> sigs[chosen[k]], decision |-> verdict[chosen[k]]]]
    <3>1. r.kept = f
      BY DEF EnrichAttributes, r, n, supported, matched, candidates, verdict
    <3> HIDE DEF f
    <3>2. f = [k \in 1..n |-> f[k]]
      BY DEF f
    <3>3. QED
      BY <3>1, <3>2
  <2>2. QED
    BY <1>4, <2>1
<1> HIDE DEF verdict, n, r
<1>7. Len(r.kept) = n
  BY <1>4, <1>6
<1>8. DOMAIN r.debug = {"unmatched", "low", "dropped", "unsupported"}
  BY <1>5 DEF Debug
<1>9. /\ r.debug.unmatched = Cardinality(supported) - Cardinality(matched)
      /\ r.debug.low = Cardinality(matched) - Cardinality(candidates)
      /\ r.debug.dropped = Cardinality(candidates) - n
      /\ r.debug.unsupported = Len(sigs) - Cardinality(supported)
  BY <1>3, <1>5 DEF Debug
<1>10. Counts(r.debug)
  BY <1>1, <1>3, <1>4, <1>8, <1>9 DEF Counts
<1>11. Total(r.debug) + Len(r.kept) = Len(sigs)
  BY <1>1, <1>3, <1>4, <1>7, <1>9 DEF Total
<1>12. QED
  BY <1>4, <1>7, <1>10, <1>11 DEF r

(* ------------------------------ the batch ------------------------------- *)

BatchInv ==
  /\ correlator \in Correlators
  /\ IsBatch(batch) /\ IsBatch(result) /\ Len(result) <= Len(batch)
  /\ signals \in Seq(Signal)
  /\ round \in Nat /\ kept \in Nat
  /\ Counts(debug) /\ DebugAccounts

LEMMA ItemsOfBatch ==
  ASSUME NEW b, IsBatch(b)
  PROVE  /\ Len(b) \in Nat /\ DOMAIN b = 1..Len(b)
         /\ \A i \in 1..Len(b) : DOMAIN b[i] = SpanFields /\ b[i].at \in Nat
BY DEF IsBatch

LEMMA IsASeq ==
  ASSUME NEW R, NEW S, NEW n \in Nat, NEW f \in [1..n -> R], \A i \in 1..n : f[i] \in S
  PROVE  f \in Seq(S)
OBVIOUS

LEMMA AppendToBatch ==
  ASSUME NEW b, NEW item, IsBatch(b), DOMAIN item = SpanFields, item.at \in Nat
  PROVE  IsBatch(Append(b, item)) /\ Len(Append(b, item)) = Len(b) + 1
<1> DEFINE S == { b[i] : i \in DOMAIN b } \cup {item}
           a == Append(b, item)
<1>1. b \in Seq(S)
  BY DEF IsBatch
<1>2. a \in Seq(S) /\ Len(a) = Len(b) + 1
  BY <1>1
<1>3. \A i \in DOMAIN a : DOMAIN a[i] = SpanFields /\ a[i].at \in Nat
  BY <1>1, <1>2, ItemsOfBatch
<1>4. a \in Seq({ a[i] : i \in DOMAIN a })
  <2> HIDE DEF a
  <2>1. Len(a) \in Nat /\ a \in [1..Len(a) -> S]
    BY <1>2
  <2>2. \A i \in 1..Len(a) : a[i] \in { a[k] : k \in DOMAIN a }
    BY <2>1
  <2>3. QED
    BY <2>1, <2>2, IsASeq
<1>5. QED
  BY <1>2, <1>3, <1>4 DEF IsBatch

LEMMA NextProduct == ASSUME NEW a \in Int, NEW b \in Int PROVE (a + 1) * b = a * b + b
OBVIOUS

LEMMA NothingCounted == Counts(NoDebug) /\ Total(NoDebug) = 0
BY DEF Counts, Total, NoDebug, Debug

LEMMA TotalType == ASSUME NEW d, Counts(d) PROVE Total(d) \in Int
BY DEF Counts, Total

LEMMA Merged ==
  ASSUME NEW a, NEW b, Counts(a), Counts(b)
  PROVE  Counts(MergeDebug(a, b)) /\ Total(MergeDebug(a, b)) = Total(a) + Total(b)
BY DEF Counts, Total, MergeDebug

LEMMA BatchInit == Init => BatchInv
<1> SUFFICES ASSUME Init PROVE BatchInv
  OBVIOUS
<1>1. IsBatch(batch) /\ result = batch /\ correlator \in Correlators
  BY BatchAssumption DEF Init, BatchAssumption
<1>2. Len(batch) \in Nat
  BY <1>1, ItemsOfBatch
<1>3. QED
  BY <1>1, <1>2, NothingCounted DEF Init, BatchInv, DebugAccounts

LEMMA BatchStep == BatchInv /\ [Next]_vars => BatchInv'
<1> SUFFICES ASSUME BatchInv, [Next]_vars PROVE BatchInv'
  OBVIOUS
<1>1. CASE ProcessBatch
  <2>1. /\ batch' = result /\ result' = << >> /\ signals' \in Seq(Signal)
        /\ debug' = NoDebug /\ kept' = 0 /\ round' = round + 1 /\ correlator' = correlator
    BY <1>1, BatchAssumption DEF ProcessBatch, BatchAssumption
  <2>2. IsBatch(<< >>) /\ Len(<< >>) = 0
    BY DEF IsBatch
  <2>3. Len(result) \in Nat /\ Len(signals') \in Nat
    BY <2>1, ItemsOfBatch DEF BatchInv
  <2>4. Counts(debug')
    BY <2>1, NothingCounted
  <2>5. DebugAccounts'
    BY <2>1, <2>2, <2>3, NothingCounted DEF DebugAccounts, Total
  <2>6. IsBatch(batch') /\ IsBatch(result') /\ Len(result') <= Len(batch')
    BY <2>1, <2>2, <2>3 DEF BatchInv
  <2>7. QED
    BY <2>1, <2>4, <2>5, <2>6 DEF BatchInv
<1>2. CASE ProcessSpan
  <2> DEFINE item == batch[Len(result) + 1]
             enriched == EnrichAttributes(correlator, item.attributes, item, signals)
             done == [item EXCEPT !.attributes = DecomposeRetrieval(enriched.attributes)]
             sofar == Len(result) * Len(signals)
  <2>1. /\ result' = Append(result, done) /\ debug' = MergeDebug(debug, enriched.debug)
        /\ kept' = kept + Len(enriched.kept)
        /\ UNCHANGED <<correlator, batch, signals, round>> /\ Len(result) < Len(batch)
    BY <1>2 DEF ProcessSpan
  <2>2. Len(result) \in Nat /\ Len(batch) \in Nat /\ Len(signals) \in Nat
    BY ItemsOfBatch DEF BatchInv
  <2>3. DOMAIN item = SpanFields /\ item.at \in Nat
    BY <2>1, <2>2, ItemsOfBatch DEF BatchInv
  <2>4. DOMAIN done = SpanFields /\ done.at = item.at
    BY <2>3 DEF SpanFields
  <2>5. IsBatch(result') /\ Len(result') = Len(result) + 1
    BY <2>1, <2>3, <2>4, AppendToBatch DEF BatchInv
  <2>6. correlator.fanout \in Int
    BY BatchAssumption DEF BatchAssumption, BatchInv
  <2>7. /\ Len(enriched.kept) \in Nat
        /\ Counts(enriched.debug) /\ Total(enriched.debug) + Len(enriched.kept) = Len(signals)
    BY <2>6, SpanAccounts DEF BatchInv
  <2> HIDE DEF item, enriched, done
  <2>8. Counts(debug') /\ Total(debug') = Total(debug) + Total(enriched.debug)
    BY <2>1, <2>7, Merged DEF BatchInv
  <2>9. Total(debug) \in Int /\ Total(enriched.debug) \in Int /\ kept \in Int
    BY <2>7, TotalType DEF BatchInv
  <2>10. Len(result') * Len(signals') = sofar + Len(signals)
    BY <2>1, <2>2, <2>5, NextProduct
  <2>11. sofar \in Int
    BY <2>2
  <2>12. round > 0 => Total(debug) + kept = sofar
    BY DEF BatchInv, DebugAccounts, Total
  <2> HIDE DEF sofar
  <2> DEFINE more == Total(enriched.debug)   joins == Len(enriched.kept)
             before == Total(debug)          after == Total(debug')
  <2>13. /\ after = before + more /\ kept' = kept + joins /\ more + joins = Len(signals)
         /\ before \in Int /\ more \in Int /\ joins \in Int /\ kept \in Int
         /\ round > 0 => before + kept = sofar
    BY <2>1, <2>7, <2>8, <2>9, <2>12
  <2> HIDE DEF more, joins, before, after
  <2>14. round > 0 => after + kept' = sofar + Len(signals)
    BY <2>11, <2>13
  <2>15. DebugAccounts'
    BY <2>1, <2>10, <2>14 DEF DebugAccounts, Total, after
  <2>16. Len(result') <= Len(batch')
    BY <2>1, <2>2, <2>5
  <2>17. IsBatch(batch') /\ signals' \in Seq(Signal) /\ correlator' \in Correlators
         /\ round' \in Nat /\ kept' \in Nat
    BY <2>1, <2>7 DEF BatchInv
  <2>18. QED
    BY <2>5, <2>8, <2>15, <2>16, <2>17 DEF BatchInv
<1>3. CASE UNCHANGED vars
  BY <1>3 DEF vars, BatchInv, IsBatch, Counts, DebugAccounts
<1>4. QED
  BY <1>1, <1>2, <1>3 DEF Next

(* Through any number of spans, every signal is joined or counted once     *)
(* (EnrichAttributes, mergeDebug).                                         *)
THEOREM SignalsAccounted == Spec => []DebugAccounts
<1>1. BatchInv => DebugAccounts
  BY DEF BatchInv
<1>2. QED
  BY BatchInit, BatchStep, <1>1, PTL DEF Spec

(* For every choice of the windows, a signal closer in time is never the   *)
(* weaker one, and a zero time matches nothing (Match, withinWindow).      *)
THEOREM CloserIsNotWeaker == Spec => []CloserNeverWeaker
<1>1. BatchInv => CloserNeverWeaker
  <2> SUFFICES ASSUME BatchInv, NEW i \in DOMAIN batch, NEW j \in DOMAIN signals, NEW t \in Times
               PROVE  LET span == batch[i]
                          there == Match(span, signals[j], correlator.window)
                          here == Match(span, [signals[j] EXCEPT !.at = t], correlator.window)
                      IN  /\ (t = 0 \/ span.at = 0) => ~here.matched
                          /\ t # 0 /\ signals[j].at # 0
                               /\ Distance(span.at, t) <= Distance(span.at, signals[j].at)
                             => here.confidence >= there.confidence
    BY DEF CloserNeverWeaker
  <2>1. batch[i].at \in Nat /\ signals[j] \in Signal /\ t \in Nat /\ correlator.window \in Int
    BY ItemsOfBatch, BatchAssumption DEF BatchInv, BatchAssumption
  <2>2. ASSUME t = 0 \/ batch[i].at = 0
        PROVE  ~Match(batch[i], [signals[j] EXCEPT !.at = t], correlator.window).matched
    <3>1. [signals[j] EXCEPT !.at = t].at = t
      BY <2>1 DEF Signal
    <3>2. QED
      BY <2>2, <3>1 DEF Match, WithinWindow, NoDecision
  <2>3. QED
    BY <2>1, <2>2, CloserMatch
<1>2. QED
  BY BatchInit, BatchStep, <1>1, PTL DEF Spec

(* ------------------------- what a span is given ------------------------- *)

LEMMA GreatestIs ==
  ASSUME NEW S, IsFiniteSet(S), S # {}, \A x \in S : x \in Nat
  PROVE  Greatest(S) \in S /\ Greatest(S) \in Nat /\ \A y \in S : y <= Greatest(S)
<1>1. \E x \in S : \A y \in S : y <= x
  <2>1. \A x \in S : x \in Int
    OBVIOUS
  <2>2. QED
    BY <2>1, HasGreatest
<1>2. QED
  BY <1>1 DEF Greatest

(* What kept signals, their names and values in got, add to attributes. *)
Values(got, n, name) == { got[k].value : k \in { k \in 1..n : got[k].signal = name } }
Old(base, name) == IF name \in DOMAIN base THEN {base[name]} ELSE {}
Names(base, got, n) ==
  DOMAIN base \cup { got[k].signal : k \in 1..n } \cup (IF n > 0 THEN {ConfidenceKey} ELSE {})
Add(base, got, n, conf) ==
  [name \in Names(base, got, n) |->
     IF name = ConfidenceKey /\ n > 0 THEN conf
     ELSE Joined(Old(base, name), Values(got, n, name))]

(* Numbers of kept signals, with attributes of their own. *)
Gain(got, n, conf) ==
  /\ n \in Nat
  /\ \A k \in 1..n : got[k].signal \in Attributed /\ got[k].value \in Nat
  /\ n > 0 => conf \in Nat

LEMMA MatchType ==
  ASSUME NEW span, NEW signal, NEW window
  PROVE  Match(span, signal, window).confidence \in Nat
BY DEF Match, Decision, NoDecision

(* The span gives its identity and its time to a match, never its attributes. *)
SameSpan(s, t) ==
  /\ s.trace = t.trace /\ s.pod = t.pod /\ s.pid = t.pid /\ s.conn = t.conn
  /\ s.service = t.service /\ s.node = t.node /\ s.at = t.at

LEMMA SameMatch ==
  ASSUME NEW s, NEW t, SameSpan(s, t), NEW signal, NEW window
  PROVE  Match(s, signal, window) = Match(t, signal, window)
<1>1. \A id \in {"trace", "pod", "conn", "service", "node"} : Same(s, signal, id) <=> Same(t, signal, id)
  BY DEF SameSpan, Same
<1>2. \A w : WithinWindow(s.at, signal.at, w) <=> WithinWindow(t.at, signal.at, w)
  BY DEF SameSpan
<1>3. s.pid = t.pid
  BY DEF SameSpan
<1>4. QED
  BY <1>1, <1>2, <1>3 DEF Match

LEMMA SameEnrichment ==
  ASSUME NEW c, NEW base, NEW sigs, NEW s, NEW t, SameSpan(s, t)
  PROVE  EnrichAttributes(c, base, s, sigs) = EnrichAttributes(c, base, t, sigs)
<1> DEFINE Form(verdict, time) ==
  LET supported == { i \in DOMAIN sigs : sigs[i].signal \in Attributed }
      matched == { i \in supported : verdict[i].matched }
      candidates == { i \in matched : Confident(verdict[i], c.threshold) }
      before(i, j) ==
        LET di == Distance(time, sigs[i].at) dj == Distance(time, sigs[j].at)
        IN  \/ verdict[i].confidence > verdict[j].confidence
            \/ /\ verdict[i].confidence = verdict[j].confidence
               /\ di < dj \/ (di = dj /\ i < j)
      place(i) == Cardinality({ j \in candidates : before(j, i) }) + 1
      n == Smaller(Cardinality(candidates), OrDefault(c.fanout, DefaultFanout))
      taken == [k \in 1..n |-> CHOOSE i \in candidates : place(i) = k]
      values(name) ==
        { sigs[taken[k]].value : k \in { k \in 1..n : sigs[taken[k]].signal = name } }
      old(name) == IF name \in DOMAIN base THEN {base[name]} ELSE {}
      names == DOMAIN base \cup { sigs[taken[k]].signal : k \in 1..n }
               \cup (IF n > 0 THEN {ConfidenceKey} ELSE {})
  IN  [attributes |-> [name \in names |->
         IF name = ConfidenceKey /\ n > 0 THEN verdict[taken[1]].confidence
         ELSE Joined(old(name), values(name))],
       kept |-> [k \in 1..n |-> [signal |-> sigs[taken[k]], decision |-> verdict[taken[k]]]],
       debug |-> Debug(Cardinality(supported \ matched), Cardinality(matched \ candidates),
                       Cardinality(candidates) - n, Len(sigs) - Cardinality(supported))]
           V(u) == [i \in DOMAIN sigs |-> Match(u, sigs[i], c.window)]
<1>1. /\ EnrichAttributes(c, base, s, sigs) = Form(V(s), s.at)
      /\ EnrichAttributes(c, base, t, sigs) = Form(V(t), t.at)
  BY DEF EnrichAttributes
<1>2. V(s) = V(t) /\ s.at = t.at
  BY SameMatch DEF SameSpan
<1> HIDE DEF Form, V
<1>3. QED
  BY <1>1, <1>2

LEMMA EnrichIs ==
  ASSUME NEW c, NEW span, NEW sigs \in Seq(Signal), c.fanout \in Int, span.at \in Nat
  PROVE  \E got, n, conf :
           /\ Gain(got, n, conf)
           /\ \A base, s : SameSpan(s, span) =>
                EnrichAttributes(c, base, s, sigs).attributes = Add(base, got, n, conf)
<1> DEFINE V == [i \in DOMAIN sigs |-> Match(span, sigs[i], c.window)]
           supported == { i \in DOMAIN sigs : sigs[i].signal \in Attributed }
           matched == { i \in supported : V[i].matched }
           cands == { i \in matched : Confident(V[i], c.threshold) }
           before(i, j) ==
             LET di == Distance(span.at, sigs[i].at) dj == Distance(span.at, sigs[j].at)
             IN  \/ V[i].confidence > V[j].confidence
                 \/ /\ V[i].confidence = V[j].confidence
                    /\ di < dj \/ (di = dj /\ i < j)
           R == { p \in cands \X cands : before(p[1], p[2]) }
           place(i) == Cardinality({ j \in cands : before(j, i) }) + 1
           n == Smaller(Cardinality(cands), OrDefault(c.fanout, DefaultFanout))
           taken == [k \in 1..n |-> CHOOSE i \in cands : place(i) = k]
           got == [k \in 1..n |-> sigs[taken[k]]]
           conf == V[taken[1]].confidence
<1>1. Len(sigs) \in Nat /\ DOMAIN sigs = 1..Len(sigs) /\ \A i \in DOMAIN sigs : sigs[i] \in Signal
  OBVIOUS
<1>2. cands \subseteq 1..Len(sigs) /\ \A i \in cands : sigs[i].signal \in Attributed
  BY <1>1
<1>3. IsFiniteSet(cands) /\ Cardinality(cands) \in Nat
  <2>1. IsFiniteSet(1..Len(sigs))
    BY <1>1, FS_Interval
  <2> HIDE DEF cands
  <2>2. QED
    BY <1>2, <2>1, FS_Subset, FS_CardinalityType
<1>4. n \in Nat /\ n <= Cardinality(cands)
  BY <1>3, Windows DEF Smaller, OrDefault
<1>5. StrictOrder(cands, R)
  <2> DEFINE C == [i \in cands |-> V[i].confidence]
             D == [i \in cands |-> Distance(span.at, sigs[i].at)]
  <2>1. C \in [cands -> Nat] /\ D \in [cands -> Nat] /\ cands \subseteq Nat
    <3>1. \A i \in cands : V[i].confidence \in Nat
      BY <1>1, <1>2, MatchType
    <3>2. \A i \in cands : sigs[i].at \in Nat
      BY <1>1, <1>2 DEF Signal
    <3> HIDE DEF cands, V
    <3>3. \A i \in cands : Distance(span.at, sigs[i].at) \in Nat
      BY <3>2 DEF Distance
    <3>4. QED
      BY <1>2, <3>1, <3>3
  <2>2. \A i, j \in cands : <<i, j>> \in R <=>
          C[i] > C[j] \/ (C[i] = C[j] /\ (D[i] < D[j] \/ (D[i] = D[j] /\ i < j)))
    OBVIOUS
  <2> HIDE DEF C, D, R, cands
  <2>3. \A i \in cands : <<i, i>> \notin R
    BY <2>1, <2>2
  <2>4. ASSUME NEW i \in cands, NEW j \in cands, NEW k \in cands, <<i, j>> \in R, <<j, k>> \in R
        PROVE  <<i, k>> \in R
    <3>1. C[i] \in Nat /\ C[j] \in Nat /\ C[k] \in Nat /\ D[i] \in Nat /\ D[j] \in Nat /\ D[k] \in Nat
          /\ i \in Nat /\ j \in Nat /\ k \in Nat
      BY <2>1
    <3>2. /\ C[i] > C[j] \/ (C[i] = C[j] /\ (D[i] < D[j] \/ (D[i] = D[j] /\ i < j)))
          /\ C[j] > C[k] \/ (C[j] = C[k] /\ (D[j] < D[k] \/ (D[j] = D[k] /\ j < k)))
      BY <2>2, <2>4
    <3>3. C[i] > C[k] \/ (C[i] = C[k] /\ (D[i] < D[k] \/ (D[i] = D[k] /\ i < k)))
      BY <3>1, <3>2
    <3>4. QED
      BY <2>2, <3>3
  <2>5. ASSUME NEW i \in cands, NEW j \in cands, <<i, j>> \notin R, <<j, i>> \notin R
        PROVE  i = j
    <3>1. C[i] \in Nat /\ C[j] \in Nat /\ D[i] \in Nat /\ D[j] \in Nat /\ i \in Nat /\ j \in Nat
      BY <2>1
    <3>2. /\ ~(C[i] > C[j] \/ (C[i] = C[j] /\ (D[i] < D[j] \/ (D[i] = D[j] /\ i < j))))
          /\ ~(C[j] > C[i] \/ (C[j] = C[i] /\ (D[j] < D[i] \/ (D[j] = D[i] /\ j < i))))
      BY <2>2, <2>5
    <3>3. QED
      BY <3>1, <3>2
  <2>6. QED
    BY <2>3, <2>4, <2>5 DEF StrictOrder
<1>6. \A i \in cands : place(i) = PlaceAmong(cands, R, i)
  <2>1. ASSUME NEW i \in cands PROVE { j \in cands : before(j, i) } = { j \in cands : <<j, i>> \in R }
    OBVIOUS
  <2> HIDE DEF cands, R, before
  <2>2. QED
    BY <2>1 DEF PlaceAmong
<1>7. \A k \in 1..n : taken[k] \in cands
  <2> HIDE DEF cands, R, place, n
  <2>1. ASSUME NEW k \in 1..n PROVE \E i \in cands : place(i) = k
    <3>1. k \in 1..Cardinality(cands)
      BY <1>3, <1>4
    <3>2. \E i \in cands : PlaceAmong(cands, R, i) = k
      BY <1>3, <1>5, <3>1, PlacesFill
    <3>3. QED
      BY <1>6, <3>2
  <2>2. QED
    BY <2>1
<1>8. Gain(got, n, conf)
  <2> HIDE DEF n, cands, taken
  <2>1. \A k \in 1..n : got[k] = sigs[taken[k]]
    OBVIOUS
  <2>2. \A k \in 1..n : got[k].signal \in Attributed /\ got[k].value \in Nat
    BY <1>1, <1>2, <1>7, <2>1 DEF Signal
  <2>3. n > 0 => conf \in Nat
    <3>1. n > 0 => taken[1] \in DOMAIN sigs
      <4>1. n > 0 => 1 \in 1..n
        BY <1>4
      <4>2. n > 0 => taken[1] \in cands
        BY <4>1, <1>7
      <4>3. QED
        BY <1>1, <1>2, <4>2
    <3>2. QED
      BY <3>1, MatchType
  <2>4. QED
    BY <1>4, <2>2, <2>3 DEF Gain
<1>9. ASSUME NEW base, NEW s, SameSpan(s, span)
      PROVE  EnrichAttributes(c, base, s, sigs).attributes = Add(base, got, n, conf)
  <2>1. EnrichAttributes(c, base, s, sigs) = EnrichAttributes(c, base, span, sigs)
    BY <1>9, SameEnrichment
  <2> DEFINE values(name) == { sigs[taken[k]].value : k \in { k \in 1..n : sigs[taken[k]].signal = name } }
             old(name) == IF name \in DOMAIN base THEN {base[name]} ELSE {}
             names == DOMAIN base \cup { sigs[taken[k]].signal : k \in 1..n }
                      \cup (IF n > 0 THEN {ConfidenceKey} ELSE {})
  <2>2. EnrichAttributes(c, base, span, sigs).attributes =
          [name \in names |-> IF name = ConfidenceKey /\ n > 0 THEN V[taken[1]].confidence
                              ELSE Joined(old(name), values(name))]
    BY DEF EnrichAttributes
  <2> HIDE DEF V, taken, n
  <2>3. \A name : values(name) = Values(got, n, name)
    BY DEF Values
  <2>4. names = Names(base, got, n)
    BY DEF Names
  <2>5. QED
    BY <2>1, <2>2, <2>3, <2>4 DEF Add, Old
<1>10. QED
  <2> HIDE DEF got, n, conf
  <2>1. QED
    BY <1>8, <1>9

LEMMA OwnKeys == KernelKey \notin Attributed /\ ConfidenceKey \notin Attributed /\ ConfidenceKey # KernelKey
BY DEF KernelKey, Attributed, ConfidenceKey

LEMMA SomeValues ==
  ASSUME NEW got, NEW n, NEW conf, Gain(got, n, conf), NEW name
  PROVE  IsFiniteSet(Values(got, n, name)) /\ \A v \in Values(got, n, name) : v \in Nat
<1> DEFINE f == [k \in 1..n |-> got[k].value]
           all == { f[k] : k \in 1..n }
<1>1. n \in Nat /\ IsFiniteSet(1..n)
  BY FS_Interval DEF Gain
<1>2. f \in Surjection(1..n, all)
  BY DEF Surjection
<1>3. Values(got, n, name) \in SUBSET all
  BY DEF Values
<1> HIDE DEF all, f
<1>4. IsFiniteSet(Values(got, n, name))
  <2>1. IsFiniteSet(all)
    BY <1>1, <1>2, FS_Surjection
  <2>2. QED
    BY <1>3, <2>1, FS_Subset
<1>5. QED
  BY <1>4 DEF Values, Gain

(* An attribute keeps the greatest of its values. *)
LEMMA JoinedIs ==
  ASSUME NEW got, NEW n, NEW conf, Gain(got, n, conf), NEW base, base \in [DOMAIN base -> Nat],
         NEW name \in Names(base, got, n), ~(name = ConfidenceKey /\ n > 0)
  PROVE  LET g == Joined(Old(base, name), Values(got, n, name))
         IN  /\ g \in Nat /\ g \in Old(base, name) \cup Values(got, n, name)
             /\ \A v \in Old(base, name) \cup Values(got, n, name) : v <= g
<1> DEFINE S == Old(base, name) \cup Values(got, n, name)
<1>1. IsFiniteSet(S)
  <2>1. IsFiniteSet(Old(base, name))
    BY FS_Singleton, FS_EmptySet DEF Old
  <2>2. QED
    BY <2>1, SomeValues, FS_Union
<1>2. \A v \in S : v \in Nat
  <2>1. \A v \in Old(base, name) : v \in Nat
    BY DEF Old
  <2>2. QED
    BY <2>1, SomeValues
<1>3. S # {}
  <2>1. CASE name \in DOMAIN base
    BY <2>1 DEF Old
  <2>2. CASE \E k \in 1..n : got[k].signal = name
    BY <2>2 DEF Values
  <2>3. QED
    BY <2>1, <2>2 DEF Names
<1> HIDE DEF S
<1>4. Greatest(S) \in S /\ Greatest(S) \in Nat /\ \A v \in S : v <= Greatest(S)
  BY <1>1, <1>2, <1>3, GreatestIs
<1>5. QED
  BY <1>4 DEF Joined, S

LEMMA Added ==
  ASSUME NEW got, NEW n, NEW conf, Gain(got, n, conf), NEW base, base \in [DOMAIN base -> Nat]
  PROVE  LET b == Add(base, got, n, conf)
         IN  /\ b \in [Names(base, got, n) -> Nat] /\ DOMAIN b = Names(base, got, n)
             /\ \A name \in DOMAIN base :
                  name \in DOMAIN b /\ (name # ConfidenceKey => b[name] >= base[name])
             /\ \A k \in 1..n : got[k].signal \in DOMAIN b /\ b[got[k].signal] >= got[k].value
             /\ n > 0 => ConfidenceKey \in DOMAIN b /\ b[ConfidenceKey] = conf
             /\ \A name \in DOMAIN b : name \notin Attributed /\ name # ConfidenceKey =>
                  name \in DOMAIN base /\ b[name] = base[name]
<1> DEFINE b == Add(base, got, n, conf)
<1>1. DOMAIN b = Names(base, got, n)
  BY DEF Add
<1>2. \A name \in Names(base, got, n) :
        b[name] = IF name = ConfidenceKey /\ n > 0 THEN conf
                  ELSE Joined(Old(base, name), Values(got, n, name))
  BY DEF Add
<1>3. b = [name \in Names(base, got, n) |-> b[name]]
  BY DEF Add
<1> HIDE DEF b
<1>4. \A name \in Names(base, got, n) : b[name] \in Nat
  BY <1>2, JoinedIs DEF Gain
<1>5. b \in [Names(base, got, n) -> Nat]
  BY <1>3, <1>4
<1>6. ASSUME NEW name \in DOMAIN base
      PROVE  name \in DOMAIN b /\ (name # ConfidenceKey => b[name] >= base[name])
  <2>1. name \in Names(base, got, n) /\ base[name] \in Old(base, name)
    BY DEF Names, Old
  <2>2. name # ConfidenceKey => base[name] <= b[name]
    BY <1>2, <2>1, JoinedIs
  <2>3. base[name] \in Nat /\ b[name] \in Nat
    BY <1>4, <2>1
  <2>4. QED
    BY <1>1, <2>1, <2>2, <2>3
<1>7. ASSUME NEW k \in 1..n
      PROVE  got[k].signal \in DOMAIN b /\ b[got[k].signal] >= got[k].value
  <2> DEFINE name == got[k].signal
  <2>1. name \in Names(base, got, n) /\ name # ConfidenceKey /\ got[k].value \in Values(got, n, name)
        /\ got[k].value \in Nat
    BY OwnKeys DEF Names, Gain, Values
  <2>2. got[k].value <= b[name]
    BY <1>2, <2>1, JoinedIs
  <2>3. b[name] \in Nat
    BY <1>4, <2>1
  <2>4. QED
    BY <1>1, <2>1, <2>2, <2>3
<1>8. n > 0 => ConfidenceKey \in DOMAIN b /\ b[ConfidenceKey] = conf
  BY <1>1, <1>2 DEF Names
<1>9. ASSUME NEW name \in DOMAIN b, name \notin Attributed, name # ConfidenceKey
      PROVE  name \in DOMAIN base /\ b[name] = base[name]
  <2>1. name \in DOMAIN base
    BY <1>1, <1>9 DEF Names, Gain
  <2>2. Values(got, n, name) = {} /\ Old(base, name) = {base[name]}
    BY <1>9, <2>1 DEF Values, Old, Gain
  <2>3. b[name] \in Old(base, name) \cup Values(got, n, name)
    BY <1>1, <1>2, <1>9, JoinedIs
  <2>4. QED
    BY <2>1, <2>2, <2>3
<1>10. QED
  BY <1>1, <1>5, <1>6, <1>7, <1>8, <1>9 DEF b

(* What is there already is not changed by adding it again. *)
LEMMA AddedAgain ==
  ASSUME NEW got, NEW n, NEW conf, Gain(got, n, conf), NEW b, b \in [DOMAIN b -> Nat],
         \A k \in 1..n : got[k].signal \in DOMAIN b /\ b[got[k].signal] >= got[k].value,
         n > 0 => ConfidenceKey \in DOMAIN b /\ b[ConfidenceKey] = conf
  PROVE  Add(b, got, n, conf) = b
<1> DEFINE a == Add(b, got, n, conf)
<1>1. Names(b, got, n) = DOMAIN b
  BY DEF Names
<1>2. ASSUME NEW name \in DOMAIN b PROVE a[name] = b[name]
  <2>1. CASE name = ConfidenceKey /\ n > 0
    BY <1>1, <2>1 DEF Add
  <2>2. CASE ~(name = ConfidenceKey /\ n > 0)
    <3> DEFINE S == Old(b, name) \cup Values(got, n, name)
    <3>1. a[name] = Joined(Old(b, name), Values(got, n, name))
      BY <1>1, <2>2 DEF Add
    <3>2. a[name] \in Nat /\ a[name] \in S /\ \A v \in S : v <= a[name]
      <4> HIDE DEF a
      <4>1. QED
        BY <1>1, <2>2, <3>1, JoinedIs
    <3>3. b[name] \in S /\ b[name] \in Nat
      BY DEF Old
    <3>4. \A v \in S : v <= b[name]
      BY <3>3 DEF Old, Values
    <3> HIDE DEF a, S
    <3>5. a[name] <= b[name] /\ b[name] <= a[name]
      BY <3>2, <3>3, <3>4
    <3>6. QED
      BY <3>2, <3>3, <3>5
  <2>3. QED
    BY <2>1, <2>2
<1>3. a = [name \in DOMAIN b |-> a[name]] /\ b = [name \in DOMAIN b |-> b[name]]
  BY <1>1 DEF Add
<1> HIDE DEF a
<1>4. a = b
  BY <1>2, <1>3
<1>5. QED
  BY <1>4 DEF a

(* The sum of the parts follows them and is idempotent. *)
LEMMA Decomposed ==
  ASSUME NEW a, a \in [DOMAIN a -> Nat]
  PROVE  LET d == DecomposeRetrieval(a)
         IN  /\ d \in [DOMAIN d -> Nat] /\ DOMAIN a \subseteq DOMAIN d
             /\ DOMAIN d \subseteq DOMAIN a \cup {KernelKey}
             /\ \A name \in DOMAIN a : name # KernelKey => d[name] = a[name]
             /\ KernelTotal(a) \in Nat /\ KernelTotal(d) = KernelTotal(a)
             /\ IF KernelTotal(a) > 0 THEN KernelKey \in DOMAIN d /\ d[KernelKey] = KernelTotal(a)
                ELSE d = a
<1> DEFINE d == DecomposeRetrieval(a)
           parts == {"dns_latency_ms", "connect_latency_ms", "tls_handshake_ms"}
<1>1. KernelTotal(a) \in Nat
  BY DEF KernelTotal
<1>2. KernelKey \notin parts
  BY DEF KernelKey
<1>3. CASE ~(KernelTotal(a) > 0)
  BY <1>1, <1>3 DEF DecomposeRetrieval
<1>4. CASE KernelTotal(a) > 0
  <2>1. d = [name \in DOMAIN a \cup {KernelKey} |->
               IF name = KernelKey THEN KernelTotal(a) ELSE a[name]]
    BY <1>4 DEF DecomposeRetrieval
  <2> HIDE DEF d
  <2>2. DOMAIN d = DOMAIN a \cup {KernelKey} /\ d[KernelKey] = KernelTotal(a)
        /\ \A name \in DOMAIN a : name # KernelKey => d[name] = a[name]
    BY <2>1
  <2>3. d \in [DOMAIN d -> Nat]
    BY <1>1, <2>1
  <2>4. \A name \in parts : (name \in DOMAIN d <=> name \in DOMAIN a) /\ (name \in DOMAIN a => d[name] = a[name])
    BY <1>2, <2>2
  <2>5. KernelTotal(d) = KernelTotal(a)
    BY <2>4 DEF KernelTotal
  <2>6. QED
    BY <1>1, <1>4, <2>2, <2>3, <2>5 DEF d
<1>5. QED
  BY <1>3, <1>4

Processed(c, span, attributes, sigs) ==
  DecomposeRetrieval(EnrichAttributes(c, attributes, span, sigs).attributes)

(* One more delivery only adds, and the same one again changes nothing. *)
LEMMA ProcessedIs ==
  ASSUME NEW c, NEW span, NEW sigs \in Seq(Signal), c.fanout \in Int, span.at \in Nat,
         NEW a, Measured(a)
  PROVE  LET p == Processed(c, span, a, sigs)
         IN  /\ Measured(p)
             /\ \A name \in DOMAIN a :
                  name \in DOMAIN p /\ (name # ConfidenceKey => p[name] >= a[name])
             /\ \A s : SameSpan(s, span) => Processed(c, s, p, sigs) = p
<1> DEFINE p == Processed(c, span, a, sigs)
<1>1. PICK got, n, conf :
        /\ Gain(got, n, conf)
        /\ \A base, s : SameSpan(s, span) =>
             EnrichAttributes(c, base, s, sigs).attributes = Add(base, got, n, conf)
  BY EnrichIs
<1> DEFINE e == Add(a, got, n, conf)
           parts == {"dns_latency_ms", "connect_latency_ms", "tls_handshake_ms"}
<1>2. a \in [DOMAIN a -> Nat] /\ (KernelKey \in DOMAIN a => a[KernelKey] <= KernelTotal(a))
  BY DEF Measured
<1>3. /\ e \in [DOMAIN e -> Nat]
      /\ \A name \in DOMAIN a : name \in DOMAIN e /\ (name # ConfidenceKey => e[name] >= a[name])
      /\ \A k \in 1..n : got[k].signal \in DOMAIN e /\ e[got[k].signal] >= got[k].value
      /\ n > 0 => ConfidenceKey \in DOMAIN e /\ e[ConfidenceKey] = conf
      /\ \A name \in DOMAIN e : name \notin Attributed /\ name # ConfidenceKey =>
           name \in DOMAIN a /\ e[name] = a[name]
  BY <1>1, <1>2, Added
<1>4. p = DecomposeRetrieval(e)
  <2>1. SameSpan(span, span)
    BY DEF SameSpan
  <2>2. EnrichAttributes(c, a, span, sigs).attributes = e
    BY <1>1, <2>1
  <2> HIDE DEF e
  <2>3. QED
    BY <2>2 DEF Processed
<1> HIDE DEF e, p
<1>5. KernelTotal(a) \in Nat /\ KernelTotal(e) \in Nat /\ KernelTotal(a) <= KernelTotal(e)
  <2>1. KernelTotal(a) \in Nat /\ KernelTotal(e) \in Nat
    BY <1>2, <1>3, Decomposed
  <2>2. \A name \in parts : name # ConfidenceKey
    BY DEF ConfidenceKey
  <2>3. \A name \in parts : name \in DOMAIN a => name \in DOMAIN e /\ e[name] >= a[name]
    BY <1>3, <2>2
  <2> DEFINE part(f, name) == IF name \in DOMAIN f THEN f[name] ELSE 0
  <2>4. \A name \in parts : part(a, name) \in Nat /\ part(e, name) \in Nat /\ part(a, name) <= part(e, name)
    BY <1>2, <1>3, <2>3
  <2>5. /\ KernelTotal(a) = part(a, "dns_latency_ms") + part(a, "connect_latency_ms")
                            + part(a, "tls_handshake_ms")
        /\ KernelTotal(e) = part(e, "dns_latency_ms") + part(e, "connect_latency_ms")
                            + part(e, "tls_handshake_ms")
    BY DEF KernelTotal
  <2> HIDE DEF part
  <2>6. QED
    BY <2>1, <2>4, <2>5
<1>6. /\ p \in [DOMAIN p -> Nat] /\ DOMAIN e \subseteq DOMAIN p
      /\ DOMAIN p \subseteq DOMAIN e \cup {KernelKey}
      /\ \A name \in DOMAIN e : name # KernelKey => p[name] = e[name]
      /\ KernelTotal(p) = KernelTotal(e)
      /\ IF KernelTotal(e) > 0 THEN KernelKey \in DOMAIN p /\ p[KernelKey] = KernelTotal(e)
         ELSE p = e
  BY <1>3, <1>4, Decomposed
<1>7. KernelKey \in DOMAIN e => KernelKey \in DOMAIN a /\ e[KernelKey] = a[KernelKey]
  BY <1>3, OwnKeys
<1>8. Measured(p)
  <2>1. KernelKey \in DOMAIN p => p[KernelKey] <= KernelTotal(p)
    BY <1>2, <1>3, <1>5, <1>6, <1>7
  <2>2. QED
    BY <1>6, <2>1 DEF Measured
<1>9. ASSUME NEW name \in DOMAIN a
      PROVE  name \in DOMAIN p /\ (name # ConfidenceKey => p[name] >= a[name])
  <2>1. CASE name # KernelKey
    BY <1>3, <1>6, <2>1
  <2>2. CASE name = KernelKey
    <3>1. KernelKey \in DOMAIN e /\ e[KernelKey] = a[KernelKey] /\ a[KernelKey] \in Nat
      BY <1>2, <1>3, <1>7, <2>2
    <3>2. QED
      BY <1>2, <1>5, <1>6, <2>2, <3>1
  <2>3. QED
    BY <2>1, <2>2
<1>10. ASSUME NEW s, SameSpan(s, span) PROVE Processed(c, s, p, sigs) = p
  <2>1. \A k \in 1..n : got[k].signal \in DOMAIN p /\ p[got[k].signal] >= got[k].value
    <3>1. \A k \in 1..n : got[k].signal # KernelKey
      BY <1>1, OwnKeys DEF Gain
    <3>2. QED
      BY <1>3, <1>6, <3>1
  <2>2. n > 0 => ConfidenceKey \in DOMAIN p /\ p[ConfidenceKey] = conf
    BY <1>3, <1>6, OwnKeys
  <2>3. Add(p, got, n, conf) = p
    BY <1>1, <1>6, <2>1, <2>2, AddedAgain
  <2>4. EnrichAttributes(c, p, s, sigs).attributes = p
    BY <1>1, <1>10, <2>3
  <2>5. DecomposeRetrieval(p) = p
    <3>1. CASE KernelTotal(p) > 0
      <4>1. p[KernelKey] = KernelTotal(p) /\ KernelKey \in DOMAIN p
        BY <1>6, <3>1
      <4>2. DecomposeRetrieval(p) = [name \in DOMAIN p \cup {KernelKey} |->
                                       IF name = KernelKey THEN KernelTotal(p) ELSE p[name]]
        BY <3>1 DEF DecomposeRetrieval
      <4>3. p = [name \in DOMAIN p |-> p[name]]
        BY <1>6
      <4>4. QED
        BY <4>1, <4>2, <4>3
    <3>2. CASE ~(KernelTotal(p) > 0)
      BY <3>2 DEF DecomposeRetrieval
    <3>3. QED
      BY <3>1, <3>2
  <2>6. QED
    BY <2>4, <2>5 DEF Processed
<1>11. QED
  BY <1>8, <1>9, <1>10 DEF p

(* ---------------------------- late signals ------------------------------ *)

Settled(item, sigs) == Processed(correlator, item, item.attributes, sigs) = item.attributes

(* What a call has returned is settled for its signals, and the next call  *)
(* begins with it.                                                         *)
LateInv ==
  /\ \A i \in DOMAIN batch : Measured(batch[i].attributes)
  /\ \A i \in DOMAIN result : Measured(result[i].attributes)
  /\ round > 0 => \A i \in DOMAIN result : Settled(result[i], signals)
  /\ round > 1 => \A i \in DOMAIN batch : Settled(batch[i], previous)

LEMMA LateStart == Init => LateInv
BY BatchAssumption DEF Init, LateInv, BatchAssumption

(* The span that ProcessSpan has just done. *)
LEMMA SpanDone ==
  ASSUME BatchInv, LateInv, ProcessSpan
  PROVE  LET k == Len(result) + 1
             done == result'[k]
         IN  /\ k \in DOMAIN batch /\ DOMAIN result' = 1..k /\ DOMAIN result = 1..Len(result)
             /\ Len(result) \in Nat
             /\ \A i \in DOMAIN result : result'[i] = result[i]
             /\ done.attributes = Processed(correlator, batch[k], batch[k].attributes, signals)
             /\ Measured(done.attributes)
             /\ \A name \in DOMAIN batch[k].attributes :
                  /\ name \in DOMAIN done.attributes
                  /\ name # ConfidenceKey => done.attributes[name] >= batch[k].attributes[name]
             /\ Settled(done, signals)
<1> DEFINE k == Len(result) + 1
           item == batch[k]
           p == Processed(correlator, item, item.attributes, signals)
           done == [item EXCEPT !.attributes = p]
<1>1. Len(result) \in Nat /\ DOMAIN result = 1..Len(result) /\ DOMAIN batch = 1..Len(batch)
      /\ Len(batch) \in Nat
  BY ItemsOfBatch DEF BatchInv
<1>2. result' = Append(result, done) /\ k \in DOMAIN batch
  BY <1>1 DEF ProcessSpan, Processed
<1>3. DOMAIN item = SpanFields /\ item.at \in Nat /\ Measured(item.attributes)
  <2>1. \A i \in DOMAIN batch : DOMAIN batch[i] = SpanFields /\ batch[i].at \in Nat
    BY <1>1, ItemsOfBatch DEF BatchInv
  <2>2. QED
    BY <1>2, <2>1 DEF LateInv
<1>4. correlator.fanout \in Int /\ signals \in Seq(Signal)
  BY BatchAssumption DEF BatchAssumption, BatchInv
<1> HIDE DEF item
<1>5. /\ Measured(p)
      /\ \A name \in DOMAIN item.attributes :
           name \in DOMAIN p /\ (name # ConfidenceKey => p[name] >= item.attributes[name])
      /\ \A s : SameSpan(s, item) => Processed(correlator, s, p, signals) = p
  BY <1>3, <1>4, ProcessedIs
<1>6. done.attributes = p /\ SameSpan(done, item)
  <2> HIDE DEF p
  <2>1. QED
    BY <1>3 DEF SpanFields, SameSpan
<1>7. /\ DOMAIN result' = 1..k /\ result'[k] = done
      /\ \A i \in DOMAIN result : result'[i] = result[i]
  <2>1. result \in Seq({ result[i] : i \in DOMAIN result })
    BY DEF BatchInv, IsBatch
  <2> HIDE DEF done
  <2>2. QED
    BY <1>1, <1>2, <2>1
<1> HIDE DEF p, done
<1>8. Settled(done, signals)
  BY <1>5, <1>6 DEF Settled
<1>9. QED
  BY <1>1, <1>2, <1>5, <1>6, <1>7, <1>8 DEF item, p

LEMMA LateStep == BatchInv /\ LateInv /\ [Next]_vars => LateInv'
<1> SUFFICES ASSUME BatchInv, LateInv, [Next]_vars PROVE LateInv'
  OBVIOUS
<1>1. CASE ProcessBatch
  <2>1. /\ batch' = result /\ result' = << >> /\ previous' = signals /\ round' = round + 1
        /\ correlator' = correlator /\ round \in Nat
    BY <1>1 DEF ProcessBatch, BatchInv
  <2>2. DOMAIN result' = {}
    BY <2>1
  <2>3. round' > 1 => \A i \in DOMAIN batch' : Settled(batch[i], previous)'
    BY <2>1 DEF LateInv, Settled
  <2>4. QED
    BY <2>1, <2>2, <2>3 DEF LateInv
<1>2. CASE ProcessSpan
  <2>1. UNCHANGED <<correlator, batch, signals, previous, round>>
    BY <1>2 DEF ProcessSpan
  <2> DEFINE k == Len(result) + 1
  <2>2. /\ DOMAIN result' = 1..k /\ DOMAIN result = 1..Len(result) /\ Len(result) \in Nat
        /\ \A i \in DOMAIN result : result'[i] = result[i]
        /\ Measured(result'[k].attributes) /\ Settled(result'[k], signals)
    BY <1>2, SpanDone
  <2>3. ASSUME NEW i \in DOMAIN result'
        PROVE  Measured(result'[i].attributes) /\ (round > 0 => Settled(result'[i], signals))
    <3>1. CASE i \in DOMAIN result
      BY <2>2, <3>1 DEF LateInv
    <3>2. CASE i = k
      BY <2>2, <3>2
    <3>3. QED
      BY <2>2, <3>1, <3>2
  <2>4. \A i \in DOMAIN result' : round > 0 => Settled(result[i], signals)'
    BY <2>1, <2>3 DEF Settled
  <2>5. \A i \in DOMAIN batch' : round > 1 => Settled(batch[i], previous)'
    BY <2>1 DEF Settled, LateInv
  <2>6. QED
    BY <2>1, <2>3, <2>4, <2>5 DEF LateInv
<1>3. CASE UNCHANGED vars
  BY <1>3 DEF vars, LateInv, Settled
<1>4. QED
  BY <1>1, <1>2, <1>3 DEF Next

LEMMA LateAdds ==
  ASSUME BatchInv, LateInv, Next, NEW i \in DOMAIN batch
  PROVE  /\ \A name \in DOMAIN Current(i) :
              /\ name \in DOMAIN Current(i)'
              /\ name # ConfidenceKey => Current(i)'[name] >= Current(i)[name]
         /\ round > 1 /\ signals = previous /\ signals' = signals => Current(i)' = Current(i)
<1>1. /\ Len(result) \in Nat /\ DOMAIN result = 1..Len(result) /\ DOMAIN batch = 1..Len(batch)
      /\ Len(batch) \in Nat
  BY ItemsOfBatch DEF BatchInv
<1>2. Measured(Current(i))
  BY DEF LateInv, Current
<1>3. ASSUME Current(i)' = Current(i)
      PROVE  \A name \in DOMAIN Current(i) :
               /\ name \in DOMAIN Current(i)'
               /\ name # ConfidenceKey => Current(i)'[name] >= Current(i)[name]
  <2> DEFINE now == Current(i)
  <2>1. now \in [DOMAIN now -> Nat] /\ Current(i)' = now
    BY <1>2, <1>3 DEF Measured
  <2> HIDE DEF now
  <2>2. \A name \in DOMAIN now : now[name] >= now[name]
    BY <2>1
  <2>3. QED
    BY <2>1, <2>2 DEF now
<1>4. CASE ProcessBatch
  <2>1. batch' = result /\ result' = << >> /\ Len(result) = Len(batch)
    BY <1>4 DEF ProcessBatch
  <2>2. i \in DOMAIN result /\ i \notin DOMAIN result'
    BY <1>1, <2>1
  <2>3. Current(i)' = Current(i)
    BY <2>1, <2>2 DEF Current
  <2>4. QED
    BY <1>3, <2>3
<1>5. CASE ProcessSpan
  <2> DEFINE k == Len(result) + 1
             done == result'[k]
  <2>1. UNCHANGED <<correlator, batch, signals, previous, round>>
    BY <1>5 DEF ProcessSpan
  <2>2. /\ k \in DOMAIN batch /\ DOMAIN result' = 1..k
        /\ \A j \in DOMAIN result : result'[j] = result[j]
        /\ done.attributes = Processed(correlator, batch[k], batch[k].attributes, signals)
        /\ \A name \in DOMAIN batch[k].attributes :
             /\ name \in DOMAIN done.attributes
             /\ name # ConfidenceKey => done.attributes[name] >= batch[k].attributes[name]
    BY <1>5, SpanDone
  <2>3. CASE i # k
    <3>1. i \in DOMAIN result' <=> i \in DOMAIN result
      BY <1>1, <2>2, <2>3
    <3>2. Current(i)' = Current(i)
      BY <2>1, <2>2, <3>1 DEF Current
    <3>3. QED
      BY <1>3, <3>2
  <2>4. CASE i = k
    <3>1. Current(i) = batch[k].attributes /\ Current(i)' = done.attributes
      BY <1>1, <2>2, <2>4 DEF Current
    <3>2. round > 1 /\ signals = previous => Current(i)' = Current(i)
      BY <2>2, <3>1 DEF LateInv, Settled
    <3> HIDE DEF k, done
    <3>3. QED
      BY <2>2, <3>1, <3>2
  <2>5. QED
    BY <2>3, <2>4
<1>6. QED
  BY <1>4, <1>5 DEF Next

(* Over any sequence of deliveries the signals of a call only add to a     *)
(* span, and the same call again changes nothing (ProcessBatch,            *)
(* EnrichAttributes, DecomposeRetrieval).                                  *)
THEOREM LateOnlyAdds == Spec => LateSignalsOnlyAdd
<1>1. BatchInv /\ LateInv /\ [Next]_vars =>
        [\A i \in DOMAIN batch :
           /\ \A name \in DOMAIN Current(i) :
                /\ name \in DOMAIN Current(i)'
                /\ name # ConfidenceKey => Current(i)'[name] >= Current(i)[name]
           /\ round > 1 /\ signals = previous /\ signals' = signals
                => Current(i)' = Current(i)]_vars
  BY LateAdds
<1>2. QED
  BY BatchInit, BatchStep, LateStart, LateStep, <1>1, PTL DEF Spec, LateSignalsOnlyAdd

(* ----------------------------- the evaluator ---------------------------- *)

(* A DNS signal alone is kept or not, and its decision is that of Match.   *)
LEMMA AloneIs ==
  ASSUME NEW c, NEW base, NEW span, NEW s, s.signal = "dns_latency_ms",
         c.fanout \in Int, span.at \in Nat, s.at \in Nat
  PROVE  EnrichDNSAttributes(c, base, span, s).decision =
           LET d == Match(span, s, c.window)
           IN  IF d.matched /\ Confident(d, c.threshold) THEN d ELSE NoDecision
<1> DEFINE sigs == <<s>>
           V == [i \in DOMAIN sigs |-> Match(span, sigs[i], c.window)]
           supported == { i \in DOMAIN sigs : sigs[i].signal \in Attributed }
           matched == { i \in supported : V[i].matched }
           cands == { i \in matched : Confident(V[i], c.threshold) }
           before(i, j) ==
             LET di == Distance(span.at, sigs[i].at) dj == Distance(span.at, sigs[j].at)
             IN  \/ V[i].confidence > V[j].confidence
                 \/ /\ V[i].confidence = V[j].confidence
                    /\ di < dj \/ (di = dj /\ i < j)
           place(i) == Cardinality({ j \in cands : before(j, i) }) + 1
           n == Smaller(Cardinality(cands), OrDefault(c.fanout, DefaultFanout))
           taken == [k \in 1..n |-> CHOOSE i \in cands : place(i) = k]
           d == Match(span, s, c.window)
           good == d.matched /\ Confident(d, c.threshold)
           r == EnrichAttributes(c, base, span, sigs)
<1>1. DOMAIN sigs = {1} /\ sigs[1] = s /\ V[1] = d
  OBVIOUS
<1>2. supported = {1}
  BY <1>1 DEF Attributed
<1>3. r.kept = [k \in 1..n |-> [signal |-> sigs[taken[k]], decision |-> V[taken[k]]]]
  BY DEF EnrichAttributes
<1>4. OrDefault(c.fanout, DefaultFanout) \in Nat /\ OrDefault(c.fanout, DefaultFanout) > 0
  BY Windows DEF OrDefault
<1>5. CASE ~good
  <2>1. cands = {}
    BY <1>1, <1>2, <1>5
  <2>2. n = 0
    <3> HIDE DEF cands
    <3>1. Cardinality(cands) = 0
      BY <2>1, FS_EmptySet
    <3>2. QED
      BY <1>4, <3>1 DEF Smaller
  <2> HIDE DEF n, r
  <2>3. r.kept = << >>
    BY <1>3, <2>2
  <2>4. QED
    BY <1>5, <2>3 DEF EnrichDNSAttributes, r
<1>6. CASE good
  <2>1. cands = {1}
    BY <1>1, <1>2, <1>6
  <2>2. n = 1
    <3> HIDE DEF cands
    <3>1. Cardinality(cands) = 1
      BY <2>1, FS_Singleton
    <3>2. QED
      BY <1>4, <3>1 DEF Smaller
  <2>3. place(1) = 1
    <3>1. { j \in cands : before(j, 1) } = {}
      <4>1. ~before(1, 1)
        <5> DEFINE far == Distance(span.at, sigs[1].at)
                   sure == V[1].confidence
        <5>1. far \in Nat
          <6>1. sigs[1].at \in Nat
            BY <1>1
          <6> HIDE DEF sigs
          <6>2. QED
            BY <6>1 DEF Distance
        <5>2. sure \in Nat
          BY <1>1, MatchType
        <5>3. before(1, 1) <=> sure > sure \/ (sure = sure /\ (far < far \/ (far = far /\ 1 < 1)))
          OBVIOUS
        <5> HIDE DEF before, far, sure
        <5>4. QED
          BY <5>1, <5>2, <5>3
      <4> HIDE DEF before
      <4>2. QED
        BY <2>1, <4>1
    <3>2. place(1) = Cardinality({}) + 1
      BY <3>1, Zenon
    <3>3. Cardinality({}) = 0
      BY FS_EmptySet
    <3> HIDE DEF place
    <3>4. QED
      BY <3>2, <3>3
  <2> HIDE DEF place, cands, n
  <2>4. taken[1] = 1
    BY <2>1, <2>2, <2>3
  <2> HIDE DEF taken, V, d, sigs
  <2>5. r.kept = [k \in 1..1 |-> [signal |-> sigs[taken[k]], decision |-> V[taken[k]]]]
    BY <1>3, <2>2
  <2>6. r.kept # << >> /\ r.kept[1].decision = d
    <3> HIDE DEF r
    <3>1. QED
      BY <1>1, <2>4, <2>5
  <2>7. QED
    BY <1>6, <2>6 DEF EnrichDNSAttributes, r, d, sigs
<1>7. QED
  BY <1>5, <1>6

LEMMA NameDoesNotMatter ==
  ASSUME NEW span, NEW s \in Signal, NEW name, NEW window
  PROVE  LET t == [s EXCEPT !.signal = name]
         IN  /\ Match(span, t, window) = Match(span, s, window)
             /\ t.signal = name /\ t.value = s.value /\ t.at = s.at
<1> DEFINE t == [s EXCEPT !.signal = name]
<1>1. /\ t.signal = name /\ t.value = s.value /\ t.at = s.at
      /\ t.trace = s.trace /\ t.pod = s.pod /\ t.pid = s.pid /\ t.conn = s.conn
      /\ t.service = s.service /\ t.node = s.node /\ t.at = s.at
  BY DEF Signal
<1> HIDE DEF t
<1>2. \A id \in {"trace", "pod", "conn", "service", "node"} : Same(span, t, id) <=> Same(span, s, id)
  BY <1>1 DEF Same
<1>3. Match(span, t, window) = Match(span, s, window)
  BY <1>1, <1>2 DEF Match
<1>4. QED
  BY <1>1, <1>3 DEF t

(* Pairs that expect what is predicted have no error among them. *)
LEMMA PerfectReport ==
  ASSUME NEW pairs, IsFiniteSet(DOMAIN pairs), NEW window, NEW threshold,
         \A i \in DOMAIN pairs :
           /\ pairs[i].expected = Predicted(pairs[i], window, threshold)
           /\ pairs[i].expected =>
                pairs[i].tier = Match(pairs[i].span, pairs[i].signal, window).tier
  PROVE  LET r == EvaluateLabeledPairs(pairs, window, threshold)
         IN  /\ r.fp = 0 /\ r.fn = 0 /\ r.tierCorrect = r.comparable /\ r.tp \in Nat
<1> DEFINE of(expected, predicted) == { i \in DOMAIN pairs :
             pairs[i].expected = expected /\ Predicted(pairs[i], window, threshold) = predicted }
           comparable == { i \in DOMAIN pairs : /\ pairs[i].expected /\ pairs[i].tier # ""
                                                /\ Predicted(pairs[i], window, threshold) }
           right == { i \in comparable :
                        pairs[i].tier = Match(pairs[i].span, pairs[i].signal, window).tier }
           r == EvaluateLabeledPairs(pairs, window, threshold)
<1>1. of(FALSE, TRUE) = {} /\ of(TRUE, FALSE) = {}
  BY Zenon
<1>2. right = comparable
  OBVIOUS
<1>3. of(TRUE, TRUE) \in SUBSET DOMAIN pairs
  OBVIOUS
<1>4. /\ r.fp = Cardinality(of(FALSE, TRUE)) /\ r.fn = Cardinality(of(TRUE, FALSE))
      /\ r.tierCorrect = Cardinality(right) /\ r.comparable = Cardinality(comparable)
      /\ r.tp = Cardinality(of(TRUE, TRUE))
  BY DEF EvaluateLabeledPairs
<1> HIDE DEF of, comparable, right, r
<1>5. Cardinality(of(TRUE, TRUE)) \in Nat
  BY <1>3, FS_Subset, FS_CardinalityType
<1>6. QED
  BY <1>1, <1>2, <1>4, <1>5, FS_EmptySet DEF r

LEMMA PerfectGate ==
  ASSUME NEW r, r.fp = 0, r.fn = 0, r.tp \in Nat
  PROVE  EvaluateGate(r, 100, 100) <=> r.tp > 0
<1> DEFINE tp == r.tp
<1>1. AtLeast(tp, tp + 0, 100) <=> tp > 0
  BY DEF AtLeast
<1>2. QED
  BY <1>1 DEF EvaluateGate

(* The data set labelled by the processor has no error in it, and what the *)
(* evaluator predicts both ways of enriching do (EvaluateLabeledPairs,     *)
(* EnrichDNS, EnrichDNSAttributes).                                        *)
THEOREM EvaluatorPredicts == Spec => []EvaluatorPredictsEnrichment
<1> DEFINE dns(j) == [signals[j] EXCEPT !.signal = "dns_latency_ms"]
           joins(i, j) == EnrichDNSAttributes(correlator, batch[i].attributes, batch[i], dns(j)).decision
           pair(i, j) == [span |-> batch[i], signal |-> signals[j],
                          expected |-> joins(i, j).matched, tier |-> joins(i, j).tier]
           pairs(i) == [j \in DOMAIN signals |-> pair(i, j)]
           report(i) == EvaluateLabeledPairs(pairs(i), correlator.window, correlator.threshold)
           once(i, j) == EnrichDNS(batch[i].attributes, batch[i], dns(j),
                                   correlator.window, correlator.threshold)
<1>1. BatchInv => EvaluatorPredictsEnrichment
  <2> SUFFICES ASSUME BatchInv, NEW i \in DOMAIN batch
      PROVE  /\ report(i).fp = 0 /\ report(i).fn = 0
             /\ report(i).tierCorrect = report(i).comparable
             /\ EvaluateGate(report(i), 100, 100) <=> report(i).tp > 0
             /\ \A j \in DOMAIN signals :
                  IF Predicted(pair(i, j), correlator.window, correlator.threshold)
                  THEN once(i, j).attributes["dns_latency_ms"] = signals[j].value
                  ELSE once(i, j).attributes = batch[i].attributes
    BY DEF EvaluatorPredictsEnrichment
  <2>1. correlator.fanout \in Int /\ signals \in Seq(Signal)
    BY BatchAssumption DEF BatchAssumption, BatchInv
  <2> DEFINE M(j) == Match(batch[i], signals[j], correlator.window)
  <2>2. ASSUME NEW j \in DOMAIN signals
        PROVE  /\ joins(i, j) = IF M(j).matched /\ Confident(M(j), correlator.threshold)
                                THEN M(j) ELSE NoDecision
               /\ dns(j).signal = "dns_latency_ms" /\ dns(j).value = signals[j].value
               /\ Match(batch[i], dns(j), correlator.window) = M(j)
    <3>1. signals[j] \in Signal /\ batch[i].at \in Nat
      <4>1. batch[i].at \in Nat
        BY ItemsOfBatch DEF BatchInv
      <4>2. signals[j] \in Signal
        BY <2>1
      <4>3. QED
        BY <4>1, <4>2
    <3>2. /\ Match(batch[i], dns(j), correlator.window) = M(j)
          /\ dns(j).signal = "dns_latency_ms" /\ dns(j).value = signals[j].value
          /\ dns(j).at \in Nat
      BY <3>1, NameDoesNotMatter DEF Signal
    <3> HIDE DEF dns
    <3>3. QED
      BY <2>1, <3>1, <3>2, AloneIs
  <2>3. ASSUME NEW j \in DOMAIN signals
        PROVE  /\ pair(i, j).expected = Predicted(pair(i, j), correlator.window, correlator.threshold)
               /\ pair(i, j).expected =>
                    pair(i, j).tier = Match(pair(i, j).span, pair(i, j).signal, correlator.window).tier
    <3>1. M(j).matched \in BOOLEAN
      BY DEF Match, Decision, NoDecision
    <3>2. pair(i, j).span = batch[i] /\ pair(i, j).signal = signals[j]
          /\ pair(i, j).expected = joins(i, j).matched /\ pair(i, j).tier = joins(i, j).tier
      OBVIOUS
    <3> DEFINE P == Predicted(pair(i, j), correlator.window, correlator.threshold)
    <3>3. P <=> M(j).matched /\ Confident(M(j), correlator.threshold)
      BY <3>2 DEF Predicted, Confident
    <3>4. P \in BOOLEAN
      BY <3>3 DEF Predicted
    <3>5. ~NoDecision.matched
      BY DEF NoDecision
    <3> HIDE DEF pair, joins, P, M
    <3>6. CASE P
      <4>1. joins(i, j) = M(j) /\ M(j).matched = TRUE
        BY <2>2, <3>1, <3>3, <3>6
      <4>2. QED
        BY <3>2, <3>4, <3>6, <4>1 DEF P, M
    <3>7. CASE ~P
      <4>1. joins(i, j) = NoDecision
        BY <2>2, <3>3, <3>7
      <4>2. pair(i, j).expected = FALSE
        <5>1. NoDecision.matched = FALSE
          BY DEF NoDecision
        <5>2. QED
          BY <3>2, <4>1, <5>1, Zenon
      <4>3. P = FALSE
        BY <3>4, <3>7
      <4>4. QED
        BY <4>2, <4>3 DEF P
    <3>8. QED
      BY <3>6, <3>7
  <2>4. IsFiniteSet(DOMAIN pairs(i)) /\ DOMAIN pairs(i) = DOMAIN signals
        /\ \A j \in DOMAIN signals : pairs(i)[j] = pair(i, j)
    <3>1. Len(signals) \in Nat /\ DOMAIN signals = 1..Len(signals)
      BY <2>1
    <3> HIDE DEF pair
    <3>2. QED
      BY <3>1, FS_Interval
  <2>5. /\ report(i).fp = 0 /\ report(i).fn = 0 /\ report(i).tierCorrect = report(i).comparable
        /\ report(i).tp \in Nat
    <3> HIDE DEF pair, pairs
    <3>1. QED
      BY <2>3, <2>4, PerfectReport
  <2>6. EvaluateGate(report(i), 100, 100) <=> report(i).tp > 0
    <3> HIDE DEF report
    <3>1. QED
      BY <2>5, PerfectGate
  <2>7. ASSUME NEW j \in DOMAIN signals
        PROVE  IF Predicted(pair(i, j), correlator.window, correlator.threshold)
               THEN once(i, j).attributes["dns_latency_ms"] = signals[j].value
               ELSE once(i, j).attributes = batch[i].attributes
    <3>1. Predicted(pair(i, j), correlator.window, correlator.threshold)
            <=> M(j).matched /\ M(j).confidence >= OrDefault(correlator.threshold, DefaultThreshold)
      BY DEF Predicted
    <3> DEFINE P == Predicted(pair(i, j), correlator.window, correlator.threshold)
               bar == OrDefault(correlator.threshold, DefaultThreshold)
               d == Match(batch[i], dns(j), correlator.window)
    <3>2. d.confidence \in Int /\ bar \in Int
      <4>1. correlator.threshold \in Int
        BY BatchAssumption DEF BatchAssumption, BatchInv
      <4>2. QED
        BY <4>1, MatchType, Windows DEF OrDefault
    <3>3. P <=> ~(~d.matched \/ d.confidence < bar)
      <4>1. d = M(j)
        BY <2>2
      <4> HIDE DEF M, d, bar, pair
      <4>2. QED
        BY <3>1, <3>2, <4>1 DEF bar
    <3>4. P => once(i, j).attributes["dns_latency_ms"] = signals[j].value
      <4> HIDE DEF pair, dns, joins, M, P
      <4>1. P => once(i, j).attributes = [name \in DOMAIN batch[i].attributes
                                            \cup {"dns_latency_ms", ConfidenceKey} |->
                 IF name = "dns_latency_ms" THEN dns(j).value
                 ELSE IF name = ConfidenceKey THEN M(j).confidence ELSE batch[i].attributes[name]]
        BY <2>2, <3>3 DEF EnrichDNS
      <4> HIDE DEF once
      <4>2. QED
        BY <2>2, <4>1
    <3>5. ~P => once(i, j).attributes = batch[i].attributes
      <4> HIDE DEF pair, dns, joins, M, P
      <4>1. QED
        BY <2>2, <3>3 DEF EnrichDNS
    <3>6. QED
      BY <3>4, <3>5
  <2>8. QED
    BY <2>5, <2>6, <2>7
<1>2. QED
  BY BatchInit, BatchStep, <1>1, PTL DEF Spec

(* --------------------------- the storm detector ------------------------- *)

(* The parameters are numbers. *)
LEMMA Numbers == Window \in Nat /\ Threshold \in Nat \ {0} /\ MaxLag \in Nat
BY StormAssumption DEF StormAssumption

(* A number of leading elements of a sequence. *)
LEMMA InitialIndices ==
  ASSUME NEW n \in Nat, NEW O \in SUBSET (1..n), \A i \in O : 1..i \subseteq O
  PROVE  Cardinality(O) \in 0..n /\ O = 1..Cardinality(O)
<1>1. IsFiniteSet(1..n) /\ Cardinality(1..n) = n
  BY FS_Interval
<1>2. IsFiniteSet(O) /\ Cardinality(O) <= n
  BY <1>1, FS_Subset
<1>3. Cardinality(O) \in Nat
  BY <1>2, FS_CardinalityType
<1>4. O \subseteq 1..Cardinality(O)
  <2> SUFFICES ASSUME NEW i \in O PROVE i \in 1..Cardinality(O)
    OBVIOUS
  <2>1. i \in Nat /\ i >= 1 /\ 1..i \in SUBSET O
    OBVIOUS
  <2>2. Cardinality(1..i) = i
    BY <2>1, FS_Interval
  <2>3. Cardinality(1..i) <= Cardinality(O)
    BY <1>2, <2>1, FS_Subset
  <2>4. QED
    BY <1>3, <2>1, <2>2, <2>3
<1>5. IsFiniteSet(1..Cardinality(O)) /\ Cardinality(1..Cardinality(O)) = Cardinality(O)
  BY <1>3, FS_Interval
<1>6. O = 1..Cardinality(O)
  BY <1>4, <1>5, FS_Subset
<1>7. QED
  BY <1>2, <1>3, <1>6

(* Start stops at the first event that is not before the cutoff. *)
LEMMA StartStops ==
  ASSUME NEW events \in Seq(Int), NEW cutoff \in Int
  PROVE  /\ Start(events, cutoff) \in 0..Len(events)
         /\ \A i \in 1..Start(events, cutoff) : events[i] < cutoff
         /\ Start(events, cutoff) < Len(events) => events[Start(events, cutoff) + 1] >= cutoff
<1> DEFINE O == { i \in DOMAIN events : \A j \in 1..i : events[j] < cutoff }
           s == Cardinality(O)
<1>1. Len(events) \in Nat /\ DOMAIN events = 1..Len(events) /\ O \in SUBSET (1..Len(events))
  OBVIOUS
<1>2. \A i \in O : 1..i \subseteq O
  <2> SUFFICES ASSUME NEW i \in O, NEW k \in 1..i PROVE k \in O
    OBVIOUS
  <2>1. i \in 1..Len(events) /\ \A j \in 1..i : events[j] < cutoff
    OBVIOUS
  <2>2. k \in DOMAIN events /\ 1..k \subseteq 1..i
    BY <1>1, <2>1
  <2>3. QED
    BY <2>1, <2>2
<1>3. s \in 0..Len(events) /\ O = 1..s
  <2> HIDE DEF O
  <2>1. QED
    BY <1>1, <1>2, InitialIndices
<1>4. \A i \in 1..s : events[i] < cutoff
  <2> SUFFICES ASSUME NEW i \in 1..s PROVE events[i] < cutoff
    OBVIOUS
  <2>1. i \in O
    BY <1>3
  <2>2. i \in 1..i
    BY <1>3
  <2>3. QED
    BY <2>1, <2>2
<1>5. s < Len(events) => events[s + 1] >= cutoff
  <2> SUFFICES ASSUME s < Len(events), ~(events[s + 1] >= cutoff) PROVE FALSE
    OBVIOUS
  <2>1. s + 1 \in DOMAIN events /\ events[s + 1] < cutoff /\ s + 1 \notin 1..s
    BY <1>1, <1>3
  <2>2. \A j \in 1..(s + 1) : events[j] < cutoff
    <3> HIDE DEF s
    <3>1. \A j \in 1..(s + 1) : j = s + 1 \/ j \in 1..s
      BY <1>3
    <3>2. QED
      BY <1>4, <2>1, <3>1
  <2>3. s + 1 \in O
    BY <2>1, <2>2
  <2>4. QED
    BY <1>3, <2>1, <2>3
<1>6. Start(events, cutoff) = s
  BY DEF Start
<1> HIDE DEF s
<1>7. QED
  BY <1>3, <1>4, <1>5, <1>6

(* Pruning keeps a last part of the events, and what goes has left the window. *)
LEMMA Pruned ==
  ASSUME NEW events \in Seq(Int), NEW now \in Int
  PROVE  \E d \in 0..Len(events) :
           /\ PruneOld(events, now) \in Seq(Int)
           /\ Len(PruneOld(events, now)) = Len(events) - d
           /\ \A i \in 1..(Len(events) - d) : PruneOld(events, now)[i] = events[d + i]
           /\ \A i \in 1..d : events[i] < now - Window
           /\ d < Len(events) => events[d + 1] >= now - Window
<1> DEFINE d == Start(events, now - Window)
<1>1. now - Window \in Int
  BY Numbers
<1>2. /\ d \in 0..Len(events) /\ \A i \in 1..d : events[i] < now - Window
      /\ d < Len(events) => events[d + 1] >= now - Window
  BY <1>1, StartStops
<1>3. PruneOld(events, now) = SubSeq(events, d + 1, Len(events))
  BY DEF PruneOld
<1> HIDE DEF d
<1>4. /\ SubSeq(events, d + 1, Len(events)) \in Seq(Int)
      /\ Len(SubSeq(events, d + 1, Len(events))) = Len(events) - d
      /\ \A i \in 1..(Len(events) - d) : SubSeq(events, d + 1, Len(events))[i] = events[d + i]
  BY <1>2
<1>5. QED
  BY <1>2, <1>3, <1>4

(* Places behind d elements, counted with and without them. *)
LEMMA Shift ==
  ASSUME NEW i \in Int, NEW d \in Int, NEW g \in Int, NEW n \in Int, 1 <= i, 0 <= d, i <= n - d
  PROVE  d + i \in Int /\ 1 <= d + i /\ d + i <= n /\ g + (d + i) = (g + d) + i
OBVIOUS

(* What a call keeps, when the events it finds are the last ones recorded and the others   *)
(* have left the window: the same again, and nothing older than the window by more than    *)
(* twice the lag.                                                                          *)
LEMMA KeptIsRecent ==
  ASSUME NEW h \in Seq(Int), NEW events \in Seq(Int), NEW c \in Int, NEW now \in (c - MaxLag)..c,
         Len(events) <= Len(h),
         \A i \in DOMAIN events : events[i] = h[Len(h) - Len(events) + i],
         \A i \in 1..(Len(h) - Len(events)) : h[i] < c - Window,
         \A i, j \in DOMAIN h : i < j => h[j] >= h[i] - MaxLag,
         NEW left, left = PruneOld(events, now)
  PROVE  /\ left \in Seq(Int) /\ Len(left) <= Len(h)
         /\ \A i \in DOMAIN left : left[i] = h[Len(h) - Len(left) + i]
         /\ \A i \in 1..(Len(h) - Len(left)) : h[i] < c - Window
         /\ \A i \in (Len(h) - Len(left) + 1)..Len(h) : h[i] >= c - Window - 2 * MaxLag
<1> DEFINE g == Len(h) - Len(events)
<1>1. /\ Len(h) \in Nat /\ Len(events) \in Nat /\ g \in Nat /\ now \in Int /\ now <= c
      /\ now >= c - MaxLag /\ DOMAIN h = 1..Len(h) /\ DOMAIN events = 1..Len(events)
      /\ \A i \in DOMAIN h : h[i] \in Int
  BY Numbers
<1>2. PICK d \in 0..Len(events) :
        /\ left \in Seq(Int)
        /\ Len(left) = Len(events) - d
        /\ \A i \in 1..(Len(events) - d) : left[i] = events[d + i]
        /\ \A i \in 1..d : events[i] < now - Window
        /\ d < Len(events) => events[d + 1] >= now - Window
  BY <1>1, Pruned
<1>3. Len(h) - Len(left) = g + d /\ DOMAIN left = 1..Len(left) /\ Len(left) <= Len(h)
  <2>1. Len(left) = Len(events) - d /\ d \in Nat /\ d <= Len(events) /\ DOMAIN left = 1..Len(left)
    BY <1>1, <1>2
  <2>2. Len(left) <= Len(h) /\ Len(left) \in Int
    BY <1>1, <2>1
  <2>3. QED
    BY <1>1, <2>1, <2>2
<1>4. \A i \in DOMAIN events : events[i] = h[g + i]
  OBVIOUS
<1>5. \A i \in 1..g : h[i] < c - Window
  OBVIOUS
<1>6a. g = Len(h) - Len(events)
  OBVIOUS
<1> HIDE DEF g
<1>6. \A i \in DOMAIN left : left[i] = h[(g + d) + i]
  <2> TAKE i \in DOMAIN left
  <2>0. i \in Int /\ 1 <= i /\ i <= Len(events) - d /\ d \in Int /\ 0 <= d
    BY <1>1, <1>2, <1>3
  <2>1. i \in 1..(Len(events) - d) /\ d + i \in DOMAIN events /\ g + (d + i) = (g + d) + i
    <3>0. Len(events) \in Int /\ g \in Int
      BY <1>1
    <3>1. d + i \in Int /\ 1 <= d + i /\ d + i <= Len(events) /\ g + (d + i) = (g + d) + i
      BY <2>0, <3>0, Shift
    <3>2. i \in 1..(Len(events) - d)
      BY <1>1, <2>0
    <3>3. QED
      BY <1>1, <3>1, <3>2
  <2>2. left[i] = events[d + i] /\ events[d + i] = h[g + (d + i)]
    BY <1>2, <1>4, <2>1
  <2>3. QED
    BY <2>1, <2>2
<1>7. \A i \in 1..(g + d) : h[i] < c - Window
  <2> TAKE i \in 1..(g + d)
  <2>1. CASE i <= g
    BY <1>1, <1>5, <2>1
  <2>2. CASE i > g
    <3>1. i - g \in 1..d /\ i - g \in DOMAIN events /\ g + (i - g) = i /\ i \in DOMAIN h
      BY <1>1, <1>2, <1>3, <2>2
    <3>2. events[i - g] < now - Window /\ events[i - g] = h[i]
      BY <1>2, <1>4, <3>1
    <3>3. h[i] \in Int
      BY <1>1, <3>1
    <3>4. QED
      BY <1>1, <3>2, <3>3, Numbers
  <2>3. QED
    BY <1>1, <2>1, <2>2
<1>8. \A i \in (g + d + 1)..Len(h) : h[i] >= c - Window - 2 * MaxLag
  <2> TAKE i \in (g + d + 1)..Len(h)
  <2>a. d \in Int /\ 0 <= d /\ g \in Int /\ Len(h) \in Int
    BY <1>1, <1>2
  <2>b. i \in Int /\ g + d + 1 <= i /\ i <= Len(h)
    BY <2>a
  <2>1. d < Len(events) /\ d + 1 \in DOMAIN events /\ g + (d + 1) = g + d + 1
    BY <1>1, <1>6a, <2>a, <2>b
  <2>2. h[g + d + 1] >= now - Window
    BY <1>2, <1>4, <2>1
  <2>0. i \in Int /\ g + d + 1 <= i /\ i <= Len(h) /\ d \in Int /\ 0 <= d
    BY <1>1
  <2>3. i \in DOMAIN h /\ g + d + 1 \in DOMAIN h /\ h[i] \in Int /\ h[g + d + 1] \in Int
    <3>1. 1 <= i /\ 1 <= g + d + 1 /\ g + d + 1 <= Len(h) /\ g + d + 1 \in Int
      BY <1>1, <2>0
    <3>2. QED
      BY <1>1, <2>0, <3>1
  <2>4. h[i] >= h[g + d + 1] - MaxLag
    <3>1. CASE i = g + d + 1
      BY <2>3, <3>1, Numbers
    <3>2. CASE i # g + d + 1
      <4>1. g + d + 1 < i
        BY <1>1, <2>0, <3>2
      <4>2. QED
        BY <2>3, <4>1
    <3>3. QED
      BY <3>1, <3>2
  <2>5. QED
    BY <1>1, <2>2, <2>3, <2>4, Numbers
<1>9. QED
  BY <1>2, <1>3, <1>6, <1>7, <1>8

---------------------------------------------------------------------------
(* No record is ahead of the clock, nor further behind an earlier one than the lag. *)
Arrivals ==
  \A p \in Pods :
    /\ \A i \in DOMAIN recorded[p] : recorded[p][i] <= clock
    /\ \A i, j \in DOMAIN recorded[p] : i < j => recorded[p][j] >= recorded[p][i] - MaxLag

(* The events behind the last verdict are the last ones recorded; the others had left the  *)
(* window, and these are at most twice the lag older than it.                              *)
AnswerInv ==
  answer # NoAnswer =>
    LET h == recorded[answer.pod]
        gone == Len(h) - answer.count IN
    /\ answer.pod \in Pods /\ answer.count <= Len(h)
    /\ answer.storm = (answer.count >= Threshold)
    /\ \A i \in 1..gone : h[i] < answer.at - Window
    /\ \A i \in (gone + 1)..Len(h) : h[i] >= answer.at - Window - 2 * MaxLag

StormInv == TypeOK /\ Arrivals /\ ForgetsOnlyThePast /\ AnswerInv

(* A bucket that is kept is the pod's, and the other pods' buckets stay. *)
LEMMA KeepSets ==
  ASSUME NEW p \in Pods, NEW events, Keep(p, events), DOMAIN buckets \subseteq Pods
  PROVE  /\ DOMAIN buckets' \subseteq Pods
         /\ \A q \in DOMAIN buckets' : buckets'[q] = (IF q = p THEN events ELSE buckets[q])
         /\ \A q \in DOMAIN buckets' : q # p => q \in DOMAIN buckets
         /\ \A q \in Pods : Bucket(q)' = IF q = p THEN events ELSE Bucket(q)
BY DEF Keep, Bucket

(* A call of Record or Query on events that satisfy the invariant leaves it so. *)
LEMMA CallKeeps ==
  ASSUME StormInv, NEW p \in Pods, NEW now \in CallTimes, NEW events \in Seq(Int), clock' = clock,
         recorded' \in [Pods -> Seq(Int)], \A q \in Pods : q # p => recorded'[q] = recorded[q],
         Arrivals', Keep(p, PruneOld(events, now)),
         Len(events) <= Len(recorded'[p]),
         \A i \in DOMAIN events : events[i] = recorded'[p][Len(recorded'[p]) - Len(events) + i],
         \A i \in 1..(Len(recorded'[p]) - Len(events)) : recorded'[p][i] < clock - Window
  PROVE  StormInv'
<1> DEFINE left == PruneOld(events, now)
           h == recorded'[p]
<1>1. /\ h \in Seq(Int) /\ clock \in Int /\ now \in (clock - MaxLag)..clock
      /\ \A i, j \in DOMAIN h : i < j => h[j] >= h[i] - MaxLag
  BY DEF StormInv, TypeOK, Arrivals, CallTimes
<1>2. /\ left \in Seq(Int) /\ Len(left) <= Len(h)
      /\ \A i \in DOMAIN left : left[i] = h[Len(h) - Len(left) + i]
      /\ \A i \in 1..(Len(h) - Len(left)) : h[i] < clock - Window
      /\ \A i \in (Len(h) - Len(left) + 1)..Len(h) : h[i] >= clock - Window - 2 * MaxLag
  BY <1>1, KeptIsRecent
<1>3. /\ DOMAIN buckets' \subseteq Pods
      /\ \A q \in DOMAIN buckets' : buckets'[q] = (IF q = p THEN left ELSE buckets[q])
      /\ \A q \in DOMAIN buckets' : q # p => q \in DOMAIN buckets
      /\ \A q \in Pods : Bucket(q)' = IF q = p THEN left ELSE Bucket(q)
  BY KeepSets DEF StormInv, TypeOK
<1>4. answer' = [pod |-> p, at |-> clock, count |-> Len(left), storm |-> Len(left) >= Threshold]
  BY DEF Keep
<1> HIDE DEF left, h
<1>5. Len(left) \in Nat /\ (Len(left) >= Threshold) \in BOOLEAN
  BY <1>2
<1>6. /\ answer'.pod = p /\ answer'.at = clock /\ answer'.count = Len(left)
      /\ answer'.storm = (Len(left) >= Threshold)
  BY <1>4
<1>7. TypeOK'
  <2>1. \A q \in DOMAIN buckets' : buckets'[q] \in Seq(Int)
    BY <1>2, <1>3 DEF StormInv, TypeOK
  <2>2. \A q \in Pods : Len(Bucket(q)') <= Len(recorded'[q])
    BY <1>2, <1>3 DEF StormInv, TypeOK, h
  <2>3. answer'.at \in 0..clock' /\ answer'.count \in Nat /\ answer'.storm \in BOOLEAN
    BY <1>5, <1>6 DEF StormInv, TypeOK
  <2>4. QED
    BY <1>3, <1>6, <2>1, <2>2, <2>3 DEF StormInv, TypeOK
<1>8. ForgetsOnlyThePast'
  <2> SUFFICES ASSUME NEW q \in Pods
               PROVE  /\ \A i \in DOMAIN Bucket(q)' :
                            Bucket(q)'[i] = recorded'[q][Len(recorded'[q]) - Len(Bucket(q)') + i]
                      /\ \A i \in 1..(Len(recorded'[q]) - Len(Bucket(q)')) :
                            recorded'[q][i] < clock' - Window
    BY DEF ForgetsOnlyThePast
  <2>1. CASE q = p
    BY <1>2, <1>3, <2>1 DEF h
  <2>2. CASE q # p
    <3>1. Bucket(q)' = Bucket(q) /\ recorded'[q] = recorded[q] /\ clock' = clock
      BY <1>3, <2>2
    <3>2. /\ \A i \in DOMAIN Bucket(q) :
               Bucket(q)[i] = recorded[q][Len(recorded[q]) - Len(Bucket(q)) + i]
          /\ \A i \in 1..(Len(recorded[q]) - Len(Bucket(q))) : recorded[q][i] < clock - Window
      BY DEF StormInv, ForgetsOnlyThePast
    <3>3. QED
      BY <3>1, <3>2
  <2>3. QED
    BY <2>1, <2>2
<1>9. AnswerInv'
  <2>1. h = recorded'[answer'.pod]
    BY <1>6 DEF h
  <2>2. /\ answer'.pod \in Pods /\ answer'.count <= Len(h)
        /\ answer'.storm = (answer'.count >= Threshold)
        /\ \A i \in 1..(Len(h) - answer'.count) : h[i] < answer'.at - Window
        /\ \A i \in (Len(h) - answer'.count + 1)..Len(h) :
              h[i] >= answer'.at - Window - 2 * MaxLag
    BY <1>2, <1>6
  <2>3. QED
    BY <2>1, <2>2 DEF AnswerInv
<1>10. QED
  BY <1>7, <1>8, <1>9 DEF StormInv

(* One more record, and one more event behind the ones that were there. *)
LEMMA RecordKeeps ==
  ASSUME StormInv, NEW p \in Pods, NEW ts \in CallTimes, Record(p, ts)
  PROVE  StormInv'
<1> DEFINE h == recorded[p]
           b == Bucket(p)
           events == Append(b, ts)
           h1 == Append(h, ts)
<1>1. /\ h \in Seq(Int) /\ b \in Seq(Int) /\ ts \in Int /\ clock \in Int /\ Len(b) <= Len(h)
      /\ ts <= clock /\ ts >= clock - MaxLag
  BY Numbers DEF StormInv, TypeOK, CallTimes, Bucket
<1>2. /\ clock' = clock /\ recorded' = [recorded EXCEPT ![p] = h1]
      /\ Keep(p, PruneOld(events, ts))
  BY DEF Record
<1>3. /\ \A i \in DOMAIN b : b[i] = h[Len(h) - Len(b) + i]
      /\ \A i \in 1..(Len(h) - Len(b)) : h[i] < clock - Window
  BY DEF StormInv, ForgetsOnlyThePast
<1>4. /\ \A i \in DOMAIN h : h[i] \in Int /\ h[i] <= clock
      /\ \A i, j \in DOMAIN h : i < j => h[j] >= h[i] - MaxLag
  BY <1>1 DEF StormInv, Arrivals
<1> HIDE DEF h, b
<1>5. /\ h1 \in Seq(Int) /\ Len(h1) = Len(h) + 1 /\ h1[Len(h) + 1] = ts
      /\ DOMAIN h1 = 1..(Len(h) + 1) /\ DOMAIN h = 1..Len(h) /\ Len(h) \in Nat
      /\ \A i \in 1..Len(h) : h1[i] = h[i]
  BY <1>1
<1>6. /\ events \in Seq(Int) /\ Len(events) = Len(b) + 1 /\ events[Len(b) + 1] = ts
      /\ DOMAIN events = 1..(Len(b) + 1) /\ DOMAIN b = 1..Len(b) /\ Len(b) \in Nat
      /\ \A i \in 1..Len(b) : events[i] = b[i]
  BY <1>1
<1> HIDE DEF h1, events
<1>7. /\ recorded' \in [Pods -> Seq(Int)] /\ recorded'[p] = h1
      /\ \A q \in Pods : q # p => recorded'[q] = recorded[q]
  BY <1>2, <1>5 DEF StormInv, TypeOK
<1>8. Arrivals'
  <2> SUFFICES ASSUME NEW q \in Pods
               PROVE  /\ \A i \in DOMAIN recorded'[q] : recorded'[q][i] <= clock
                      /\ \A i, j \in DOMAIN recorded'[q] :
                           i < j => recorded'[q][j] >= recorded'[q][i] - MaxLag
    BY <1>2 DEF Arrivals
  <2>1. CASE q = p
    <3>1. \A i \in DOMAIN h1 : h1[i] \in Int /\ h1[i] <= clock
      <4> TAKE i \in DOMAIN h1
      <4>1. i \in DOMAIN h \/ i = Len(h) + 1
        BY <1>5
      <4>2. QED
        BY <1>1, <1>4, <1>5, <4>1
    <3>2. \A i, j \in DOMAIN h1 : i < j => h1[j] >= h1[i] - MaxLag
      <4> SUFFICES ASSUME NEW i \in DOMAIN h1, NEW j \in DOMAIN h1, i < j
                   PROVE  h1[j] >= h1[i] - MaxLag
        OBVIOUS
      <4>1. i \in DOMAIN h /\ h1[i] = h[i] /\ h[i] \in Int /\ h[i] <= clock
        BY <1>4, <1>5
      <4>2. CASE j \in DOMAIN h
        BY <1>4, <1>5, <4>1, <4>2
      <4>3. CASE j = Len(h) + 1
        BY <1>1, <1>5, <4>1, <4>3, Numbers
      <4>4. QED
        BY <1>5, <4>2, <4>3
    <3>3. QED
      BY <1>7, <2>1, <3>1, <3>2
  <2>2. CASE q # p
    BY <1>7, <2>2 DEF StormInv, Arrivals
  <2>3. QED
    BY <2>1, <2>2
<1>9. Len(h1) - Len(events) = Len(h) - Len(b) /\ Len(events) <= Len(h1)
  BY <1>1, <1>5, <1>6
<1>10. \A i \in DOMAIN events : events[i] = h1[Len(h1) - Len(events) + i]
  <2> TAKE i \in DOMAIN events
  <2>1. CASE i \in DOMAIN b
    <3>0. /\ Len(h) \in Int /\ Len(b) \in Int /\ Len(b) <= Len(h)
          /\ i \in Int /\ 1 <= i /\ i <= Len(b)
      BY <1>1, <1>5, <1>6, <2>1
    <3>1. Len(h) - Len(b) + i \in 1..Len(h)
      BY <3>0
    <3>2. events[i] = b[i] /\ b[i] = h[Len(h) - Len(b) + i]
      BY <1>3, <1>6, <2>1
    <3>3. QED
      BY <1>5, <1>9, <3>1, <3>2
  <2>2. CASE i = Len(b) + 1
    <3>1. Len(h) - Len(b) + i = Len(h) + 1
      BY <1>5, <1>6, <2>2
    <3>2. QED
      BY <1>5, <1>6, <1>9, <2>2, <3>1
  <2>3. QED
    BY <1>6, <2>1, <2>2
<1>11. \A i \in 1..(Len(h1) - Len(events)) : h1[i] < clock - Window
  <2> TAKE i \in 1..(Len(h1) - Len(events))
  <2>1. i \in 1..(Len(h) - Len(b)) /\ i \in 1..Len(h)
    BY <1>5, <1>6, <1>9
  <2>2. QED
    BY <1>3, <1>5, <2>1
<1>12. /\ Len(events) <= Len(recorded'[p])
       /\ \A i \in DOMAIN events :
            events[i] = recorded'[p][Len(recorded'[p]) - Len(events) + i]
       /\ \A i \in 1..(Len(recorded'[p]) - Len(events)) : recorded'[p][i] < clock - Window
  BY <1>7, <1>9, <1>10, <1>11
<1>13. events \in Seq(Int) /\ clock' = clock /\ Keep(p, PruneOld(events, ts))
  BY <1>2, <1>6
<1>14. QED
  BY <1>7, <1>8, <1>12, <1>13, CallKeeps

(* A query adds nothing. *)
LEMMA QueryKeeps ==
  ASSUME StormInv, NEW p \in Pods, NEW now \in CallTimes, Query(p, now)
  PROVE  StormInv'
<1>1. UNCHANGED <<clock, recorded>> /\ Arrivals'
  BY DEF Query, StormInv, Arrivals
<1>2. CASE p \in DOMAIN buckets /\ Keep(p, PruneOld(buckets[p], now))
  <2>1. buckets[p] = Bucket(p) /\ buckets[p] \in Seq(Int) /\ Len(buckets[p]) <= Len(recorded[p])
    BY <1>2 DEF Bucket, StormInv, TypeOK
  <2>2. /\ \A i \in DOMAIN Bucket(p) :
             Bucket(p)[i] = recorded[p][Len(recorded[p]) - Len(Bucket(p)) + i]
        /\ \A i \in 1..(Len(recorded[p]) - Len(Bucket(p))) : recorded[p][i] < clock - Window
    BY DEF StormInv, ForgetsOnlyThePast
  <2>3. recorded' = recorded /\ recorded \in [Pods -> Seq(Int)]
    BY <1>1 DEF StormInv, TypeOK
  <2>4. QED
    BY <1>1, <1>2, <2>1, <2>2, <2>3, CallKeeps
<1>3. CASE /\ p \notin DOMAIN buckets /\ UNCHANGED buckets
           /\ answer' = [pod |-> p, at |-> clock, count |-> 0, storm |-> FALSE]
  <2>1. /\ answer'.pod = p /\ answer'.at = clock /\ answer'.count = 0 /\ answer'.storm = FALSE
    BY <1>3
  <2>2. TypeOK' /\ ForgetsOnlyThePast'
    <3>1. \A q \in Pods : Bucket(q)' = Bucket(q)
      BY <1>3 DEF Bucket
    <3>2. ForgetsOnlyThePast'
      BY <1>1, <3>1 DEF StormInv, ForgetsOnlyThePast
    <3>3. 0 \in Nat /\ FALSE \in BOOLEAN /\ clock \in Nat
      BY DEF StormInv, TypeOK
    <3>4. TypeOK'
      BY <1>1, <1>3, <3>1, <3>3 DEF StormInv, TypeOK
    <3>5. QED
      BY <3>2, <3>4
  <2>3. Bucket(p) = << >> /\ Len(recorded[p]) \in Nat
    BY <1>3 DEF Bucket, StormInv, TypeOK
  <2>4. \A i \in 1..Len(recorded[p]) : recorded[p][i] < clock - Window
    <3>1. Len(recorded[p]) - Len(Bucket(p)) = Len(recorded[p])
      BY <2>3
    <3>2. QED
      BY <3>1 DEF StormInv, ForgetsOnlyThePast
  <2>5. (0 >= Threshold) = FALSE
    BY Numbers
  <2>6. AnswerInv'
    <3> DEFINE h == recorded'[answer'.pod]
    <3>1. h = recorded[p] /\ Len(h) \in Nat /\ Len(h) - answer'.count = Len(h)
      BY <1>1, <2>1, <2>3
    <3>2. \A i \in 1..Len(h) : h[i] < answer'.at - Window
      BY <2>1, <2>4, <3>1
    <3>3. (Len(h) + 1)..Len(h) = {}
      BY <3>1
    <3>4. /\ answer'.pod \in Pods /\ answer'.count <= Len(h)
          /\ answer'.storm = (answer'.count >= Threshold)
      <4>1. answer'.count <= Len(h)
        BY <2>1, <3>1
      <4>2. answer'.storm = (answer'.count >= Threshold)
        BY <2>1, <2>5
      <4>3. QED
        BY <2>1, <4>1, <4>2
    <3> HIDE DEF h
    <3>5. /\ \A i \in 1..(Len(h) - answer'.count) : h[i] < answer'.at - Window
          /\ \A i \in (Len(h) - answer'.count + 1)..Len(h) :
                h[i] >= answer'.at - Window - 2 * MaxLag
      BY <3>1, <3>2, <3>3
    <3>6. QED
      BY <3>4, <3>5 DEF AnswerInv, h
  <2>7. QED
    BY <1>1, <2>2, <2>6 DEF StormInv
<1>4. QED
  BY <1>2, <1>3 DEF Query

(* The invariant holds from the start and through every step. *)
LEMMA InvariantHolds == StormSpec => []StormInv
<1>1. StormInit => StormInv
  <2> SUFFICES ASSUME StormInit PROVE StormInv
    OBVIOUS
  <2>1. \A p \in Pods : Bucket(p) = << >> /\ recorded[p] = << >>
    BY DEF StormInit, Bucket
  <2>2. TypeOK
    BY <2>1 DEF StormInit, TypeOK, NoAnswer
  <2>3. QED
    BY <2>1, <2>2 DEF StormInit, StormInv, Arrivals, ForgetsOnlyThePast, AnswerInv
<1>2. StormInv /\ [StormNext]_stormVars => StormInv'
  <2> SUFFICES ASSUME StormInv, [StormNext]_stormVars PROVE StormInv'
    OBVIOUS
  <2>1. CASE Reset
    <3>1. \A p \in Pods : Bucket(p)' = << >> /\ recorded'[p] = << >>
      BY <2>1 DEF Reset, Bucket
    <3>2. TypeOK'
      BY <2>1, <3>1 DEF Reset, TypeOK, StormInv, NoAnswer
    <3>3. QED
      BY <2>1, <3>1, <3>2 DEF Reset, StormInv, Arrivals, ForgetsOnlyThePast, AnswerInv
  <2>2. CASE TimePasses
    <3>1. clock \in Nat /\ clock' = clock + 1 /\ UNCHANGED <<buckets, recorded, answer>>
      BY <2>2 DEF TimePasses, StormInv, TypeOK
    <3>2. \A p \in Pods : \A i \in DOMAIN recorded[p] : recorded[p][i] \in Int
      BY DEF StormInv, TypeOK
    <3>3. TypeOK'
      BY <3>1 DEF StormInv, TypeOK, Bucket
    <3>4. Arrivals'
      BY <3>1, <3>2 DEF StormInv, Arrivals
    <3>5. ForgetsOnlyThePast'
      <4>0. \A p \in Pods : Bucket(p)' = Bucket(p)
        BY <3>1 DEF Bucket
      <4> SUFFICES ASSUME NEW p \in Pods
                   PROVE  /\ \A i \in DOMAIN Bucket(p)' :
                               Bucket(p)'[i] = recorded'[p][Len(recorded'[p]) - Len(Bucket(p)') + i]
                          /\ \A i \in 1..(Len(recorded'[p]) - Len(Bucket(p)')) :
                               recorded'[p][i] < clock' - Window
        BY DEF ForgetsOnlyThePast
      <4>1. /\ \A i \in DOMAIN Bucket(p) :
                 Bucket(p)[i] = recorded[p][Len(recorded[p]) - Len(Bucket(p)) + i]
            /\ \A i \in 1..(Len(recorded[p]) - Len(Bucket(p))) : recorded[p][i] < clock - Window
        BY DEF StormInv, ForgetsOnlyThePast
      <4>2. \A i \in 1..(Len(recorded[p]) - Len(Bucket(p))) : recorded[p][i] < clock' - Window
        <5> TAKE i \in 1..(Len(recorded[p]) - Len(Bucket(p)))
        <5>1. Len(Bucket(p)) \in Nat /\ Len(recorded[p]) \in Nat
              /\ DOMAIN recorded[p] = 1..Len(recorded[p])
          BY DEF StormInv, TypeOK, Bucket
        <5>2. recorded[p][i] \in Int
          BY <3>2, <5>1
        <5>3. recorded[p][i] < clock - Window
          BY <4>1
        <5>4. QED
          BY <3>1, <5>2, <5>3, Numbers
      <4>3. Bucket(p)' = Bucket(p) /\ recorded'[p] = recorded[p]
        BY <3>1, <4>0
      <4>4. QED
        BY <4>1, <4>2, <4>3
    <3>6. QED
      BY <3>1, <3>3, <3>4, <3>5 DEF StormInv, AnswerInv
  <2>3. CASE UNCHANGED stormVars
    BY <2>3 DEF stormVars, StormInv, TypeOK, Arrivals, ForgetsOnlyThePast, AnswerInv, Bucket
  <2>4. QED
    BY <2>1, <2>2, <2>3, RecordKeeps, QueryKeeps DEF StormNext
<1>3. QED
  BY <1>1, <1>2, PTL DEF StormSpec

(* Every step keeps the types, and no bucket holds more than was recorded. *)
THEOREM TypeCorrect == StormSpec => []TypeOK
<1>1. StormInv => TypeOK
  BY DEF StormInv
<1>2. QED
  BY <1>1, InvariantHolds, PTL

(* Pruning by calls whose times go back never drops an event a later call could need. *)
THEOREM ForgetsThePastOnly == StormSpec => []ForgetsOnlyThePast
<1>1. StormInv => ForgetsOnlyThePast
  BY DEF StormInv
<1>2. QED
  BY <1>1, InvariantHolds, PTL

(* The verdicts lie between the counts of two windows, which are one when times do not go  *)
(* back: none misses a storm of the window, none reports one of older events.              *)
THEOREM VerdictsBetween == StormSpec => []VerdictsBetweenWindows
<1>1. StormInv => NoStormMissed /\ NoStaleStorm
  <2> SUFFICES ASSUME StormInv PROVE NoStormMissed /\ NoStaleStorm
    OBVIOUS
  <2>1. CASE answer = NoAnswer
    BY <2>1 DEF NoStormMissed, NoStaleStorm, NoAnswer
  <2>2. CASE answer # NoAnswer
    <3> DEFINE p == answer.pod
               h == recorded[p]
               gone == Len(h) - answer.count
               window == Since(p, answer.at - Window)
               wider == Since(p, answer.at - Window - 2 * MaxLag)
    <3>1. /\ p \in Pods /\ answer.count <= Len(h) /\ answer.storm = (answer.count >= Threshold)
          /\ \A i \in 1..gone : h[i] < answer.at - Window
          /\ \A i \in (gone + 1)..Len(h) : h[i] >= answer.at - Window - 2 * MaxLag
      BY <2>2 DEF StormInv, AnswerInv
    <3>2. /\ h \in Seq(Int) /\ Len(h) \in Nat /\ DOMAIN h = 1..Len(h) /\ answer.at \in Int
          /\ answer.count \in Nat /\ gone \in Nat /\ \A i \in DOMAIN h : h[i] \in Int
      BY <3>1 DEF StormInv, TypeOK
    <3>3. /\ IsFiniteSet((gone + 1)..Len(h))
          /\ Cardinality((gone + 1)..Len(h)) = answer.count
      <4>1. /\ gone + 1 \in Int /\ Len(h) \in Int
            /\ answer.count = IF gone + 1 > Len(h) THEN 0 ELSE Len(h) - (gone + 1) + 1
        BY <3>2
      <4> HIDE DEF gone, h
      <4>2. QED
        BY <4>1, FS_Interval
    <3>4. window \subseteq (gone + 1)..Len(h)
      <4> SUFFICES ASSUME NEW i \in window PROVE i \in (gone + 1)..Len(h)
        OBVIOUS
      <4>1. i \in DOMAIN h /\ h[i] >= answer.at - Window
        BY DEF Since
      <4>2. i \notin 1..gone
        BY <3>1, <3>2, <4>1, Numbers
      <4>3. QED
        BY <3>2, <4>1, <4>2
    <3>5. (gone + 1)..Len(h) \subseteq wider
      <4> SUFFICES ASSUME NEW i \in (gone + 1)..Len(h) PROVE i \in wider
        OBVIOUS
      <4>1. i \in DOMAIN h /\ h[i] >= answer.at - Window - 2 * MaxLag
        BY <3>1, <3>2
      <4>2. QED
        BY <4>1 DEF Since
    <3>6. IsFiniteSet(wider)
      <4>1. wider \in SUBSET (1..Len(h)) /\ IsFiniteSet(1..Len(h))
        <5>1. wider \subseteq DOMAIN h
          BY DEF Since
        <5>2. IsFiniteSet(1..Len(h))
          <6> HIDE DEF h
          <6>1. QED
            BY <3>2, FS_Interval
        <5>3. QED
          BY <3>2, <5>1, <5>2
      <4>2. QED
        BY <4>1, FS_Subset
    <3> HIDE DEF gone, window, wider
    <3>7. Cardinality(window) <= answer.count /\ Cardinality(window) \in Nat
      BY <3>3, <3>4, FS_Subset, FS_CardinalityType
    <3>8. answer.count <= Cardinality(wider) /\ Cardinality(wider) \in Nat
      BY <3>3, <3>5, <3>6, FS_Subset, FS_CardinalityType
    <3>9. NoStormMissed
      <4>0. answer.count >= Threshold => answer.storm
        BY <3>1, Zenon
      <4>1. Cardinality(window) >= Threshold => answer.count >= Threshold
        BY <3>2, <3>7, Numbers
      <4>2. QED
        BY <4>0, <4>1 DEF NoStormMissed, window
    <3>10. NoStaleStorm
      <4>0. answer.storm => answer.count >= Threshold
        BY <3>1, Zenon
      <4>1. answer.count >= Threshold => Cardinality(wider) >= Threshold
        BY <3>2, <3>8, Numbers
      <4>2. QED
        BY <4>0, <4>1 DEF NoStaleStorm, wider
    <3>11. QED
      BY <3>9, <3>10
  <2>3. QED
    BY <2>1, <2>2
<1>2. StormInv => VerdictsBetweenWindows
  BY <1>1 DEF VerdictsBetweenWindows
<1>3. QED
  BY <1>2, InvariantHolds, PTL

(* ------------------------------ the artifacts --------------------------- *)

(* The artifacts before the one that is written next are not old, and the  *)
(* three that fail the run when they cannot be written are new.            *)
BundleInv ==
  /\ files \in [1..6 -> {"old", "new", "lost"}] /\ at \in 1..7
  /\ pc \in {"replay", "replay_failed", "encode", "generate", "load", "validate", "write", "exit"}
  /\ pc \notin {"write", "exit"} => at = 1
  /\ pc # "exit" => exitCode = -1 /\ \A i \in 1..6 : i >= at => files[i] = "old"
  /\ \A i \in 1..6 : i > at => files[i] = "old"
  /\ \A i \in 1..6 : i < at => files[i] # "old" /\ (i >= 4 => files[i] = "new")
  /\ at = 6 /\ pc = "exit" => files[6] # "new"
  /\ exitCode = 0 => at = 7

LEMMA ArtifactsAre ==
  /\ DOMAIN Artifacts = 1..6 /\ Len(Artifacts) = 6
  /\ \A i \in 1..6 :
       /\ Artifacts[i] = "predictions" <=> i = 1
       /\ Artifacts[i] = "confusion" <=> i = 2
       /\ Artifacts[i] = "overhead" <=> i = 3
       /\ Artifacts[i] = "summary" <=> i = 4
       /\ Artifacts[i] = "report" <=> i = 5
       /\ Artifacts[i] = "provenance" <=> i = 6
BY DEF Artifacts

LEMMA BundleInit == BenchInit => BundleInv
<1> SUFFICES ASSUME BenchInit PROVE BundleInv
  OBVIOUS
<1>1. files = [i \in 1..6 |-> "old"] /\ at = 1 /\ pc = "replay" /\ exitCode = -1
  BY ArtifactsAre DEF BenchInit
<1>2. QED
  BY <1>1 DEF BundleInv

(* A step of benchgen's writers. *)
LEMMA BundleWrites ==
  ASSUME BundleInv, at \in 1..6, pc = "write", NEW status \in {"new", "lost", "old"},
         files' = [files EXCEPT ![at] = status],
         \/ at' = at + 1 /\ UNCHANGED <<pc, exitCode>> /\ status # "old" /\ (at >= 4 => status = "new")
         \/ at' = at /\ exitCode' = 1 /\ pc' = "exit" /\ status # "new"
  PROVE  BundleInv'
<1>1. files' \in [1..6 -> {"old", "new", "lost"}] /\ at' \in 1..7
  BY DEF BundleInv
<1>2. \A i \in 1..6 : files'[i] = IF i = at THEN status ELSE files[i]
  BY DEF BundleInv
<1>3. at \in Int /\ exitCode = -1 /\ \A i \in 1..6 : i >= at => files[i] = "old"
  BY DEF BundleInv
<1>4. \A i \in 1..6 : i < at => files[i] # "old" /\ (i >= 4 => files[i] = "new")
  BY DEF BundleInv
<1>5. CASE at' = at + 1 /\ UNCHANGED <<pc, exitCode>> /\ status # "old" /\ (at >= 4 => status = "new")
  <2>1. \A i \in 1..6 : i >= at' => files'[i] = "old"
    BY <1>2, <1>3, <1>5
  <2>2. \A i \in 1..6 : i < at' => files'[i] # "old" /\ (i >= 4 => files'[i] = "new")
    BY <1>2, <1>3, <1>4, <1>5
  <2>3. QED
    BY <1>1, <1>3, <1>5, <2>1, <2>2 DEF BundleInv
<1>6. CASE at' = at /\ exitCode' = 1 /\ pc' = "exit" /\ status # "new"
  <2>1. \A i \in 1..6 : i > at' => files'[i] = "old"
    BY <1>2, <1>3, <1>6
  <2>2. \A i \in 1..6 : i < at' => files'[i] # "old" /\ (i >= 4 => files'[i] = "new")
    BY <1>2, <1>3, <1>4, <1>6
  <2>3. at' = 6 => files'[6] # "new"
    BY <1>2, <1>6
  <2>4. QED
    BY <1>1, <1>6, <2>1, <2>2, <2>3 DEF BundleInv
<1>7. QED
  BY <1>5, <1>6

(* What each of the six writers does to the bundle. *)
LEMMA WritersPut ==
  ASSUME BundleInv, Write
  PROVE  /\ at \in 1..6 /\ pc = "write"
         /\ \E status \in {"new", "lost", "old"} :
              /\ files' = [files EXCEPT ![at] = status]
              /\ \/ at' = at + 1 /\ UNCHANGED <<pc, exitCode>> /\ status # "old" /\ (at >= 4 => status = "new")
                 \/ at' = at /\ exitCode' = 1 /\ pc' = "exit" /\ status # "new"
         /\ UNCHANGED <<replay, run, todo, input, samples, predictions>>
<1>1. at \in 1..6
  BY ArtifactsAre DEF Write
<1>2. ASSUME NEW a, WriteCSV(a), at < 4
      PROVE  /\ pc = "write"
             /\ \E status \in {"new", "lost", "old"} :
                  /\ files' = [files EXCEPT ![at] = status]
                  /\ \/ at' = at + 1 /\ UNCHANGED <<pc, exitCode>> /\ status # "old" /\ (at >= 4 => status = "new")
                     \/ at' = at /\ exitCode' = 1 /\ pc' = "exit" /\ status # "new"
             /\ UNCHANGED <<replay, run, todo, input, samples, predictions>>
  BY <1>1, <1>2 DEF WriteCSV, Put, GoOn, Stop, Fail
<1>3. ASSUME NEW a, WriteFile(a)
      PROVE  /\ pc = "write"
             /\ \E status \in {"new", "lost", "old"} :
                  /\ files' = [files EXCEPT ![at] = status]
                  /\ \/ at' = at + 1 /\ UNCHANGED <<pc, exitCode>> /\ status # "old" /\ (at >= 4 => status = "new")
                     \/ at' = at /\ exitCode' = 1 /\ pc' = "exit" /\ status # "new"
             /\ UNCHANGED <<replay, run, todo, input, samples, predictions>>
  BY <1>3 DEF WriteFile, Put, GoOn, Stop, Fail
<1>4. CASE WriteIncidentPredictions \/ WriteConfusionMatrix \/ WriteCollectorOverhead
  <2>1. \E a \in {"predictions", "confusion", "overhead"} : WriteCSV(a) /\ Artifacts[at] = a
    BY <1>4 DEF WriteIncidentPredictions, WriteConfusionMatrix, WriteCollectorOverhead, WriteCSV
  <2>2. at < 4
    BY <1>1, <2>1, ArtifactsAre
  <2>3. QED
    BY <1>1, <1>2, <2>1, <2>2
<1>5. CASE WriteSummary \/ WriteReportMarkdown \/ WriteProvenance
  <2>1. \E a \in {"summary", "report", "provenance"} : WriteFile(a)
    BY <1>5 DEF WriteSummary, WriteReportMarkdown, WriteProvenance
  <2>2. QED
    BY <1>1, <1>3, <2>1
<1>6. QED
  BY <1>4, <1>5 DEF Write

LEMMA BundleStep == BundleInv /\ [BenchNext]_benchVars => BundleInv'
<1> SUFFICES ASSUME BundleInv, [BenchNext]_benchVars PROVE BundleInv'
  OBVIOUS
<1>1. CASE UNCHANGED <<files, at>> /\ pc \notin {"write", "exit"} /\ exitCode' = exitCode
           /\ pc' \in {"replay", "replay_failed", "encode", "generate", "load", "validate", "write"}
  <2>1. at' = 1 /\ files' = files /\ exitCode' = -1 /\ at = 1
    BY <1>1 DEF BundleInv
  <2>2. QED
    BY <1>1, <2>1 DEF BundleInv
<1>2. CASE UNCHANGED <<files, at>> /\ pc \notin {"write", "exit"} /\ exitCode' = 1 /\ pc' = "exit"
  <2>1. at' = 1 /\ files' = files /\ at = 1
    BY <1>2 DEF BundleInv
  <2>2. QED
    BY <1>2, <2>1 DEF BundleInv
<1>3. CASE Replay \/ Encode \/ Benchgen
  <2>1. UNCHANGED <<files, at, exitCode>> /\ pc \in {"replay", "encode", "replay_failed", "generate"}
    BY <1>3 DEF Replay, Encode, Benchgen, work
  <2>2. pc' \in {"replay_failed", "encode", "generate", "load"}
    BY <1>3 DEF Replay, Encode, Benchgen
  <2>3. QED
    BY <1>1, <2>1, <2>2
<1>4. CASE Load \/ ValidateAgainstSchema
  <2>1. UNCHANGED <<files, at>> /\ pc \in {"load", "validate"}
    BY <1>4 DEF Load, ValidateAgainstSchema, work
  <2>2. \/ pc' \in {"validate", "write"} /\ exitCode' = exitCode
        \/ pc' = "exit" /\ exitCode' = 1
    BY <1>4 DEF Load, ValidateAgainstSchema, Fail
  <2>3. QED
    BY <1>1, <1>2, <2>1, <2>2
<1>5. CASE Write
  BY <1>5, WritersPut, BundleWrites
<1>6. CASE Return
  <2>1. pc = "write" /\ at > 6 /\ pc' = "exit" /\ exitCode' = 0 /\ UNCHANGED <<files, at>>
    BY <1>6, ArtifactsAre DEF Return, work
  <2>2. at = 7
    BY <2>1 DEF BundleInv
  <2>3. QED
    BY <2>1, <2>2 DEF BundleInv
<1>7. CASE UNCHANGED benchVars
  BY <1>7 DEF benchVars, BundleInv
<1>8. QED
  BY <1>3, <1>4, <1>5, <1>6, <1>7 DEF BenchNext, Exited

(* provenance.json is of this run only when the summary and the report are,*)
(* and a benchgen that ends with 0 has left no artifact of an earlier one. *)
THEOREM ProvenanceIsLast == BenchSpec => []ProvenanceVouches
<1>1. BundleInv => ProvenanceVouches
  <2> SUFFICES ASSUME BundleInv PROVE ProvenanceVouches
    OBVIOUS
  <2>1. ASSUME files[6] = "new" PROVE files[4] = "new" /\ files[5] = "new"
    <3>1. at = 7
      BY <2>1 DEF BundleInv
    <3>2. QED
      BY <3>1 DEF BundleInv
  <2>2. ASSUME exitCode = 0 PROVE \A i \in DOMAIN files : files[i] # "old"
    BY <2>2 DEF BundleInv
  <2>3. QED
    BY <2>1, <2>2 DEF ProvenanceVouches
<1>2. QED
  BY BundleInit, BundleStep, <1>1, PTL DEF BenchSpec

(* ------------------------------ the samples ----------------------------- *)

(* What may be a line of a sample file, or is encoded by faultreplay. *)
Scripted(start) == GenerateFaultSamples(start.replay.scenario, start.replay.count)
Lines ==
  { s : s \in UNION { { start.input.lines[i] : i \in DOMAIN start.input.lines } : start \in Starts } }
  \cup { s : s \in UNION { { Scripted(start)[i] : i \in DOMAIN Scripted(start) } : start \in Starts } }

(* Samples there are, and the domains of each are a list. *)
Fit(ss) == IsSequence(ss) /\ \A i \in DOMAIN ss : IsSample(ss[i])

LEMMA ShortDomains ==
  ASSUME NEW l, NEW e
  PROVE  /\ IsSample(Sample(l, e, << >>))
         /\ \A a : IsSample(Sample(l, e, <<a>>))
         /\ \A a, b : IsSample(Sample(l, e, <<a, b>>))
         /\ \A a, b, c : IsSample(Sample(l, e, <<a, b, c>>))
<1>1. \A d : Sample(l, e, d).domains = d
  BY DEF Sample
<1>2. IsSequence(<< >>)
  BY DEF IsSequence
<1>3. ASSUME NEW a PROVE IsSequence(<<a>>)
  BY DEF IsSequence
<1>4. ASSUME NEW a, NEW b PROVE IsSequence(<<a, b>>)
  BY DEF IsSequence
<1>5. ASSUME NEW a, NEW b, NEW c PROVE IsSequence(<<a, b, c>>)
  BY DEF IsSequence
<1>6. QED
  BY <1>1, <1>2, <1>3, <1>4, <1>5 DEF IsSample

LEMMA ListsAreSequences ==
  ASSUME NEW n \in Nat, NEW f, DOMAIN f = 1..n, f = [i \in 1..n |-> f[i]]
  PROVE  IsSequence(f) /\ Len(f) = n
BY DEF IsSequence

LEMMA GeneratedFit ==
  ASSUME NEW scenario, NEW count \in Nat
  PROVE  Fit(GenerateFaultSamples(scenario, count))
<1> DEFINE pair(i) == Round(Pairs, i)
           two == [i \in 1..count |->
                     Sample(pair(i)[1], MapFaultLabel(pair(i)[1]),
                            <<MapFaultLabel(pair(i)[1]), MapFaultLabel(pair(i)[2])>>)]
           label(i) == Round(ScenarioFaultLabels(scenario), i)
           one == [i \in 1..count |-> Sample(label(i), MapFaultLabel(label(i)), << >>)]
<1>1. GenerateFaultSamples(scenario, count) \in {two, one, << >>}
  BY DEF GenerateFaultSamples, GenerateMixedMultiSamples
<1>2. Fit(two)
  <2> HIDE DEF pair
  <2>1. \A i \in 1..count : IsSample(two[i])
    BY ShortDomains
  <2>2. DOMAIN two = 1..count /\ two = [i \in 1..count |-> two[i]]
    OBVIOUS
  <2> HIDE DEF two
  <2>3. QED
    BY <2>1, <2>2, ListsAreSequences DEF Fit
<1>3. Fit(one)
  <2> HIDE DEF label
  <2>1. \A i \in 1..count : IsSample(one[i])
    BY ShortDomains
  <2>2. DOMAIN one = 1..count /\ one = [i \in 1..count |-> one[i]]
    OBVIOUS
  <2> HIDE DEF one
  <2>3. QED
    BY <2>1, <2>2, ListsAreSequences DEF Fit
<1>4. Fit(<< >>)
  BY DEF Fit, IsSequence
<1>5. QED
  BY <1>1, <1>2, <1>3, <1>4

LEMMA LinesAreSamples == \A s \in Lines : IsSample(s)
<1>1. \A start \in Starts : \A i \in DOMAIN start.input.lines : IsSample(start.input.lines[i])
  BY BenchAssumption DEF BenchAssumption
<1>2. \A start \in Starts : Fit(Scripted(start))
  BY BenchAssumption, GeneratedFit DEF BenchAssumption, Scripted
<1>3. QED
  BY <1>1, <1>2 DEF Lines, Fit

LEMMA WiderSequence ==
  ASSUME NEW s, IsSequence(s), NEW S, \A i \in DOMAIN s : s[i] \in S
  PROVE  s \in Seq(S)
<1>1. s \in Seq({ s[i] : i \in DOMAIN s })
  BY DEF IsSequence
<1>2. DOMAIN s = 1..Len(s) /\ Len(s) \in Nat /\ s = [i \in 1..Len(s) |-> s[i]]
  BY <1>1
<1>3. QED
  BY <1>2

LEMMA BuiltInFit == Fit(BuildMixedFaultSamples) /\ Fit(BuildMixedMultiSamples)
<1>1. Fit(BuildMixedFaultSamples)
  <2> DEFINE label(i) == IF i % 2 = 1 THEN "provider_throttle" ELSE "dns_latency"
             f == [i \in 1..12 |-> Sample(label(i), MapFaultLabel(label(i)), << >>)]
  <2>1. \A i \in 1..12 : IsSample(f[i])
    <3> HIDE DEF label
    <3>1. QED
      BY ShortDomains
  <2>2. DOMAIN f = 1..12 /\ f = [i \in 1..12 |-> f[i]] /\ f = BuildMixedFaultSamples
    BY DEF BuildMixedFaultSamples
  <2> HIDE DEF f
  <2>3. QED
    BY <2>1, <2>2, ListsAreSequences DEF Fit
<1>2. Fit(BuildMixedMultiSamples)
  <2> DEFINE m == BuildMixedMultiSamples
  <2>1. /\ IsSample(m[1]) /\ IsSample(m[2]) /\ IsSample(m[3]) /\ IsSample(m[4]) /\ IsSample(m[5]) /\ IsSample(m[6])
        /\ IsSample(m[7]) /\ IsSample(m[8]) /\ IsSample(m[9]) /\ IsSample(m[10]) /\ IsSample(m[11]) /\ IsSample(m[12])
    BY ShortDomains DEF BuildMixedMultiSamples
  <2>2. DOMAIN m = 1..12 /\ m = [i \in 1..12 |-> m[i]]
    BY DEF BuildMixedMultiSamples
  <2> HIDE DEF m
  <2>3. \A i \in 1..12 : IsSample(m[i])
    BY <2>1
  <2>4. QED
    BY <2>2, <2>3, ListsAreSequences DEF Fit, m
<1>3. QED
  BY <1>1, <1>2

(* ------------------------------ the contents ---------------------------- *)

LinesInv ==
  /\ \E start \in Starts : replay = start.replay
  /\ input \in [lines : Seq(Lines), tail : {"none", "torn", ""}]
  /\ todo \in Seq(Lines)

LEMMA LinesInit == BenchInit => LinesInv
<1> SUFFICES ASSUME BenchInit PROVE LinesInv
  OBVIOUS
<1>1. PICK start \in Starts : replay = start.replay /\ run = start.run /\ input = start.input
  BY DEF BenchInit
<1>2. input = [lines |-> input.lines, tail |-> input.tail] /\ input.tail \in {"none", "torn", ""} /\ IsSequence(input.lines)
  BY <1>1, BenchAssumption DEF BenchAssumption
<1>3. \A i \in DOMAIN input.lines : input.lines[i] \in Lines
  BY <1>1 DEF Lines
<1>4. input.lines \in Seq(Lines)
  BY <1>2, <1>3, WiderSequence
<1>5. todo \in Seq(Lines)
  BY DEF BenchInit
<1>6. input \in [lines : Seq(Lines), tail : {"none", "torn", ""}]
  BY <1>2, <1>4
<1>7. QED
  BY <1>1, <1>5, <1>6 DEF LinesInv

LEMMA LinesStep == LinesInv /\ [BenchNext]_benchVars => LinesInv'
<1> SUFFICES ASSUME LinesInv, [BenchNext]_benchVars PROVE LinesInv'
  OBVIOUS
<1>1. ASSUME UNCHANGED <<replay, input, todo>> PROVE LinesInv'
  BY <1>1 DEF LinesInv
<1>2. CASE Replay
  <2> DEFINE generated == GenerateFaultSamples(replay.scenario, replay.count)
  <2>1. generated \in Seq(Lines)
    <3>1. PICK start \in Starts : replay = start.replay
      BY DEF LinesInv
    <3>2. generated = Scripted(start) /\ replay.count \in Nat
      BY <3>1, BenchAssumption DEF Scripted, BenchAssumption
    <3>3. IsSequence(generated)
      BY <3>2, GeneratedFit DEF Fit
    <3> HIDE DEF generated
    <3>4. \A i \in DOMAIN generated : generated[i] \in Lines
      BY <3>2 DEF Lines
    <3>5. QED
      BY <3>3, <3>4, WiderSequence
  <2>2. /\ replay' = replay
        /\ \/ UNCHANGED <<input, todo>>
           \/ todo' = generated /\ input' = [lines |-> << >>, tail |-> ""]
           \/ todo' = todo /\ input' = input
    BY <1>2 DEF Replay
  <2> HIDE DEF generated
  <2>3. CASE todo' = generated /\ input' = [lines |-> << >>, tail |-> ""]
    <3>1. << >> \in Seq(Lines)
      OBVIOUS
    <3>2. QED
      BY <2>1, <2>2, <2>3, <3>1 DEF LinesInv
  <2>4. QED
    BY <1>1, <2>2, <2>3
<1>3. CASE Encode
  <2>1. replay' = replay
    BY <1>3 DEF Encode
  <2>2. CASE todo = << >>
    <3>1. UNCHANGED <<todo, input>>
      BY <1>3, <2>2 DEF Encode
    <3>2. QED
      BY <1>1, <2>1, <3>1
  <2>3. CASE todo # << >>
    <3>1. \/ input' = [input EXCEPT !.lines = Append(@, Head(todo))] /\ todo' = Tail(todo)
          \/ (\E tail \in {"", "torn"} : input' = [input EXCEPT !.tail = tail]) /\ todo' = << >>
      BY <1>3, <2>3 DEF Encode
    <3>2. Head(todo) \in Lines /\ Tail(todo) \in Seq(Lines) /\ input.lines \in Seq(Lines) /\ << >> \in Seq(Lines)
      <4>1. todo \in Seq(Lines) /\ input.lines \in Seq(Lines)
        BY DEF LinesInv
      <4>2. Head(todo) \in Lines /\ Tail(todo) \in Seq(Lines)
        BY <4>1, <2>3
      <4>3. QED
        BY <4>1, <4>2
    <3>3. Append(input.lines, Head(todo)) \in Seq(Lines)
      BY <3>2
    <3>4. CASE input' = [input EXCEPT !.lines = Append(@, Head(todo))] /\ todo' = Tail(todo)
      BY <2>1, <3>2, <3>3, <3>4 DEF LinesInv
    <3>5. CASE (\E tail \in {"", "torn"} : input' = [input EXCEPT !.tail = tail]) /\ todo' = << >>
      BY <2>1, <3>2, <3>5 DEF LinesInv
    <3>6. QED
      BY <3>1, <3>4, <3>5
  <2>4. QED
    BY <2>2, <2>3
<1>4. CASE Benchgen \/ Load \/ ValidateAgainstSchema \/ Return \/ UNCHANGED benchVars
  <2>1. UNCHANGED <<replay, input, todo>>
    BY <1>4 DEF Benchgen, Load, ValidateAgainstSchema, Return, benchVars
  <2>2. QED
    BY <1>1, <2>1
<1>5. CASE Write
  <2>1. UNCHANGED <<replay, input, todo>>
    BY <1>5 DEF Write, WriteIncidentPredictions, WriteConfusionMatrix, WriteCollectorOverhead, WriteSummary,
                WriteReportMarkdown, WriteProvenance, WriteCSV, WriteFile
  <2>2. QED
    BY <1>1, <2>1
<1>6. QED
  BY <1>2, <1>3, <1>4, <1>5 DEF BenchNext, Exited

(* What is loaded is a sequence of narrow samples. *)
LEMMA LoadedFit ==
  ASSUME LinesInv
  PROVE  Fit(LoadSamples)
<1> DEFINE built == [i \in 1..12 |-> Sample(run.scenario, MapFaultLabel(run.scenario), << >>)]
<1>1. LoadSamples \in {input.lines, << >>, BuildMixedFaultSamples, BuildMixedMultiSamples, built}
  BY DEF LoadSamples, LoadSamplesFromJSONL
<1>2. Fit(input.lines)
  <2>1. input.lines \in Seq(Lines)
    BY DEF LinesInv
  <2> DEFINE s == input.lines
  <2>2. s \in Seq(Lines)
    BY <2>1
  <2> SUFFICES Fit(s)
    OBVIOUS
  <2> HIDE DEF s
  <2>3. IsSequence(s)
    BY <2>2 DEF IsSequence
  <2>4. \A i \in DOMAIN s : s[i] \in Lines
    BY <2>2
  <2>5. QED
    BY <2>3, <2>4, LinesAreSamples DEF Fit
<1>3. Fit(<< >>)
  BY DEF Fit, IsSequence
<1>4. Fit(built)
  <2>1. \A i \in 1..12 : IsSample(built[i])
    BY ShortDomains
  <2>2. DOMAIN built = 1..12 /\ built = [i \in 1..12 |-> built[i]]
    OBVIOUS
  <2> HIDE DEF built
  <2>3. QED
    BY <2>1, <2>2, ListsAreSequences DEF Fit
<1>5. QED
  BY <1>1, <1>2, <1>3, <1>4, BuiltInFit

(* ------------------------------ the measures ---------------------------- *)

Hits(ss, pp) == { i \in DOMAIN pp : Actual(ss[i]) = pp[i].domain }
PartialHits(ss, pp) ==
  { i \in DOMAIN pp :
      \E j \in DOMAIN Expected(ss[i]) : Expected(ss[i])[j] = pp[i].domain }
Diagonal(m) == { key \in DOMAIN m : key[1] = key[2] }

(* Each prediction is counted at one place of the matrix, on the diagonal   *)
(* when it is a hit.                                                         *)
LEMMA MatrixCounts ==
  ASSUME NEW ss, NEW pp, IsFiniteSet(DOMAIN pp), NEW m, m = BuildConfusionMatrix(ss, pp)
  PROVE  /\ SumFunctionOnSet(m, Diagonal(m)) = Cardinality(Hits(ss, pp))
         /\ SumFunctionOnSet(m, DOMAIN m \ Diagonal(m)) = Cardinality(DOMAIN pp \ Hits(ss, pp))
<1> DEFINE D == DOMAIN pp
           key == [i \in D |-> <<Actual(ss[i]), pp[i].domain>>]
           K == { key[i] : i \in D }
<1>1. \A i \in D : key[i] = <<Actual(ss[i]), pp[i].domain>>
  OBVIOUS
<1>2. m = [k \in { <<Actual(ss[i]), pp[i].domain>> : i \in DOMAIN pp } |->
             Cardinality({ i \in DOMAIN pp : <<Actual(ss[i]), pp[i].domain>> = k })]
  BY DEF BuildConfusionMatrix
<1>3. { <<Actual(ss[i]), pp[i].domain>> : i \in DOMAIN pp } = K
  BY <1>1
<1>4. DOMAIN m = K
  BY <1>2, <1>3
<1>5. \A k \in K : m[k] = Cardinality(ClassesOf(key, D, {k}))
  <2> SUFFICES ASSUME NEW k \in K PROVE m[k] = Cardinality(ClassesOf(key, D, {k}))
    OBVIOUS
  <2>1. m[k] = Cardinality({ i \in DOMAIN pp : <<Actual(ss[i]), pp[i].domain>> = k })
    BY <1>2, <1>3
  <2>2. { i \in DOMAIN pp : <<Actual(ss[i]), pp[i].domain>> = k } = ClassesOf(key, D, {k})
    BY <1>1 DEF ClassesOf
  <2>3. QED
    BY <2>1, <2>2
<1>6. Hits(ss, pp) = { i \in D : key[i][1] = key[i][2] }
  BY <1>1 DEF Hits
<1>7. \A i \in D : key[i] \in K
  OBVIOUS
<1>8. IsFiniteSet(K) /\ IsFiniteSet(D)
  <2>1. key \in [D -> K] /\ \A k \in K : \E i \in D : key[i] = k
    OBVIOUS
  <2> HIDE DEF K, key
  <2>2. key \in Surjection(D, K)
    BY <2>1 DEF Surjection
  <2>3. QED
    BY <2>2, FS_Surjection
<1> HIDE DEF D, key, K
<1>9. ASSUME NEW T \in SUBSET K
      PROVE  SumFunctionOnSet(m, T) = Cardinality(ClassesOf(key, D, T))
  <2>1. IsFiniteSet(T)
    BY <1>8, FS_Subset
  <2>2. \A k \in T : m[k] = Cardinality(ClassesOf(key, D, {k}))
    BY <1>5
  <2>3. IsFiniteSet(D)
    BY <1>8
  <2> QED
    BY ONLY <2>1, <2>2, <2>3, ClassesCounted
<1>10. ClassesOf(key, D, Diagonal(m)) = Hits(ss, pp)
  BY <1>4, <1>6, <1>7 DEF ClassesOf, Diagonal
<1>11. ClassesOf(key, D, DOMAIN m \ Diagonal(m)) = D \ Hits(ss, pp)
  BY <1>4, <1>6, <1>7 DEF ClassesOf, Diagonal
<1>12. Diagonal(m) \in SUBSET K /\ DOMAIN m \ Diagonal(m) \in SUBSET K
  BY <1>4 DEF Diagonal
<1>13. QED
  BY <1>9, <1>10, <1>11, <1>12 DEF D

(* A sample expects a list of domains. *)
LEMMA ExpectedAre ==
  ASSUME NEW s, IsSample(s)
  PROVE  DOMAIN Expected(s) = 1..Len(Expected(s)) /\ Len(Expected(s)) \in Nat
<1>1. CASE s.domains = << >>
  <2>1. Expected(s) = <<Actual(s)>>
    BY <1>1 DEF Expected
  <2> HIDE DEF Actual
  <2>2. QED
    BY <2>1
<1>2. CASE s.domains # << >>
  <2> DEFINE d == s.domains
             S == { s.domains[i] : i \in DOMAIN s.domains }
  <2>1. Expected(s) = d
    BY <1>2 DEF Expected
  <2>2. d \in Seq(S)
    BY DEF IsSample, IsSequence
  <2> HIDE DEF d, S
  <2>3. QED
    BY <2>1, <2>2
<1>3. QED
  BY <1>1, <1>2

Prepared(ss, pp) == Fit(ss) /\ ss # << >> /\ DOMAIN pp = DOMAIN ss

LEMMA PreparedAre ==
  ASSUME NEW ss, NEW pp, Prepared(ss, pp)
  PROVE  /\ Len(ss) \in Nat /\ Len(ss) > 0 /\ DOMAIN ss = 1..Len(ss) /\ DOMAIN pp = 1..Len(ss)
         /\ IsFiniteSet(DOMAIN pp) /\ Cardinality(DOMAIN pp) = Len(ss)
<1> DEFINE S == { ss[i] : i \in DOMAIN ss }
<1>1. ss \in Seq(S) /\ ss # << >> /\ DOMAIN pp = DOMAIN ss
  BY DEF Prepared, Fit, IsSequence
<1> HIDE DEF S
<1>2. Len(ss) \in Nat /\ Len(ss) > 0 /\ DOMAIN ss = 1..Len(ss)
  BY <1>1
<1>3. IsFiniteSet(1..Len(ss)) /\ Cardinality(1..Len(ss)) = Len(ss)
  BY <1>2, FS_Interval
<1>4. QED
  BY <1>1, <1>2, <1>3

(* A sample with a partial hit adds to the coverage. *)
FoundOf(ss, pp, n, i) == { j \in DOMAIN Expected(ss[i]) : Covers(pp[i], Expected(ss[i])[j], n) }

LEMMA FoundIs ==
  ASSUME NEW ss, NEW pp, Prepared(ss, pp), NEW n, NEW i \in PartialHits(ss, pp)
  PROVE  /\ i \in DOMAIN CoverageAccuracy(ss, pp, n)
         /\ CoverageAccuracy(ss, pp, n)[i].found > 0
<1> DEFINE found == FoundOf(ss, pp, n, i)
           l == Len(Expected(ss[i]))
<1>1. i \in DOMAIN pp /\ i \in DOMAIN ss
  BY DEF PartialHits, Prepared
<1>2. DOMAIN Expected(ss[i]) = 1..l /\ l \in Nat
  BY <1>1, ExpectedAre DEF Prepared, Fit
<1>3. found \subseteq 1..l
  BY <1>2 DEF FoundOf
<1>4. found # {}
  BY DEF FoundOf, PartialHits, Covers
<1>5. /\ i \in DOMAIN CoverageAccuracy(ss, pp, n)
      /\ CoverageAccuracy(ss, pp, n)[i].found = Cardinality(found)
  BY <1>1 DEF CoverageAccuracy, FoundOf
<1> HIDE DEF l, found
<1>6. IsFiniteSet(found)
  <2>1. IsFiniteSet(1..l)
    BY <1>2, FS_Interval
  <2>2. QED
    BY <1>3, <2>1, FS_Subset
<1>7. Cardinality(found) \in Nat /\ Cardinality(found) # 0
  BY <1>4, <1>6, FS_CardinalityType, FS_EmptySet
<1>8. QED
  BY <1>5, <1>7

(* No fewer samples add to the coverage than have a partial hit. *)
LEMMA CoverageCounts ==
  ASSUME NEW ss, NEW pp, Prepared(ss, pp), NEW n
  PROVE  LET c == CoverageAccuracy(ss, pp, n)
         IN  PartialAccuracy(ss, pp) <= Cardinality({ i \in DOMAIN c : c[i].found > 0 })
<1> DEFINE c == CoverageAccuracy(ss, pp, n)
           adds == { i \in DOMAIN c : c[i].found > 0 }
<1>1. PartialHits(ss, pp) \subseteq adds
  BY FoundIs
<1>2. DOMAIN c = DOMAIN pp
  BY DEF CoverageAccuracy
<1>3. IsFiniteSet(adds)
  <2>1. adds \subseteq DOMAIN pp
    BY <1>2
  <2> HIDE DEF adds
  <2>2. QED
    BY <2>1, PreparedAre, FS_Subset
<1> HIDE DEF c, adds
<1>4. Cardinality(PartialHits(ss, pp)) <= Cardinality(adds)
  BY <1>1, <1>3, FS_Subset
<1>5. PartialAccuracy(ss, pp) = Cardinality(PartialHits(ss, pp))
  BY DEF PartialHits, PartialAccuracy
<1>6. QED
  BY <1>4, <1>5 DEF c, adds

(* With the actual domain among the expected ones, a hit is a partial hit. *)
LEMMA PartialIsWider ==
  ASSUME NEW ss, NEW pp, Prepared(ss, pp),
         \A i \in DOMAIN ss : \E j \in DOMAIN Expected(ss[i]) : Expected(ss[i])[j] = Actual(ss[i])
  PROVE  PartialAccuracy(ss, pp) >= Accuracy(ss, pp)
<1>1. Hits(ss, pp) \subseteq PartialHits(ss, pp)
  BY DEF Hits, PartialHits, Prepared
<1>2. IsFiniteSet(DOMAIN pp) /\ PartialHits(ss, pp) \subseteq DOMAIN pp
  BY PreparedAre DEF PartialHits
<1>3. IsFiniteSet(PartialHits(ss, pp))
  BY <1>2, FS_Subset
<1>4. /\ IsFiniteSet(Hits(ss, pp))
      /\ Cardinality(Hits(ss, pp)) <= Cardinality(PartialHits(ss, pp))
  BY <1>1, <1>3, FS_Subset
<1>5. Cardinality(Hits(ss, pp)) \in Nat /\ Cardinality(PartialHits(ss, pp)) \in Nat
  BY <1>3, <1>4, FS_CardinalityType
<1>6. PartialAccuracy(ss, pp) = Cardinality(PartialHits(ss, pp)) /\ Accuracy(ss, pp) = Cardinality(Hits(ss, pp))
  BY DEF PartialAccuracy, PartialHits, Accuracy, Hits
<1>7. QED
  BY <1>4, <1>5, <1>6

(* An artifact that is new holds what its writer computed, from samples     *)
(* that stay as they were loaded.                                            *)
ContentInv ==
  /\ pc \in {"validate", "write"} \/ (\E i \in 1..6 : files[i] = "new")
       => Prepared(samples, predictions)
  /\ files[1] = "new" =>
       rows = [i \in DOMAIN predictions |-> predictions[i].domain = Actual(samples[i])]
  /\ files[2] = "new" => matrix = BuildConfusionMatrix(samples, predictions)
  /\ files[4] = "new" =>
       /\ summary.accuracy = Accuracy(samples, predictions)
       /\ summary.multi => /\ summary.partial = PartialAccuracy(samples, predictions)
                           /\ summary.coverage = CoverageAccuracy(samples, predictions, 10)

LEMMA ContentInit == BenchInit => ContentInv
<1> SUFFICES ASSUME BenchInit PROVE ContentInv
  OBVIOUS
<1>1. files = [i \in 1..6 |-> "old"] /\ pc = "replay"
  BY ArtifactsAre DEF BenchInit
<1>2. \A i \in 1..6 : files[i] # "new"
  BY <1>1
<1>3. QED
  BY <1>1, <1>2 DEF ContentInv

(* A step that writes nothing and keeps what was loaded. *)
LEMMA ContentKept ==
  ASSUME ContentInv, UNCHANGED work, pc' \notin {"validate", "write"} \/ pc' = pc \/ pc = "validate"
  PROVE  ContentInv'
<1>1. UNCHANGED <<samples, predictions, files, rows, matrix, summary>>
  BY DEF work
<1> HIDE DEF Prepared, BuildConfusionMatrix, Accuracy, PartialAccuracy, CoverageAccuracy, Actual
<1>2. Prepared(samples', predictions') <=> Prepared(samples, predictions)
  BY <1>1
<1>3. pc' \in {"validate", "write"} => pc \in {"validate", "write"}
  OBVIOUS
<1>4. QED
  BY <1>1, <1>2, <1>3 DEF ContentInv

(* One of benchgen's writers: the artifact at hand is new only when the      *)
(* variable that holds its content is written with it.                      *)
LEMMA ContentWritten ==
  ASSUME BundleInv, ContentInv, Write
  PROVE  ContentInv'
<1>1. /\ at \in 1..6 /\ pc = "write"
      /\ \E status \in {"new", "lost", "old"} : files' = [files EXCEPT ![at] = status]
      /\ UNCHANGED <<samples, predictions>>
  BY WritersPut
<1>2. DOMAIN files = 1..6
  BY DEF BundleInv
<1>3. \A i \in 1..6 : i # at => files'[i] = files[i]
  BY <1>1, <1>2
<1>4. Prepared(samples, predictions)
  BY <1>1 DEF ContentInv
<1>5. Prepared(samples', predictions')
  BY <1>1, <1>4
<1> DEFINE a == Accuracy(samples, predictions)
           p == PartialAccuracy(samples, predictions)
           c == CoverageAccuracy(samples, predictions, 10)
           m == BuildConfusionMatrix(samples, predictions)
           r == [i \in DOMAIN predictions |-> predictions[i].domain = Actual(samples[i])]
<1>6. a' = a /\ p' = p /\ c' = c /\ m' = m /\ r' = r
  BY <1>1
<1>7. files'[1] = "new" => rows' = r
  <2>1. CASE at = 1
    <3>1. WriteIncidentPredictions
      BY <2>1, ArtifactsAre DEF Write, WriteIncidentPredictions, WriteConfusionMatrix, WriteCollectorOverhead,
         WriteSummary, WriteReportMarkdown, WriteProvenance, WriteCSV, WriteFile
    <3>2. QED
      BY <2>1, <3>1 DEF WriteIncidentPredictions
  <2>2. CASE at # 1
    <3>1. rows' = rows
      BY <1>1, <2>2, ArtifactsAre DEF Write, WriteIncidentPredictions, WriteConfusionMatrix, WriteCollectorOverhead,
         WriteSummary, WriteReportMarkdown, WriteProvenance, WriteCSV, WriteFile
    <3>2. files'[1] = "new" => files[1] = "new"
      BY <1>3, <2>2
    <3>3. QED
      BY <3>1, <3>2 DEF ContentInv
  <2>3. QED
    BY <2>1, <2>2
<1>8. files'[2] = "new" => matrix' = m
  <2>1. CASE at = 2
    <3>1. WriteConfusionMatrix
      BY <2>1, ArtifactsAre DEF Write, WriteIncidentPredictions, WriteConfusionMatrix, WriteCollectorOverhead,
         WriteSummary, WriteReportMarkdown, WriteProvenance, WriteCSV, WriteFile
    <3>2. QED
      BY <2>1, <3>1 DEF WriteConfusionMatrix
  <2>2. CASE at # 2
    <3>1. matrix' = matrix
      BY <1>1, <2>2, ArtifactsAre DEF Write, WriteIncidentPredictions, WriteConfusionMatrix, WriteCollectorOverhead,
         WriteSummary, WriteReportMarkdown, WriteProvenance, WriteCSV, WriteFile
    <3>2. files'[2] = "new" => files[2] = "new"
      BY <1>3, <2>2
    <3>3. QED
      BY <3>1, <3>2 DEF ContentInv
  <2>3. QED
    BY <2>1, <2>2
<1>9. files'[4] = "new" => /\ summary'.accuracy = a
                           /\ summary'.multi => summary'.partial = p /\ summary'.coverage = c
  <2>1. CASE at = 4
    <3>1. WriteSummary
      BY <2>1, ArtifactsAre DEF Write, WriteIncidentPredictions, WriteConfusionMatrix, WriteCollectorOverhead,
         WriteSummary, WriteReportMarkdown, WriteProvenance, WriteCSV, WriteFile
    <3> HIDE DEF a, p, c
    <3>2. summary' = [accuracy |-> a, partial |-> IF HasExpectedDomains THEN p ELSE 0,
                      coverage |-> IF HasExpectedDomains THEN c ELSE << >>, multi |-> HasExpectedDomains]
      BY <3>1 DEF WriteSummary, a, p, c
    <3>3. QED
      BY <3>2
  <2>2. CASE at # 4
    <3>1. summary' = summary
      BY <1>1, <2>2, ArtifactsAre DEF Write, WriteIncidentPredictions, WriteConfusionMatrix, WriteCollectorOverhead,
         WriteSummary, WriteReportMarkdown, WriteProvenance, WriteCSV, WriteFile
    <3>2. files'[4] = "new" => files[4] = "new"
      BY <1>3, <2>2
    <3>3. QED
      BY <3>1, <3>2 DEF ContentInv
  <2>3. QED
    BY <2>1, <2>2
<1>10. QED
  BY <1>5, <1>6, <1>7, <1>8, <1>9 DEF ContentInv

LEMMA ContentStep == LinesInv /\ BundleInv /\ ContentInv /\ [BenchNext]_benchVars => ContentInv'
<1> SUFFICES ASSUME LinesInv, BundleInv, ContentInv, [BenchNext]_benchVars PROVE ContentInv'
  OBVIOUS
<1>1. CASE Replay \/ Encode \/ Benchgen
  <2>1. UNCHANGED work /\ (pc' \notin {"validate", "write"} \/ pc' = pc)
    BY <1>1 DEF Replay, Encode, Benchgen
  <2>2. QED
    BY <2>1, ContentKept
<1>2. CASE Load
  <2>1. pc = "load" /\ UNCHANGED <<files, rows, matrix, summary>>
    BY <1>2 DEF Load
  <2>2. \A i \in 1..6 : files'[i] = "old"
    BY <2>1 DEF BundleInv
  <2>3. pc' \in {"validate", "write"} => Prepared(samples', predictions')
    <3>1. CASE LoadSamples # << >> /\ samples' = LoadSamples
               /\ predictions' = [i \in DOMAIN LoadSamples |-> BuildAttributions(LoadSamples[i], run.mode)]
      BY <3>1, LoadedFit DEF Prepared
    <3>2. CASE pc' = "exit"
      BY <3>2
    <3>3. QED
      BY <1>2, <3>1, <3>2 DEF Load, Fail
  <2>4. QED
    BY <2>2, <2>3 DEF ContentInv
<1>3. CASE ValidateAgainstSchema \/ Return
  <2>1. UNCHANGED work /\ (pc = "validate" \/ pc' = "exit")
    BY <1>3 DEF ValidateAgainstSchema, Return
  <2>2. QED
    BY <2>1, ContentKept
<1>4. CASE Write
  BY <1>4, ContentWritten
<1>5. CASE UNCHANGED benchVars
  <2>1. UNCHANGED work /\ pc' = pc
    BY <1>5 DEF benchVars, work
  <2>2. QED
    BY <2>1, ContentKept
<1>6. QED
  BY <1>1, <1>2, <1>3, <1>4, <1>5 DEF BenchNext, Exited

(* The artifacts of one bundle tell the same numbers. *)
LEMMA ContentsAgree ==
  ASSUME BundleInv, ContentInv
  PROVE  ReportsAgree
<1> DEFINE D == DOMAIN predictions
           H == Hits(samples, predictions)
           correct == Cardinality({ i \in DOMAIN rows : rows[i] })
           diagonal == SumFunctionOnSet(matrix, Diagonal(matrix))
           off == SumFunctionOnSet(matrix, DOMAIN matrix \ Diagonal(matrix))
           listed == \A i \in DOMAIN samples : \E j \in DOMAIN Expected(samples[i]) :
                       Expected(samples[i])[j] = Actual(samples[i])
           a == Accuracy(samples, predictions)
           p == PartialAccuracy(samples, predictions)
           c == CoverageAccuracy(samples, predictions, 10)
<1>1. (\E i \in 1..6 : files[i] = "new") => Prepared(samples, predictions)
  BY DEF ContentInv
<1>2. DOMAIN files = 1..6
  BY DEF BundleInv
<1>3. ASSUME files[1] = "new"
      PROVE  /\ correct = Cardinality(H) /\ Len(rows) = Len(samples)
             /\ IsFiniteSet(D) /\ Cardinality(D) = Len(samples)
  <2>1. rows = [i \in D |-> predictions[i].domain = Actual(samples[i])]
    BY <1>3 DEF ContentInv
  <2>2. /\ Len(samples) \in Nat /\ D = 1..Len(samples)
        /\ IsFiniteSet(D) /\ Cardinality(D) = Len(samples)
    BY <1>1, <1>3, PreparedAre
  <2>3. { i \in DOMAIN rows : rows[i] } = H
    BY <2>1 DEF Hits
  <2>4. DOMAIN rows = D
    BY <2>1
  <2>5. Len(rows) = Len(samples)
    BY <2>2, <2>4
  <2>6. QED
    BY <2>2, <2>3, <2>5
<1>4. ASSUME files[1] = "new", files[2] = "new"
      PROVE  correct = diagonal /\ Len(rows) = diagonal + off
  <2>1. matrix = BuildConfusionMatrix(samples, predictions) /\ IsFiniteSet(D)
    BY <1>3, <1>4 DEF ContentInv
  <2>2. diagonal = Cardinality(H) /\ off = Cardinality(D \ H)
    BY <2>1, MatrixCounts
  <2>3. H \subseteq D
    BY DEF Hits
  <2>4. IsFiniteSet(H) /\ Cardinality(D \ H) = Cardinality(D) - Cardinality(H) /\ Cardinality(D) \in Nat /\ Cardinality(H) \in Nat
    <3>1. IsFiniteSet(H)
      BY <2>1, <2>3, FS_Subset
    <3>2. D \cap H = H
      BY <2>3
    <3>3. Cardinality(D \ H) = Cardinality(D) - Cardinality(D \cap H)
      BY <2>1, FS_Difference
    <3>4. QED
      BY <2>1, <3>1, <3>2, <3>3, FS_CardinalityType
  <2>5. Cardinality(D) = Len(rows)
    BY <1>3, <1>4
  <2> DEFINE h == Cardinality(H)
             d == Cardinality(D)
             o == Cardinality(D \ H)
  <2>6. h \in Nat /\ d \in Nat /\ o = d - h
    BY <2>4
  <2>7. d = h + o
    <3> HIDE DEF h, d, o
    <3>1. QED
      BY <2>6
  <2>8. QED
    BY <1>3, <1>4, <2>2, <2>5, <2>7
<1>5. ASSUME files[1] = "new", files[4] = "new"
      PROVE  correct = summary.accuracy
  BY <1>3, <1>5 DEF ContentInv, Accuracy, Hits
<1>6. ASSUME files[4] = "new", summary.multi
      PROVE  /\ listed => summary.partial >= summary.accuracy
             /\ summary.partial <= Cardinality({ i \in DOMAIN summary.coverage :
                                                    summary.coverage[i].found > 0 })
  <2>1. Prepared(samples, predictions)
    BY <1>1, <1>6
  <2>2. summary.accuracy = a /\ summary.partial = p /\ summary.coverage = c
    BY <1>6 DEF ContentInv
  <2>3. listed => p >= a
    BY <2>1, PartialIsWider
  <2>4. p <= Cardinality({ i \in DOMAIN c : c[i].found > 0 })
    BY <2>1, CoverageCounts
  <2> HIDE DEF a, p, c, listed
  <2>5. QED
    BY <2>2, <2>3, <2>4
<1>7. \A i \in DOMAIN Artifacts : /\ Artifacts[i] = "predictions" <=> i = 1
                                  /\ Artifacts[i] = "confusion" <=> i = 2
                                  /\ Artifacts[i] = "summary" <=> i = 4
  BY ArtifactsAre
<1>8. QED
  BY <1>4, <1>5, <1>6, <1>7 DEF ReportsAgree, Diagonal

(* The rows, the matrix and the summary of one bundle count the same hits,  *)
(* credit for a part is never below credit for the whole, and the coverage  *)
(* counts every sample that has the credit, however many domains it lists.  *)
THEOREM ArtifactsAgree == BenchSpec => []ReportsAgree
BY BundleInit, BundleStep, LinesInit, LinesStep, ContentInit, ContentStep, ContentsAgree, PTL DEF BenchSpec
===========================================================================
