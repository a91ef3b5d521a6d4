----------------------------- MODULE Attribution -----------------------------
(***************************************************************************)
(* Which fault explains a sample: MapFaultLabel, the naive Bayes engine    *)
(* over twelve signals and eight domains, and the four measures that       *)
(* compare predictions with what was expected.                             *)
(*                                                                         *)
(* Every default likelihood is a multiple of 1/20 between 1/20 and 19/20,  *)
(* so the clamp to 0.01..0.99 never acts, and the prior is the same for    *)
(* every domain.  A posterior is a weight over the sum of the weights:     *)
(* integers that start equal and are divided by 20 together when one goes  *)
(* over Ceiling.  For each of the 4096 sets of elevated signals that gives *)
(* the same winner and the same domains of one and of ten percent as exact *)
(* arithmetic, where no winner ties and no posterior is within 10^-6 of a  *)
(* threshold, so the rounding of floats decides nothing either.            *)
(***************************************************************************)
EXTENDS Integers, Sequences, FiniteSets, SequencesExt

Ceiling == 100000000

AllDomains ==
  <<"network_dns", "network_egress", "cpu_throttle", "memory_pressure",
    "provider_throttle", "provider_error", "retrieval_backend", "unknown">>

(* In twentieths, domain by domain. *)
DefaultLikelihoods ==
  [dns_latency_ms           |-> <<19, 14, 2, 2, 2, 2, 3, 2>>,
   tcp_retransmits_total    |-> <<3, 18, 2, 2, 2, 3, 2, 2>>,
   runqueue_delay_ms        |-> <<2, 2, 18, 12, 2, 2, 2, 2>>,
   connect_latency_ms       |-> <<10, 17, 2, 2, 15, 8, 6, 2>>,
   tls_handshake_ms         |-> <<2, 6, 2, 2, 16, 10, 4, 2>>,
   cpu_steal_pct            |-> <<2, 2, 18, 4, 2, 2, 2, 2>>,
   cfs_throttled_ms         |-> <<2, 2, 17, 15, 2, 2, 2, 2>>,
   mem_reclaim_latency_ms   |-> <<1, 1, 3, 19, 1, 1, 1, 1>>,
   disk_io_latency_ms       |-> <<1, 1, 2, 17, 1, 1, 6, 1>>,
   syscall_latency_ms       |-> <<2, 4, 3, 2, 18, 12, 8, 2>>,
   connect_errors_total     |-> <<2, 16, 1, 1, 12, 17, 3, 2>>,
   tls_handshake_fail_total |-> <<1, 14, 1, 1, 6, 12, 2, 1>>]
Signals == DOMAIN DefaultLikelihoods
SignalNames ==
  <<"dns_latency_ms", "tcp_retransmits_total", "runqueue_delay_ms", "connect_latency_ms",
    "tls_handshake_ms", "cpu_steal_pct", "cfs_throttled_ms", "mem_reclaim_latency_ms",
    "disk_io_latency_ms", "syscall_latency_ms", "connect_errors_total",
    "tls_handshake_fail_total">>

(* In tenths, like every value of a signal here. *)
SignalThresholds ==
  [dns_latency_ms |-> 400, tcp_retransmits_total |-> 20, runqueue_delay_ms |-> 100,
   connect_latency_ms |-> 800, tls_handshake_ms |-> 600, cpu_steal_pct |-> 20,
   cfs_throttled_ms |-> 400, mem_reclaim_latency_ms |-> 50, disk_io_latency_ms |-> 100,
   syscall_latency_ms |-> 500, connect_errors_total |-> 10, tls_handshake_fail_total |-> 10]

Elevated_Strictly(signals) ==
  { s \in Signals \cap DOMAIN signals : signals[s] > SignalThresholds[s] }
Elevated(signals) ==
  { s \in Signals \cap DOMAIN signals : signals[s] >= SignalThresholds[s] }

LikelihoodFor_AbsenceAsPresence(s, d, elevated) ==
  IF elevated THEN 20 - DefaultLikelihoods[s][d] ELSE DefaultLikelihoods[s][d]
LikelihoodFor(s, d, elevated) ==
  IF elevated THEN DefaultLikelihoods[s][d] ELSE 20 - DefaultLikelihoods[s][d]

(* The weights of the domains, given the elevated signals. *)
Attribute(elevated) ==
  LET observe(w, s) ==
        LET product == [d \in DOMAIN w |-> w[d] * LikelihoodFor(s, d, s \in elevated)]
        IN  IF \E d \in DOMAIN w : product[d] > Ceiling
            THEN [d \in DOMAIN w |-> product[d] \div 20]
            ELSE product
  IN  FoldLeft(observe, [d \in DOMAIN AllDomains |-> Ceiling], SignalNames)

(* posterior >= 1/n *)
AtLeastOneIn(n, d, w) == w[d] >= (SumFunction(w) + n - 1) \div n

(* The stable sort leaves the earlier domain first among equals. *)
Winner(w) ==
  CHOOSE d \in DOMAIN w : \A e \in DOMAIN w : w[e] < w[d] \/ (w[e] = w[d] /\ e >= d)

MapFaultLabel(label) ==
  CASE label = "dns_latency"        -> "network_dns"
    [] label = "egress_drop"        -> "network_egress"
    [] label = "network_partition"  -> "network_egress"
    [] label = "retrieval_slowdown" -> "retrieval_backend"
    [] label \in {"cpu_throttle", "memory_pressure", "provider_throttle", "provider_error"} -> label
    [] OTHER                        -> "unknown"

(* A prediction: the domain, the hypotheses with their weights, and whether  *)
(* its confidence is one the schema takes.                                   *)
BuildAttribution(sample) ==
  [domain |-> MapFaultLabel(sample.label), hypotheses |-> << >>, sum |-> 1,
   confident |-> sample.confident]

AttributeSample(sample) ==
  IF sample.signals = << >>
  THEN BuildAttribution(sample)
  ELSE LET w == Attribute(Elevated(sample.signals))
           kept == { d \in DOMAIN w : AtLeastOneIn(100, d, w) }
       IN  [domain |-> AllDomains[Winner(w)],
            hypotheses |-> [name \in { AllDomains[d] : d \in kept } |->
                              w[CHOOSE d \in kept : AllDomains[d] = name]],
            sum |-> SumFunction(w), confident |-> TRUE]

(* "bayes" is also what an unknown mode means. *)
BuildAttributions(sample, mode) ==
  IF mode = "rule" THEN BuildAttribution(sample) ELSE AttributeSample(sample)

(* ------------------- measures over samples and predictions --------------- *)

Actual(sample) ==
  IF sample.expected = "" THEN MapFaultLabel(sample.label) ELSE sample.expected

Expected(sample) ==
  IF sample.domains = << >> THEN <<Actual(sample)>> ELSE sample.domains

BuildConfusionMatrix_OfSets(samples, predictions) ==
  [key \in { <<Actual(samples[i]), predictions[i].domain>> : i \in DOMAIN predictions } |-> 1]
BuildConfusionMatrix(samples, predictions) ==
  LET key(i) == <<Actual(samples[i]), predictions[i].domain>>
  IN  [k \in { key(i) : i \in DOMAIN predictions } |->
         Cardinality({ i \in DOMAIN predictions : key(i) = k })]

(* Of Len(predictions). *)
Accuracy(samples, predictions) ==
  Cardinality({ i \in DOMAIN predictions : Actual(samples[i]) = predictions[i].domain })
PartialAccuracy(samples, predictions) ==
  Cardinality({ i \in DOMAIN predictions :
                  \E j \in DOMAIN Expected(samples[i]) :
                    Expected(samples[i])[j] = predictions[i].domain })

Covers(prediction, name, n) ==
  \/ name = prediction.domain
  \/ /\ name \in DOMAIN prediction.hypotheses
     /\ prediction.hypotheses[name] >= (prediction.sum + n - 1) \div n

(* The mean of these fractions. *)
CoverageAccuracy(samples, predictions, n) ==
  LET found(i) == { j \in DOMAIN Expected(samples[i]) :
                      Covers(predictions[i], Expected(samples[i])[j], n) }
  IN  [i \in DOMAIN predictions |->
         [found |-> Cardinality(found(i)), of |-> Len(Expected(samples[i]))]]
=============================================================================
