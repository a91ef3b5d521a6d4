------------------------------ MODULE Benchmark ------------------------------
(***************************************************************************)
(* The benchmark of the Makefile: cmd/faultreplay writes labelled samples  *)
(* to a file, line by line; cmd/benchgen reads them, or builds samples of  *)
(* its own, attributes them and writes six artifacts, one after the other. *)
(* A replay that fails leaves the lines it has written, and a file given   *)
(* to benchgen may as well come from somebody else.                        *)
(***************************************************************************)
EXTENDS Attribution

CONSTANTS
  Starts,       (* what may be started: [replay: [scenario, count], input: a *)
                (* file of somebody else, run: [scenario, mode, input]]      *)
  MaxFaults     (* bound: failures of the file system                        *)

IsSequence(s) == s \in Seq({ s[i] : i \in DOMAIN s })
IsSample(sample) == IsSequence(sample.domains)

BenchAssumption ==
  \A start \in Starts :
    /\ start.input = [lines |-> start.input.lines, tail |-> start.input.tail]
    /\ start.input.tail \in {"none", "torn", ""}
    /\ IsSequence(start.input.lines)
    /\ \A i \in DOMAIN start.input.lines : IsSample(start.input.lines[i])
    /\ start.replay.count \in Nat
ASSUME BenchAssumption

VARIABLES
  replay,       (* faultreplay's flags                                       *)
  run,          (* benchgen's flags; input: TRUE for --input                 *)
  pc,
  todo,         (* the samples faultreplay has still to encode               *)
  input,        (* the sample file: [lines, tail]; "none": no file, "torn":  *)
                (* behind the lines is one that is cut off or too long       *)
  samples, predictions,
  files,        (* each artifact: "old", "new", or "lost" (empty or torn)    *)
  rows,         (* is_correct of incident_predictions.csv                    *)
  matrix,       (* confusion-matrix.csv                                      *)
  summary,      (* benchmarkSummary.Metrics                                  *)
  at,           (* the artifact benchgen writes next                         *)
  exitCode,     (* of benchgen; -1 before its end                            *)
  faults

benchVars == <<replay, run, pc, todo, input, samples, predictions, files, rows, matrix,
          summary, at, exitCode, faults>>
work == <<samples, predictions, files, rows, matrix, summary, at>>

NoFile == [lines |-> << >>, tail |-> "none"]
Artifacts == <<"predictions", "confusion", "overhead", "summary", "report", "provenance">>
NoSummary == [accuracy |-> 0, partial |-> 0, coverage |-> << >>, multi |-> FALSE]

(* ------------------------------- faultreplay ------------------------------ *)

Sample(label, expected, domains) ==
  [label |-> label, expected |-> expected, domains |-> domains, signals |-> << >>,
   confident |-> TRUE, window |-> TRUE]

ScenarioFaultLabels(scenario) ==
  CASE scenario = "mixed" ->
         <<"provider_throttle", "dns_latency", "cpu_throttle", "memory_pressure",
           "network_partition">>
    [] scenario \in {"provider_throttle", "dns_latency", "cpu_throttle", "memory_pressure",
                     "network_partition"} -> <<scenario>>
    [] OTHER -> << >>

Pairs == << <<"provider_throttle", "dns_latency">>, <<"cpu_throttle", "memory_pressure">>,
            <<"network_partition", "dns_latency">>, <<"provider_throttle", "network_partition">> >>

(* idx % len, from 1 *)
Round(s, i) == s[((i - 1) % Len(s)) + 1]

(* The domains of a pair are known and distinct, uniqueDomains keeps both. *)
GenerateMixedMultiSamples(count) ==
  [i \in 1..count |->
     LET pair == Round(Pairs, i)
     IN  Sample(pair[1], MapFaultLabel(pair[1]), <<MapFaultLabel(pair[1]), MapFaultLabel(pair[2])>>)]

(* << >> for an error. *)
GenerateFaultSamples(scenario, count) ==
  IF scenario = "mixed_multi"
  THEN GenerateMixedMultiSamples(count)
  ELSE LET labels == ScenarioFaultLabels(scenario)
       IN  IF labels = << >> THEN << >>
           ELSE [i \in 1..count |->
                   Sample(Round(labels, i), MapFaultLabel(Round(labels, i)), << >>)]

BenchInit ==
  /\ \E start \in Starts :
       replay = start.replay /\ run = start.run /\ input = start.input
  /\ pc = "replay" /\ todo = << >>
  /\ samples = << >> /\ predictions = << >>
  /\ files = [i \in DOMAIN Artifacts |-> "old"]
  /\ rows = << >> /\ matrix = << >> /\ summary = NoSummary
  /\ at = 1 /\ exitCode = -1 /\ faults = 0

Fault == faults < MaxFaults /\ faults' = faults + 1

(* os.Create empties a file that is there. *)
Replay ==
  /\ pc = "replay" /\ run.input
  /\ LET generated == GenerateFaultSamples(replay.scenario, replay.count)
     IN  \/ /\ generated = << >>
            /\ pc' = "replay_failed" /\ UNCHANGED <<input, todo, faults>>
         \/ /\ generated # << >>
            /\ pc' = "encode" /\ todo' = generated
            /\ input' = [lines |-> << >>, tail |-> ""] /\ UNCHANGED faults
         \/ (* no directory, or no file *)
            /\ generated # << >> /\ Fault
            /\ pc' = "replay_failed" /\ UNCHANGED <<input, todo>>
  /\ UNCHANGED <<replay, run, work, exitCode>>

Encode ==
  /\ pc = "encode"
  /\ IF todo = << >>
     THEN pc' = "generate" /\ UNCHANGED <<todo, input, faults>>
     ELSE \/ /\ input' = [input EXCEPT !.lines = Append(@, Head(todo))]
             /\ todo' = Tail(todo) /\ UNCHANGED <<pc, faults>>
          \/ (* the write fails, with none or a part of the line on disk *)
             /\ Fault
             /\ \E tail \in {"", "torn"} : input' = [input EXCEPT !.tail = tail]
             /\ pc' = "replay_failed" /\ todo' = << >>
  /\ UNCHANGED <<replay, run, work, exitCode>>

(* Somebody starts benchgen: without a replay, or after one that failed; make *)
(* does it after one that has not.                                             *)
Benchgen ==
  /\ pc \in {"replay", "replay_failed", "generate"}
  /\ pc' = "load"
  /\ UNCHANGED <<replay, run, todo, input, work, exitCode, faults>>

(* -------------------------------- benchgen ------------------------------- *)

BuildMixedFaultSamples ==
  [i \in 1..12 |-> LET label == IF i % 2 = 1 THEN "provider_throttle" ELSE "dns_latency"
                   IN  Sample(label, MapFaultLabel(label), << >>)]

BuildMixedMultiSamples ==
  LET single == [dns_latency |-> "network_dns", cpu_throttle |-> "cpu_throttle",
                 provider_throttle |-> "provider_throttle",
                 memory_pressure |-> "memory_pressure", network_partition |-> "network_egress"]
      one(label) == Sample(label, single[label], <<single[label]>>)
      mixed(domains) == Sample("mixed", "", domains)
  IN  << mixed(<<"network_dns", "cpu_throttle">>),
         mixed(<<"provider_throttle", "memory_pressure">>),
         mixed(<<"network_egress", "provider_throttle">>),
         mixed(<<"cpu_throttle", "memory_pressure">>),
         mixed(<<"network_dns", "memory_pressure">>),
         mixed(<<"network_dns", "provider_throttle", "cpu_throttle">>),
         one("dns_latency"), one("cpu_throttle"), one("provider_throttle"),
         one("memory_pressure"), one("network_partition"),
         mixed(<<"network_dns", "network_egress">>) >>

LoadSamplesFromJSONL(file) == IF file.tail = "" THEN file.lines ELSE << >>

(* << >> for an error. *)
LoadSamples ==
  IF run.input THEN LoadSamplesFromJSONL(input)
  ELSE CASE run.scenario = "mixed_faults" -> BuildMixedFaultSamples
         [] run.scenario = "mixed_multi"  -> BuildMixedMultiSamples
         [] OTHER ->
              IF MapFaultLabel(run.scenario) = "unknown" THEN << >>
              ELSE [i \in 1..12 |-> Sample(run.scenario, MapFaultLabel(run.scenario), << >>)]

Fail == exitCode' = 1 /\ pc' = "exit"

(* GenerateArtifactsWithOptions to its predictions. *)
Load ==
  /\ pc = "load"
  /\ \/ /\ LoadSamples # << >>
        /\ samples' = LoadSamples
        /\ predictions' = [i \in DOMAIN LoadSamples |->
                             BuildAttributions(LoadSamples[i], run.mode)]
        /\ pc' = "validate" /\ UNCHANGED <<exitCode, faults>>
     \/ /\ LoadSamples = << >>
        /\ Fail /\ UNCHANGED <<samples, predictions, faults>>
     \/ (* no output directory *)
        /\ Fault /\ Fail /\ UNCHANGED <<samples, predictions>>
  /\ UNCHANGED <<replay, run, todo, input, files, rows, matrix, summary, at>>

(* The schema bounds the confidence and the window, and takes all domains. *)
ValidateAgainstSchema ==
  /\ pc = "validate"
  /\ \/ /\ \A i \in DOMAIN predictions : predictions[i].confident /\ samples[i].window
        /\ pc' = "write" /\ UNCHANGED <<exitCode, faults>>
     \/ /\ \E i \in DOMAIN predictions : ~(predictions[i].confident /\ samples[i].window)
        /\ Fail /\ UNCHANGED faults
     \/ (* no schema file *)
        /\ Fault /\ Fail
  /\ UNCHANGED <<replay, run, todo, input, work>>

Put(status) == files' = [files EXCEPT ![at] = status]
GoOn == at' = at + 1 /\ UNCHANGED <<pc, exitCode>>
Stop == Fail /\ UNCHANGED at

(* The deferred Flush of a CSV writer returns nothing: only rows that do not *)
(* fit its buffer, and Create, can fail the run.                             *)
WriteCSV(artifact) ==
  /\ pc = "write" /\ Artifacts[at] = artifact
  /\ \/ Put("new") /\ GoOn /\ UNCHANGED faults
     \/ Fault /\ Put("lost") /\ GoOn
     \/ Fault /\ Put("lost") /\ Stop
     \/ Fault /\ Put("old") /\ Stop
  /\ UNCHANGED <<replay, run, todo, input, samples, predictions>>

(* writeJSON, and the report's os.WriteFile *)
WriteFile_ErrorIgnored(artifact) ==
  /\ pc = "write" /\ Artifacts[at] = artifact
  /\ \/ Put("new") /\ GoOn /\ UNCHANGED faults
     \/ Fault /\ (Put("lost") \/ Put("old")) /\ GoOn
  /\ UNCHANGED <<replay, run, todo, input, samples, predictions, rows, matrix>>
WriteFile(artifact) ==
  /\ pc = "write" /\ Artifacts[at] = artifact
  /\ \/ Put("new") /\ GoOn /\ UNCHANGED faults
     \/ Fault /\ (Put("lost") \/ Put("old")) /\ Stop
  /\ UNCHANGED <<replay, run, todo, input, samples, predictions, rows, matrix>>

WriteIncidentPredictions ==
  /\ WriteCSV("predictions")
  /\ rows' = IF files'[at] = "new"
             THEN [i \in DOMAIN predictions |-> predictions[i].domain = Actual(samples[i])]
             ELSE rows
  /\ UNCHANGED <<matrix, summary>>

WriteConfusionMatrix ==
  /\ WriteCSV("confusion")
  /\ matrix' = IF files'[at] = "new" THEN BuildConfusionMatrix(samples, predictions) ELSE matrix
  /\ UNCHANGED <<rows, summary>>

WriteCollectorOverhead == WriteCSV("overhead") /\ UNCHANGED <<rows, matrix, summary>>

HasExpectedDomains == \E i \in DOMAIN samples : samples[i].domains # << >>

WriteSummary ==
  /\ WriteFile("summary")
  /\ summary' =
       [accuracy |-> Accuracy(samples, predictions),
        partial |-> IF HasExpectedDomains THEN PartialAccuracy(samples, predictions) ELSE 0,
        coverage |-> IF HasExpectedDomains THEN CoverageAccuracy(samples, predictions, 10)
                     ELSE << >>,
        multi |-> HasExpectedDomains]

WriteReportMarkdown == WriteFile("report") /\ UNCHANGED summary

(* The last file; main then reports the bundle and leaves with 0. *)
WriteProvenance == WriteFile("provenance") /\ UNCHANGED summary

Return ==
  /\ pc = "write" /\ at > Len(Artifacts)
  /\ pc' = "exit" /\ exitCode' = 0
  /\ UNCHANGED <<replay, run, todo, input, work, faults>>

Write ==
  /\ at \in DOMAIN Artifacts
  /\ \/ WriteIncidentPredictions \/ WriteConfusionMatrix \/ WriteCollectorOverhead
     \/ WriteSummary \/ WriteReportMarkdown \/ WriteProvenance

Exited == pc = "exit" /\ UNCHANGED benchVars

BenchNext ==
  \/ Replay \/ Encode \/ Benchgen \/ Load \/ ValidateAgainstSchema \/ Write \/ Return
  \/ Exited
BenchSpec == BenchInit /\ [][BenchNext]_benchVars

(* ------------------------------- properties ------------------------------ *)

(* The artifacts tell one story, each from its own pass over the samples:    *)
(* the rows marked correct, the diagonal of the matrix and the accuracy are  *)
(* the same number, the matrix has every sample once, where the expected     *)
(* domain is one of the expected domains no partial credit is below exact,   *)
(* and every sample with partial credit adds to the coverage.                *)
ReportsAgree ==
  LET new(artifact) == \E i \in DOMAIN Artifacts : Artifacts[i] = artifact /\ files[i] = "new"
      diagonal == { key \in DOMAIN matrix : key[1] = key[2] }
      off == DOMAIN matrix \ diagonal
      total(keys) == SumFunctionOnSet(matrix, keys)
      correct == Cardinality({ i \in DOMAIN rows : rows[i] })
      listed == \A i \in DOMAIN samples : \E j \in DOMAIN Expected(samples[i]) :
                  Expected(samples[i])[j] = Actual(samples[i])
  IN  /\ new("predictions") /\ new("confusion") =>
           /\ correct = total(diagonal)
           /\ Len(rows) = total(diagonal) + total(off)
      /\ new("predictions") /\ new("summary") => correct = summary.accuracy
      /\ new("summary") /\ summary.multi =>
           /\ listed => summary.partial >= summary.accuracy
           /\ summary.partial <= Cardinality({ i \in DOMAIN summary.coverage :
                                                  summary.coverage[i].found > 0 })

(* provenance.json is written last and vouches for the bundle: when it is of *)
(* this run so are the summary and the report, a run that ends with 0 has    *)
(* left no artifact of an earlier one.                                       *)
ProvenanceVouches ==
  /\ files[6] = "new" => files[4] = "new" /\ files[5] = "new"
  /\ exitCode = 0 => \A i \in DOMAIN files : files[i] # "old"

(* The profiles of pkg/signals/generator.go: what each fault raises. *)
ProfileForFault(label) ==
  LET base == [dns_latency_ms |-> 120, tcp_retransmits_total |-> 2, runqueue_delay_ms |-> 40,
               connect_latency_ms |-> 180, tls_handshake_ms |-> 220, cpu_steal_pct |-> 6,
               cfs_throttled_ms |-> 50, mem_reclaim_latency_ms |-> 5, disk_io_latency_ms |-> 20,
               syscall_latency_ms |-> 50, connect_errors_total |-> 0,
               tls_handshake_fail_total |-> 0]
  IN  CASE label = "dns_latency" ->
             [base EXCEPT !.dns_latency_ms = 2200, !.connect_latency_ms = 1300]
        [] label = "cpu_throttle" ->
             [base EXCEPT !.runqueue_delay_ms = 280, !.cpu_steal_pct = 90, !.cfs_throttled_ms = 1700]
        [] label = "memory_pressure" ->
             [base EXCEPT !.runqueue_delay_ms = 140, !.cfs_throttled_ms = 900,
                          !.mem_reclaim_latency_ms = 250, !.disk_io_latency_ms = 600]
        [] label = "provider_throttle" ->
             [base EXCEPT !.connect_latency_ms = 450, !.tls_handshake_ms = 550,
                          !.connect_errors_total = 10, !.syscall_latency_ms = 2500]
        [] label = "network_partition" ->
             [base EXCEPT !.connect_latency_ms = 3500, !.connect_errors_total = 30,
                          !.tcp_retransmits_total = 120, !.dns_latency_ms = 1800,
                          !.tls_handshake_fail_total = 20]
        [] OTHER -> base

Bayesian(i) == run.mode # "rule" /\ samples[i].signals # << >>

(* What the generator injects is found: the profile of a fault has the       *)
(* fault's domain among the hypotheses of ten percent that coverage counts,  *)
(* though one of its values sits exactly on the threshold and the winner may *)
(* be another domain.                                                        *)
InjectedFaultCovered ==
  pc = "validate" => \A i \in DOMAIN samples :
    Bayesian(i) /\ samples[i].signals = ProfileForFault(samples[i].label)
      /\ ScenarioFaultLabels(samples[i].label) # << >>
      => Covers(predictions[i], MapFaultLabel(samples[i].label), 10)

(* Explaining works in one direction: raising a signal that no domain makes  *)
(* likelier than the winner leaves the winner where it is, and lowering one  *)
(* that no domain makes unlikelier does too.                                 *)
MoreEvidenceKeepsWinner ==
  pc = "validate" => \A i \in DOMAIN samples : Bayesian(i) =>
    LET elevated == Elevated(samples[i].signals)
        winner == Winner(Attribute(elevated))
        strongest(s) == \A d \in DOMAIN AllDomains :
                          DefaultLikelihoods[s][d] <= DefaultLikelihoods[s][winner]
        weakest(s) == \A d \in DOMAIN AllDomains :
                        DefaultLikelihoods[s][d] >= DefaultLikelihoods[s][winner]
    IN  /\ predictions[i].domain = AllDomains[winner]
        /\ \A s \in Signals \ elevated :
             strongest(s) => Winner(Attribute(elevated \cup {s})) = winner
        /\ \A s \in elevated :
             weakest(s) => Winner(Attribute(elevated \ {s})) = winner
=============================================================================
