------------------------------- MODULE Sloctl -------------------------------
(***************************************************************************)
(* cmd/sloctl with pkg/cdgate, pkg/prereq and pkg/toolkitcfg: a process    *)
(* that runs one command to an exit status, again and again.  The gate     *)
(* asks Prometheus for three metrics in turn under one deadline; what      *)
(* Prometheus answers is a parameter of Query.  A float64 is an integer or *)
(* one of the three values ParseFloat makes of NaN, Inf and -Inf; a setting*)
(* that is a text is a number here too, and 0 is the empty text.           *)
(***************************************************************************)
EXTENDS Integers, Sequences, FiniteSets

CONSTANTS
  CommandLines,  (* [command, config, flags, output, timeout, strict]        *)
  Files,         (* path -> [readable, settings]: readable if it also parses *)
  Hosts,         (* the snapshots a host may give to the prerequisite check  *)
  NaN, PosInf, NegInf

Metrics == <<"ttft_p95_ms", "error_rate", "burn_rate">>
Thresholds == {"ttft_p95_ms", "error_rate", "burn_rate"}
Float == Int \cup {NaN, PosInf, NegInf}

(* Thresholds and the overhead are float64, fail-open is a Boolean; a      *)
(* kernel without a version is a kernel 0.                                 *)
Settings(given) ==
  \A f \in DOMAIN given :
    given[f] \in IF f = "failOpen" THEN 0..1
                 ELSE IF f \in Thresholds \cup {"maxOverheadPct"} THEN Float ELSE Int
FloatAssumption ==
  /\ NaN \notin Int /\ PosInf \notin Int /\ NegInf \notin Int
  /\ NaN # PosInf /\ NaN # NegInf /\ PosInf # NegInf
CtlAssumption ==
  /\ FloatAssumption
  /\ \A l \in CommandLines : Settings(l.flags) /\ l.timeout \in Int /\ l.strict \in BOOLEAN
  /\ \A files \in Files : Settings(files["default"].settings) /\ Settings(files["named"].settings)
  /\ Hosts \subseteq [facts: SUBSET STRING, release: STRING, major: Nat, minor: Nat]
  /\ \A host \in Hosts : host.release # "numbered" => host.major = 0
ASSUME CtlAssumption

VARIABLES
  line,          (* the command line, NoLine when no sloctl runs             *)
  gate,          (* the settings of the gate in force                        *)
  snapshot,      (* the facts of the host                                    *)
  asked,         (* the queries answered or failed                           *)
  result,        (* EvaluateSLOGate's [pass, violations, error]              *)
  status         (* exit status, -1 while the process runs                   *)

ctlVars == <<line, gate, snapshot, asked, result, status>>

Passing == [pass |-> TRUE, violations |-> {}, error |-> FALSE]
NoLine == [command |-> "", config |-> "", flags |-> << >>, output |-> "", timeout |-> 0,
           strict |-> FALSE]

CtlInit ==
  /\ line = NoLine /\ gate = << >> /\ snapshot = << >>
  /\ asked = 0 /\ result = Passing /\ status = -1

(* A new process, of one of these commands. *)
Start(commands) ==
  /\ line = NoLine
  /\ line' \in { l \in CommandLines : l.command \in commands }

Exit(n) == status' = n
UnknownOutput(l) == l.output \notin {"text", "json"}

(* An unknown command, or a known one without its "check" or with a flag   *)
(* that does not parse, is a usage error.                                  *)
Usage ==
  /\ Start({"unknown"}) /\ Exit(2)
  /\ UNCHANGED <<gate, snapshot, asked, result>>

Inform ==
  /\ Start({"version", "help"}) /\ Exit(0)
  /\ UNCHANGED <<gate, snapshot, asked, result>>

(* The caller has read the exit status. *)
Reap ==
  /\ status # -1
  /\ line' = NoLine /\ gate' = << >> /\ snapshot' = << >>
  /\ asked' = 0 /\ result' = Passing /\ status' = -1

(* ----------------------------- configuration ---------------------------- *)

Default ==
  [apiVersion |-> 1, kind |-> 1, signalSet |-> 9, eventsPerSecond |-> 10000, burst |-> 20000,
   windowMS |-> 2000, endpoint |-> 1, maxOverheadPct |-> 5, webhookEnabled |-> 0,
   webhookURL |-> 0, webhookSecret |-> 0, webhookFormat |-> 1, webhookTimeoutMS |-> 5000,
   prometheusURL |-> 1, ttft_p95_ms |-> 800, error_rate |-> 5, burn_rate |-> 200,
   gateEnabled |-> 0, failOpen |-> 1]
Verbatim == {"webhookEnabled", "webhookURL", "webhookSecret", "gateEnabled", "failOpen"}

NotPositive(x) == x = NegInf \/ (x \in Int /\ x <= 0)

Normalize(cfg) ==
  [f \in DOMAIN cfg |->
     IF f \notin Verbatim /\ NotPositive(cfg[f]) THEN Default[f] ELSE cfg[f]]

(* The file is decoded over the defaults. *)
Load(settings) ==
  Normalize([f \in DOMAIN Default |->
               IF f \in DOMAIN settings THEN settings[f] ELSE Default[f]])

(* Only the form with two dashes is seen before the flags are parsed; a    *)
(* file named in the other form is read for a warning and not used.        *)
ResolveConfigPath(l) == IF l.config = "--config" THEN "named" ELSE "default"

GateSettings(l, cfg) ==
  [f \in {"prometheusURL", "ttft_p95_ms", "error_rate", "burn_rate", "failOpen"} |->
     IF f \in DOMAIN l.flags THEN l.flags[f]
     ELSE IF f # "failOpen" /\ NotPositive(cfg[f]) THEN Default[f] ELSE cfg[f]]

RunCDGateCheck ==
  /\ Start({"cdgate"})
  /\ \E files \in Files :
       LET file == files[ResolveConfigPath(line')]
       IN  gate' = GateSettings(line', IF file.readable THEN Load(file.settings) ELSE Default)
  /\ UNCHANGED <<snapshot, asked, result, status>>

(* -------------------------------- the gate ------------------------------ *)

Evaluating == line.command = "cdgate" /\ status = -1
Asking == Evaluating /\ ~result.error /\ asked < Len(Metrics)
Metric == Metrics[asked + 1]

(* a > t of two float64. *)
Exceeds_OrEquals(value, threshold) ==
  \/ value \in Int /\ threshold \in Int /\ value >= threshold
  \/ NaN \notin {value, threshold} /\ (value = PosInf \/ threshold = NegInf)
Exceeds(value, threshold) ==
  \/ value \in Int /\ threshold \in Int /\ value > threshold
  \/ /\ NaN \notin {value, threshold} /\ value # threshold
     /\ value = PosInf \/ threshold = NegInf

(* One query: an error ends the evaluation with what it has found so far. *)
QueryFails_GoesOn ==
  /\ Asking /\ asked' = asked + 1
  /\ UNCHANGED <<line, gate, snapshot, result, status>>
QueryFails ==
  /\ Asking /\ asked' = asked + 1
  /\ result' = [result EXCEPT !.pass = FALSE, !.error = TRUE]
  /\ UNCHANGED <<line, gate, snapshot, status>>
Query(value) ==
  /\ Asking /\ line.timeout > 0 /\ asked' = asked + 1
  /\ result' = IF Exceeds(value, gate[Metric])
               THEN [result EXCEPT !.pass = FALSE,
                 !.violations = @ \cup {[metric |-> Metric, threshold |-> gate[Metric],
                                         actual |-> value]}]
               ELSE result
  /\ UNCHANGED <<line, gate, snapshot, status>>

(* json.MarshalIndent has no text for NaN and the infinities. *)
Marshals(r) == \A v \in r.violations : v.threshold \in Int /\ v.actual \in Int

(* Fail-open turns an evaluation with an error into a pass.  Only when the *)
(* verdict is to be printed is it noticed that the output mode does not    *)
(* exist, or that a value in it cannot be printed as JSON.                 *)
Conclude ==
  /\ Evaluating /\ (result.error \/ asked = Len(Metrics))
  /\ LET pass == result.pass \/ (result.error /\ gate.failOpen = 1)
     IN  /\ result' = [result EXCEPT !.pass = pass]
         /\ Exit(IF UnknownOutput(line) THEN 2
                 ELSE IF line.output = "json" /\ ~Marshals(result) THEN 1
                 ELSE IF pass THEN 0 ELSE 1)
  /\ UNCHANGED <<line, gate, snapshot, asked>>

(* ----------------------------- prerequisites ---------------------------- *)
(* A host is [facts, release, major, minor]: release is "" when uname      *)
(* failed, "odd" when it has no version in it, else "numbered".            *)

Blockers == {"host_linux", "btf_available", "bpftool_installed", "privileged_execution"}
Warnings == {"kernel_headers", "clang_installed", "kind_installed", "helm_installed"}

BuildKernelCheck(s) ==
  s.release = "numbered" /\ (s.major > 5 \/ (s.major = 5 /\ s.minor >= 15))

(* The path of the headers is made of the release, and empty without one. *)
CollectSnapshot(host) ==
  [host EXCEPT !.facts = IF host.release = "" THEN @ \ {"kernel_headers"} ELSE @]

(* The names of the checks that do not pass. *)
Failed(s) ==
  ((Blockers \cup Warnings) \ s.facts)
    \cup (IF BuildKernelCheck(s) THEN {} ELSE {"kernel_version"})
Evaluate(s) == Failed(s) \subseteq Warnings
StrictPass(s) == Failed(s) = {}

RunPrereqCheck ==
  /\ Start({"prereq"})
  /\ snapshot' \in { CollectSnapshot(host) : host \in Hosts }
  /\ LET pass == IF line'.strict THEN StrictPass(snapshot') ELSE Evaluate(snapshot')
     IN  Exit(IF UnknownOutput(line') THEN 2 ELSE IF pass THEN 0 ELSE 1)
  /\ UNCHANGED <<gate, asked, result>>
=============================================================================
