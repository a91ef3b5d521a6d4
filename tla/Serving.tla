------------------------------- MODULE Serving -------------------------------
(***************************************************************************)
(* The service that exports the SLO metrics, a Prometheus that scrapes it, *)
(* and sloctl, which asks that Prometheus whether a deployment may go on.  *)
(* Prometheus is external: it keeps the newest scrape and the oldest one   *)
(* that its five-minute range still holds.                                 *)
(***************************************************************************)
EXTENDS RagService, Sloctl, Functions

CONSTANTS
  TickMS,        (* the milliseconds of a tick                               *)
  RuleValues,    (* the values that recording rules of the user's may give   *)
                 (* the metrics that no program of the toolkit exports       *)
  MaxScrapes,    (* bound: scrapes                                           *)
  NoAnswer, Unreachable   (* what a query has instead of a value             *)

ServingAssumption ==
  /\ TickMS \in Nat \ {0} /\ RuleValues \subseteq Float
  /\ NoAnswer \notin Float /\ Unreachable \notin Float /\ NoAnswer # Unreachable
ASSUME ServingAssumption

VARIABLES
  oldest, newest,(* scraped ttftHist, or << >>                               *)
  scrapes,       (* bound: scrapes so far                                    *)
  answers        (* history: what each query was answered                    *)

promVars == <<oldest, newest, scrapes, answers>>
vars == <<ragVars, ctlVars, promVars>>

Init ==
  /\ RagInit /\ CtlInit
  /\ oldest = << >> /\ newest = << >> /\ scrapes = 0 /\ answers = << >>

(* The range may move past the oldest scrape it held. *)
Scrape ==
  /\ scrapes < MaxScrapes /\ scrapes' = scrapes + 1
  /\ newest' = ttftHist
  /\ oldest' \in (IF oldest = << >> THEN {ttftHist} ELSE {oldest, newest})
  /\ UNCHANGED <<ragVars, ctlVars, answers>>

(* histogram_quantile(0.95, ...) of what came between the two scrapes: a   *)
(* value inside the bucket that holds the rank or at its bound, the last   *)
(* finite bound for the infinite bucket, NaN when nothing came.            *)
Came == [b \in Buckets |-> newest[b] - oldest[b]]
CountUpTo(b) == SumFunctionOnSet(Came, 0..b)
Quantile95 ==
  LET n == CountUpTo(Infinite)
      holds(b) == 100 * CountUpTo(b) >= 95 * n
      bucket == CHOOSE b \in Buckets : holds(b) /\ (b = 0 \/ ~holds(b - 1))
  IN  IF n = 0 THEN {NaN}
      ELSE IF bucket = Infinite THEN {TickMS * Infinite}
      ELSE {TickMS * bucket + TickMS \div 2, TickMS * (bucket + 1)}

(* A rate needs two scrapes in its range.  newMetrics has the TTFT         *)
(* histogram; llm_slo_errors_total and llm_slo_burn_rate are exported by   *)
(* no program, and have a value only where a rule makes one.               *)
Values(metric) ==
  IF metric # "ttft_p95_ms" THEN RuleValues
  ELSE IF scrapes < 2 THEN {} ELSE Quantile95
Empty(metric) == metric # "ttft_p95_ms" \/ scrapes < 2

Answered(v) == answers' = Append(answers, v)

(* HTTPQuerier.Query. *)
Ask ==
  /\ Asking
  /\ \/ \E v \in Values(Metric) : Query(v) /\ Answered(v)
     \/ Empty(Metric) /\ line.timeout > 0 /\ QueryFails /\ Answered(NoAnswer)
     \/ QueryFails /\ Answered(Unreachable)
  /\ UNCHANGED <<ragVars, oldest, newest, scrapes>>

Ctl ==
  /\ Usage \/ Inform \/ RunCDGateCheck \/ Conclude \/ RunPrereqCheck
  /\ UNCHANGED <<ragVars, promVars>>

Forget == Reap /\ answers' = << >> /\ UNCHANGED <<ragVars, oldest, newest, scrapes>>

Serve == RagNext /\ UNCHANGED <<ctlVars, promVars>>

Next == Serve \/ Scrape \/ Ctl \/ Ask \/ Forget

Spec == Init /\ [][Next]_vars

(* ------------------------------- properties ----------------------------- *)

Complete(h) ==
  IF h.body.stream
    THEN <<"meta">> \o [i \in 1..h.size |-> "token"] \o <<"done">>
    ELSE <<"body">>

(* A request is counted as ok exactly when the whole of its response was   *)
(* written under the status 200, and as an error only for a reason: the    *)
(* client had gone, llama.cpp failed before anything was written, or the   *)
(* clock was set back.  The status line alone tells nothing: a stream that *)
(* breaks off has 200 too (handleChat, streamResponse, nonStreamResponse). *)
Justified(h) ==
  /\ h.outcome = "ok" => h.code = 200 /\ h.sent = Complete(h)
  /\ h.outcome \in {"error", "bad_request"} => h.sent # Complete(h)
  /\ h.outcome = "error" =>
       \/ h.gone \/ slips > 0
       \/ backend = "llama_cpp" /\ h.code = 502 /\ h.sent = <<"failed">>
OutcomeIsJustified == \A c \in Clients : Justified(chat[c])

(* A request passes recordSnapshot before its last write and is counted    *)
(* after it: at every moment, whatever the handlers do together, the TTFT  *)
(* histogram holds all requests counted as ok and none that is not counted *)
(* or in flight, as a rate over both series supposes.                      *)
HistogramBrackets ==
  LET observed == SumFunction(ttftHist)
      inFlight == { c \in Clients : chat[c].at \in {"done", "body", "counting"} }
  IN  /\ requestTotal["ok"] <= observed
      /\ observed <= requestTotal["ok"] + requestTotal["error"] + Cardinality(inFlight)

Ran(command) == line.command = command /\ status # -1 /\ ~UnknownOutput(line)
TooHigh(i) ==
  LET a == answers[i]
      threshold == gate[Metrics[i]]
  IN  \/ a \in Int /\ threshold \in Int /\ a > threshold
      \/ a = PosInf /\ threshold \in Int \cup {NegInf}
      \/ a \in Int /\ threshold = NegInf
Finite(i) == answers[i] \in Int /\ gate[Metrics[i]] \in Int

(* What sloctl's exit status says.  A gate that ends with 0 has either had *)
(* every query answered and no metric over its threshold, or met an error  *)
(* with fail-open; but fail-open does not help a gate whose output is JSON *)
(* when it has found a violation with an infinity in it before the error.  *)
(* Every other gate ends with 1.  A host passes exactly when all blockers  *)
(* do, and with --strict all checks.                                       *)
ExitTellsOutcome ==
  /\ Ran("cdgate") =>
       LET error == \E i \in DOMAIN answers : answers[i] \in {NoAnswer, Unreachable}
           high == \E i \in DOMAIN answers : TooHigh(i)
           unprintable == \E i \in DOMAIN answers : TooHigh(i) /\ ~Finite(i)
           excused == error /\ gate.failOpen = 1 /\ ~(line.output = "json" /\ unprintable)
       IN  status = IF excused THEN 0 ELSE IF error \/ high THEN 1 ELSE 0
  /\ Ran("prereq") =>
       LET required == {"host_linux", "btf_available", "bpftool_installed", "privileged_execution"}
                         \cup (IF line.strict THEN Warnings ELSE {})
           new == ~(snapshot.major < 5 \/ (snapshot.major = 5 /\ snapshot.minor < 15))
       IN  status = 0 <=> required \subseteq snapshot.facts /\ new

(* A gate whose threshold is the bound of a bucket, as the default is,     *)
(* reports a TTFT violation only if the handler of some request measured a *)
(* TTFT over it: neither the moment of the scrapes, a request in flight    *)
(* nor an empty range makes one up (Query, histogram_quantile).            *)
BlockedBySlowRequest ==
  \A v \in result.violations :
    v.metric = "ttft_p95_ms" /\ v.threshold \in Int /\ v.threshold % TickMS = 0 =>
      TickMS * slowest >= v.threshold

(* docs/ARCHITECTURE.md:346 "If any metric exceeds configured thresholds,  *)
(* the gate fails with exit code 1", and docs/guides/cd-gate.md has        *)
(* --fail-open for a Prometheus that is unreachable.                       *)
HighMetricBlocks ==
  Ran("cdgate") /\ status = 0 =>
    \/ \E i \in DOMAIN answers : answers[i] = Unreachable
    \/ \A i \in DOMAIN answers : ~TooHigh(i)
=============================================================================
