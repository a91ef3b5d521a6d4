------------------------------- MODULE Agent -------------------------------
(***************************************************************************)
(* cmd/agent: two goroutines of one process.  "main" turns one sample a    *)
(* tick into SLO events and probe events, posts the attribution, lets the  *)
(* overhead guard shed a signal and moves the heartbeat; "hello" is the    *)
(* callback of the hello tracer, which sends its own probe events through  *)
(* the same rate limiter, drop counter and output.  One action is one step *)
(* of a goroutine between two points where the other may run.              *)
(***************************************************************************)
EXTENDS Signals, RateLimiter

CONSTANTS
  Configs,          (* the flag and file settings an agent may start with   *)
  SLOEvents,        (* SLO events NormalizeSample makes of one sample       *)
  HelloTargets,     (* command names the hello tracer reports on            *)
  HelloInterval,    (* seconds between two ticks of the hello tracer        *)
  MaxClock,         (* bound: seconds the run lasts                         *)
  MaxTicks,         (* bound: ticks of the streaming loop                   *)
  MaxHello,         (* bound: hello events                                  *)
  MaxFaults         (* bound: failed validations and failed writes          *)

Kinds == {"slo", "probe", "both"}
Outputs == {"stdout", "jsonl", "otlp"}

AgentAssumption ==
  /\ \A c \in Configs :
       /\ c.kind \in Kinds /\ c.hello \in BOOLEAN /\ c.guard \in BOOLEAN
       /\ c.count \in Nat
       /\ c.scenario \in {"known", "unknown"} /\ c.output \in Outputs
  /\ SLOEvents \in Nat /\ HelloTargets \in Nat \ {0}
  /\ HelloInterval \in Nat \ {0}
  /\ MaxClock \in Nat \ {0} /\ MaxTicks \in Nat /\ MaxHello \in Nat
  /\ MaxFaults \in Nat
ASSUME AgentAssumption

VARIABLES
  config,      (* the element of Configs this agent runs with               *)
  ctxDone,     (* the signal context has been cancelled                     *)
  clock,       (* the wall clock, in seconds                                *)
  pc, stamp,   (* per goroutine: where it is; the time its events carry     *)
  job,         (* per goroutine: the event it is putting out, or None       *)
  idx,         (* samples taken so far                                      *)
  sloLeft,     (* SLO events of this tick still to put out                  *)
  pending,     (* signals of this tick still to turn into events            *)
  helloLeft,   (* commands of this hello tick still to report               *)
  enabled,     (* signals.Generator: the enabled set                        *)
  gauge,       (* signals whose enabled-gauge reads 1                       *)
  primed,      (* the guard holds a previous CPU sample                     *)
  writer,      (* who holds outputWriters.mu                                *)
  closed,      (* the output file is closed                                 *)
  exitCode,    (* status of the process, or -1 while it runs                *)
  observed, hellos, dropped, written, heartbeat,  (* metrics and output     *)
  sloDropped,  (* history: SLO events counted in dropped                    *)
  admitted     (* history: events the limiter let through, by second        *)

limiterVars == <<windowSec, count>>
govVars == <<enabled, gauge, primed>>
outVars == <<writer, closed>>
metricVars == <<observed, hellos, dropped, written, heartbeat>>
histVars == <<sloDropped, admitted>>
vars == <<config, ctxDone, clock, pc, stamp, job, idx, sloLeft, pending, helloLeft,
          exitCode, limiterVars, govVars, outVars, metricVars, histVars>>

Procs == {"main", "hello"}
None  == "none"
SLO   == "slo_event"
Hello == "hello_event"
Free  == "free"
Reasons == {"rate_limit", "schema", "emit"}

includesSLO   == config.kind \in {"slo", "both"}
includesProbe == config.kind \in {"probe", "both"}
Supported == SupportedSignalsForMode(config.mode)
Selected  == ChooseEnabledSignals(config.configured, config.disabled, Supported)
InitialSignals == SetSignals(Selected, Supported)

Running == exitCode = -1
Goto(p, where) == pc' = [pc EXCEPT ![p] = where]
At(p, where) == Running /\ pc[p] = where

(* Where a goroutine goes on when it is through with one event. *)
Resume(p) ==
  IF p = "hello" THEN "emit" ELSE IF job[p] = SLO THEN "slo" ELSE "probe"
Finish(p) == Goto(p, Resume(p)) /\ job' = [job EXCEPT ![p] = None]

IncDropped(reason) == dropped' = [dropped EXCEPT ![reason] = @ + 1]
CountDrop(p, reason) ==
  /\ IncDropped(reason)
  /\ sloDropped' = sloDropped + (IF job[p] = SLO THEN 1 ELSE 0)

(* os.Exit: nothing deferred runs and the other goroutine stops where it is. *)
Die(code) == exitCode' = code

MayFail == dropped["schema"] + dropped["emit"] < MaxFaults

---------------------------------------------------------------------------
InitSignals ==
  /\ enabled = InitialSignals
  /\ gauge = enabled

Init ==
  /\ config \in Configs
  /\ ctxDone = FALSE /\ clock = 1
  /\ pc = [p \in Procs |-> IF p = "main" THEN "tick"
                           ELSE IF config.hello THEN "begin" ELSE "off"]
  /\ stamp = [p \in Procs |-> 0]
  /\ job = [p \in Procs |-> None]
  /\ idx = 0 /\ sloLeft = 0 /\ pending = {} /\ helloLeft = 0
  /\ NewRateLimiter
  /\ InitSignals
  /\ primed = FALSE
  /\ writer = Free /\ closed = FALSE /\ exitCode = -1
  /\ observed = 0 /\ hellos = 0 /\ written = 0 /\ heartbeat = 0
  /\ dropped = [r \in Reasons |-> 0]
  /\ sloDropped = 0
  /\ admitted = [s \in 1..MaxClock |-> 0]

---------------------------------------------------------------------------
(* The path of one event, the same code for both goroutines.               *)

(* runtimeLimiter.Allow with the time the event carries. *)
RateLimit(p) ==
  /\ At(p, "allow")
  /\ Allow(stamp[p])
  /\ \/ /\ Allows(stamp[p])
        /\ Goto(p, "validate")
        /\ admitted' = [admitted EXCEPT ![stamp[p]] = @ + 1]
        /\ UNCHANGED <<job, dropped, sloDropped>>
     \/ /\ ~Allows(stamp[p])
        /\ CountDrop(p, "rate_limit")
        /\ Finish(p)
        /\ UNCHANGED admitted
  /\ UNCHANGED <<config, ctxDone, clock, stamp, idx, sloLeft, pending, helloLeft, govVars,
                 outVars, exitCode, observed, hellos, written, heartbeat>>

(* What a failed SLO event does that a failed probe event does not. *)
AfterFailure(p) ==
  IF job[p] = SLO THEN Die(1) /\ UNCHANGED <<pc, job>> ELSE Finish(p) /\ UNCHANGED exitCode

(* schema.ValidateAgainstSchema *)
Validate(p) ==
  /\ At(p, "validate")
  /\ \/ /\ Goto(p, "lock")
        /\ UNCHANGED <<job, dropped, sloDropped, exitCode>>
     \/ /\ MayFail
        /\ CountDrop(p, "schema")
        /\ AfterFailure(p)
  /\ UNCHANGED <<config, ctxDone, clock, stamp, idx, sloLeft, pending, helloLeft,
                 limiterVars, govVars, outVars, observed, hellos, written, heartbeat, admitted>>

(* EmitSLO and EmitProbe, first half: outputWriters.mu. *)
LockOutput_NoMutex(p) ==
  /\ At(p, "lock")
  /\ writer' = p
  /\ Goto(p, "encode")
  /\ UNCHANGED <<config, ctxDone, clock, stamp, job, idx, sloLeft, pending, helloLeft,
                 limiterVars, govVars, closed, exitCode, metricVars, histVars>>
LockOutput(p) ==
  /\ At(p, "lock")
  /\ writer = Free
  /\ writer' = p
  /\ Goto(p, "encode")
  /\ UNCHANGED <<config, ctxDone, clock, stamp, job, idx, sloLeft, pending, helloLeft,
                 limiterVars, govVars, closed, exitCode, metricVars, histVars>>

(* EmitSLO and EmitProbe, second half: encode or export, unlock.  A closed  *)
(* file takes nothing more.                                                 *)
Encode_ProbeErrorUncounted(p) ==
  /\ At(p, "encode")
  /\ writer' = Free
  /\ \/ /\ ~closed
        /\ Finish(p)
        /\ written' = written + (IF job[p] = SLO THEN 0 ELSE 1)
        /\ UNCHANGED <<dropped, sloDropped, exitCode>>
     \/ /\ closed \/ MayFail
        /\ AfterFailure(p)
        /\ UNCHANGED <<written, dropped, sloDropped>>
  /\ UNCHANGED <<config, ctxDone, clock, stamp, idx, sloLeft, pending, helloLeft,
                 limiterVars, govVars, closed, observed, hellos, heartbeat, admitted>>
Encode_StaysOnError(p) ==
  /\ At(p, "encode")
  /\ \/ /\ ~closed
        /\ writer' = Free
        /\ Finish(p)
        /\ written' = written + (IF job[p] = SLO THEN 0 ELSE 1)
        /\ UNCHANGED <<dropped, sloDropped, exitCode>>
     \/ /\ closed \/ MayFail
        /\ CountDrop(p, "emit")
        /\ AfterFailure(p)
        /\ UNCHANGED <<written, writer>>
  /\ UNCHANGED <<config, ctxDone, clock, stamp, idx, sloLeft, pending, helloLeft,
                 limiterVars, govVars, closed, observed, hellos, heartbeat, admitted>>
Encode(p) ==
  /\ At(p, "encode")
  /\ writer' = Free
  /\ \/ /\ ~closed
        /\ Finish(p)
        /\ written' = written + (IF job[p] = SLO THEN 0 ELSE 1)
        /\ UNCHANGED <<dropped, sloDropped, exitCode>>
     \/ /\ closed \/ MayFail
        /\ CountDrop(p, "emit")
        /\ AfterFailure(p)
        /\ UNCHANGED written
  /\ UNCHANGED <<config, ctxDone, clock, stamp, idx, sloLeft, pending, helloLeft,
                 limiterVars, govVars, closed, observed, hellos, heartbeat, admitted>>

---------------------------------------------------------------------------
(* main: emitOne                                                           *)

(* Take the time, build the sample; an unknown scenario ends the process.  *)
StartTick ==
  /\ At("main", "tick")
  /\ stamp' = [stamp EXCEPT !["main"] = clock]
  /\ \/ /\ config.scenario = "unknown"
        /\ Die(1)
        /\ UNCHANGED <<pc, idx, sloLeft>>
     \/ /\ config.scenario = "known"
        /\ idx' = idx + 1
        /\ sloLeft' = IF includesSLO THEN SLOEvents ELSE 0
        /\ Goto("main", "slo")
        /\ UNCHANGED exitCode
  /\ UNCHANGED <<config, ctxDone, clock, job, pending, helloLeft, limiterVars, govVars,
                 outVars, metricVars, histVars>>

NextSLO ==
  /\ At("main", "slo") /\ sloLeft > 0
  /\ sloLeft' = sloLeft - 1
  /\ job' = [job EXCEPT !["main"] = SLO]
  /\ Goto("main", "validate")
  /\ UNCHANGED <<config, ctxDone, clock, stamp, idx, pending, helloLeft, exitCode,
                 limiterVars, govVars, outVars, metricVars, histVars>>

(* generator.Generate: one event for each signal enabled now. *)
Generate_All ==
  /\ At("main", "slo") /\ sloLeft = 0
  /\ pending' = Supported
  /\ Goto("main", "probe")
  /\ UNCHANGED <<config, ctxDone, clock, stamp, job, idx, sloLeft, helloLeft, exitCode,
                 limiterVars, govVars, outVars, metricVars, histVars>>
Generate ==
  /\ At("main", "slo") /\ sloLeft = 0
  /\ pending' = enabled
  /\ Goto("main", "probe")
  /\ UNCHANGED <<config, ctxDone, clock, stamp, job, idx, sloLeft, helloLeft, exitCode,
                 limiterVars, govVars, outVars, metricVars, histVars>>

(* The next generated event: observed, then offered to the output if the   *)
(* agent puts out probe events.                                            *)
NextProbe ==
  /\ At("main", "probe")
  /\ \E s \in pending :
       /\ FirstOf(coreSignalSet, pending, s)
       /\ pending' = pending \ {s}
       /\ observed' = observed + 1
       /\ IF includesProbe
          THEN job' = [job EXCEPT !["main"] = s] /\ Goto("main", "allow")
          ELSE UNCHANGED <<job, pc>>
  /\ UNCHANGED <<config, ctxDone, clock, stamp, idx, sloLeft, helloLeft, exitCode, limiterVars,
                 govVars, outVars, hellos, dropped, written, heartbeat, histVars>>

(* The attribution is posted and its outcome only logged. *)
PostAttribution ==
  /\ At("main", "probe") /\ pending = {}
  /\ Goto("main", "guard")
  /\ UNCHANGED <<config, ctxDone, clock, stamp, job, idx, sloLeft, pending, helloLeft,
                 exitCode, limiterVars, govVars, outVars, metricVars, histVars>>

(* guard.Evaluate: an error keeps the previous sample, the first sample is *)
(* only stored, and a later one is over the budget or not.                 *)
Evaluate_ShedsLast(over) ==
  /\ config.guard
  /\ over => primed
  /\ primed' \in {primed, TRUE}
  /\ \/ /\ over
        /\ \E s \in enabled :
             /\ \A t \in enabled \ {s} : Precedes(highCostDisableOrder, t, s)
             /\ enabled' = enabled \ {s}
        /\ Goto("main", "gauge")
     \/ /\ ~over \/ enabled = {}
        /\ Goto("main", "beat")
        /\ UNCHANGED enabled
Evaluate(over) ==
  /\ config.guard
  /\ over => primed
  /\ primed' \in {primed, TRUE}
  /\ \/ /\ over
        /\ \E s \in enabled : Shed(enabled, s) /\ enabled' = enabled \ {s}
        /\ Goto("main", "gauge")
     \/ /\ ~over \/ enabled = {}
        /\ Goto("main", "beat")
        /\ UNCHANGED enabled

GuardOverhead ==
  /\ At("main", "guard")
  /\ \/ \E over \in BOOLEAN : Evaluate(over)
     \/ /\ ~config.guard
        /\ Goto("main", "beat")
        /\ UNCHANGED <<enabled, primed>>
  /\ UNCHANGED <<config, ctxDone, clock, stamp, job, idx, sloLeft, pending, helloLeft, exitCode,
                 limiterVars, gauge, outVars, metricVars, histVars>>

(* metrics.SetEnabledSignals after a signal was shed. *)
PublishEnabled ==
  /\ At("main", "gauge")
  /\ gauge' = enabled
  /\ Goto("main", "beat")
  /\ UNCHANGED <<config, ctxDone, clock, stamp, job, idx, sloLeft, pending, helloLeft, exitCode,
                 limiterVars, enabled, primed, outVars, metricVars, histVars>>

(* The stream waits in its select; the counted loop goes on or returns.    *)
AfterTick ==
  IF config.count = 0 THEN "select" ELSE IF idx < config.count THEN "tick" ELSE "cancel"

(* metrics.SetHeartbeat *)
Heartbeat ==
  /\ At("main", "beat")
  /\ heartbeat' = stamp["main"]
  /\ Goto("main", AfterTick)
  /\ UNCHANGED <<config, ctxDone, clock, stamp, job, idx, sloLeft, pending, helloLeft, exitCode,
                 limiterVars, govVars, outVars, observed, hellos, dropped, written, histVars>>

---------------------------------------------------------------------------
(* main: the streaming loop and the way out                                *)

SelectTicker ==
  /\ At("main", "select") /\ idx < MaxTicks
  /\ Goto("main", "tick")
  /\ UNCHANGED <<config, ctxDone, clock, stamp, job, idx, sloLeft, pending, helloLeft, exitCode,
                 limiterVars, govVars, outVars, metricVars, histVars>>

SelectDone ==
  /\ At("main", "select") /\ ctxDone
  /\ Goto("main", "cancel")
  /\ UNCHANGED <<config, ctxDone, clock, stamp, job, idx, sloLeft, pending, helloLeft, exitCode,
                 limiterVars, govVars, outVars, metricVars, histVars>>

(* main returns: the deferred cancel, then writers.Close, then the runtime *)
(* ends the process without waiting for the hello goroutine.               *)
Cancel_AfterHello ==
  /\ At("main", "cancel")
  /\ pc["hello"] \in {"off", "stopped"}
  /\ ctxDone' = TRUE
  /\ Goto("main", "close")
  /\ UNCHANGED <<config, clock, stamp, job, idx, sloLeft, pending, helloLeft, exitCode,
                 limiterVars, govVars, outVars, metricVars, histVars>>
Cancel ==
  /\ At("main", "cancel")
  /\ ctxDone' = TRUE
  /\ Goto("main", "close")
  /\ UNCHANGED <<config, clock, stamp, job, idx, sloLeft, pending, helloLeft, exitCode,
                 limiterVars, govVars, outVars, metricVars, histVars>>

(* outputWriters.Close waits for the lock and closes the file, which only the jsonl        *)
(* output has: on stdout and over OTLP a late event still goes out.                        *)
Close ==
  /\ At("main", "close")
  /\ writer = Free
  /\ closed' = (config.output = "jsonl")
  /\ Goto("main", "return")
  /\ UNCHANGED <<config, ctxDone, clock, stamp, job, idx, sloLeft, pending, helloLeft, exitCode,
                 limiterVars, govVars, writer, metricVars, histVars>>

Return ==
  /\ At("main", "return")
  /\ Die(0)
  /\ UNCHANGED <<config, ctxDone, clock, pc, stamp, job, idx, sloLeft, pending, helloLeft,
                 limiterVars, govVars, outVars, metricVars, histVars>>

---------------------------------------------------------------------------
(* hello: HelloTracer.Start and the callback main gives it                 *)

HelloTick(now) ==
  /\ stamp' = [stamp EXCEPT !["hello"] = now]
  /\ helloLeft' = HelloTargets
  /\ Goto("hello", "emit")
  /\ UNCHANGED <<config, ctxDone, clock, job, idx, sloLeft, pending, exitCode,
                 limiterVars, govVars, outVars, metricVars, histVars>>

HelloBegin == At("hello", "begin") /\ HelloTick(clock)

(* A tick waits in the ticker's channel, so its time may lie in the past;  *)
(* one may fire up to a second late and the next one on time.              *)
HelloTicker ==
  /\ At("hello", "wait")
  /\ hellos < MaxHello
  /\ \E now \in (stamp["hello"] + HelloInterval - 1)..clock : HelloTick(now)

HelloEmit ==
  /\ At("hello", "emit") /\ helloLeft > 0
  /\ helloLeft' = helloLeft - 1
  /\ hellos' = hellos + 1
  /\ IF includesProbe
     THEN job' = [job EXCEPT !["hello"] = Hello] /\ Goto("hello", "allow")
     ELSE UNCHANGED <<job, pc>>
  /\ UNCHANGED <<config, ctxDone, clock, stamp, idx, sloLeft, pending, exitCode, limiterVars,
                 govVars, outVars, observed, dropped, written, heartbeat, histVars>>

HelloWait(where) ==
  /\ Goto("hello", where)
  /\ UNCHANGED <<config, ctxDone, clock, stamp, job, idx, sloLeft, pending, helloLeft, exitCode,
                 limiterVars, govVars, outVars, metricVars, histVars>>

HelloTickDone == At("hello", "emit") /\ helloLeft = 0 /\ HelloWait("wait")
HelloStop == At("hello", "wait") /\ ctxDone /\ HelloWait("stopped")

---------------------------------------------------------------------------
(* The environment: SIGINT or SIGTERM, and time.                           *)

Interrupt ==
  /\ Running /\ ~ctxDone
  /\ ctxDone' = TRUE
  /\ UNCHANGED <<config, clock, pc, stamp, job, idx, sloLeft, pending, helloLeft, exitCode,
                 limiterVars, govVars, outVars, metricVars, histVars>>

TimePasses ==
  /\ Running /\ clock < MaxClock
  /\ clock' = clock + 1
  /\ UNCHANGED <<config, ctxDone, pc, stamp, job, idx, sloLeft, pending, helloLeft, exitCode,
                 limiterVars, govVars, outVars, metricVars, histVars>>

Exited == ~Running /\ UNCHANGED vars

EventStep(p) == RateLimit(p) \/ Validate(p) \/ LockOutput(p) \/ Encode(p)

MainStep ==
  \/ StartTick \/ NextSLO \/ Generate \/ NextProbe \/ PostAttribution
  \/ GuardOverhead \/ PublishEnabled \/ Heartbeat
  \/ SelectDone \/ Cancel \/ Close \/ Return
  \/ EventStep("main")

HelloStep == HelloBegin \/ HelloEmit \/ HelloTickDone \/ HelloStop \/ EventStep("hello")

Next == MainStep \/ SelectTicker \/ HelloStep \/ HelloTicker \/ Interrupt \/ TimePasses \/ Exited

(* Both goroutines are scheduled; nothing obliges a ticker to fire, time   *)
(* to pass or a signal to arrive.                                          *)
Spec == Init /\ [][Next]_vars
FairSpec == Spec /\ WF_vars(MainStep) /\ WF_vars(HelloStep)

---------------------------------------------------------------------------
(* Properties                                                              *)

TypeOK ==
  /\ config \in Configs /\ ctxDone \in BOOLEAN /\ clock \in 1..MaxClock
  /\ pc \in [Procs -> {"off", "begin", "tick", "slo", "probe", "allow", "validate", "lock",
                       "encode", "guard", "gauge", "beat", "select", "cancel", "close",
                       "return", "emit", "wait", "stopped"}]
  /\ stamp \in [Procs -> 0..MaxClock]
  /\ job \in [Procs -> Signal \cup {SLO, Hello, None}]
  /\ idx \in Nat /\ sloLeft \in Nat /\ helloLeft \in Nat
  /\ pending \in SUBSET Signal /\ enabled \in SUBSET Signal /\ gauge \in SUBSET Signal
  /\ primed \in BOOLEAN /\ closed \in BOOLEAN
  /\ writer \in Procs \cup {Free}
  /\ exitCode \in {-1, 0, 1}
  /\ windowSec \in 0..MaxClock /\ count \in Nat
  /\ observed \in Nat /\ hellos \in Nat /\ written \in Nat /\ heartbeat \in Nat
  /\ dropped \in [Reasons -> Nat] /\ sloDropped \in Nat
  /\ admitted \in [1..MaxClock -> Nat]

(* One goroutine carries at most one probe event. *)
Carries(p) == IF job[p] \in Signal \cup {Hello} THEN 1 ELSE 0
AllDropped == dropped["rate_limit"] + dropped["schema"] + dropped["emit"]

---------------------------------------------------------------------------
(* The inductive parts of the invariants.                                  *)

EventPath == {"allow", "validate", "lock", "encode"}

(* A goroutine holds an event exactly while it is on the event's path, and only an agent   *)
(* that emits probe events puts one there.                                                 *)
JobInv ==
  /\ pc["main"] = "allow" => job["main"] \in Signal
  /\ pc["main"] \in EventPath => job["main"] \in Signal \cup {SLO}
  /\ pc["main"] \notin EventPath => job["main"] = None
  /\ pc["hello"] \in EventPath => job["hello"] = Hello
  /\ pc["hello"] \notin EventPath => job["hello"] = None
  /\ \A p \in Procs : job[p] \in Signal \cup {Hello} => includesProbe

(* Without a second caller the stored second never runs ahead of main's time, and the      *)
(* seconds after it have admitted nothing.                                                 *)
ClockInv ==
  ~config.hello =>
    /\ pc["hello"] = "off"
    /\ windowSec <= stamp["main"] /\ stamp["main"] <= clock
    /\ pc["main"] # "tick" => stamp["main"] >= 1
    /\ \A s \in 1..MaxClock : s > windowSec => admitted[s] = 0
    /\ windowSec >= 1 => admitted[windowSec] = count
    /\ count <= Limit

(* Signals are shed only between the events of one tick and those of the next.             *)
ShedInv ==
  /\ pc["main"] \notin EventPath \cup {"probe"} \/ job["main"] = SLO => pending = {}
  /\ pc["main"] # "gauge" => gauge = enabled

---------------------------------------------------------------------------
(* Every probe event an agent that emits probe events has counted is written, counted as   *)
(* dropped under one reason, or still in the hands of the goroutine that made it; the drop *)
(* counter the SLO path shares does not blur the balance (emitOne and the hello callback). *)
DropAccounting ==
  includesProbe =>
    observed + hellos
      = written + (AllDropped - sloDropped) + Carries("main") + Carries("hello")

(* An agent without a hello tracer never lets more events through in one second than the   *)
(* configured budget: the limiter's one caller only moves forward in time.                 *)
SoleCallerBudget == ~config.hello => \A s \in 1..MaxClock : admitted[s] <= Limit

(* The signals given up are the ones before every signal still enabled in the cost order,  *)
(* however shedding and ticks have interleaved (DisableHighestCost).                       *)
ShedInCostOrder ==
  \A s \in InitialSignals \ enabled, t \in enabled : Precedes(highCostDisableOrder, s, t)

(* Between ticks the exported gauges read what the generator does, from the first scrape   *)
(* on, also when --disable-signals left nothing and the generator enabled everything.      *)
GaugeMatchesGenerator == pc["main"] \in {"tick", "select", "cancel"} => gauge = enabled

(* No event of a signal the governor has shed is on its way to the output.                 *)
NoShedSignalInFlight == pending \subseteq enabled /\ job["main"] \in enabled \cup {SLO, None}

(* The enabled set the generator, the gauges and the events on their way go by is one.     *)
EnabledSetIsOne == GaugeMatchesGenerator /\ NoShedSignalInFlight

(* While a goroutine encodes one record, nobody else starts a record, ends one or closes   *)
(* the file under it (outputWriters.mu).                                                   *)
ExclusiveOutput ==
  [][\A p \in Procs : pc[p] = "encode" /\ pc'[p] = "encode" =>
       /\ UNCHANGED <<written, closed>>
       /\ \A q \in Procs \ {p} : pc'[q] # "encode"]_vars

(* The agent keeps the promise of EventFate for the events of both goroutines.             *)
Fate == INSTANCE EventFate WITH
          Workers <- 2,
          entered <- IF includesProbe THEN observed + hellos ELSE 0,
          written <- IF includesProbe THEN written ELSE 0,
          dropped <- IF includesProbe THEN AllDropped - sloDropped ELSE 0
KeepsEventFate == Fate!Spec

(* A tick that got past its SLO events reaches its heartbeat, whatever becomes of its      *)
(* probe events, its webhook and its CPU sample.                                           *)
TickCompletes ==
  (Running /\ pc["main"] = "probe")
    ~> (pc["main"] \in {"tick", "select", "cancel"} /\ heartbeat = stamp["main"])

(* After a signal, and after the last of a counted number of samples, the process ends.    *)
ShutdownCompletes == (ctxDone \/ config.count > 0) ~> ~Running

(* pkg/safety/rate_limiter.go:8 says the limiter enforces a max events-per-second budget.  *)
PerSecondBudget == \A s \in 1..MaxClock : admitted[s] <= Limit
=============================================================================
