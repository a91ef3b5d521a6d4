---------------------------- MODULE AgentProofs ----------------------------
(***************************************************************************)
(* What the agent's goroutines preserve, for every set of configurations   *)
(* and every bound.                                                        *)
(***************************************************************************)
EXTENDS Agent, FiniteTheorems

(* The markers a job can hold are no signal names. *)
LEMMA Markers ==
  /\ SLO \notin Signal /\ Hello \notin Signal /\ None \notin Signal
  /\ SLO # None /\ Hello # None /\ SLO # Hello
BY DEF SLO, Hello, None, Signal, Members, coreSignalSet

(* The limit in force is positive. *)
LEMMA LimitPositive == Limit \in Nat \ {0}
BY LimitAssumption DEF Limit, LimitAssumption

(* Every set of signals the start-up code can choose consists of signals.  *)
LEMMA StartSignals ==
  /\ Supported \in SUBSET Signal
  /\ InitialSignals \in SUBSET Signal
<1>1. Supported \in SUBSET Signal
  BY DEF Supported, SupportedSignalsForMode, Signal, Members, coreSignalSet, bccSignalSet
<1>2. QED
  BY <1>1 DEF InitialSignals, SetSignals, Selected, ChooseEnabledSignals

(* A drop that is counted is a number more. *)
LEMMA DropTypes ==
  ASSUME TypeOK, NEW p \in Procs, NEW r \in Reasons, CountDrop(p, r)
  PROVE  dropped' \in [Reasons -> Nat] /\ sloDropped' \in Nat
<1>1. dropped \in [Reasons -> Nat] /\ sloDropped \in Nat
  BY DEF TypeOK
<1>2. dropped[r] + 1 \in Nat /\ sloDropped + 1 \in Nat
  BY <1>1
<1>3. dropped' = [dropped EXCEPT ![r] = dropped[r] + 1]
  BY DEF CountDrop, IncDropped
<1>4. sloDropped' = sloDropped \/ sloDropped' = sloDropped + 1
  BY <1>1 DEF CountDrop
<1>5. QED
  BY <1>1, <1>2, <1>3, <1>4

(* No step leaves the types of the variables. *)
THEOREM TypeCorrect == Spec => []TypeOK
<1> USE AgentAssumption DEF AgentAssumption
<1>1. Init => TypeOK
  <2> SUFFICES ASSUME Init PROVE TypeOK
    OBVIOUS
  <2>1. pc \in [Procs -> {"off", "begin", "tick"}]
    BY DEF Init
  <2>2. /\ enabled \in SUBSET Signal /\ gauge \in SUBSET Signal
        /\ windowSec \in 0..MaxClock /\ count \in Nat
    BY StartSignals DEF Init, InitSignals, NewRateLimiter
  <2>3. /\ stamp \in [Procs -> 0..MaxClock] /\ admitted \in [1..MaxClock -> Nat]
        /\ dropped \in [Reasons -> Nat] /\ clock \in 1..MaxClock
    BY DEF Init
  <2>4. job \in [Procs -> Signal \cup {SLO, Hello, None}]
    BY DEF Init
  <2>5. QED
    BY <2>1, <2>2, <2>3, <2>4 DEF Init, TypeOK
<1>2. TypeOK /\ [Next]_vars => TypeOK'
  <2> SUFFICES ASSUME TypeOK, [Next]_vars PROVE TypeOK'
    OBVIOUS
  <2> USE DEF TypeOK, At, Goto, Procs, limiterVars, govVars, outVars, metricVars, histVars
  <2>1. ASSUME NEW p \in Procs, RateLimit(p) PROVE TypeOK'
    <3>1. windowSec' \in 0..MaxClock /\ count' \in Nat
      BY <2>1 DEF RateLimit, Allow, CountFor
    <3>2. /\ pc' \in [Procs -> {"off", "begin", "tick", "slo", "probe", "allow", "validate",
                       "lock", "encode", "guard", "gauge", "beat", "select", "cancel", "close",
                       "return", "emit", "wait", "stopped"}]
          /\ job' \in [Procs -> Signal \cup {SLO, Hello, None}]
      BY <2>1 DEF RateLimit, Finish, Resume
    <3>3. dropped' \in [Reasons -> Nat] /\ sloDropped' \in Nat
      <4>1. UNCHANGED <<dropped, sloDropped>> \/ CountDrop(p, "rate_limit")
        BY <2>1 DEF RateLimit
      <4>2. CASE CountDrop(p, "rate_limit")
        BY <4>2, DropTypes DEF Reasons
      <4>3. CASE UNCHANGED <<dropped, sloDropped>>
        BY <4>3
      <4>4. QED
        BY <4>1, <4>2, <4>3
    <3>4. admitted' \in [1..MaxClock -> Nat]
      <4>1. CASE admitted' = admitted
        BY <4>1
      <4>2. CASE admitted' = [admitted EXCEPT ![stamp[p]] = @ + 1]
        <5>1. admitted \in [1..MaxClock -> Nat] /\ stamp[p] \in 0..MaxClock
          OBVIOUS
        <5>2. CASE stamp[p] \in 1..MaxClock
          BY <4>2, <5>1, <5>2
        <5>3. CASE stamp[p] \notin 1..MaxClock
          BY <4>2, <5>1, <5>3
        <5>4. QED
          BY <5>2, <5>3
      <4>3. QED
        BY <2>1, <4>1, <4>2 DEF RateLimit
    <3>5. QED
      BY <2>1, <3>1, <3>2, <3>3, <3>4 DEF RateLimit
  <2>2. ASSUME NEW p \in Procs, Validate(p) PROVE TypeOK'
    <3>1. /\ pc' \in [Procs -> {"off", "begin", "tick", "slo", "probe", "allow", "validate",
                       "lock", "encode", "guard", "gauge", "beat", "select", "cancel", "close",
                       "return", "emit", "wait", "stopped"}]
          /\ job' \in [Procs -> Signal \cup {SLO, Hello, None}]
      BY <2>2 DEF Validate, AfterFailure, Finish, Resume
    <3>2. dropped' \in [Reasons -> Nat] /\ sloDropped' \in Nat
      BY <2>2 DEF Validate, CountDrop, IncDropped, Reasons
    <3>3. exitCode' \in {-1, 0, 1}
      BY <2>2 DEF Validate, AfterFailure, Die
    <3>4. QED
      BY <2>2, <3>1, <3>2, <3>3 DEF Validate
  <2>3. ASSUME NEW p \in Procs, LockOutput(p) PROVE TypeOK'
    BY <2>3 DEF LockOutput
  <2>4. ASSUME NEW p \in Procs, Encode(p) PROVE TypeOK'
    <3>1. /\ pc' \in [Procs -> {"off", "begin", "tick", "slo", "probe", "allow", "validate",
                       "lock", "encode", "guard", "gauge", "beat", "select", "cancel", "close",
                       "return", "emit", "wait", "stopped"}]
          /\ job' \in [Procs -> Signal \cup {SLO, Hello, None}]
      BY <2>4 DEF Encode, AfterFailure, Finish, Resume
    <3>2. dropped' \in [Reasons -> Nat] /\ sloDropped' \in Nat /\ written' \in Nat
      <4>1. \/ UNCHANGED <<dropped, sloDropped>> /\ written' \in {written, written + 1}
            \/ CountDrop(p, "emit") /\ written' = written
        BY <2>4 DEF Encode
      <4>2. "emit" \in Reasons
        BY DEF Reasons
      <4>3. CASE CountDrop(p, "emit") /\ written' = written
        BY <4>2, <4>3, DropTypes
      <4>4. CASE UNCHANGED <<dropped, sloDropped>> /\ written' \in {written, written + 1}
        BY <4>4
      <4>5. QED
        BY <4>1, <4>3, <4>4
    <3>3. exitCode' \in {-1, 0, 1} /\ writer' \in Procs \cup {Free}
      BY <2>4 DEF Encode, AfterFailure, Die
    <3>4. QED
      BY <2>4, <3>1, <3>2, <3>3 DEF Encode
  <2>5. CASE StartTick
    <3>1. stamp' \in [Procs -> 0..MaxClock]
      BY <2>5 DEF StartTick
    <3>2. pc' = pc \/ pc' = [pc EXCEPT !["main"] = "slo"]
      BY <2>5 DEF StartTick
    <3>3. idx' \in Nat /\ sloLeft' \in Nat /\ exitCode' \in {-1, 0, 1}
      BY <2>5 DEF StartTick, Die
    <3>4. UNCHANGED <<config, ctxDone, clock, job, pending, helloLeft, limiterVars, govVars,
                      outVars, metricVars, histVars>>
      BY <2>5 DEF StartTick
    <3>5. QED
      BY <3>1, <3>2, <3>3, <3>4
  <2>6. CASE NextSLO
    BY <2>6 DEF NextSLO
  <2>7. CASE Generate
    BY <2>7 DEF Generate
  <2>8. CASE NextProbe
    BY <2>8 DEF NextProbe, FirstOf
  <2>9. CASE PostAttribution
    BY <2>9 DEF PostAttribution
  <2>10. CASE GuardOverhead
    <3>1. enabled' \in SUBSET Signal /\ primed' \in BOOLEAN
      BY <2>10 DEF GuardOverhead, Evaluate
    <3>2. pc' = [pc EXCEPT !["main"] = "gauge"] \/ pc' = [pc EXCEPT !["main"] = "beat"]
      BY <2>10 DEF GuardOverhead, Evaluate
    <3>3. UNCHANGED <<config, ctxDone, clock, stamp, job, idx, sloLeft, pending, helloLeft,
                      exitCode, limiterVars, gauge, outVars, metricVars, histVars>>
      BY <2>10 DEF GuardOverhead
    <3>4. QED
      BY <3>1, <3>2, <3>3
  <2>11. CASE PublishEnabled
    BY <2>11 DEF PublishEnabled
  <2>12. CASE Heartbeat
    BY <2>12 DEF Heartbeat, AfterTick
  <2>13. CASE SelectTicker \/ SelectDone \/ Cancel \/ Close \/ Return
    <3>1. CASE SelectTicker
      BY <3>1 DEF SelectTicker
    <3>2. CASE SelectDone
      BY <3>2 DEF SelectDone
    <3>3. CASE Cancel
      BY <3>3 DEF Cancel
    <3>4. CASE Close
      BY <3>4 DEF Close
    <3>5. CASE Return
      BY <3>5 DEF Return, Die
    <3>6. QED
      BY <2>13, <3>1, <3>2, <3>3, <3>4, <3>5
  <2>15. CASE HelloBegin
    BY <2>15 DEF HelloBegin, HelloTick
  <2>16. CASE HelloTicker
    <3>1. PICK now \in (stamp["hello"] + HelloInterval - 1)..clock : HelloTick(now)
      BY <2>16 DEF HelloTicker
    <3>2. now \in 0..MaxClock
      BY <3>1
    <3>3. QED
      BY <3>1, <3>2 DEF HelloTick
  <2>17. CASE HelloEmit
    BY <2>17 DEF HelloEmit
  <2>18. CASE HelloTickDone \/ HelloStop
    BY <2>18 DEF HelloTickDone, HelloStop, HelloWait
  <2>19. CASE Interrupt \/ TimePasses
    <3>1. CASE Interrupt
      BY <3>1 DEF Interrupt
    <3>2. CASE TimePasses
      BY <3>2 DEF TimePasses
    <3>3. QED
      BY <2>19, <3>1, <3>2
  <2>20. CASE UNCHANGED vars
    BY <2>20 DEF vars
  <2>21. QED
    BY <2>1, <2>2, <2>3, <2>4, <2>5, <2>6, <2>7, <2>8, <2>9, <2>10, <2>11, <2>12, <2>13,
       <2>15, <2>16, <2>17, <2>18, <2>19, <2>20
       DEF Next, MainStep, Exited, HelloStep, EventStep
<1>3. QED
  BY <1>1, <1>2, PTL DEF Spec

---------------------------------------------------------------------------
(* The bookkeeping of events.                                              *)

(* Goroutines hold events as JobInv says.  Each step moves one goroutine.  *)
LEMMA JobsKept == TypeOK /\ JobInv /\ [Next]_vars => JobInv'
<1> SUFFICES ASSUME TypeOK, JobInv, [Next]_vars PROVE JobInv'
  OBVIOUS
<1> USE Markers DEF TypeOK, JobInv, EventPath, At, Goto, Procs, includesProbe
<1>1. ASSUME NEW p \in Procs, RateLimit(p) PROVE JobInv'
  BY <1>1 DEF RateLimit, Finish, Resume
<1>2. ASSUME NEW p \in Procs, Validate(p) PROVE JobInv'
  BY <1>2 DEF Validate, AfterFailure, Finish, Resume
<1>3. ASSUME NEW p \in Procs, LockOutput(p) PROVE JobInv'
  BY <1>3 DEF LockOutput
<1>4. ASSUME NEW p \in Procs, Encode(p) PROVE JobInv'
  BY <1>4 DEF Encode, AfterFailure, Finish, Resume
<1>5. CASE StartTick
  BY <1>5 DEF StartTick
<1>6. CASE NextSLO
  BY <1>6 DEF NextSLO
<1>7. CASE NextProbe
  BY <1>7 DEF NextProbe, FirstOf
<1>8. CASE Generate \/ PostAttribution \/ PublishEnabled
  BY <1>8 DEF Generate, PostAttribution, PublishEnabled
<1>9. CASE GuardOverhead
  BY <1>9 DEF GuardOverhead, Evaluate
<1>10. CASE Heartbeat
  BY <1>10 DEF Heartbeat, AfterTick
<1>11. CASE SelectTicker \/ SelectDone \/ Cancel
  BY <1>11 DEF SelectTicker, SelectDone, Cancel
<1>12. CASE Close \/ Return
  BY <1>12 DEF Close, Return
<1>13. CASE HelloBegin \/ HelloTicker
  BY <1>13 DEF HelloBegin, HelloTicker, HelloTick
<1>14. CASE HelloEmit
  BY <1>14 DEF HelloEmit
<1>15. CASE HelloTickDone \/ HelloStop
  BY <1>15 DEF HelloTickDone, HelloStop, HelloWait
<1>16. CASE Interrupt \/ TimePasses
  BY <1>16 DEF Interrupt, TimePasses
<1>17. CASE UNCHANGED vars
  BY <1>17 DEF vars
<1>18. QED
  BY <1>1, <1>2, <1>3, <1>4, <1>5, <1>6, <1>7, <1>8, <1>9, <1>10, <1>11, <1>12, <1>13, <1>14,
     <1>15, <1>16, <1>17 DEF Next, MainStep, HelloStep, EventStep, Exited

(* A drop of a probe event moves the probe side of the drop counter by one, a drop of an   *)
(* SLO event moves the history beside it and leaves that side alone.                       *)
LEMMA DropBalance ==
  ASSUME TypeOK, NEW p \in Procs, NEW r \in Reasons, CountDrop(p, r)
  PROVE  (AllDropped - sloDropped)'
           = (AllDropped - sloDropped) + (IF job[p] = SLO THEN 0 ELSE 1)
<1>1. dropped \in [Reasons -> Nat] /\ sloDropped \in Nat
  BY DEF TypeOK
<1>2. dropped' = [dropped EXCEPT ![r] = dropped[r] + 1]
  BY DEF CountDrop, IncDropped
<1>3. AllDropped \in Nat /\ AllDropped' = AllDropped + 1
  BY <1>1, <1>2 DEF AllDropped, Reasons
<1>4. sloDropped' = sloDropped + (IF job[p] = SLO THEN 1 ELSE 0)
  BY DEF CountDrop
<1>5. QED
  BY <1>1, <1>3, <1>4

(* The configuration is read at start-up and never again.                  *)
LEMMA ConfigKept == [Next]_vars => config' = config
<1> SUFFICES ASSUME Next PROVE config' = config
  BY DEF vars
<1>1. ASSUME NEW p \in Procs, EventStep(p) PROVE config' = config
  BY <1>1 DEF EventStep, RateLimit, Validate, LockOutput, Encode
<1>2. ASSUME MainStep, ~EventStep("main") PROVE config' = config
  BY <1>2 DEF MainStep, StartTick, NextSLO, Generate, NextProbe, PostAttribution,
       GuardOverhead, PublishEnabled, Heartbeat, SelectDone, Cancel, Close, Return
<1>3. ASSUME HelloStep, ~EventStep("hello") PROVE config' = config
  BY <1>3 DEF HelloStep, HelloBegin, HelloTick, HelloEmit, HelloTickDone, HelloStop, HelloWait
<1>4. QED
  BY <1>1, <1>2, <1>3 DEF Next, Procs, SelectTicker, HelloTicker, HelloTick, Interrupt,
       TimePasses, Exited, vars

(* The balance itself survives every step.                                 *)
LEMMA BalanceKept == TypeOK /\ JobInv /\ DropAccounting /\ [Next]_vars => DropAccounting'
<1> SUFFICES ASSUME TypeOK, JobInv, includesProbe, DropAccounting, [Next]_vars
             PROVE  (observed + hellos
                       = written + (AllDropped - sloDropped) + Carries("main")
                           + Carries("hello"))'
  BY ConfigKept DEF DropAccounting, includesProbe
<1>0. observed + hellos
        = written + (AllDropped - sloDropped) + Carries("main") + Carries("hello")
  BY DEF DropAccounting
<1> DEFINE Reported == <<observed, hellos, written, dropped, sloDropped>>
<1> DEFINE Balance == observed + hellos
                = written + (AllDropped - sloDropped) + Carries("main") + Carries("hello")
<1>1. ASSUME UNCHANGED <<Reported, job>> PROVE Balance'
  BY <1>0, <1>1 DEF AllDropped, Carries
<1>2. ASSUME NEW p \in Procs, EventStep(p) PROVE Balance'
  <2> USE Markers DEF TypeOK, At, Goto, Procs
  <2>1. CASE LockOutput(p)
    BY <1>1, <2>1 DEF LockOutput, metricVars, histVars
  <2>2. ASSUME NEW r \in Reasons, CountDrop(p, r), Finish(p), pc[p] \in EventPath,
               UNCHANGED <<observed, hellos, written>>
        PROVE  Balance'
    <3>1. /\ job[p] # None
          /\ job[p] # SLO => Carries(p) = 1
          /\ job[p] = SLO => Carries(p) = 0
      BY <2>2 DEF JobInv, Carries, EventPath
    <3>2. Carries(p)' = 0 /\ \A q \in Procs \ {p} : Carries(q)' = Carries(q)
      BY <2>2 DEF Finish, Carries
    <3>3. AllDropped - sloDropped \in Int
      BY DEF AllDropped, Reasons
    <3>4. (AllDropped - sloDropped)' = (AllDropped - sloDropped) + (IF job[p] = SLO THEN 0 ELSE 1)
      BY <2>2, DropBalance
    <3>5. UNCHANGED <<observed, hellos, written>>
      BY <2>2
    <3>6. /\ observed \in Nat /\ hellos \in Nat /\ written \in Nat
          /\ Carries("main") \in Nat /\ Carries("hello") \in Nat
      BY DEF Carries
    <3>7. CASE p = "main"
      BY ONLY <1>0, <3>1, <3>2, <3>3, <3>4, <3>5, <3>6, <3>7 DEF Procs, Balance
    <3>8. CASE p = "hello"
      BY ONLY <1>0, <3>1, <3>2, <3>3, <3>4, <3>5, <3>6, <3>8 DEF Procs, Balance
    <3>9. QED
      BY <3>7, <3>8
  <2>3. ASSUME NEW r \in Reasons, CountDrop(p, r), job[p] = SLO,
               UNCHANGED <<job, observed, hellos, written>>
        PROVE  Balance'
    <3>1. (AllDropped - sloDropped)' = AllDropped - sloDropped
      BY <2>3, DropBalance DEF AllDropped, Reasons
    <3>2. QED
      BY <1>0, <2>3, <3>1 DEF Carries
  <2>4. ASSUME Finish(p), pc[p] = "encode", UNCHANGED <<observed, hellos, dropped, sloDropped>>,
               written' = written + (IF job[p] = SLO THEN 0 ELSE 1)
        PROVE  Balance'
    <3>1. /\ job[p] # SLO => Carries(p) = 1
          /\ job[p] = SLO => Carries(p) = 0
      BY <2>4 DEF JobInv, Carries, EventPath
    <3>2. Carries(p)' = 0 /\ \A q \in Procs \ {p} : Carries(q)' = Carries(q)
      BY <2>4 DEF Finish, Carries
    <3>3. AllDropped \in Nat /\ AllDropped' = AllDropped
      BY <2>4 DEF AllDropped, Reasons
    <3>4. QED
      BY <1>0, <2>4, <3>1, <3>2, <3>3 DEF Carries
  <2>5. CASE RateLimit(p)
    <3>1. CASE UNCHANGED <<job, dropped, sloDropped>>
      BY <1>1, <2>5, <3>1 DEF RateLimit
    <3>2. CASE CountDrop(p, "rate_limit") /\ Finish(p)
      BY <2>2, <2>5, <3>2 DEF RateLimit, Reasons, EventPath
    <3>3. QED
      BY <2>5, <3>1, <3>2 DEF RateLimit
  <2>6. CASE Validate(p)
    <3>1. CASE UNCHANGED <<job, dropped, sloDropped>>
      BY <1>1, <2>6, <3>1 DEF Validate
    <3>2. CASE CountDrop(p, "schema") /\ AfterFailure(p)
      BY <2>2, <2>3, <2>6, <3>2 DEF Validate, AfterFailure, Reasons, EventPath
    <3>3. QED
      BY <2>6, <3>1, <3>2 DEF Validate
  <2>7. CASE Encode(p)
    <3>1. CASE CountDrop(p, "emit") /\ AfterFailure(p) /\ UNCHANGED written
      BY <2>2, <2>3, <2>7, <3>1 DEF Encode, AfterFailure, Reasons, EventPath
    <3>2. CASE ~(CountDrop(p, "emit") /\ AfterFailure(p) /\ UNCHANGED written)
      BY <2>4, <2>7, <3>2 DEF Encode
    <3>3. QED
      BY <3>1, <3>2
  <2>8. QED
    BY <1>2, <2>1, <2>5, <2>6, <2>7 DEF EventStep
<1>3. CASE NextProbe
  <2>1. PICK s \in pending : job' = [job EXCEPT !["main"] = s]
    BY <1>3 DEF NextProbe
  <2>2. job["main"] = None /\ s \in Signal /\ job'["main"] = s /\ job'["hello"] = job["hello"]
    BY <1>3, <2>1 DEF NextProbe, JobInv, EventPath, TypeOK, Procs, At
  <2>3. Carries("main") = 0 /\ Carries("main")' = 1 /\ Carries("hello")' = Carries("hello")
    BY <2>2, Markers DEF Carries
  <2>4. observed' = observed + 1 /\ UNCHANGED <<hellos, written, dropped, sloDropped>>
    BY <1>3 DEF NextProbe, histVars
  <2>5. observed \in Nat /\ hellos \in Nat /\ written \in Nat /\ Carries("hello") \in Nat
    BY DEF TypeOK, Carries
  <2>6. UNCHANGED <<AllDropped, sloDropped>> /\ AllDropped \in Nat /\ sloDropped \in Nat
    BY <2>4 DEF AllDropped, TypeOK, Reasons
  <2>7. QED
    BY ONLY <1>0, <2>3, <2>4, <2>5, <2>6 DEF Balance
<1>4. CASE HelloEmit
  BY <1>0, <1>4, Markers DEF HelloEmit, Carries, AllDropped, histVars, At, Goto,
       JobInv, EventPath, TypeOK, Procs, Reasons
<1>5. CASE NextSLO
  BY <1>0, <1>5, Markers DEF NextSLO, Carries, AllDropped, metricVars, histVars, At, Goto,
       JobInv, EventPath, TypeOK, Procs, Reasons
<1>6. CASE Heartbeat
  BY <1>1, <1>6 DEF Heartbeat, histVars
<1>7. CASE \/ StartTick \/ Generate \/ PostAttribution \/ GuardOverhead \/ PublishEnabled
           \/ SelectTicker \/ SelectDone \/ Cancel \/ Close \/ Return
  BY <1>1, <1>7 DEF StartTick, Generate, PostAttribution, GuardOverhead, PublishEnabled,
       SelectTicker, SelectDone, Cancel, Close, Return, metricVars, histVars
<1>8. CASE HelloBegin \/ HelloTicker \/ HelloTickDone \/ HelloStop \/ Interrupt \/ TimePasses
  BY <1>1, <1>8 DEF HelloBegin, HelloTicker, HelloTick, HelloTickDone, HelloStop, HelloWait,
       Interrupt, TimePasses, metricVars, histVars
<1>9. CASE UNCHANGED vars
  BY <1>1, <1>9 DEF vars, metricVars, histVars
<1>10. QED
  BY <1>2, <1>3, <1>4, <1>5, <1>6, <1>7, <1>8, <1>9
     DEF Next, MainStep, HelloStep, Exited, Procs

(* No step and no start breaks the bookkeeping.                            *)
LEMMA StartJobs == Init => JobInv /\ DropAccounting
<1> SUFFICES ASSUME Init PROVE JobInv /\ DropAccounting
  OBVIOUS
<1>1. /\ pc["main"] = "tick" /\ pc["hello"] \in {"begin", "off"}
      /\ job["main"] = None /\ job["hello"] = None
  BY DEF Init, Procs
<1>2. JobInv
  BY <1>1, Markers DEF JobInv, EventPath, Procs
<1>3. Carries("main") = 0 /\ Carries("hello") = 0
  BY <1>1, Markers DEF Carries
<1>4. DropAccounting
  BY <1>3 DEF Init, DropAccounting, AllDropped, Reasons
<1>5. QED
  BY <1>2, <1>4

(* Every probe event counted is written, counted as dropped, or in a goroutine's hands.    *)
THEOREM EventsAccounted == Spec => [](JobInv /\ DropAccounting)
<1>1. JobInv /\ DropAccounting /\ TypeOK /\ [Next]_vars => (JobInv /\ DropAccounting)'
  BY JobsKept, BalanceKept
<1>2. QED
  BY <1>1, StartJobs, TypeCorrect, PTL DEF Spec

---------------------------------------------------------------------------
(* The budget.                                                             *)

(* With main as the only caller time runs forward through the limiter.     *)
LEMMA ClockKept == TypeOK /\ JobInv /\ ClockInv /\ [Next]_vars => ClockInv'
<1> SUFFICES ASSUME TypeOK, JobInv, ClockInv, [Next]_vars, ~config.hello
             PROVE  ClockInv'
  BY ConfigKept DEF ClockInv
<1>0. /\ pc["hello"] = "off" /\ stamp["main"] <= clock /\ windowSec <= stamp["main"]
      /\ pc["main"] # "tick" => stamp["main"] >= 1
      /\ \A s \in 1..MaxClock : s > windowSec => admitted[s] = 0
      /\ windowSec >= 1 => admitted[windowSec] = count
      /\ count <= Limit
  BY DEF ClockInv
<1> USE LimitPositive DEF TypeOK, At, Goto, Procs, limiterVars, histVars
<1> DEFINE Window == <<windowSec, count, admitted>>
<1>1. ASSUME UNCHANGED <<Window, stamp, clock>>, pc'["hello"] = "off",
             pc["main"] = "tick" => pc'["main"] = "tick"
      PROVE  ClockInv'
  BY <1>0, <1>1 DEF ClockInv
<1>2. CASE RateLimit("main")
  <2>1. /\ pc["main"] = "allow" /\ stamp' = stamp /\ clock' = clock
        /\ windowSec' = stamp["main"] /\ pc'["hello"] = "off"
        /\ stamp["main"] \in 1..MaxClock
    BY <1>0, <1>2 DEF RateLimit, Allow, Finish
  <2>2. windowSec # stamp["main"] => admitted[stamp["main"]] = 0
    BY <1>0, <2>1
  <2>3. CASE Allows(stamp["main"])
    <3>1. admitted' = [admitted EXCEPT ![stamp["main"]] = @ + 1]
      BY <1>2, <2>3 DEF RateLimit
    <3>2. count' = CountFor(stamp["main"]) + 1 /\ count' <= Limit
      BY <1>2, <2>3 DEF RateLimit, Allow, Allows, CountFor
    <3>3. admitted'[stamp["main"]] = count'
      BY <1>0, <2>1, <2>2, <3>1, <3>2 DEF CountFor
    <3>4. \A s \in 1..MaxClock : s > windowSec' => admitted'[s] = 0
      BY <1>0, <2>1, <3>1
    <3>5. QED
      BY <1>0, <2>1, <3>2, <3>3, <3>4 DEF ClockInv
  <2>4. CASE ~Allows(stamp["main"])
    <3>1. admitted' = admitted /\ count' = CountFor(stamp["main"]) /\ windowSec = stamp["main"]
      BY <1>2, <2>4 DEF RateLimit, Allow, Allows, CountFor
    <3>2. QED
      BY <1>0, <2>1, <3>1 DEF ClockInv, CountFor
  <2>5. QED
    BY <2>3, <2>4
<1>3. CASE Validate("main") \/ LockOutput("main") \/ Encode("main")
  BY <1>0, <1>1, <1>3 DEF Validate, LockOutput, Encode, AfterFailure, Finish, Resume, CountDrop
<1>4. CASE StartTick
  BY <1>0, <1>4 DEF StartTick, ClockInv
<1>5. CASE NextSLO \/ Generate \/ NextProbe \/ PostAttribution
  BY <1>0, <1>1, <1>5 DEF NextSLO, Generate, NextProbe, PostAttribution
<1>6. CASE GuardOverhead
  BY <1>0, <1>1, <1>6 DEF GuardOverhead, Evaluate
<1>7. CASE PublishEnabled \/ Heartbeat
  BY <1>0, <1>1, <1>7 DEF PublishEnabled, Heartbeat, AfterTick
<1>8. CASE SelectTicker \/ SelectDone \/ Cancel \/ Close \/ Return
  BY <1>0, <1>1, <1>8 DEF SelectTicker, SelectDone, Cancel, Close, Return
<1>9. ~HelloStep /\ ~HelloTicker
  BY <1>0 DEF HelloStep, HelloBegin, HelloEmit, HelloTickDone, HelloStop, HelloTicker,
       EventStep, RateLimit, Validate, LockOutput, Encode
<1>10. CASE Interrupt
  BY <1>0, <1>1, <1>10 DEF Interrupt
<1>11. CASE TimePasses
  BY <1>0, <1>11 DEF TimePasses, ClockInv
<1>12. CASE UNCHANGED vars
  BY <1>0, <1>1, <1>12 DEF vars
<1>13. QED
  BY <1>2, <1>3, <1>4, <1>5, <1>6, <1>7, <1>8, <1>9, <1>10, <1>11, <1>12
     DEF Next, MainStep, EventStep, Exited

(* Seconds before the stored one keep what they admitted, so the bound on the stored one   *)
(* becomes a bound on every second.                                                        *)
LEMMA BudgetKept == TypeOK /\ JobInv /\ ClockInv /\ SoleCallerBudget /\ [Next]_vars
                      => SoleCallerBudget'
<1> SUFFICES ASSUME TypeOK, JobInv, ClockInv, SoleCallerBudget, [Next]_vars, ~config.hello,
                    NEW s \in 1..MaxClock
             PROVE  admitted'[s] <= Limit
  BY ConfigKept DEF SoleCallerBudget
<1>1. admitted[s] <= Limit
  BY DEF SoleCallerBudget
<1>2. CASE admitted' = admitted
  BY <1>1, <1>2
<1>3. CASE RateLimit("main")
  <2>1. CASE s = stamp["main"] /\ admitted' = [admitted EXCEPT ![stamp["main"]] = @ + 1]
    <3>1. Allows(s)
      BY <1>3, <2>1 DEF RateLimit, TypeOK
    <3>2. CASE windowSec = s
      BY <2>1, <3>1, <3>2, LimitPositive DEF ClockInv, Allows, CountFor, TypeOK
    <3>3. CASE windowSec # s
      <4>1. windowSec < s /\ admitted \in [1..MaxClock -> Nat]
        BY <2>1, <3>3, AgentAssumption DEF ClockInv, TypeOK, Procs, AgentAssumption
      <4>2. admitted[s] = 0
        BY <4>1 DEF ClockInv
      <4>3. admitted'[s] = admitted[s] + 1
        BY <2>1, <4>1
      <4>4. QED
        BY <4>2, <4>3, LimitPositive
    <3>4. QED
      BY <3>2, <3>3
  <2>2. QED
    BY <1>1, <1>2, <1>3, <2>1 DEF RateLimit, TypeOK
<1>4. ~RateLimit("hello")
  BY DEF RateLimit, ClockInv, At
<1>5. \/ admitted' = admitted
      \/ RateLimit("main")
  <2> USE DEF histVars, vars
  <2>1. ASSUME NEW p \in Procs, EventStep(p), ~RateLimit(p) PROVE admitted' = admitted
    BY <2>1 DEF EventStep, Validate, LockOutput, Encode
  <2>2. ASSUME MainStep, ~EventStep("main") PROVE admitted' = admitted
    BY <2>2 DEF MainStep, StartTick, NextSLO, Generate, NextProbe, PostAttribution,
         GuardOverhead, PublishEnabled, Heartbeat, SelectDone, Cancel, Close, Return
  <2>3. ASSUME HelloStep, ~EventStep("hello") PROVE admitted' = admitted
    BY <2>3 DEF HelloStep, HelloBegin, HelloTick, HelloEmit, HelloTickDone, HelloStop, HelloWait
  <2>4. CASE SelectTicker \/ HelloTicker \/ Interrupt \/ TimePasses
    BY <2>4 DEF SelectTicker, HelloTicker, HelloTick, Interrupt, TimePasses
  <2>5. QED
    BY <1>4, <2>1, <2>2, <2>3, <2>4 DEF Next, Exited, Procs
<1>6. QED
  BY <1>2, <1>3, <1>5

(* An agent whose limiter has one caller stays within its budget in every second.          *)
THEOREM BudgetHolds == Spec => []SoleCallerBudget
<1>1. Init => ClockInv /\ SoleCallerBudget
  <2> SUFFICES ASSUME Init PROVE ClockInv /\ SoleCallerBudget
    OBVIOUS
  <2>1. /\ ~config.hello => pc["hello"] = "off"
        /\ pc["main"] = "tick" /\ stamp["main"] = 0 /\ clock = 1
        /\ windowSec = 0 /\ count = 0
        /\ \A s \in 1..MaxClock : admitted[s] = 0
    BY DEF Init, Procs, NewRateLimiter
  <2>2. QED
    BY <2>1, LimitPositive DEF ClockInv, SoleCallerBudget
<1>2. TypeOK /\ JobInv /\ ClockInv /\ SoleCallerBudget /\ [Next]_vars
        => (ClockInv /\ SoleCallerBudget)'
  BY ClockKept, BudgetKept
<1>3. QED
  BY <1>1, <1>2, TypeCorrect, EventsAccounted, PTL DEF Spec
---------------------------------------------------------------------------
(* The safety governor.                                                    *)

Governed == ShedInv /\ NoShedSignalInFlight /\ ShedInCostOrder

(* A shed signal stands first in the cost order among the enabled ones, and is shed when   *)
(* no event of the tick is left.                                                           *)
LEMMA GovernedKept == TypeOK /\ JobInv /\ Governed /\ [Next]_vars => Governed'
<1> SUFFICES ASSUME TypeOK, JobInv, Governed, [Next]_vars PROVE Governed'
  OBVIOUS
<1>0. InitialSignals' = InitialSignals
  BY ConfigKept DEF InitialSignals, SetSignals, Selected, ChooseEnabledSignals, Supported
<1> USE <1>0, Markers DEF Governed, ShedInv, NoShedSignalInFlight, ShedInCostOrder, TypeOK,
        JobInv, EventPath, At, Goto, Procs, govVars
<1>1. ASSUME NEW p \in Procs, EventStep(p) PROVE Governed'
  <2>1. UNCHANGED <<pending, enabled, gauge>> /\ pc[p] \in EventPath
    BY <1>1 DEF EventStep, RateLimit, Validate, LockOutput, Encode
  <2>2. \/ pc' = pc /\ job' = job
        \/ Finish(p)
        \/ job' = job /\ \E x \in {"validate", "lock", "encode"} : Goto(p, x)
    BY <1>1 DEF EventStep, RateLimit, Validate, LockOutput, Encode, AfterFailure
  <2>3. CASE pc' = pc /\ job' = job
    BY <2>1, <2>3
  <2>4. CASE Finish(p)
    BY <2>1, <2>4 DEF Finish, Resume
  <2>5. CASE job' = job /\ \E x \in {"validate", "lock", "encode"} : Goto(p, x)
    BY <2>1, <2>5
  <2>6. QED
    BY <2>2, <2>3, <2>4, <2>5
<1>2. CASE StartTick \/ NextSLO
  BY <1>2 DEF StartTick, NextSLO
<1>3. CASE Generate
  BY <1>3 DEF Generate
<1>4. CASE NextProbe
  <2>1. PICK s \in pending :
          /\ pending' = pending \ {s}
          /\ \/ job' = [job EXCEPT !["main"] = s] /\ Goto("main", "allow")
             \/ UNCHANGED <<job, pc>>
    BY <1>4 DEF NextProbe
  <2>2. UNCHANGED <<enabled, gauge>> /\ pc["main"] = "probe"
    BY <1>4 DEF NextProbe
  <2>3. QED
    BY <2>1, <2>2
<1>5. CASE PostAttribution
  BY <1>5 DEF PostAttribution
<1>6. CASE GuardOverhead
  <2>1. pending = {} /\ job["main"] = None /\ UNCHANGED <<pending, job, gauge>>
    BY <1>6 DEF GuardOverhead
  <2>2. CASE enabled' = enabled /\ Goto("main", "beat")
    BY <2>1, <2>2, <1>6 DEF GuardOverhead
  <2>3. ASSUME NEW s \in enabled, Shed(enabled, s), enabled' = enabled \ {s},
               Goto("main", "gauge")
        PROVE  Governed'
    <3>1. \A t \in enabled' : Precedes(highCostDisableOrder, s, t)
      BY <2>3 DEF Shed, FirstOf
    <3>2. ShedInCostOrder'
      BY <2>3, <3>1
    <3>3. QED
      BY <2>1, <2>3, <3>2
  <2>4. QED
    BY <1>6, <2>2, <2>3 DEF GuardOverhead, Evaluate
<1>7. CASE PublishEnabled
  BY <1>7 DEF PublishEnabled
<1>8. CASE Heartbeat
  BY <1>8 DEF Heartbeat, AfterTick
<1>9. CASE SelectTicker \/ SelectDone \/ Cancel
  BY <1>9 DEF SelectTicker, SelectDone, Cancel
<1>10. CASE Close \/ Return
  BY <1>10 DEF Close, Return
<1>11. CASE HelloBegin \/ HelloTicker
  BY <1>11 DEF HelloBegin, HelloTicker, HelloTick
<1>12. CASE HelloEmit
  BY <1>12 DEF HelloEmit
<1>13. CASE HelloTickDone \/ HelloStop
  BY <1>13 DEF HelloTickDone, HelloStop, HelloWait
<1>14. CASE Interrupt \/ TimePasses
  BY <1>14 DEF Interrupt, TimePasses
<1>15. CASE UNCHANGED vars
  BY <1>15 DEF vars
<1>16. QED
  BY <1>1, <1>2, <1>3, <1>4, <1>5, <1>6, <1>7, <1>8, <1>9, <1>10, <1>11, <1>12, <1>13, <1>14,
     <1>15 DEF Next, MainStep, HelloStep, Exited

(* The agent starts with nothing shed and its gauges set from the generator.               *)
LEMMA StartGoverned == Init => Governed
<1> SUFFICES ASSUME Init PROVE Governed
  OBVIOUS
<1>1. /\ enabled = InitialSignals /\ gauge = enabled /\ pending = {}
      /\ job["main"] = None
  BY DEF Init, InitSignals, Procs
<1>2. QED
  BY <1>1 DEF Governed, ShedInv, NoShedSignalInFlight, ShedInCostOrder

(* The governor gives the signals up in the cost order, whatever the guard reads and       *)
(* whatever fails, and keeps none that costs more than one it has given up.                *)
THEOREM ShedsInOrder == Spec => []ShedInCostOrder
<1>1. Governed => ShedInCostOrder
  BY DEF Governed
<1>2. QED
  BY <1>1, StartGoverned, GovernedKept, TypeCorrect, EventsAccounted, PTL DEF Spec

(* The gauges say what the generator does, and no event of a shed signal is on its way.    *)
THEOREM GovernorHolds == Spec => []EnabledSetIsOne
<1>1. Governed => EnabledSetIsOne
  BY DEF Governed, ShedInv, EnabledSetIsOne, GaugeMatchesGenerator
<1>2. QED
  BY <1>1, StartGoverned, GovernedKept, TypeCorrect, EventsAccounted, PTL DEF Spec

---------------------------------------------------------------------------
(* The agent implements EventFate.                                         *)

(* A step of the agent is a step of the abstract specification or changes none of its      *)
(* three totals; the balance bounds how many events are between entry and exit.            *)
LEMMA FateStep ==
  TypeOK /\ JobInv /\ DropAccounting /\ [Next]_vars
    => [Fate!Next]_(<<IF includesProbe THEN observed + hellos ELSE 0,
                      IF includesProbe THEN written ELSE 0,
                      IF includesProbe THEN AllDropped - sloDropped ELSE 0>>)
<1> SUFFICES ASSUME TypeOK, JobInv, DropAccounting, [Next]_vars, includesProbe
             PROVE  \/ Fate!Next
                    \/ UNCHANGED <<observed + hellos, written, AllDropped - sloDropped>>
  BY ConfigKept DEF includesProbe
<1> DEFINE Entered == observed + hellos
<1> DEFINE Lost == AllDropped - sloDropped
<1>0. /\ includesProbe' = includesProbe
      /\ Entered = written + Lost + Carries("main") + Carries("hello")
      /\ Entered \in Nat /\ written \in Nat /\ Lost \in Int
      /\ \A p \in Procs : Carries(p) \in {0, 1}
  BY ConfigKept DEF includesProbe, DropAccounting, TypeOK, AllDropped, Reasons, Carries
<1>1. ASSUME Entered' = Entered + 1, written' = written, Lost' = Lost,
             \E p \in Procs : Carries(p) = 0
      PROVE  Fate!Next
  BY <1>0, <1>1 DEF Fate!Next, Fate!Enter, Fate!InFlight, Procs
<1>2. ASSUME Entered' = Entered, written' = written + 1, Lost' = Lost,
             \E p \in Procs : Carries(p) = 1
      PROVE  Fate!Next
  BY <1>0, <1>2 DEF Fate!Next, Fate!Write, Fate!InFlight, Procs
<1>3. ASSUME Entered' = Entered, written' = written, Lost' = Lost + 1,
             \E p \in Procs : Carries(p) = 1
      PROVE  Fate!Next
  BY <1>0, <1>3 DEF Fate!Next, Fate!Drop, Fate!InFlight, Procs
<1>4. ASSUME UNCHANGED <<observed, hellos, written, dropped, sloDropped>>
      PROVE  UNCHANGED <<Entered, written, Lost>>
  BY <1>4 DEF AllDropped
<1>5. ASSUME NEW p \in Procs, EventStep(p)
      PROVE  Fate!Next \/ UNCHANGED <<Entered, written, Lost>>
  <2> USE DEF At
  <2>1. pc[p] \in EventPath /\ UNCHANGED <<observed, hellos>>
    BY <1>5 DEF EventStep, RateLimit, Validate, LockOutput, Encode, EventPath, metricVars
  <2>2. /\ job[p] # SLO => Carries(p) = 1
    BY <2>1, Markers DEF JobInv, EventPath, Carries, Procs, TypeOK
  <2>3. ASSUME NEW r \in Reasons, CountDrop(p, r), written' = written
        PROVE  Fate!Next \/ UNCHANGED <<Entered, written, Lost>>
    BY <1>0, <1>3, <2>1, <2>2, <2>3, DropBalance
  <2>4. ASSUME UNCHANGED <<dropped, sloDropped>>,
               written' = written + (IF job[p] = SLO THEN 0 ELSE 1)
        PROVE  Fate!Next \/ UNCHANGED <<Entered, written, Lost>>
    <3>1. Lost' = Lost /\ Entered' = Entered
      BY <2>1, <2>4 DEF AllDropped
    <3>2. CASE job[p] = SLO
      BY <1>0, <2>4, <3>1, <3>2
    <3>3. CASE job[p] # SLO
      BY <1>0, <1>2, <2>2, <2>4, <3>1, <3>3
    <3>4. QED
      BY <3>2, <3>3
  <2>5. QED
    BY <1>4, <1>5, <2>1, <2>3, <2>4
       DEF EventStep, RateLimit, Validate, LockOutput, Encode, metricVars, histVars, Reasons
<1>6. CASE NextProbe
  <2>1. /\ observed' = observed + 1 /\ UNCHANGED <<hellos, written, dropped, sloDropped>>
        /\ Carries("main") = 0
    BY <1>6, Markers DEF NextProbe, histVars, At, JobInv, EventPath, Carries
  <2>2. QED
    BY <1>1, <2>1 DEF AllDropped, TypeOK, Procs
<1>7. CASE HelloEmit
  <2>1. /\ hellos' = hellos + 1 /\ UNCHANGED <<observed, written, dropped, sloDropped>>
        /\ Carries("hello") = 0
    BY <1>7, Markers DEF HelloEmit, histVars, At, JobInv, EventPath, Carries
  <2>2. QED
    BY <1>1, <2>1 DEF AllDropped, TypeOK, Procs
<1>8. CASE \/ StartTick \/ NextSLO \/ Generate \/ PostAttribution \/ GuardOverhead
           \/ PublishEnabled \/ Heartbeat \/ SelectTicker \/ SelectDone \/ Cancel
           \/ Close \/ Return
  BY <1>4, <1>8 DEF StartTick, NextSLO, Generate, PostAttribution, GuardOverhead,
       PublishEnabled, Heartbeat, SelectTicker, SelectDone, Cancel, Close, Return,
       metricVars, histVars
<1>9. CASE HelloBegin \/ HelloTicker \/ HelloTickDone \/ HelloStop \/ Interrupt \/ TimePasses
  BY <1>4, <1>9 DEF HelloBegin, HelloTicker, HelloTick, HelloTickDone, HelloStop, HelloWait,
       Interrupt, TimePasses, metricVars, histVars
<1>10. CASE UNCHANGED vars
  BY <1>4, <1>10 DEF vars, metricVars, histVars
<1>11. QED
  BY <1>5, <1>6, <1>7, <1>8, <1>9, <1>10 DEF Next, MainStep, HelloStep, Exited, Procs

(* Whatever the goroutines do, an event that enters leaves once.                           *)
THEOREM ImplementsEventFate == Spec => KeepsEventFate
<1>1. Init => Fate!Init
  BY DEF Init, Fate!Init, AllDropped, Reasons
<1>2. TypeOK /\ JobInv /\ DropAccounting /\ [Next]_vars
        => [Fate!Next]_(<<IF includesProbe THEN observed + hellos ELSE 0,
                          IF includesProbe THEN written ELSE 0,
                          IF includesProbe THEN AllDropped - sloDropped ELSE 0>>)
  BY FateStep
<1>3. QED
  BY <1>1, <1>2, TypeCorrect, EventsAccounted, PTL DEF Spec, KeepsEventFate, Fate!Spec
---------------------------------------------------------------------------
(* The output.                                                             *)

(* The goroutine that encodes holds the mutex of the writers, and the other one does not   *)
(* encode; this holds in the state an os.Exit leaves behind too.                           *)
OutputInv ==
  /\ \A p \in Procs : Running /\ pc[p] = "encode" => writer = p
  /\ \A p, q \in Procs : pc[p] = "encode" /\ pc[q] = "encode" => p = q

(* One step, for the invariant and for the action property at once.                        *)
LEMMA OutputStep ==
  TypeOK /\ OutputInv /\ [Next]_vars
    => /\ OutputInv'
       /\ \A p \in Procs : pc[p] = "encode" /\ pc'[p] = "encode" =>
            /\ UNCHANGED <<written, closed>>
            /\ \A q \in Procs \ {p} : pc'[q] # "encode"
<1> DEFINE Quiet == UNCHANGED <<written, closed>>
<1> DEFINE Alone == \A p \in Procs : pc[p] = "encode" /\ pc'[p] = "encode" => Quiet
<1> SUFFICES ASSUME TypeOK, OutputInv, [Next]_vars PROVE OutputInv' /\ Alone
  BY DEF OutputInv
<1> USE DEF OutputInv, TypeOK, At, Goto, Procs, Running
<1>1. ASSUME UNCHANGED <<writer, written, closed, exitCode>>,
             \A p \in Procs : pc'[p] = "encode" => pc[p] = "encode"
      PROVE  OutputInv' /\ Alone
  BY <1>1
<1>2. ASSUME NEW p \in Procs, RateLimit(p) PROVE OutputInv' /\ Alone
  BY <1>2 DEF RateLimit, Finish, Resume, outVars
<1>3. ASSUME NEW p \in Procs, Validate(p) PROVE OutputInv' /\ Alone
  <2>1. \A q \in Procs : pc'[q] = "encode" => pc[q] = "encode"
    BY <1>3 DEF Validate, AfterFailure, Finish, Resume
  <2>2. UNCHANGED <<writer, written, closed>> /\ (exitCode' = exitCode \/ exitCode' = 1)
    BY <1>3 DEF Validate, AfterFailure, Die, outVars
  <2>3. QED
    BY <2>1, <2>2
<1>4. ASSUME NEW p \in Procs, LockOutput(p) PROVE OutputInv' /\ Alone
  <2>1. \A q \in Procs : pc[q] # "encode"
    BY <1>4 DEF LockOutput, Free
  <2>2. QED
    BY <1>4, <2>1 DEF LockOutput
<1>5. ASSUME NEW p \in Procs, Encode(p) PROVE OutputInv' /\ Alone
  <2>1. \A q \in Procs \ {p} : pc[q] # "encode" /\ pc'[q] = pc[q]
    BY <1>5 DEF Encode, AfterFailure, Finish
  <2>2. CASE Finish(p)
    <3>1. pc'[p] # "encode"
      BY <2>2 DEF Finish, Resume
    <3>2. QED
      BY <2>1, <3>1
  <2>3. CASE exitCode' = 1 /\ pc' = pc /\ UNCHANGED <<written, closed>>
    BY <2>1, <2>3
  <2>4. QED
    BY <1>5, <2>2, <2>3 DEF Encode, AfterFailure, Die
<1>6. CASE StartTick
  BY <1>6 DEF StartTick, Die, outVars, metricVars
<1>7. CASE NextSLO \/ Generate \/ PostAttribution
  BY <1>1, <1>7 DEF NextSLO, Generate, PostAttribution, outVars, metricVars
<1>8. CASE NextProbe
  BY <1>1, <1>8 DEF NextProbe, outVars
<1>9. CASE GuardOverhead \/ PublishEnabled
  BY <1>1, <1>9 DEF GuardOverhead, Evaluate, PublishEnabled, outVars, metricVars
<1>10. CASE Heartbeat
  BY <1>1, <1>10 DEF Heartbeat, AfterTick, outVars
<1>11. CASE SelectTicker \/ SelectDone \/ Cancel
  BY <1>1, <1>11 DEF SelectTicker, SelectDone, Cancel, outVars, metricVars
<1>12. CASE Close
  <2>1. \A q \in Procs : pc[q] # "encode"
    BY <1>12 DEF Close, Free
  <2>2. QED
    BY <1>12, <2>1 DEF Close
<1>13. CASE Return
  BY <1>13 DEF Return, Die, outVars, metricVars
<1>14. CASE HelloBegin \/ HelloTicker
  BY <1>1, <1>14 DEF HelloBegin, HelloTicker, HelloTick, outVars, metricVars
<1>15. CASE HelloEmit
  BY <1>1, <1>15 DEF HelloEmit, outVars
<1>16. CASE HelloTickDone \/ HelloStop
  BY <1>1, <1>16 DEF HelloTickDone, HelloStop, HelloWait, outVars, metricVars
<1>17. CASE Interrupt \/ TimePasses
  BY <1>1, <1>17 DEF Interrupt, TimePasses, outVars, metricVars
<1>18. CASE UNCHANGED vars
  BY <1>1, <1>18 DEF vars, outVars, metricVars
<1>19. QED
  BY <1>2, <1>3, <1>4, <1>5, <1>6, <1>7, <1>8, <1>9, <1>10, <1>11, <1>12, <1>13, <1>14, <1>15,
     <1>16, <1>17, <1>18 DEF Next, MainStep, HelloStep, EventStep, Exited

(* While one goroutine encodes, the other neither writes nor closes.                       *)
THEOREM OutputExclusive == Spec => ExclusiveOutput
<1>1. Init => OutputInv
  BY DEF Init, OutputInv, Procs
<1>2. QED
  BY <1>1, OutputStep, TypeCorrect, PTL DEF Spec, ExclusiveOutput
---------------------------------------------------------------------------
(* How far main is from the end of its tick.  The rank of its place, and for what it has   *)
(* still to do: a signal waiting to become an event costs the way round the event's path,  *)
(* and so does every signal that may be generated once the SLO events are out.             *)
PlaceRank ==
  [return |-> 1, close |-> 2, cancel |-> 3, select |-> 4, tick |-> 4, beat |-> 5, gauge |-> 6,
   guard |-> 7, probe |-> 8, slo |-> 8, encode |-> 9, lock |-> 10, validate |-> 11, allow |-> 12]
InSLOPart == pc["main"] = "slo" \/ job["main"] = SLO
SLOWork == IF InSLOPart THEN 5 * Cardinality(Signal) + 4 * sloLeft + 1 ELSE 0
MainWork == PlaceRank[pc["main"]] + 5 * Cardinality(pending) + SLOWork

MainGoesOn ==
  /\ MainStep => \/ ~Running'
                 \/ idx' = idx /\ MainWork' < MainWork
                 \/ pc["main"] = "tick" /\ idx' = idx + 1
  /\ ~MainStep => UNCHANGED <<idx, MainWork>>
MainMoves ==
  Running =>
    /\ pc["main"] \in {"lock", "close"} =>
         writer = Free \/ (writer = "hello" /\ pc["hello"] = "encode")
    /\ pc["main"] = "probe" /\ pending # {} =>
         \E s \in pending : FirstOf(coreSignalSet, pending, s)
TicksBounded ==
  IF config.count > 0
  THEN /\ idx <= config.count
       /\ pc["main"] = "tick" => idx < config.count
       /\ pc["main"] # "select"
  ELSE pc["main"] = "tick" => idx < MaxTicks \/ idx = 0

(* Where main can be, and who can hold the mutex of the writers.                           *)
MainPlaces == DOMAIN PlaceRank
PlaceInv ==
  /\ pc["main"] \in MainPlaces
  /\ \A p \in Procs : Running /\ writer = p => pc[p] = "encode"

(* What the places are worth. *)
LEMMA Ranks ==
  /\ MainPlaces = {"return", "close", "cancel", "select", "tick", "beat", "gauge", "guard",
                   "probe", "slo", "encode", "lock", "validate", "allow"}
  /\ PlaceRank["return"] = 1 /\ PlaceRank["close"] = 2 /\ PlaceRank["cancel"] = 3
  /\ PlaceRank["select"] = 4 /\ PlaceRank["tick"] = 4 /\ PlaceRank["beat"] = 5
  /\ PlaceRank["gauge"] = 6 /\ PlaceRank["guard"] = 7 /\ PlaceRank["probe"] = 8
  /\ PlaceRank["slo"] = 8 /\ PlaceRank["encode"] = 9 /\ PlaceRank["lock"] = 10
  /\ PlaceRank["validate"] = 11 /\ PlaceRank["allow"] = 12
<1>1. DOMAIN PlaceRank
        = {"return", "close", "cancel", "select", "tick", "beat", "gauge", "guard",
           "probe", "slo", "encode", "lock", "validate", "allow"}
  BY DEF PlaceRank
<1>2. QED
  BY <1>1 DEF MainPlaces, PlaceRank

(* There are twelve signals in the list. *)
LEMMA TwelveFinite == IsFiniteSet(1..12)
<1>1. \A n \in Nat : IsFiniteSet(1..n)
  BY FS_Interval
<1>2. QED
  BY <1>1

(* There are finitely many signals. *)
LEMMA SignalsFinite == IsFiniteSet(Signal) /\ Cardinality(Signal) \in Nat
<1> DEFINE at == [i \in 1..12 |-> coreSignalSet[i]]
<1>1. at \in Surjection(1..12, Signal)
  <2>1. DOMAIN coreSignalSet = 1..12
    BY DEF coreSignalSet
  <2>2. Signal = { coreSignalSet[i] : i \in 1..12 }
    BY <2>1 DEF Signal, Members
  <2>3. Signal = { at[i] : i \in 1..12 }
    BY <2>2
  <2>4. at \in [1..12 -> Signal]
    BY <2>2
  <2> HIDE DEF at
  <2>5. QED
    BY <2>3, <2>4 DEF Surjection
<1> HIDE DEF at
<1>2. QED
  BY <1>1, TwelveFinite, FS_Surjection, FS_CardinalityType

(* A nonempty set of signals has one that comes first in the list. *)
LEMMA FirstExists ==
  ASSUME NEW S \in SUBSET Signal, S # {}
  PROVE  \E s \in S : FirstOf(coreSignalSet, S, s)
<1> DEFINE at == { i \in 1..12 : coreSignalSet[12 - i + 1] \in S }
<1>1. DOMAIN coreSignalSet = 1..12
  BY DEF coreSignalSet
<1>2. \A s \in S : \E i \in 1..12 : coreSignalSet[i] = s
  BY <1>1 DEF Signal, Members
<1>3. at # {} /\ IsFiniteSet(at) /\ \A i \in at : i \in Int
  <2>1. PICK place \in 1..12 : coreSignalSet[place] \in S
    BY <1>2
  <2>2. 12 - place + 1 \in at
    BY <2>1
  <2>3. at \in SUBSET (1..12)
    OBVIOUS
  <2>4. \A i \in at : i \in Int
    OBVIOUS
  <2> HIDE DEF at
  <2>5. QED
    BY <2>2, <2>3, <2>4, TwelveFinite, FS_Subset
<1>4. PICK m \in at : \A i \in at : i <= m
  BY <1>3, HasGreatest
<1> DEFINE first == 12 - m + 1
<1>5. first \in 1..12 /\ coreSignalSet[first] \in S
  BY <1>4
<1>6. ASSUME NEW t \in S \ {coreSignalSet[first]}
      PROVE  Precedes(coreSignalSet, coreSignalSet[first], t)
  <2>1. PICK j \in 1..12 : coreSignalSet[j] = t
    BY <1>2
  <2>2. 12 - j + 1 \in 1..12 /\ 12 - (12 - j + 1) + 1 = j
    OBVIOUS
  <2>3. 12 - j + 1 <= m
    BY <1>4, <2>1, <2>2
  <2>4. first < j
    BY <1>4, <1>6, <2>1, <2>3
  <2>5. QED
    BY <1>1, <1>5, <2>1, <2>4 DEF Precedes
<1>7. QED
  BY <1>5, <1>6 DEF FirstOf

(* main stays on its places, and who holds the mutex encodes.                              *)
LEMMA PlacesKept == TypeOK /\ JobInv /\ PlaceInv /\ [Next]_vars => PlaceInv'
<1> SUFFICES ASSUME TypeOK, JobInv, PlaceInv, [Next]_vars PROVE PlaceInv'
  OBVIOUS
<1> USE Ranks DEF PlaceInv, TypeOK, At, Goto, Procs, Running
<1>0. ASSUME writer' = writer, exitCode' = exitCode \/ exitCode' \in {0, 1},
             pc["main"] # "encode", pc'["main"] \in MainPlaces, pc'["hello"] = pc["hello"]
      PROVE  PlaceInv'
  BY ONLY <1>0, PlaceInv, TypeOK DEF PlaceInv, TypeOK, Procs, Running
<1>1. ASSUME NEW p \in Procs, RateLimit(p) PROVE PlaceInv'
  BY <1>1, Markers DEF RateLimit, Finish, Resume, outVars
<1>2. ASSUME NEW p \in Procs, Validate(p) PROVE PlaceInv'
  <2>1. exitCode' \in {exitCode, 1} /\ writer' = writer /\ (exitCode' # 1 => exitCode' = exitCode)
    BY <1>2 DEF Validate, AfterFailure, Die, outVars
  <2>2. \/ pc' = pc /\ exitCode' = 1
        \/ pc' = [pc EXCEPT ![p] = "lock"]
        \/ p = "main" /\ pc' = [pc EXCEPT ![p] = "probe"]
        \/ p = "main" /\ pc' = [pc EXCEPT ![p] = "slo"]
        \/ p = "hello" /\ pc' = [pc EXCEPT ![p] = "emit"]
    BY <1>2 DEF Validate, AfterFailure, Die, Finish, Resume
  <2>3. pc[p] = "validate"
    BY <1>2 DEF Validate
  <2>4. QED
    BY <2>1, <2>2, <2>3
<1>3. ASSUME NEW p \in Procs, LockOutput(p) PROVE PlaceInv'
  BY <1>3 DEF LockOutput, Free
<1>4. ASSUME NEW p \in Procs, Encode(p) PROVE PlaceInv'
  <2>1. writer' = Free
    BY <1>4 DEF Encode
  <2>2. \/ pc' = pc
        \/ p = "main" /\ pc' = [pc EXCEPT ![p] = "probe"]
        \/ p = "main" /\ pc' = [pc EXCEPT ![p] = "slo"]
        \/ p = "hello" /\ pc' = [pc EXCEPT ![p] = "emit"]
    BY <1>4 DEF Encode, AfterFailure, Finish, Resume
  <2>3. QED
    BY <2>1, <2>2 DEF Free
<1>5. CASE StartTick
  BY <1>5 DEF StartTick, Die, outVars
<1>6. CASE NextSLO \/ Generate \/ PostAttribution
  BY <1>6 DEF NextSLO, Generate, PostAttribution, outVars
<1>7. CASE NextProbe
  BY <1>7 DEF NextProbe, outVars
<1>8. CASE GuardOverhead \/ PublishEnabled
  BY <1>8 DEF GuardOverhead, Evaluate, PublishEnabled, outVars
<1>9. CASE Heartbeat
  <2>1. UNCHANGED <<writer, exitCode>> /\ pc["main"] = "beat"
    BY <1>9 DEF Heartbeat, outVars
  <2>2. \E x \in {"select", "tick", "cancel"} : pc' = [pc EXCEPT !["main"] = x]
    BY <1>9 DEF Heartbeat, AfterTick
  <2>3. pc'["main"] \in MainPlaces /\ pc'["hello"] = pc["hello"]
    BY <2>2
  <2>4. QED
    BY ONLY <1>0, <2>1, <2>3
<1>10. CASE SelectTicker \/ SelectDone \/ Cancel
  <2>1. /\ UNCHANGED <<writer, exitCode>> /\ pc["main"] \in {"select", "cancel"}
        /\ \E x \in {"tick", "cancel", "close"} : pc' = [pc EXCEPT !["main"] = x]
    BY <1>10 DEF SelectTicker, SelectDone, Cancel, outVars
  <2>2. pc'["main"] \in MainPlaces /\ pc'["hello"] = pc["hello"]
    BY <2>1
  <2>3. QED
    BY ONLY <1>0, <2>1, <2>2
<1>11. CASE Close \/ Return
  <2>1. /\ writer' = writer /\ pc["main"] # "encode" /\ (exitCode' = exitCode \/ exitCode' = 0)
        /\ pc' = pc \/ pc' = [pc EXCEPT !["main"] = "return"]
    BY <1>11 DEF Close, Return, Die, outVars
  <2>2. pc'["main"] \in MainPlaces /\ pc'["hello"] = pc["hello"]
    BY <2>1
  <2>3. QED
    BY ONLY <1>0, <2>1, <2>2
<1>12. CASE HelloBegin \/ HelloTicker
  <2>1. UNCHANGED <<writer, exitCode>> /\ pc["hello"] # "encode" /\ pc'["main"] = pc["main"]
    BY <1>12 DEF HelloBegin, HelloTicker, HelloTick, outVars
  <2>2. QED
    BY <2>1
<1>13. CASE HelloEmit
  BY <1>13 DEF HelloEmit, outVars
<1>14. CASE HelloTickDone \/ HelloStop
  BY <1>14 DEF HelloTickDone, HelloStop, HelloWait, outVars
<1>15. CASE Interrupt \/ TimePasses
  BY <1>15 DEF Interrupt, TimePasses, outVars
<1>16. CASE UNCHANGED vars
  BY <1>16 DEF vars, outVars
<1>17. QED
  BY <1>1, <1>2, <1>3, <1>4, <1>5, <1>6, <1>7, <1>8, <1>9, <1>10, <1>11, <1>12, <1>13, <1>14,
     <1>15, <1>16 DEF Next, MainStep, HelloStep, EventStep, Exited

(* The parts of the work are numbers, and a set of signals is worth no more than all.      *)
LEMMA SignalSets ==
  ASSUME NEW S \in SUBSET Signal
  PROVE  /\ IsFiniteSet(S) /\ Cardinality(S) \in Nat
         /\ Cardinality(S) <= Cardinality(Signal)
BY SignalsFinite, FS_Subset, FS_CardinalityType

(* A place is worth a number. *)
LEMMA RankTypes == \A x \in MainPlaces : PlaceRank[x] \in Nat
BY Ranks

(* Whatever is left of the SLO events, their share of the work is a number. *)
LEMMA SLOWorkType == \A n \in Nat : 5 * Cardinality(Signal) + 4 * n + 1 \in Nat
<1> DEFINE all == Cardinality(Signal)
<1>1. all \in Nat
  BY SignalsFinite
<1> HIDE DEF all
<1>2. \A n \in Nat : 5 * all + 4 * n + 1 \in Nat
  BY <1>1
<1>3. QED
  BY <1>2 DEF all

(* A step to a place of a lower rank that leaves the rest is a step nearer.                *)
LEMMA LowerRank ==
  ASSUME TypeOK, PlaceInv, PlaceInv', UNCHANGED <<pending, sloLeft>>, InSLOPart' = InSLOPart,
         PlaceRank[pc'["main"]] < PlaceRank[pc["main"]]
  PROVE  MainWork' < MainWork
<1> DEFINE n == Cardinality(pending)
<1>1. SLOWork' = SLOWork /\ SLOWork \in Nat
  BY SLOWorkType DEF SLOWork, TypeOK
<1>2. n \in Nat /\ n' = n
  BY SignalSets DEF TypeOK
<1>3. PlaceRank[pc["main"]] \in Nat /\ PlaceRank[pc'["main"]] \in Nat
  BY RankTypes DEF PlaceInv
<1>4. MainWork = PlaceRank[pc["main"]] + 5 * n + SLOWork
  BY DEF MainWork
<1>5. MainWork' = PlaceRank[pc'["main"]] + 5 * n' + SLOWork'
  BY DEF MainWork
<1> HIDE DEF n
<1>6. QED
  BY <1>1, <1>2, <1>3, <1>4, <1>5

(* The path of an event leads main nearer, or ends the process.                            *)
LEMMA EventNearer ==
  ASSUME TypeOK, JobInv, PlaceInv, PlaceInv', EventStep("main")
  PROVE  ~Running' \/ (idx' = idx /\ MainWork' < MainWork)
<1> USE Ranks, Markers DEF TypeOK, JobInv, EventPath, At, Goto, Procs
<1>1. UNCHANGED <<idx, sloLeft, pending>> /\ pc["main"] \in EventPath
  BY DEF EventStep, RateLimit, Validate, LockOutput, Encode
<1>2. ASSUME job' = job, PlaceRank[pc'["main"]] < PlaceRank[pc["main"]], pc'["main"] # "slo"
      PROVE  MainWork' < MainWork
  <2>1. InSLOPart' = InSLOPart
    BY <1>1, <1>2 DEF InSLOPart
  <2>2. QED
    BY <1>1, <1>2, <2>1, LowerRank
<1>3. ASSUME Finish("main") PROVE MainWork' < MainWork
  <2>1. /\ pc'["main"] = IF job["main"] = SLO THEN "slo" ELSE "probe"
        /\ job'["main"] = None
    BY <1>3 DEF Finish, Resume
  <2>2. InSLOPart' = InSLOPart
    BY <1>1, <2>1 DEF InSLOPart
  <2>3. PlaceRank[pc'["main"]] < PlaceRank[pc["main"]]
    BY <1>1, <2>1
  <2>4. QED
    BY <1>1, <2>2, <2>3, LowerRank
<1>4. \/ Finish("main")
      \/ exitCode' = 1
      \/ /\ job' = job
         /\ \/ pc["main"] = "allow" /\ pc'["main"] = "validate"
            \/ pc["main"] = "validate" /\ pc'["main"] = "lock"
            \/ pc["main"] = "lock" /\ pc'["main"] = "encode"
  BY DEF EventStep, RateLimit, Validate, LockOutput, Encode, AfterFailure, Die
<1>5. QED
  BY <1>1, <1>2, <1>3, <1>4 DEF Running

(* Every step of main leads it nearer to the end of its tick, starts the next tick or      *)
(* ends the process; nobody else's step leads it away.                                     *)
LEMMA GoesOn ==
  ASSUME TypeOK, JobInv, ShedInv, PlaceInv, PlaceInv', TypeOK', [Next]_vars
  PROVE  MainGoesOn
<1> DEFINE Nearer == idx' = idx /\ MainWork' < MainWork
           Goal == ~Running' \/ Nearer \/ (pc["main"] = "tick" /\ idx' = idx + 1)
<1> USE Ranks, Markers DEF EventPath, At, Procs
<1>0. /\ pc = [p \in Procs |-> pc[p]] /\ job = [p \in Procs |-> job[p]]
      /\ pc["main"] \notin EventPath => job["main"] = None
  BY DEF TypeOK, JobInv
<1> DEFINE all == Cardinality(Signal)
           waiting == Cardinality(pending)
<1>1. /\ all \in Nat /\ waiting \in Nat /\ waiting' \in Nat /\ sloLeft \in Nat
      /\ PlaceRank[pc["main"]] \in Nat /\ PlaceRank[pc'["main"]] \in Nat
      /\ SLOWork \in Nat /\ SLOWork' \in Nat
  <2>1. pending \in SUBSET Signal /\ pending' \in SUBSET Signal /\ sloLeft \in Nat
    BY DEF TypeOK
  <2>2. SLOWork \in Nat /\ SLOWork' \in Nat
    <3>1. sloLeft \in Nat /\ sloLeft' \in Nat
      BY DEF TypeOK
    <3>2. QED
      BY <3>1, SLOWorkType DEF SLOWork
  <2>3. all \in Nat /\ waiting \in Nat /\ waiting' \in Nat
    BY <2>1, SignalSets, SignalsFinite
  <2>4. PlaceRank[pc["main"]] \in Nat /\ PlaceRank[pc'["main"]] \in Nat
    BY RankTypes DEF PlaceInv
  <2>5. QED
    BY <2>1, <2>2, <2>3, <2>4
<1>2. /\ MainWork = PlaceRank[pc["main"]] + 5 * waiting + SLOWork
      /\ MainWork' = PlaceRank[pc'["main"]] + 5 * waiting' + SLOWork'
  BY DEF MainWork
<1> HIDE DEF all, waiting
<1>3. ASSUME EventStep("main") PROVE Goal
  BY <1>3, EventNearer
<1>4. ASSUME UNCHANGED <<idx, sloLeft, pending, job>>,
             pc["main"] \notin EventPath \cup {"slo"}, pc'["main"] \notin EventPath \cup {"slo"},
             PlaceRank[pc'["main"]] < PlaceRank[pc["main"]]
      PROVE  Goal
  <2>1. InSLOPart' = InSLOPart
    BY <1>4 DEF InSLOPart
  <2>2. QED
    BY <1>4, <2>1, LowerRank
<1>5. ASSUME exitCode' # -1 PROVE Goal
  BY <1>5 DEF Running
<1> HIDE DEF Nearer
<1>6. ASSUME StartTick PROVE Goal
  <2>1. pc["main"] = "tick" /\ (exitCode' = 1 \/ idx' = idx + 1)
    BY <1>6 DEF StartTick, Die
  <2>2. QED
    BY <1>5, <2>1
<1> HIDE DEF Goal
<1>7. ASSUME NextSLO PROVE Goal
  <2>1. /\ UNCHANGED <<idx, pending>> /\ sloLeft' = sloLeft - 1
        /\ pc["main"] = "slo" /\ pc'["main"] = "validate" /\ job'["main"] = SLO
    BY <1>0, <1>7 DEF NextSLO, Goto, TypeOK
  <2>2. SLOWork' = SLOWork - 4
    <3>1. SLOWork = 5 * all + 4 * sloLeft + 1
      BY <2>1 DEF SLOWork, InSLOPart, all
    <3>2. SLOWork' = 5 * all + 4 * (sloLeft - 1) + 1
      BY <2>1 DEF SLOWork, InSLOPart, all
    <3>3. QED
      BY <1>1, <3>1, <3>2
  <2>3. PlaceRank[pc'["main"]] = PlaceRank[pc["main"]] + 3 /\ waiting' = waiting
    BY <2>1 DEF waiting
  <2>4. QED
    BY <1>1, <1>2, <2>1, <2>2, <2>3 DEF Goal, Nearer
<1>8. ASSUME Generate PROVE Goal
  <2>1. /\ UNCHANGED <<idx, sloLeft, job>> /\ pending' = enabled /\ sloLeft = 0
        /\ pc["main"] = "slo" /\ pc'["main"] = "probe" /\ job["main"] # SLO
    BY <1>0, <1>8 DEF Generate, Goto
  <2>2. SLOWork = 5 * all + 1 /\ SLOWork' = 0
    <3>1. SLOWork = 5 * all + 4 * sloLeft + 1
      BY <2>1 DEF SLOWork, InSLOPart, all
    <3>2. SLOWork' = 0
      BY <2>1 DEF SLOWork, InSLOPart
    <3>3. QED
      BY <1>1, <2>1, <3>1, <3>2
  <2>3. waiting = 0 /\ waiting' <= all
    <3>1. pending = {} /\ pending' \in SUBSET Signal
      BY <1>0, <2>1 DEF ShedInv, TypeOK
    <3>2. QED
      BY <3>1, FS_EmptySet, SignalSets DEF waiting, all
  <2>4. QED
    BY <1>1, <1>2, <2>1, <2>2, <2>3 DEF Goal, Nearer
<1>9. ASSUME NextProbe PROVE Goal
  <2>1. PICK s \in pending :
          /\ pending' = pending \ {s}
          /\ \/ job' = [job EXCEPT !["main"] = s] /\ Goto("main", "allow")
             \/ UNCHANGED <<job, pc>>
    BY <1>9 DEF NextProbe
  <2>2. UNCHANGED <<idx, sloLeft>> /\ pc["main"] = "probe"
    BY <1>9 DEF NextProbe
  <2>3. waiting' = waiting - 1
    <3>1. IsFiniteSet(pending)
      BY SignalSets DEF TypeOK
    <3>2. QED
      BY <2>1, <3>1, FS_RemoveElement DEF waiting
  <2>4. s \in Signal /\ s # SLO /\ job["main"] # SLO
    BY <1>0, <2>1, <2>2 DEF TypeOK
  <2>5. pc'["main"] \in {"probe", "allow"} /\ job'["main"] # SLO
    <3>1. CASE UNCHANGED <<job, pc>>
      BY <2>2, <2>4, <3>1
    <3>2. CASE job' = [job EXCEPT !["main"] = s] /\ pc' = [pc EXCEPT !["main"] = "allow"]
      BY <1>0, <2>4, <3>2
    <3>3. QED
      BY <2>1, <3>1, <3>2 DEF Goto
  <2>6. SLOWork = 0 /\ SLOWork' = 0
    BY <2>2, <2>4, <2>5 DEF SLOWork, InSLOPart
  <2>7. PlaceRank[pc["main"]] = 8 /\ PlaceRank[pc'["main"]] <= 12
    BY <2>2, <2>5
  <2>8. QED
    BY <1>1, <1>2, <2>2, <2>3, <2>6, <2>7 DEF Goal, Nearer
<1>10. ASSUME PostAttribution PROVE Goal
  <2>1. UNCHANGED <<idx, sloLeft, pending, job>> /\ pc["main"] = "probe" /\ pc'["main"] = "guard"
    BY <1>0, <1>10 DEF PostAttribution, Goto
  <2>2. QED
    BY <1>4, <2>1
<1>11. ASSUME GuardOverhead \/ PublishEnabled PROVE Goal
  <2>1. /\ UNCHANGED <<idx, sloLeft, pending, job>>
        /\ \/ pc["main"] = "guard" /\ pc'["main"] \in {"gauge", "beat"}
           \/ pc["main"] = "gauge" /\ pc'["main"] = "beat"
    BY <1>0, <1>11 DEF GuardOverhead, Evaluate, PublishEnabled, Goto
  <2>2. QED
    BY <1>4, <2>1
<1>12. ASSUME Heartbeat PROVE Goal
  <2>1. /\ UNCHANGED <<idx, sloLeft, pending, job>>
        /\ pc["main"] = "beat" /\ pc'["main"] \in {"select", "tick", "cancel"}
    BY <1>0, <1>12 DEF Heartbeat, AfterTick, Goto
  <2>2. QED
    BY <1>4, <2>1
<1>13. ASSUME SelectDone \/ Cancel \/ Close PROVE Goal
  <2>1. /\ UNCHANGED <<idx, sloLeft, pending, job>>
        /\ \/ pc["main"] = "select" /\ pc'["main"] = "cancel"
           \/ pc["main"] = "cancel" /\ pc'["main"] = "close"
           \/ pc["main"] = "close" /\ pc'["main"] = "return"
    BY <1>0, <1>13 DEF SelectDone, Cancel, Close, Goto
  <2>2. QED
    BY <1>4, <2>1
<1>14. ASSUME Return PROVE Goal
  <2>1. exitCode' = 0
    BY <1>14 DEF Return, Die
  <2>2. QED
    BY <1>5, <2>1
<1>15. ASSUME ~MainStep PROVE UNCHANGED <<idx, MainWork>>
  <2>1. ASSUME UNCHANGED <<idx, sloLeft, pending>>,
               \/ pc'["main"] = pc["main"]
               \/ pc["main"] = "select" /\ pc'["main"] = "tick",
               job'["main"] = job["main"]
        PROVE  UNCHANGED <<idx, MainWork>>
    <3>1. SLOWork' = SLOWork /\ waiting' = waiting
      BY <2>1 DEF SLOWork, InSLOPart, waiting
    <3>2. PlaceRank[pc'["main"]] = PlaceRank[pc["main"]]
      BY <2>1
    <3>3. QED
      BY <1>2, <2>1, <3>1, <3>2
  <2>2. ASSUME EventStep("hello") PROVE UNCHANGED <<idx, MainWork>>
    <3>1. UNCHANGED <<idx, sloLeft, pending>>
      BY <2>2 DEF EventStep, RateLimit, Validate, LockOutput, Encode
    <3>2. pc'["main"] = pc["main"] /\ job'["main"] = job["main"]
      BY <1>0, <2>2 DEF EventStep, RateLimit, Validate, LockOutput, Encode, AfterFailure, Finish,
         Goto
    <3>3. QED
      BY <2>1, <3>1, <3>2
  <2>3. CASE SelectTicker
    BY <1>0, <2>1, <2>3 DEF SelectTicker, Goto
  <2>4. CASE HelloBegin \/ HelloTicker
    BY <1>0, <2>1, <2>4 DEF HelloBegin, HelloTicker, HelloTick, Goto
  <2>5. CASE HelloEmit
    BY <1>0, <2>1, <2>5 DEF HelloEmit, Goto
  <2>6. CASE HelloTickDone \/ HelloStop
    BY <1>0, <2>1, <2>6 DEF HelloTickDone, HelloStop, HelloWait, Goto
  <2>7. CASE Interrupt \/ TimePasses
    BY <2>1, <2>7 DEF Interrupt, TimePasses
  <2>8. CASE UNCHANGED vars
    BY <2>1, <2>8 DEF vars
  <2>9. QED
    BY <1>15, <2>2, <2>3, <2>4, <2>5, <2>6, <2>7, <2>8 DEF Next, HelloStep, Exited
<1>16. QED
  BY <1>3, <1>6, <1>7, <1>8, <1>9, <1>10, <1>11, <1>12, <1>13, <1>14, <1>15
     DEF MainStep, MainGoesOn, Goal, Nearer

(* A counted agent takes no more samples than its count, a streaming one starts a tick     *)
(* only below the bound.                                                                   *)
LEMMA TicksKept == TypeOK /\ JobInv /\ TicksBounded /\ [Next]_vars => TicksBounded'
<1> SUFFICES ASSUME TypeOK, JobInv, TicksBounded, [Next]_vars PROVE TicksBounded'
  OBVIOUS
<1>1. /\ config' = config /\ config.count \in Nat /\ idx \in Nat /\ MaxTicks \in Nat
      /\ pc = [p \in Procs |-> pc[p]] /\ Procs = {"main", "hello"}
      /\ pc["main"] \in EventPath => job["main"] # None
  BY ConfigKept, AgentAssumption, Markers DEF TypeOK, AgentAssumption, Procs, JobInv
<1>2. ASSUME idx' = idx, pc'["main"] \in {"tick", "select"} => pc'["main"] = pc["main"]
      PROVE  TicksBounded'
  BY <1>1, <1>2 DEF TicksBounded
<1> USE DEF At, Goto
<1>3. ASSUME NEW p \in Procs, EventStep(p) PROVE TicksBounded'
  <2>1. idx' = idx
    BY <1>3 DEF EventStep, RateLimit, Validate, LockOutput, Encode
  <2>2. pc'["main"] \in {"tick", "select"} => pc'["main"] = pc["main"]
    BY <1>1, <1>3 DEF EventStep, RateLimit, Validate, LockOutput, Encode, AfterFailure, Finish,
       Resume
  <2>3. QED
    BY <1>2, <2>1, <2>2
<1>4. CASE StartTick
  BY <1>1, <1>4 DEF StartTick, TicksBounded, Die
<1>5. CASE NextSLO \/ Generate \/ PostAttribution
  BY <1>1, <1>2, <1>5 DEF NextSLO, Generate, PostAttribution
<1>6. CASE NextProbe
  BY <1>1, <1>2, <1>6 DEF NextProbe
<1>7. CASE GuardOverhead \/ PublishEnabled
  BY <1>1, <1>2, <1>7 DEF GuardOverhead, Evaluate, PublishEnabled
<1>8. CASE Heartbeat
  BY <1>1, <1>8 DEF Heartbeat, AfterTick, TicksBounded
<1>9. CASE SelectTicker
  BY <1>1, <1>9 DEF SelectTicker, TicksBounded
<1>10. CASE SelectDone \/ Cancel \/ Close \/ Return
  BY <1>1, <1>2, <1>10 DEF SelectDone, Cancel, Close, Return
<1>11. CASE HelloBegin \/ HelloTicker
  BY <1>1, <1>2, <1>11 DEF HelloBegin, HelloTicker, HelloTick
<1>12. CASE HelloEmit
  BY <1>1, <1>2, <1>12 DEF HelloEmit
<1>13. CASE HelloTickDone \/ HelloStop
  BY <1>1, <1>2, <1>13 DEF HelloTickDone, HelloStop, HelloWait
<1>14. CASE Interrupt \/ TimePasses
  BY <1>1, <1>2, <1>14 DEF Interrupt, TimePasses
<1>15. CASE UNCHANGED vars
  BY <1>2, <1>15 DEF vars
<1>16. QED
  BY <1>3, <1>4, <1>5, <1>6, <1>7, <1>8, <1>9, <1>10, <1>11, <1>12, <1>13, <1>14, <1>15
     DEF Next, MainStep, HelloStep, Exited, Procs

(* The safety half of TickCompletes and ShutdownCompletes.  Every step of main leads it    *)
(* nearer to the end of its tick, starts the next one or ends the process, and a step of   *)
(* the hello tracer, of a ticker, of a signal or of the clock takes nothing of that back;  *)
(* main waits for nobody but a hello goroutine that is encoding, never lacks a signal to   *)
(* go on with, and a counted agent starts no more ticks than its count.                    *)
THEOREM TicksComeNearer == Spec => [][MainGoesOn]_vars /\ [](MainMoves /\ TicksBounded)
<1>1. Init => ShedInv /\ PlaceInv /\ TicksBounded
  <2> SUFFICES ASSUME Init PROVE ShedInv /\ PlaceInv /\ TicksBounded
    OBVIOUS
  <2>1. pc["main"] = "tick" /\ writer = Free /\ idx = 0 /\ config.count \in Nat
    BY AgentAssumption DEF Init, Procs, AgentAssumption
  <2>2. ShedInv
    BY StartGoverned DEF Governed
  <2>3. PlaceInv
    BY <2>1, Ranks DEF PlaceInv, Procs, Free
  <2>4. QED
    BY <2>1, <2>2, <2>3 DEF TicksBounded
<1>2. ASSUME TypeOK, PlaceInv PROVE MainMoves
  <2> SUFFICES ASSUME Running PROVE MainMoves
    BY DEF MainMoves
  <2>1. ASSUME pc["main"] \in {"lock", "close"}
        PROVE  writer = Free \/ (writer = "hello" /\ pc["hello"] = "encode")
    BY <1>2, <2>1 DEF PlaceInv, TypeOK, Procs
  <2>2. ASSUME pending # {} PROVE \E s \in pending : FirstOf(coreSignalSet, pending, s)
    BY <1>2, <2>2, FirstExists DEF TypeOK
  <2>3. QED
    BY <2>1, <2>2 DEF MainMoves
<1>3. Governed => ShedInv
  BY DEF Governed
<1>4. TypeOK /\ TypeOK' /\ JobInv /\ ShedInv /\ PlaceInv /\ [Next]_vars => PlaceInv' /\ MainGoesOn
  BY PlacesKept, GoesOn
<1>5. QED
  BY <1>1, <1>2, <1>3, <1>4, TicksKept, StartGoverned, GovernedKept, TypeCorrect,
     EventsAccounted, PTL DEF Spec
=============================================================================
