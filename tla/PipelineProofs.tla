--------------------------- MODULE PipelineProofs ---------------------------
(***************************************************************************)
(* What the probe manager and the ring buffer consumer preserve, for every *)
(* set of probes and signals and every buffer size.                        *)
(***************************************************************************)
EXTENDS ProbePipeline, FiniteSetTheorems, TLAPS

(* Taking the oldest element of a sequence. *)
LEMMA HeadTail ==
  ASSUME NEW S, NEW q \in Seq(S), q # << >>
  PROVE  /\ 1 \in DOMAIN q /\ Head(q) = q[1] /\ Head(q) \in S /\ Tail(q) \in Seq(S)
         /\ Len(Tail(q)) = Len(q) - 1
         /\ \A i \in DOMAIN Tail(q) : i + 1 \in DOMAIN q /\ Tail(q)[i] = q[i + 1]
OBVIOUS

(* Adding an element at the end. *)
LEMMA AppendAt ==
  ASSUME NEW S, NEW q \in Seq(S), NEW x \in S
  PROVE  /\ Append(q, x) \in Seq(S) /\ Len(Append(q, x)) = Len(q) + 1
         /\ \A i \in DOMAIN Append(q, x) :
              \/ i \in DOMAIN q /\ i <= Len(q) /\ Append(q, x)[i] = q[i]
              \/ i = Len(q) + 1 /\ Append(q, x)[i] = x
OBVIOUS

(* The sizes are numbers. *)
LEMMA Sizes == RingSlots \in Nat \ {0} /\ BufSize \in Nat \ {0} /\ MaxRecords \in Nat
BY PipelineAssumption DEF PipelineAssumption

(* Every probe has a signal, and the name for no probe is no probe. *)
LEMMA SignalsOfProbes == SignalOf \in [Probe -> SignalName] /\ NoProbe \notin Probe
BY PipelineAssumption DEF PipelineAssumption

Places == {"off", "check", "read", "send", "ended"}
Event == [source : Probe, n : Nat]

(* The registered specs are specs. *)
LEMMA RegisteredProbes ==
  ASSUME TypeOK
  PROVE  Registered \in SUBSET Probe
BY DEF TypeOK, Registered

(* No step leaves the types of the variables, and the channel never holds more than its    *)
(* capacity.                                                                               *)
THEOREM TypeCorrect == Spec => []TypeOK
<1> USE Sizes, SignalsOfProbes
<1>1. Init => TypeOK
  <2> SUFFICES ASSUME Init PROVE TypeOK
    OBVIOUS
  <2>1. ring \in [Probe -> Seq(Nat)] /\ events \in Seq(Event) /\ Len(events) <= BufSize
    BY DEF Init
  <2>2. QED
    BY <2>1 DEF Init, TypeOK, Event
<1>2. TypeOK /\ [Next]_vars => TypeOK'
  <2> SUFFICES ASSUME TypeOK, [Next]_vars PROVE TypeOK'
    OBVIOUS
  <2> USE DEF TypeOK, managerVars, kernelVars, consumerVars, chanVars, loopVars, LoopGoto,
              CloseProbes
  <2>1. ASSUME NEW s \in Probe, Register(s) PROVE TypeOK'
    BY <2>1 DEF Register
  <2>2. ASSUME NEW g \in SignalName, DisableProbe(g) PROVE TypeOK'
    BY <2>2 DEF DisableProbe
  <2>3. CASE DetachAll
    BY <2>3, RegisteredProbes DEF DetachAll
  <2>4. CASE EvaluateGuard
    BY <2>4 DEF EvaluateGuard
  <2>5. CASE ShedHighestCost
    <3>1. CASE UNCHANGED <<probes, detached, again, open>>
      BY <2>5, <3>1 DEF ShedHighestCost
    <3>2. CASE \E g \in SignalName : /\ HighestCost(g)
                                     /\ CloseProbes({probes[g]})
                                     /\ probes' = [probes EXCEPT ![g] = NoProbe]
      BY <2>5, <3>2 DEF ShedHighestCost, HighestCost
    <3>3. QED
      BY <2>5, <3>1, <3>2 DEF ShedHighestCost
  <2>6. CASE RingBufReaders
    BY <2>6, RegisteredProbes DEF RingBufReaders
  <2>7. CASE Start
    BY <2>7 DEF Start
  <2>8. CASE CloseReaders \/ CloseEvents \/ CloseDone
    BY <2>8 DEF CloseReaders, CloseEvents, CloseDone
  <2>9. CASE Receive
    <3>0. events \in Seq(Event) /\ events # << >> /\ Len(events) \in Nat
      BY <2>9 DEF Receive, Event
    <3>1. /\ Head(events) \in Event /\ Tail(events) \in Seq(Event)
          /\ Len(Tail(events)) <= BufSize
      BY <3>0, HeadTail
    <3>2. Head(events).source \in Probe /\ Head(events).n \in Nat
      BY <3>1 DEF Event
    <3>3. QED
      BY <2>9, <3>1, <3>2 DEF Receive, Event
  <2>10. CASE Cancel
    BY <2>10 DEF Cancel
  <2>11. ASSUME NEW s \in Probe, Produce(s) PROVE TypeOK'
    <3>1. made[s] + 1 \in Nat /\ ring[s] \in Seq(Nat)
      OBVIOUS
    <3>2. Append(ring[s], made[s] + 1) \in Seq(Nat)
      BY <3>1
    <3>3. made' \in [Probe -> Nat]
      BY <2>11, <3>1 DEF Produce
    <3>4. ring' \in [Probe -> Seq(Nat)]
      BY <2>11, <3>2 DEF Produce
    <3>5. dropped' \in [Probe -> SUBSET Nat]
      <4>1. dropped[s] \cup {made[s] + 1} \in SUBSET Nat /\ dropped \in [Probe -> SUBSET Nat]
        BY <3>1
      <4>2. \/ dropped' = dropped
            \/ dropped' = [dropped EXCEPT ![s] = dropped[s] \cup {made[s] + 1}]
        BY <2>11 DEF Produce
      <4>3. QED
        BY <4>1, <4>2
    <3>6. QED
      BY <2>11, <3>3, <3>4, <3>5 DEF Produce
  <2>12. ASSUME NEW s \in Probe, AddReader(s) PROVE TypeOK'
    BY <2>12 DEF AddReader
  <2>13. ASSUME NEW s \in Probe, PollContext(s) \/ ReadFails(s) \/ GiveUpSend(s)
         PROVE  TypeOK'
    <3>1. loop' \in [Probe -> Places]
      <4>1. \E place \in {"ended", "read", "check"} : loop' = [loop EXCEPT ![s] = place]
        BY <2>13 DEF PollContext, ReadFails, GiveUpSend
      <4>2. QED
        BY <4>1 DEF Places
    <3>2. hand' \in [Probe -> Nat]
      <4>1. hand' = hand \/ hand' = [hand EXCEPT ![s] = 0]
        BY <2>13 DEF PollContext, ReadFails, GiveUpSend
      <4>2. hand \in [Probe -> Nat] /\ 0 \in Nat
        OBVIOUS
      <4>3. QED
        BY ONLY <4>1, <4>2
    <3>3. QED
      BY <2>13, <3>1, <3>2 DEF PollContext, ReadFails, GiveUpSend, Places
  <2>14. ASSUME NEW s \in Probe, ReadRecord(s) PROVE TypeOK'
    <3>1. Head(ring[s]) \in Nat /\ Tail(ring[s]) \in Seq(Nat)
      <4>1. ring[s] \in Seq(Nat) /\ ring[s] # << >>
        BY <2>14 DEF ReadRecord
      <4>2. QED
        BY <4>1, HeadTail
    <3>2. loop' \in [Probe -> Places]
      <4>1. \E place \in {"send", "check"} : loop' = [loop EXCEPT ![s] = place]
        BY <2>14 DEF ReadRecord
      <4>2. QED
        BY <4>1 DEF Places
    <3>3. ring' \in [Probe -> Seq(Nat)]
      BY <2>14, <3>1 DEF ReadRecord
    <3>4. hand' \in [Probe -> Nat]
      <4>1. hand' = hand \/ hand' = [hand EXCEPT ![s] = Head(ring[s])]
        BY <2>14 DEF ReadRecord
      <4>2. hand \in [Probe -> Nat]
        OBVIOUS
      <4>3. QED
        BY ONLY <3>1, <4>1, <4>2
    <3>5. dropped' \in [Probe -> SUBSET Nat]
      <4>1. dropped[s] \cup {Head(ring[s])} \in SUBSET Nat /\ dropped \in [Probe -> SUBSET Nat]
        BY <3>1
      <4>2. \/ dropped' = dropped
            \/ dropped' = [dropped EXCEPT ![s] = dropped[s] \cup {Head(ring[s])}]
        BY <2>14 DEF ReadRecord
      <4>3. QED
        BY <4>1, <4>2
    <3>6. QED
      BY <2>14, <3>2, <3>3, <3>4, <3>5 DEF ReadRecord, Places
  <2>15. ASSUME NEW s \in Probe, SendEvent(s) PROVE TypeOK'
    <3> DEFINE e == [source |-> s, n |-> hand[s]]
    <3>1. e \in Event /\ events \in Seq(Event)
      BY DEF Event
    <3>2. events' = Append(events, e) /\ Len(events) < BufSize
      BY <2>15 DEF SendEvent
    <3> HIDE DEF e
    <3>3. events' \in Seq(Event) /\ Len(events') <= BufSize
      BY <3>1, <3>2
    <3>4. QED
      BY <2>15, <3>3 DEF SendEvent, Event
  <2>16. CASE UNCHANGED vars
    BY <2>16 DEF vars
  <2>17. QED
    BY <2>1, <2>2, <2>3, <2>4, <2>5, <2>6, <2>7, <2>8, <2>9, <2>10, <2>11, <2>12, <2>13,
       <2>14, <2>15, <2>16 DEF Next, Manager, StartStep, ReadLoop, Returned
<1>3. QED
  BY <1>1, <1>2, PTL DEF Spec

---------------------------------------------------------------------------
(* Exactly the readers that Start has copied have a goroutine, and the channel is closed   *)
(* only by a Start that has seen the last of them end.                                     *)
CloseInv ==
  /\ starter = "off" => snapshot = {}
  /\ \A s \in Probe : loop[s] = "off" <=> s \notin snapshot
  /\ eventsClosed => starter \in {"closed", "returned"} /\ \A s \in snapshot : loop[s] = "ended"
  /\ starter \in {"closed", "returned"} => eventsClosed

(* No step disturbs what closing relies on. *)
LEMMA CloseHolds == Spec => []CloseInv
<1>1. Init => CloseInv
  BY DEF Init, CloseInv
<1>2. TypeOK /\ CloseInv /\ [Next]_vars => CloseInv'
  <2> SUFFICES ASSUME TypeOK, CloseInv, [Next]_vars PROVE CloseInv'
    OBVIOUS
  <2> USE DEF managerVars, kernelVars, consumerVars, chanVars, loopVars
  <2>1. ASSUME UNCHANGED <<starter, snapshot, loop, eventsClosed>> PROVE CloseInv'
    BY <2>1 DEF CloseInv
  <2>2. ASSUME NEW s \in Probe, loop[s] \in {"check", "read", "send"},
               NEW where \in Places \ {"off"}, LoopGoto(s, where),
               UNCHANGED <<starter, snapshot, eventsClosed>>
        PROVE  CloseInv'
    <3>1. s \in snapshot /\ ~eventsClosed
      BY <2>2 DEF CloseInv
    <3>2. \A t \in Probe : loop'[t] = "off" <=> t \notin snapshot
      BY <2>2, <3>1 DEF CloseInv, LoopGoto, TypeOK
    <3>3. QED
      BY <2>2, <3>1, <3>2 DEF CloseInv
  <2>3. ASSUME NEW s \in Probe, ReadLoop(s) PROVE CloseInv'
    <3>1. CASE PollContext(s)
      BY <2>2, <3>1 DEF PollContext, Places
    <3>2. CASE ReadFails(s)
      BY <2>2, <3>2 DEF ReadFails, Places
    <3>3. CASE ReadRecord(s)
      BY <2>2, <3>3 DEF ReadRecord, Places
    <3>4. CASE SendEvent(s)
      BY <2>2, <3>4 DEF SendEvent, Places
    <3>5. CASE GiveUpSend(s)
      BY <2>2, <3>5 DEF GiveUpSend, Places
    <3>6. QED
      BY <2>3, <3>1, <3>2, <3>3, <3>4, <3>5 DEF ReadLoop
  <2>4. CASE Start
    BY <2>4 DEF Start, CloseInv, TypeOK
  <2>5. CASE CloseReaders
    BY <2>5 DEF CloseReaders, CloseInv
  <2>6. CASE CloseEvents
    BY <2>6 DEF CloseEvents, CloseInv
  <2>7. CASE CloseDone
    BY <2>7 DEF CloseDone, CloseInv
  <2>8. CASE Manager
    <3>1. UNCHANGED <<starter, snapshot, loop, eventsClosed>>
      BY <2>8 DEF Manager, Register, DisableProbe, DetachAll, EvaluateGuard, ShedHighestCost,
                  RingBufReaders
    <3>2. QED
      BY <2>1, <3>1
  <2>9. ASSUME NEW s \in Probe, Produce(s) \/ AddReader(s) PROVE CloseInv'
    BY <2>1, <2>9 DEF Produce, AddReader
  <2>10. CASE Receive \/ Cancel \/ UNCHANGED vars
    BY <2>1, <2>10 DEF Receive, Cancel, vars
  <2>11. QED
    BY <2>3, <2>4, <2>5, <2>6, <2>7, <2>8, <2>9, <2>10 DEF Next, StartStep, Returned
<1>3. QED
  BY <1>1, <1>2, TypeCorrect, PTL DEF Spec

(* No goroutine is about to send, or can come to send, once the channel is closed. *)
THEOREM SendsEndBeforeClose == Spec => []NoSendAfterClose
<1>1. CloseInv => NoSendAfterClose
  BY DEF CloseInv, NoSendAfterClose
<1>2. QED
  BY <1>1, CloseHolds, PTL

---------------------------------------------------------------------------
(* A spec is registered under its own signal, and only after Register has taken it; only   *)
(* specs that were taken are ever closed, and only closed ones come again; a spec is       *)
(* forgotten only for another one of its signal.                                           *)
RegistryInv ==
  /\ RegisteredOrDetached
  /\ detached \subseteq accepted
  /\ again \subseteq detached
  /\ \A g \in SignalName : probes[g] # NoProbe =>
       probes[g] \in accepted /\ SignalOf[probes[g]] = g

(* What is forgotten after a step was forgotten before, or its signal has another spec. *)
LEMMA ForgottenStep ==
  ASSUME RegistryInv, accepted \subseteq accepted',
         \A s \in Forgotten' : \/ s \in Forgotten
                               \/ \E t \in accepted' \ {s} : SignalOf[t] = SignalOf[s]
  PROVE  \A s \in Forgotten' : \E t \in accepted' \ {s} : SignalOf[t] = SignalOf[s]
BY DEF RegistryInv, RegisteredOrDetached

(* The manager lists a closed probe only when Register was called with it after it was     *)
(* closed, and the only attached probe it can forget is one whose place Register gave to   *)
(* another probe of its signal.                                                            *)
THEOREM RegistryConsistent == Spec => []RegisteredOrDetached
<1> USE SignalsOfProbes
<1>1. Init => RegistryInv
  BY DEF Init, RegistryInv, RegisteredOrDetached, Registered, Forgotten
<1>2. TypeOK /\ RegistryInv /\ [Next]_vars => RegistryInv'
  <2> SUFFICES ASSUME TypeOK, RegistryInv, [Next]_vars PROVE RegistryInv'
    OBVIOUS
  <2> USE DEF managerVars, kernelVars, consumerVars, chanVars, loopVars
  <2>1. ASSUME NEW s \in Probe, Register(s) PROVE RegistryInv'
    <3> DEFINE g == SignalOf[s]
    <3>1. /\ g \in SignalName
          /\ probes' = [probes EXCEPT ![g] = s]
          /\ accepted' = accepted \cup {s} /\ detached' = detached
          /\ again' = again \cup ({s} \cap detached)
      BY <2>1 DEF Register
    <3>2. /\ probes'[g] = s
          /\ \A h \in SignalName \ {g} : probes'[h] = probes[h]
      BY <3>1 DEF TypeOK
    <3>3. /\ s \in Registered' /\ Registered' \subseteq Registered \cup {s}
          /\ \A t \in Registered \ Registered' : t = probes[g] /\ SignalOf[t] = g
      <4>1. s # NoProbe
        OBVIOUS
      <4>2. QED
        BY <3>2, <4>1 DEF Registered, RegistryInv
    <3>4. Registered' \cap detached' \subseteq again'
      BY <3>1, <3>3 DEF RegistryInv, RegisteredOrDetached
    <3>5. \A t \in Forgotten' : \/ t \in Forgotten
                                \/ \E u \in accepted' \ {t} : SignalOf[u] = SignalOf[t]
      <4>1. ASSUME NEW t \in Forgotten', t \notin Forgotten
            PROVE  \E u \in accepted' \ {t} : SignalOf[u] = SignalOf[t]
        <5>1. t # s /\ t \in Registered \ Registered'
          BY <3>1, <3>3, <4>1 DEF Forgotten
        <5>2. s \in accepted' \ {t} /\ SignalOf[s] = SignalOf[t]
          BY <3>1, <3>3, <5>1
        <5>3. QED
          BY <5>2
      <4>2. QED
        BY <4>1
    <3>6. RegisteredOrDetached'
      BY <3>1, <3>4, <3>5, ForgottenStep DEF RegisteredOrDetached
    <3>7. QED
      BY <3>1, <3>2, <3>6 DEF RegistryInv
  <2>2. ASSUME NEW g \in SignalName, probes[g] # NoProbe, CloseProbes({probes[g]}),
               probes' = [probes EXCEPT ![g] = NoProbe], UNCHANGED accepted
        PROVE  RegistryInv'
    <3>1. /\ probes'[g] = NoProbe
          /\ \A h \in SignalName \ {g} : probes'[h] = probes[h] /\ probes[h] # probes[g]
      BY <2>2 DEF TypeOK, RegistryInv
    <3>2. Registered' = Registered \ {probes[g]}
      BY <2>2, <3>1 DEF Registered
    <3>3. /\ detached' = detached \cup {probes[g]} /\ probes[g] \in accepted
          /\ again' = again \ {probes[g]}
      BY <2>2 DEF CloseProbes, RegistryInv
    <3>4. RegisteredOrDetached'
      <4>1. Forgotten' \subseteq Forgotten
        BY <2>2, <3>2, <3>3 DEF Forgotten
      <4>2. Registered' \cap detached' \subseteq again'
        BY <3>2, <3>3 DEF RegistryInv, RegisteredOrDetached
      <4>3. QED
        BY <2>2, <4>1, <4>2, ForgottenStep DEF RegisteredOrDetached
    <3>5. QED
      BY <2>2, <3>1, <3>3, <3>4 DEF RegistryInv
  <2>3. ASSUME UNCHANGED <<probes, accepted, detached, again>> PROVE RegistryInv'
    BY <2>3 DEF RegistryInv, RegisteredOrDetached, Registered, Forgotten
  <2>4. ASSUME NEW g \in SignalName, DisableProbe(g) PROVE RegistryInv'
    BY <2>2, <2>4 DEF DisableProbe
  <2>5. CASE ShedHighestCost
    BY <2>2, <2>3, <2>5 DEF ShedHighestCost, HighestCost
  <2>6. CASE DetachAll
    <3>1. /\ Registered' = {} /\ detached' = detached \cup Registered /\ accepted' = accepted
          /\ again' = again \ Registered
          /\ \A g \in SignalName : probes'[g] = NoProbe
      BY <2>6 DEF DetachAll, CloseProbes, Registered
    <3>2. Registered \subseteq accepted
      BY DEF RegistryInv, Registered
    <3>3. Forgotten' = Forgotten
      BY <3>1 DEF Forgotten
    <3>4. QED
      BY <3>1, <3>2, <3>3 DEF RegistryInv, RegisteredOrDetached
  <2>7. CASE EvaluateGuard \/ RingBufReaders
    BY <2>3, <2>7 DEF EvaluateGuard, RingBufReaders
  <2>8. CASE Start \/ StartStep
    BY <2>3, <2>8 DEF Start, StartStep, CloseReaders, CloseEvents, CloseDone
  <2>9. ASSUME NEW s \in Probe, ReadLoop(s) PROVE RegistryInv'
    <3>1. UNCHANGED <<probes, accepted, detached, again>>
      BY <2>9 DEF ReadLoop, PollContext, ReadFails, ReadRecord, SendEvent, GiveUpSend
    <3>2. QED
      BY <2>3, <3>1
  <2>10. ASSUME NEW s \in Probe, Produce(s) \/ AddReader(s) PROVE RegistryInv'
    BY <2>3, <2>10 DEF Produce, AddReader
  <2>11. CASE Receive \/ Cancel \/ UNCHANGED vars
    BY <2>3, <2>11 DEF Receive, Cancel, vars
  <2>12. QED
    BY <2>1, <2>4, <2>5, <2>6, <2>7, <2>8, <2>9, <2>10, <2>11 DEF Next, Manager, Returned
<1>3. RegistryInv => RegisteredOrDetached
  BY DEF RegistryInv
<1>4. QED
  BY <1>1, <1>2, <1>3, TypeCorrect, PTL DEF Spec

---------------------------------------------------------------------------
(* Records of a probe lie on their way in the order of their numbers: taken by a receiver, *)
(* in the channel, in the goroutine's hand, in the ring, not yet made.                     *)
RingOrder ==
  \A s \in Probe :
    /\ got[s] <= made[s]
    /\ \A i \in DOMAIN ring[s] :
         /\ got[s] < ring[s][i] /\ ring[s][i] <= made[s]
         /\ \A j \in DOMAIN ring[s] : i < j => ring[s][i] < ring[s][j]

HandOrder ==
  \A s \in Probe : loop[s] = "send" =>
    /\ got[s] < hand[s] /\ hand[s] <= made[s]
    /\ \A i \in DOMAIN ring[s] : hand[s] < ring[s][i]

(* What must hold of an event at place i of the channel. *)
InOrder(i, s, n) ==
  /\ got[s] < n /\ n <= made[s]
  /\ \A j \in DOMAIN events : i < j /\ events[j].source = s => n < events[j].n
  /\ loop[s] = "send" => n < hand[s]
  /\ \A j \in DOMAIN ring[s] : n < ring[s][j]

ChannelOrder == \A i \in DOMAIN events : InOrder(i, events[i].source, events[i].n)

OrderInv == RingOrder /\ HandOrder /\ ChannelOrder

(* The values that are compared are numbers. *)
LEMMA Numbers ==
  ASSUME TypeOK
  PROVE  /\ \A s \in Probe : /\ got[s] \in Nat /\ made[s] \in Nat /\ hand[s] \in Nat
                             /\ ring[s] \in Seq(Nat) /\ Len(ring[s]) \in Nat
                             /\ \A i \in DOMAIN ring[s] : i \in Nat /\ ring[s][i] \in Nat
         /\ events \in Seq(Event) /\ Len(events) \in Nat
         /\ \A i \in DOMAIN events :
              i \in Nat /\ events[i] \in Event /\ events[i].source \in Probe /\ events[i].n \in Nat
<1>1. \A s \in Probe : /\ got[s] \in Nat /\ made[s] \in Nat /\ hand[s] \in Nat
                       /\ ring[s] \in Seq(Nat)
  BY DEF TypeOK
<1>2. \A s \in Probe : /\ Len(ring[s]) \in Nat
                       /\ \A i \in DOMAIN ring[s] : i \in Nat /\ ring[s][i] \in Nat
  BY <1>1
<1>3. events \in Seq(Event)
  BY DEF TypeOK, Event
<1>4. Len(events) \in Nat /\ \A i \in DOMAIN events : i \in Nat /\ events[i] \in Event
  BY <1>3
<1>5. \A e \in Event : e.source \in Probe /\ e.n \in Nat
  BY DEF Event
<1>6. QED
  BY <1>1, <1>2, <1>3, <1>4, <1>5

(* A step of the kernel adds a number beyond all others. *)
LEMMA ProduceKeepsOrder ==
  ASSUME TypeOK, OrderInv, NEW s \in Probe, Produce(s)
  PROVE  OrderInv'
<1>1. /\ made' = [made EXCEPT ![s] = made[s] + 1]
      /\ UNCHANGED <<got, loop, hand, events>>
  BY DEF Produce, loopVars, chanVars
<1>2. made'[s] = made[s] + 1 /\ \A t \in Probe \ {s} : made'[t] = made[t]
  BY <1>1 DEF TypeOK
<1>3. /\ \A t \in Probe \ {s} : ring'[t] = ring[t]
      /\ ring'[s] = ring[s] \/ ring'[s] = Append(ring[s], made[s] + 1)
  BY DEF Produce, TypeOK
<1>4. \A i \in DOMAIN ring'[s] :
        \/ i \in DOMAIN ring[s] /\ i <= Len(ring[s]) /\ ring'[s][i] = ring[s][i]
        \/ i = Len(ring[s]) + 1 /\ ring'[s][i] = made[s] + 1
  <2>1. ring[s] \in Seq(Nat) /\ made[s] + 1 \in Nat
    BY Numbers
  <2>2. CASE ring'[s] = ring[s]
    BY <2>1, <2>2
  <2>3. CASE ring'[s] = Append(ring[s], made[s] + 1)
    BY <2>1, <2>3, AppendAt
  <2>4. QED
    BY <1>3, <2>2, <2>3
<1>5. RingOrder'
  <2>1. ASSUME NEW t \in Probe \ {s}
        PROVE  /\ got'[t] <= made'[t]
               /\ \A i \in DOMAIN ring'[t] :
                    /\ got'[t] < ring'[t][i] /\ ring'[t][i] <= made'[t]
                    /\ \A j \in DOMAIN ring'[t] : i < j => ring'[t][i] < ring'[t][j]
    BY <1>1, <1>2, <1>3 DEF OrderInv, RingOrder
  <2>2. /\ got[s] <= made[s] /\ got[s] \in Nat /\ made[s] \in Nat /\ Len(ring[s]) \in Nat
        /\ \A i \in DOMAIN ring[s] :
             /\ i \in Nat /\ ring[s][i] \in Nat
             /\ got[s] < ring[s][i] /\ ring[s][i] <= made[s]
             /\ \A j \in DOMAIN ring[s] : i < j => ring[s][i] < ring[s][j]
    BY Numbers DEF OrderInv, RingOrder
  <2>3. /\ got'[s] <= made'[s]
        /\ \A i \in DOMAIN ring'[s] :
             /\ got'[s] < ring'[s][i] /\ ring'[s][i] <= made'[s]
             /\ \A j \in DOMAIN ring'[s] : i < j => ring'[s][i] < ring'[s][j]
    BY <1>1, <1>2, <1>4, <2>2
  <2>4. QED
    BY <2>1, <2>3 DEF RingOrder
<1>6. HandOrder'
  <2>1. ASSUME NEW t \in Probe, loop[t] = "send"
        PROVE  /\ got[t] < hand[t] /\ hand[t] <= made'[t]
               /\ \A i \in DOMAIN ring'[t] : hand[t] < ring'[t][i]
    <3>1. /\ got[t] < hand[t] /\ hand[t] <= made[t] /\ hand[t] \in Nat /\ made[t] \in Nat
          /\ \A i \in DOMAIN ring[t] : hand[t] < ring[t][i]
      BY <2>1, Numbers DEF OrderInv, HandOrder
    <3>2. QED
      BY <1>2, <1>3, <1>4, <3>1
  <2>2. QED
    BY <1>1, <2>1 DEF HandOrder
<1>7. ChannelOrder'
  <2>1. ASSUME NEW i \in DOMAIN events PROVE InOrder(i, events[i].source, events[i].n)'
    <3> DEFINE t == events[i].source
    <3> DEFINE n == events[i].n
    <3>1. InOrder(i, t, n)
      BY DEF OrderInv, ChannelOrder
    <3>2. t \in Probe /\ n \in Nat /\ made[t] \in Nat
      BY Numbers
    <3> HIDE DEF t, n
    <3>3. n <= made'[t]
      BY <1>2, <3>1, <3>2 DEF InOrder
    <3>4. \A j \in DOMAIN ring'[t] : n < ring'[t][j]
      BY <1>2, <1>3, <1>4, <3>1, <3>2 DEF InOrder
    <3>5. /\ got'[t] < n
          /\ \A j \in DOMAIN events' : i < j /\ events'[j].source = t => n < events'[j].n
          /\ loop'[t] = "send" => n < hand'[t]
      BY <1>1, <3>1 DEF InOrder
    <3>6. events'[i].source = t /\ events'[i].n = n
      BY <1>1 DEF t, n
    <3>7. QED
      BY <3>3, <3>4, <3>5, <3>6 DEF InOrder
  <2>2. QED
    BY <1>1, <2>1 DEF ChannelOrder
<1>8. QED
  BY <1>5, <1>6, <1>7 DEF OrderInv

(* A goroutine takes the oldest record of its ring, or loses it to the decoder. *)
LEMMA ReadKeepsOrder ==
  ASSUME TypeOK, OrderInv, NEW s \in Probe, ReadRecord(s)
  PROVE  OrderInv'
<1>1. /\ loop[s] = "read" /\ UNCHANGED <<got, made, events>>
      /\ \/ loop'[s] = "send" /\ hand'[s] = Head(ring[s])
         \/ loop'[s] = "check"
      /\ \A t \in Probe \ {s} : loop'[t] = loop[t] /\ hand'[t] = hand[t] /\ ring'[t] = ring[t]
  BY DEF ReadRecord, LoopGoto, TypeOK, chanVars
<1>2. ring'[s] = Tail(ring[s]) /\ ring[s] \in Seq(Nat) /\ ring[s] # << >>
  BY DEF ReadRecord, TypeOK
<1>3. /\ 1 \in DOMAIN ring[s] /\ Head(ring[s]) = ring[s][1]
      /\ \A i \in DOMAIN ring'[s] : i + 1 \in DOMAIN ring[s] /\ ring'[s][i] = ring[s][i + 1]
      /\ \A i \in DOMAIN ring'[s] : i \in Nat /\ i >= 1
  BY <1>2, HeadTail
<1>4. RingOrder'
  <2>1. \A i, j \in DOMAIN ring'[s] : i < j => i + 1 < j + 1
    BY <1>3
  <2>2. QED
    BY <1>1, <1>3, <2>1 DEF OrderInv, RingOrder
<1>5. HandOrder'
  <2>1. ASSUME loop'[s] = "send"
        PROVE  /\ got[s] < hand'[s] /\ hand'[s] <= made[s]
               /\ \A i \in DOMAIN ring'[s] : hand'[s] < ring'[s][i]
    <3>1. hand'[s] = ring[s][1]
      BY <1>1, <1>3, <2>1
    <3>2. \A i \in DOMAIN ring'[s] : 1 < i + 1
      BY <1>3
    <3>3. QED
      BY <1>3, <3>1, <3>2 DEF OrderInv, RingOrder
  <2>2. QED
    BY <1>1, <2>1 DEF OrderInv, HandOrder
<1>6. ChannelOrder'
  <2>1. ASSUME NEW i \in DOMAIN events PROVE InOrder(i, events[i].source, events[i].n)'
    <3> DEFINE t == events[i].source
    <3> DEFINE n == events[i].n
    <3>1. InOrder(i, t, n) /\ t \in Probe
      BY Numbers DEF OrderInv, ChannelOrder
    <3>2. events'[i].source = t /\ events'[i].n = n
      BY <1>1 DEF t, n
    <3> HIDE DEF t, n
    <3>3. \A j \in DOMAIN ring'[t] : n < ring'[t][j]
      BY <1>1, <1>3, <3>1 DEF InOrder
    <3>4. loop'[t] = "send" => n < hand'[t]
      BY <1>1, <1>3, <3>1 DEF InOrder
    <3>5. /\ got'[t] < n /\ n <= made'[t]
          /\ \A j \in DOMAIN events' : i < j /\ events'[j].source = t => n < events'[j].n
      BY <1>1, <3>1 DEF InOrder
    <3>6. QED
      BY <3>2, <3>3, <3>4, <3>5 DEF InOrder
  <2>2. QED
    BY <1>1, <2>1 DEF ChannelOrder
<1>7. QED
  BY <1>4, <1>5, <1>6 DEF OrderInv

(* The goroutine puts the record in its hand behind all the others of its probe. *)
LEMMA SendKeepsOrder ==
  ASSUME TypeOK, OrderInv, NEW s \in Probe, SendEvent(s)
  PROVE  OrderInv'
<1> DEFINE e == [source |-> s, n |-> hand[s]]
<1>1. /\ loop[s] = "send" /\ loop'[s] = "check" /\ UNCHANGED <<got, made, ring>>
      /\ \A t \in Probe \ {s} : loop'[t] = loop[t] /\ hand'[t] = hand[t]
  BY DEF SendEvent, LoopGoto, TypeOK, kernelVars
<1>2. events' = Append(events, e) /\ e.source = s /\ e.n = hand[s] /\ e \in Event
  BY Numbers DEF SendEvent, Event
<1>3. events \in Seq(Event) /\ Len(events) \in Nat
  BY Numbers
<1> HIDE DEF e
<1>4. \A i \in DOMAIN events' : \/ i \in DOMAIN events /\ i <= Len(events) /\ events'[i] = events[i]
                                \/ i = Len(events) + 1 /\ events'[i] = e
  BY <1>2, <1>3, AppendAt
<1>5. RingOrder' /\ HandOrder'
  BY <1>1 DEF OrderInv, RingOrder, HandOrder
<1>6. ChannelOrder'
  <2>1. ASSUME NEW i \in DOMAIN events', i \in DOMAIN events, events'[i] = events[i]
        PROVE  InOrder(i, events[i].source, events[i].n)'
    <3> DEFINE t == events[i].source
    <3> DEFINE n == events[i].n
    <3>1. InOrder(i, t, n) /\ t \in Probe
      BY <2>1, Numbers DEF OrderInv, ChannelOrder
    <3>2. events'[i].source = t /\ events'[i].n = n
      BY <2>1 DEF t, n
    <3> HIDE DEF t, n
    <3>3. /\ got'[t] < n /\ n <= made'[t]
          /\ loop'[t] = "send" => n < hand'[t]
          /\ \A j \in DOMAIN ring'[t] : n < ring'[t][j]
      BY <1>1, <3>1 DEF InOrder
    <3>4. \A j \in DOMAIN events' : i < j /\ events'[j].source = t => n < events'[j].n
      BY <1>1, <1>2, <1>4, <3>1 DEF InOrder
    <3>5. QED
      BY <3>2, <3>3, <3>4 DEF InOrder
  <2>2. ASSUME NEW i \in DOMAIN events', i = Len(events) + 1, events'[i] = e
        PROVE  InOrder(i, events[i].source, events[i].n)'
    <3>1. /\ got[s] < hand[s] /\ hand[s] <= made[s]
          /\ \A j \in DOMAIN ring[s] : hand[s] < ring[s][j]
      BY <1>1 DEF OrderInv, HandOrder
    <3>2. \A j \in DOMAIN events' : ~(i < j)
      BY <1>3, <1>4, <2>2, Numbers
    <3>4. events'[i].source = s /\ events'[i].n = hand[s]
      BY <1>2, <2>2
    <3>5. /\ got'[s] < hand[s] /\ hand[s] <= made'[s]
          /\ \A j \in DOMAIN ring'[s] : hand[s] < ring'[s][j]
      BY <1>1, <3>1
    <3>6. QED
      BY <1>1, <3>2, <3>4, <3>5 DEF InOrder
  <2>3. QED
    BY <1>4, <2>1, <2>2 DEF ChannelOrder
<1>7. QED
  BY <1>5, <1>6 DEF OrderInv

(* The receiver takes the oldest event, which comes before all others of its probe. *)
LEMMA ReceiveKeepsOrder ==
  ASSUME TypeOK, OrderInv, Receive
  PROVE  OrderInv'
<1> DEFINE s == events[1].source
<1> DEFINE n == events[1].n
<1>1. events \in Seq(Event) /\ events # << >> /\ events' = Tail(events)
  BY Numbers DEF Receive
<1>2. /\ 1 \in DOMAIN events /\ Head(events) = events[1]
      /\ \A i \in DOMAIN events' : i + 1 \in DOMAIN events /\ events'[i] = events[i + 1]
      /\ \A i \in DOMAIN events' : i \in Nat /\ i >= 1
  BY <1>1, HeadTail
<1>3. s \in Probe /\ n \in Nat /\ InOrder(1, s, n)
  BY <1>2, Numbers DEF OrderInv, ChannelOrder
<1>4. got' = [got EXCEPT ![s] = n] /\ UNCHANGED <<made, ring, loop, hand>>
  BY <1>2 DEF Receive, kernelVars, loopVars
<1> HIDE DEF s, n
<1>5. got'[s] = n /\ \A t \in Probe \ {s} : got'[t] = got[t]
  BY <1>3, <1>4 DEF TypeOK
<1>6. RingOrder'
  BY <1>3, <1>4, <1>5 DEF OrderInv, RingOrder, InOrder
<1>7. HandOrder'
  BY <1>3, <1>4, <1>5 DEF OrderInv, HandOrder, InOrder
<1>8. ChannelOrder'
  <2>1. ASSUME NEW i \in DOMAIN events' PROVE InOrder(i, events[i].source, events[i].n)'
    <3> DEFINE t == events[i + 1].source
    <3> DEFINE m == events[i + 1].n
    <3>1. InOrder(i + 1, t, m) /\ t \in Probe /\ i + 1 \in DOMAIN events /\ i \in Nat /\ i >= 1
      BY <1>2, Numbers DEF OrderInv, ChannelOrder
    <3>2. events'[i].source = t /\ events'[i].n = m
      BY <1>2 DEF t, m
    <3>3. t = s => n < m
      BY <1>3, <3>1 DEF InOrder
    <3> HIDE DEF t, m
    <3>4. got'[t] < m
      BY <1>5, <3>1, <3>3 DEF InOrder
    <3>5. \A j \in DOMAIN events' : i < j /\ events'[j].source = t => m < events'[j].n
      <4>1. \A j \in DOMAIN events' : i < j => i + 1 < j + 1
        BY <1>2
      <4>2. QED
        BY <1>2, <3>1, <4>1 DEF InOrder
    <3>6. /\ m <= made'[t]
          /\ loop'[t] = "send" => m < hand'[t]
          /\ \A j \in DOMAIN ring'[t] : m < ring'[t][j]
      BY <1>4, <3>1 DEF InOrder
    <3>7. QED
      BY <3>2, <3>4, <3>5, <3>6 DEF InOrder
  <2>2. QED
    BY <2>1 DEF ChannelOrder
<1>9. QED
  BY <1>6, <1>7, <1>8 DEF OrderInv

(* Steps that move no record leave the order alone. *)
LEMMA OtherStepsKeepOrder ==
  ASSUME TypeOK, OrderInv, UNCHANGED <<got, made, ring, events>>,
         \A s \in Probe : loop'[s] = "send" => loop[s] = "send" /\ hand'[s] = hand[s]
  PROVE  OrderInv'
<1>1. RingOrder' /\ HandOrder'
  BY DEF OrderInv, RingOrder, HandOrder
<1>2. ChannelOrder'
  <2>1. ASSUME NEW i \in DOMAIN events PROVE InOrder(i, events[i].source, events[i].n)'
    <3>1. InOrder(i, events[i].source, events[i].n) /\ events[i].source \in Probe
      BY Numbers DEF OrderInv, ChannelOrder
    <3>2. QED
      BY <3>1 DEF InOrder
  <2>2. QED
    BY <2>1 DEF ChannelOrder
<1>3. QED
  BY <1>1, <1>2 DEF OrderInv

(* One step, for the invariant and for the refinement at once.                             *)
LEMMA OrderStep ==
  TypeOK /\ OrderInv /\ [Next]_vars => OrderInv' /\ [Feed!Next]_<<made, got>>
<1> SUFFICES ASSUME TypeOK, OrderInv, [Next]_vars
             PROVE  OrderInv' /\ (Feed!Next \/ UNCHANGED <<made, got>>)
  OBVIOUS
<1> USE DEF managerVars, kernelVars, consumerVars, chanVars, loopVars
<1> DEFINE Idle == /\ UNCHANGED <<got, made, ring, events>>
                   /\ \A s \in Probe : loop'[s] = "send" => loop[s] = "send" /\ hand'[s] = hand[s]
<1>1. ASSUME NEW s \in Probe, Produce(s) PROVE OrderInv' /\ Feed!Next
  <2>1. Feed!Make(s)
    BY <1>1 DEF Produce, Feed!Make
  <2>2. QED
    BY <1>1, <2>1, ProduceKeepsOrder DEF Feed!Next
<1>2. CASE Receive
  <2>1. 1 \in DOMAIN events /\ Head(events) = events[1]
    BY <1>2, Numbers, HeadTail DEF Receive
  <2>2. InOrder(1, events[1].source, events[1].n)
    BY <2>1 DEF OrderInv, ChannelOrder
  <2>3. /\ events[1].source \in Probe /\ events[1].n \in Nat
        /\ got[events[1].source] \in Nat /\ made[events[1].source] \in Nat
    BY <2>1, Numbers
  <2>4. events[1].n \in (got[events[1].source] + 1)..made[events[1].source]
    BY <2>2, <2>3 DEF InOrder
  <2>5. Feed!Get(events[1].source)
    BY <1>2, <2>1, <2>4 DEF Receive, Feed!Get
  <2>6. QED
    BY <1>2, <2>3, <2>5, ReceiveKeepsOrder DEF Feed!Next
<1>3. ASSUME NEW s \in Probe, ReadRecord(s) PROVE OrderInv' /\ UNCHANGED <<made, got>>
  BY <1>3, ReadKeepsOrder DEF ReadRecord
<1>4. ASSUME NEW s \in Probe, SendEvent(s) PROVE OrderInv' /\ UNCHANGED <<made, got>>
  BY <1>4, SendKeepsOrder DEF SendEvent
<1>5. ASSUME NEW s \in Probe, PollContext(s) \/ ReadFails(s) \/ GiveUpSend(s) PROVE Idle
  BY <1>5 DEF PollContext, ReadFails, GiveUpSend, LoopGoto, TypeOK
<1>6. ASSUME Start PROVE Idle
  BY <1>6 DEF Start, TypeOK
<1>7. ASSUME CloseReaders \/ CloseEvents \/ CloseDone PROVE Idle
  BY <1>7 DEF CloseReaders, CloseEvents, CloseDone
<1>8. ASSUME Manager PROVE Idle
  <2>1. UNCHANGED <<got, made, ring, events, loop, hand>>
    BY <1>8 DEF Manager, Register, DisableProbe, DetachAll, EvaluateGuard, ShedHighestCost,
                RingBufReaders
  <2>2. QED
    BY <2>1
<1>9. ASSUME NEW s \in Probe, AddReader(s) PROVE Idle
  BY <1>9 DEF AddReader
<1>10. ASSUME Cancel \/ UNCHANGED vars PROVE Idle
  BY <1>10 DEF Cancel, vars
<1>11. Idle => OrderInv' /\ UNCHANGED <<made, got>>
  BY OtherStepsKeepOrder
<1>12. QED
  BY <1>1, <1>2, <1>3, <1>4, <1>5, <1>6, <1>7, <1>8, <1>9, <1>10, <1>11
     DEF Next, StartStep, ReadLoop, Returned

(* The pipeline implements the lossy feed: each probe's records reach the receiver in the  *)
(* order in which they were made, none twice and none invented.                            *)
THEOREM ImplementsLossyFeed == Spec => KeepsFeedOrder
<1>1. Init => OrderInv /\ Feed!Init
  BY DEF Init, OrderInv, RingOrder, HandOrder, ChannelOrder, InOrder, Feed!Init
<1>2. TypeOK /\ OrderInv /\ [Next]_vars => OrderInv' /\ [Feed!Next]_<<made, got>>
  BY OrderStep
<1>3. QED
  BY <1>1, <1>2, TypeCorrect, PTL DEF Spec, KeepsFeedOrder, Feed!Spec

---------------------------------------------------------------------------
(* Where the records are.                                                  *)

Accounted(s) == dropped[s] \cup InRing(s) \cup InChannel(s) \cup {hand[s]}

(* A goroutine that has not ended has lost no record; one that has may have lost the one   *)
(* it held, and it ends only after the context.                                            *)
LossInv ==
  \A s \in Probe :
    /\ starter = "off" => loop[s] = "off"
    /\ loop[s] # "send" => hand[s] = 0
    /\ loop[s] # "ended" => Unaccounted(s) = {}
    /\ loop[s] = "ended" => ctxDone
    /\ \E n \in Nat : Unaccounted(s) \subseteq {n}

(* A step that loses no record of a probe. *)
LosesNone(s) ==
  /\ Unaccounted(s)' \subseteq Unaccounted(s)
  /\ loop[s] = "ended" => loop'[s] = "ended"
  /\ loop'[s] = "ended" => loop[s] = "ended" \/ ctxDone
  /\ loop'[s] # "send" => hand'[s] = 0
  /\ starter' = "off" => starter = "off" /\ loop'[s] = loop[s]

(* Steps that lose nothing keep the invariant. *)
LEMMA NothingLost ==
  ASSUME LossInv, ctxDone => ctxDone', \A s \in Probe : LosesNone(s)
  PROVE  LossInv'
<1> SUFFICES ASSUME NEW s \in Probe
             PROVE  /\ starter' = "off" => loop'[s] = "off"
                    /\ loop'[s] # "send" => hand'[s] = 0
                    /\ loop'[s] # "ended" => Unaccounted(s)' = {}
                    /\ loop'[s] = "ended" => ctxDone'
                    /\ \E n \in Nat : Unaccounted(s)' \subseteq {n}
  BY DEF LossInv
<1>1. /\ LosesNone(s)
      /\ starter = "off" => loop[s] = "off"
      /\ loop[s] # "ended" => Unaccounted(s) = {}
      /\ loop[s] = "ended" => ctxDone
      /\ \E n \in Nat : Unaccounted(s) \subseteq {n}
  BY DEF LossInv
<1>2. QED
  BY <1>1 DEF LosesNone

(* A probe's records are the ones not received yet; what is accounted for decides. *)
LEMMA NewLoss ==
  ASSUME NEW s \in Probe,
         \A n \in (got'[s] + 1)..made'[s] :
           n \in Accounted(s)' \/ (n \in (got[s] + 1)..made[s] /\ n \notin Accounted(s))
  PROVE  Unaccounted(s)' \subseteq Unaccounted(s)
BY DEF Unaccounted, Accounted

(* A step that does not touch the probe's records. *)
LEMMA SamePlaces ==
  ASSUME NEW s \in Probe, dropped'[s] = dropped[s], ring'[s] = ring[s], events' = events,
         hand'[s] = hand[s], made'[s] = made[s], got'[s] = got[s]
  PROVE  Unaccounted(s)' = Unaccounted(s)
BY DEF Unaccounted, InRing, InChannel

(* The elements of a longer sequence, and of a shorter one. *)
LEMMA RingAppend ==
  ASSUME NEW q \in Seq(Nat), NEW x \in Nat
  PROVE  { Append(q, x)[i] : i \in DOMAIN Append(q, x) } = { q[i] : i \in DOMAIN q } \cup {x}
<1> DEFINE r == Append(q, x)
<1>1. Len(q) \in Nat /\ DOMAIN q = 1..Len(q) /\ DOMAIN r = 1..(Len(q) + 1)
      /\ \A i \in DOMAIN q : r[i] = q[i]
  OBVIOUS
<1>2. r[Len(q) + 1] = x
  OBVIOUS
<1> HIDE DEF r
<1>3. QED
  BY <1>1, <1>2 DEF r

(* The numbers in a ring are those of its tail and its first one. *)
LEMMA RingTail ==
  ASSUME NEW q \in Seq(Nat), q # << >>
  PROVE  { q[i] : i \in DOMAIN q } = { Tail(q)[i] : i \in DOMAIN Tail(q) } \cup {Head(q)}
<1> DEFINE r == Tail(q)
<1>1. Len(q) \in Nat /\ DOMAIN q = 1..Len(q) /\ DOMAIN r = 1..(Len(q) - 1) /\ Len(q) >= 1
      /\ Head(q) = q[1] /\ \A i \in DOMAIN r : r[i] = q[i + 1]
  OBVIOUS
<1> HIDE DEF r
<1>2. \A i \in DOMAIN q : i = 1 \/ (i - 1 \in DOMAIN r /\ r[i - 1] = q[i])
  BY <1>1
<1>3. \A i \in DOMAIN r : i + 1 \in DOMAIN q
  BY <1>1
<1>4. 1 \in DOMAIN q
  BY <1>1
<1>5. { q[i] : i \in DOMAIN q } \subseteq { r[i] : i \in DOMAIN r } \cup {Head(q)}
  BY <1>1, <1>2
<1>6. { r[i] : i \in DOMAIN r } \subseteq { q[i] : i \in DOMAIN q }
  BY <1>1, <1>3
<1>7. Head(q) \in { q[i] : i \in DOMAIN q }
  BY <1>1, <1>4
<1>8. { q[i] : i \in DOMAIN q } = { r[i] : i \in DOMAIN r } \cup {Head(q)}
  BY <1>5, <1>6, <1>7
<1>9. QED
  BY <1>8 DEF r

(* The events of a probe in the channel. *)
LEMMA ChannelHas ==
  ASSUME NEW s, NEW n
  PROVE  /\ n \in InChannel(s) <=> \E i \in DOMAIN events : events[i].source = s /\ events[i].n = n
         /\ n \in InChannel(s)' <=>
              \E i \in DOMAIN events' : events'[i].source = s /\ events'[i].n = n
BY DEF InChannel

(* A new record is in the ring, or the kernel drops it. *)
LEMMA ProduceLosesNone ==
  ASSUME TypeOK, LossInv, NEW s \in Probe, Produce(s)
  PROVE  LossInv'
<1> USE DEF managerVars, consumerVars, chanVars, loopVars
<1>1. /\ made' = [made EXCEPT ![s] = @ + 1] /\ UNCHANGED <<got, loop, hand, events, starter, ctxDone>>
      /\ \/ ring' = [ring EXCEPT ![s] = Append(@, made[s] + 1)] /\ dropped' = dropped
         \/ dropped' = [dropped EXCEPT ![s] = @ \cup {made[s] + 1}] /\ ring' = ring
  BY DEF Produce
<1>2. /\ made[s] \in Nat /\ made[s] + 1 \in Nat /\ ring[s] \in Seq(Nat) /\ got[s] \in Nat
      /\ made \in [Probe -> Nat] /\ ring \in [Probe -> Seq(Nat)]
      /\ dropped \in [Probe -> SUBSET Nat]
  BY Numbers DEF TypeOK
<1>3. ASSUME NEW t \in Probe, t # s PROVE Unaccounted(t)' \subseteq Unaccounted(t)
  <2>1. dropped'[t] = dropped[t] /\ ring'[t] = ring[t] /\ made'[t] = made[t]
    BY <1>1, <1>2, <1>3
  <2>2. QED
    BY <1>1, <2>1, SamePlaces
<1>4. Accounted(s) \cup {made[s] + 1} \subseteq Accounted(s)'
  <2>1. CASE ring' = [ring EXCEPT ![s] = Append(@, made[s] + 1)] /\ dropped' = dropped
    <3>1. ring'[s] = Append(ring[s], made[s] + 1)
      BY <1>2, <2>1
    <3>2. InRing(s)' = InRing(s) \cup {made[s] + 1}
      <4> DEFINE q == ring[s]
                 r == Append(q, made[s] + 1)
      <4>1. { r[i] : i \in DOMAIN r } = { q[i] : i \in DOMAIN q } \cup {made[s] + 1}
        BY <1>2, RingAppend
      <4>2. InRing(s)' = { r[i] : i \in DOMAIN r } /\ InRing(s) = { q[i] : i \in DOMAIN q }
        <5>1. InRing(s)' = { ring'[s][i] : i \in DOMAIN ring'[s] }
          BY DEF InRing
        <5>2. QED
          BY <3>1, <5>1 DEF InRing
      <4>3. QED
        BY <4>1, <4>2
    <3>3. InChannel(s)' = InChannel(s)
      BY <1>1 DEF InChannel
    <3>4. QED
      BY <1>1, <2>1, <3>2, <3>3 DEF Accounted
  <2>2. CASE dropped' = [dropped EXCEPT ![s] = @ \cup {made[s] + 1}] /\ ring' = ring
    <3>1. dropped'[s] = dropped[s] \cup {made[s] + 1}
      BY <1>2, <2>2
    <3>2. InChannel(s)' = InChannel(s) /\ InRing(s)' = InRing(s)
      BY <1>1, <2>2 DEF InChannel, InRing
    <3>3. QED
      BY <1>1, <3>1, <3>2 DEF Accounted
  <2>3. QED
    BY <1>1, <2>1, <2>2
<1>5. Unaccounted(s)' \subseteq Unaccounted(s)
  <2>1. made'[s] = made[s] + 1 /\ got'[s] = got[s]
    BY <1>1, <1>2
  <2>2. \A n \in (got[s] + 1)..(made[s] + 1) : n = made[s] + 1 \/ n \in (got[s] + 1)..made[s]
    BY <1>2
  <2>3. \A n \in (got'[s] + 1)..made'[s] :
           n \in Accounted(s)' \/ (n \in (got[s] + 1)..made[s] /\ n \notin Accounted(s))
    BY <1>4, <2>1, <2>2
  <2>4. QED
    BY <2>3, NewLoss
<1>6. \A t \in Probe : LosesNone(t)
  BY <1>1, <1>3, <1>5 DEF LosesNone, LossInv
<1>7. QED
  BY <1>1, <1>6, NothingLost

(* A record that leaves the ring is in the hand, or was not decoded. *)
LEMMA ReadLosesNone ==
  ASSUME TypeOK, LossInv, NEW s \in Probe, ReadRecord(s)
  PROVE  LossInv'
<1> USE DEF managerVars, consumerVars, chanVars, loopVars
<1>1. /\ loop[s] = "read" /\ ring[s] # << >> /\ ring' = [ring EXCEPT ![s] = Tail(@)]
      /\ UNCHANGED <<got, made, events, starter, ctxDone>>
      /\ \/ hand' = [hand EXCEPT ![s] = Head(ring[s])] /\ LoopGoto(s, "send") /\ dropped' = dropped
         \/ /\ dropped' = [dropped EXCEPT ![s] = @ \cup {Head(ring[s])}] /\ LoopGoto(s, "check")
            /\ hand' = hand
  BY DEF ReadRecord
<1>2. /\ ring[s] \in Seq(Nat) /\ got[s] \in Nat /\ made[s] \in Nat
      /\ ring \in [Probe -> Seq(Nat)] /\ hand \in [Probe -> Nat]
      /\ dropped \in [Probe -> SUBSET Nat] /\ loop \in [Probe -> Places]
  BY Numbers DEF TypeOK, Places
<1>3. hand[s] = 0 /\ starter # "off"
  BY <1>1 DEF LossInv
<1>4. ASSUME NEW t \in Probe, t # s PROVE LosesNone(t)
  <2>1. /\ dropped'[t] = dropped[t] /\ ring'[t] = ring[t] /\ hand'[t] = hand[t]
        /\ loop'[t] = loop[t]
    BY <1>1, <1>2, <1>4 DEF LoopGoto
  <2>2. Unaccounted(t)' = Unaccounted(t)
    BY <1>1, <2>1, SamePlaces
  <2>3. QED
    BY <1>1, <2>1, <2>2 DEF LosesNone, LossInv
<1>5. InRing(s) = InRing(s)' \cup {Head(ring[s])}
  <2>1. ring'[s] = Tail(ring[s])
    BY <1>1, <1>2
  <2>2. { ring[s][i] : i \in DOMAIN ring[s] }
           = { Tail(ring[s])[i] : i \in DOMAIN Tail(ring[s]) } \cup {Head(ring[s])}
    BY <1>1, <1>2, RingTail
  <2>3. QED
    BY <2>1, <2>2 DEF InRing
<1>6. InChannel(s)' = InChannel(s)
  BY <1>1 DEF InChannel
<1>7. \/ hand'[s] = Head(ring[s]) /\ loop'[s] = "send" /\ dropped'[s] = dropped[s]
      \/ /\ dropped'[s] = dropped[s] \cup {Head(ring[s])} /\ loop'[s] = "check"
         /\ hand'[s] = hand[s]
  BY <1>1, <1>2 DEF LoopGoto
<1>8. Accounted(s) \subseteq Accounted(s)' \cup {0}
  BY <1>3, <1>5, <1>6, <1>7 DEF Accounted
<1>9. Unaccounted(s)' \subseteq Unaccounted(s)
  <2>1. got'[s] = got[s] /\ made'[s] = made[s] /\ 0 \notin (got[s] + 1)..made[s]
    BY <1>1, <1>2
  <2>2. \A n \in (got'[s] + 1)..made'[s] :
           n \in Accounted(s)' \/ (n \in (got[s] + 1)..made[s] /\ n \notin Accounted(s))
    BY <1>8, <2>1
  <2>3. QED
    BY <2>2, NewLoss
<1>10. LosesNone(s)
  BY <1>1, <1>3, <1>7, <1>9 DEF LosesNone
<1>11. QED
  BY <1>1, <1>4, <1>10, NothingLost

(* A record that leaves the hand is in the channel. *)
LEMMA SendLosesNone ==
  ASSUME TypeOK, LossInv, NEW s \in Probe, SendEvent(s)
  PROVE  LossInv'
<1> USE DEF managerVars, consumerVars, kernelVars
<1> DEFINE e == [source |-> s, n |-> hand[s]]
<1>1. /\ loop[s] = "send" /\ events' = Append(events, e) /\ LoopGoto(s, "check")
      /\ hand' = [hand EXCEPT ![s] = 0] /\ UNCHANGED <<got, made, ring, dropped, starter, ctxDone>>
  BY DEF SendEvent
<1>2. /\ got[s] \in Nat /\ made[s] \in Nat /\ hand[s] \in Nat /\ events \in Seq(Event)
      /\ hand \in [Probe -> Nat] /\ loop \in [Probe -> Places]
  BY Numbers DEF TypeOK, Places
<1>3. starter # "off"
  BY <1>1 DEF LossInv
<1>4. e \in Event /\ e.source = s /\ e.n = hand[s]
  BY <1>2 DEF Event
<1> HIDE DEF e
<1>5. /\ \A i \in DOMAIN events : i \in DOMAIN events' /\ events'[i] = events[i]
      /\ \A i \in DOMAIN events' : i \in DOMAIN events \/ events'[i] = e
      /\ \E i \in DOMAIN events' : events'[i] = e
  <2> DEFINE q == Append(events, e)
  <2>1. /\ Len(events) \in Nat /\ DOMAIN events = 1..Len(events)
        /\ DOMAIN q = 1..(Len(events) + 1) /\ q[Len(events) + 1] = e
        /\ \A i \in 1..Len(events) : q[i] = events[i]
    BY <1>2, <1>4
  <2>2. \A i \in 1..(Len(events) + 1) : i = Len(events) + 1 \/ i \in 1..Len(events)
    BY <2>1
  <2>3. Len(events) + 1 \in 1..(Len(events) + 1) /\ 1..Len(events) \subseteq 1..(Len(events) + 1)
    BY <2>1
  <2>4. events' = q
    BY <1>1
  <2> HIDE DEF q
  <2>5. QED
    BY <2>1, <2>2, <2>3, <2>4
<1>6. ASSUME NEW t \in Probe, t # s PROVE LosesNone(t)
  <2>1. hand'[t] = hand[t] /\ loop'[t] = loop[t]
    BY <1>1, <1>2, <1>6 DEF LoopGoto
  <2>2. InChannel(t) \subseteq InChannel(t)'
    BY <1>5 DEF InChannel
  <2>3. Accounted(t) \subseteq Accounted(t)'
    BY <1>1, <2>1, <2>2 DEF Accounted, InRing
  <2>4. Unaccounted(t)' \subseteq Unaccounted(t)
    BY <1>1, <2>3, NewLoss
  <2>5. QED
    BY <1>1, <2>1, <2>4 DEF LosesNone, LossInv
<1>7. InChannel(s) \cup {hand[s]} \subseteq InChannel(s)'
  BY <1>4, <1>5 DEF InChannel
<1>8. Accounted(s) \subseteq Accounted(s)'
  BY <1>1, <1>7 DEF Accounted, InRing
<1>9. Unaccounted(s)' \subseteq Unaccounted(s)
  BY <1>1, <1>8, NewLoss
<1>10. loop'[s] = "check" /\ hand'[s] = 0
  BY <1>1, <1>2 DEF LoopGoto
<1>11. LosesNone(s)
  BY <1>1, <1>3, <1>9, <1>10 DEF LosesNone
<1>12. QED
  BY <1>1, <1>6, <1>11, NothingLost

(* A record that leaves the channel is the next one received. *)
LEMMA ReceiveLosesNone ==
  ASSUME TypeOK, OrderInv, LossInv, Receive
  PROVE  LossInv'
<1> USE DEF managerVars, consumerVars, kernelVars, loopVars
<1> DEFINE s == events[1].source
           m == events[1].n
<1>1. /\ events # << >> /\ events' = Tail(events) /\ events \in Seq(Event)
      /\ UNCHANGED <<made, ring, dropped, hand, loop, starter, ctxDone>>
  BY Numbers DEF Receive
<1>2. 1 \in DOMAIN events /\ Head(events) = events[1]
  BY <1>1, HeadTail
<1>3. s \in Probe /\ m \in Nat /\ got[s] < m /\ got \in [Probe -> Nat] /\ got[s] \in Nat
  BY <1>2, Numbers DEF OrderInv, ChannelOrder, InOrder, TypeOK
<1>4. got' = [got EXCEPT ![s] = m]
  BY <1>2 DEF Receive
<1>5. \A i \in DOMAIN events : i = 1 \/ (i - 1 \in DOMAIN events' /\ events'[i - 1] = events[i])
  <2>1. /\ Len(events) \in Nat /\ DOMAIN events = 1..Len(events)
        /\ DOMAIN events' = 1..(Len(events) - 1)
        /\ \A i \in DOMAIN events' : events'[i] = events[i + 1]
    BY <1>1
  <2>2. \A i \in 1..Len(events) : i = 1 \/ (i - 1 \in 1..(Len(events) - 1) /\ (i - 1) + 1 = i)
    BY <2>1
  <2>3. QED
    BY <2>1, <2>2
<1> HIDE DEF s, m
<1>6. ASSUME NEW t \in Probe PROVE Unaccounted(t)' \subseteq Unaccounted(t)
  <2>1. ASSUME NEW n \in (got'[t] + 1)..made'[t], n \in Accounted(t) PROVE n \in Accounted(t)'
    <3>1. CASE n \notin InChannel(t)
      BY <1>1, <2>1, <3>1 DEF Accounted, InRing
    <3>2. CASE n \in InChannel(t)
      <4>1. PICK i \in DOMAIN events : events[i].source = t /\ events[i].n = n
        BY <3>2, ChannelHas
      <4>2. CASE i = 1
        <5>1. t = s /\ n = m
          BY <4>1, <4>2 DEF s, m
        <5>2. got'[t] = m
          BY <1>3, <1>4, <5>1
        <5>3. n >= got'[t] + 1
          BY <2>1, <1>3, <5>2
        <5>4. QED
          BY <1>3, <5>1, <5>2, <5>3
      <4>3. CASE i # 1
        <5>1. n \in InChannel(t)'
          BY <1>5, <4>1, <4>3, ChannelHas
        <5>2. QED
          BY <5>1 DEF Accounted
      <4>4. QED
        BY <4>2, <4>3
    <3>3. QED
      BY <3>1, <3>2
  <2>2. ASSUME NEW n \in (got'[t] + 1)..made'[t] PROVE n \in (got[t] + 1)..made[t]
    <3>1. got[t] \in Nat /\ got'[t] \in Nat /\ got[t] <= got'[t] /\ made'[t] = made[t]
          /\ made[t] \in Nat
      <4>1. CASE t = s
        BY <1>1, <1>3, <1>4, <4>1, Numbers
      <4>2. CASE t # s
        <5>1. got'[t] = got[t]
          BY <1>3, <1>4, <4>2
        <5>2. QED
          BY <1>1, <5>1, Numbers
      <4>3. QED
        BY <4>1, <4>2
    <3>2. QED
      BY <3>1
  <2>3. QED
    BY <2>1, <2>2, NewLoss
<1>7. \A t \in Probe : LosesNone(t)
  BY <1>1, <1>6 DEF LosesNone, LossInv
<1>8. QED
  BY <1>1, <1>7, NothingLost

(* The end of the context costs a goroutine the record in its hand. *)
LEMMA GiveUpLosesOne ==
  ASSUME TypeOK, LossInv, NEW s \in Probe, GiveUpSend(s)
  PROVE  LossInv'
<1> USE DEF managerVars, consumerVars, kernelVars, chanVars
<1>1. /\ loop[s] = "send" /\ ctxDone /\ LoopGoto(s, "ended") /\ hand' = [hand EXCEPT ![s] = 0]
      /\ UNCHANGED <<got, made, ring, dropped, events, starter, ctxDone>>
  BY DEF GiveUpSend
<1>2. hand[s] \in Nat /\ hand \in [Probe -> Nat] /\ loop \in [Probe -> Places]
  BY Numbers DEF TypeOK, Places
<1>3. starter # "off" /\ Unaccounted(s) = {}
  BY <1>1 DEF LossInv
<1>4. loop'[s] = "ended" /\ hand'[s] = 0
  BY <1>1, <1>2 DEF LoopGoto
<1>5. Unaccounted(s)' \subseteq {hand[s]}
  <2>1. InRing(s)' = InRing(s) /\ InChannel(s)' = InChannel(s)
    BY <1>1 DEF InRing, InChannel
  <2>2. QED
    BY <1>1, <1>3, <2>1 DEF Unaccounted
<1>6. ASSUME NEW t \in Probe, t # s
      PROVE  loop'[t] = loop[t] /\ hand'[t] = hand[t] /\ Unaccounted(t)' = Unaccounted(t)
  <2>1. loop'[t] = loop[t] /\ hand'[t] = hand[t]
    BY <1>1, <1>2, <1>6 DEF LoopGoto
  <2>2. QED
    BY <1>1, <2>1, SamePlaces
<1>7. QED
  BY <1>1, <1>2, <1>3, <1>4, <1>5, <1>6 DEF LossInv

(* Of all steps only the end of the context loses a record. *)
LEMMA LossStep == TypeOK /\ OrderInv /\ LossInv /\ [Next]_vars => LossInv'
<1> SUFFICES ASSUME TypeOK, OrderInv, LossInv, [Next]_vars PROVE LossInv'
  OBVIOUS
<1> USE DEF managerVars, kernelVars, consumerVars, chanVars, loopVars
<1> DEFINE Still == UNCHANGED <<got, made, ring, dropped, hand, events>>
<1>1. ASSUME Still, ctxDone => ctxDone',
             \A s \in Probe :
               /\ loop[s] = "ended" => loop'[s] = "ended"
               /\ loop'[s] = "ended" => loop[s] = "ended" \/ ctxDone
               /\ loop[s] = "send" => loop'[s] = "send"
               /\ starter' = "off" => starter = "off" /\ loop'[s] = loop[s]
      PROVE  LossInv'
  <2>1. \A s \in Probe : Unaccounted(s)' = Unaccounted(s)
    BY <1>1, SamePlaces
  <2>2. \A s \in Probe : LosesNone(s)
    BY <1>1, <2>1 DEF LosesNone, LossInv
  <2>3. QED
    BY <1>1, <2>2, NothingLost
<1>2. ASSUME NEW s \in Probe, PollContext(s) \/ ReadFails(s) PROVE LossInv'
  <2>1. /\ Still /\ UNCHANGED <<starter, ctxDone>> /\ loop[s] \in {"check", "read"}
        /\ \E where \in {"ended", "check", "read"} :
             LoopGoto(s, where) /\ (where = "ended" => ctxDone)
    BY <1>2 DEF PollContext, ReadFails
  <2>2. starter # "off" /\ loop \in [Probe -> Places]
    BY <2>1 DEF LossInv, TypeOK, Places
  <2>3. \A t \in Probe : loop'[t] = loop[t] \/ (t = s /\ (loop'[s] = "ended" => ctxDone))
    BY <2>1, <2>2 DEF LoopGoto
  <2>4. QED
    BY <1>1, <2>1, <2>2, <2>3
<1>3. CASE Start
  <2>1. /\ Still /\ starter = "off" /\ starter' = "wait" /\ ctxDone' = ctxDone
        /\ \A s \in Probe : loop'[s] \in {"check", "off"}
    BY <1>3 DEF Start
  <2>2. \A s \in Probe : loop[s] = "off"
    BY <2>1 DEF LossInv
  <2>3. QED
    BY <1>1, <2>1, <2>2
<1>4. CASE Manager
  <2>1. Still /\ UNCHANGED <<starter, loop, ctxDone>>
    BY <1>4 DEF Manager, Register, DisableProbe, DetachAll, EvaluateGuard, ShedHighestCost,
                RingBufReaders
  <2>2. QED
    BY <1>1, <2>1
<1>5. CASE CloseReaders \/ CloseEvents \/ CloseDone \/ Cancel \/ UNCHANGED vars
  <2>1. /\ Still /\ UNCHANGED loop /\ (ctxDone => ctxDone')
        /\ starter' = "off" => starter = "off"
    BY <1>5 DEF CloseReaders, CloseEvents, CloseDone, Cancel, vars
  <2>2. QED
    BY <1>1, <2>1
<1>6. ASSUME NEW s \in Probe, AddReader(s) PROVE LossInv'
  <2>1. Still /\ UNCHANGED <<starter, loop, ctxDone>>
    BY <1>6 DEF AddReader
  <2>2. QED
    BY <1>1, <2>1
<1>7. QED
  BY <1>2, <1>3, <1>4, <1>5, <1>6, ProduceLosesNone, ReadLosesNone, SendLosesNone,
     ReceiveLosesNone, GiveUpLosesOne DEF Next, StartStep, ReadLoop, Returned

(* Back-pressure: whatever the receiver does, the consumer loses no record before the end  *)
(* of the context, and each goroutine at most the one it holds after it.                   *)
THEOREM LossBounded == Spec => []LossAtCancelOnly
<1>1. Init => OrderInv /\ LossInv
  <2> SUFFICES ASSUME Init PROVE OrderInv /\ LossInv
    OBVIOUS
  <2>1. OrderInv
    BY DEF Init, OrderInv, RingOrder, HandOrder, ChannelOrder, InOrder
  <2>2. \A s \in Probe : Unaccounted(s) = {}
    BY DEF Init, Unaccounted
  <2>3. QED
    BY <2>1, <2>2 DEF Init, LossInv
<1>2. TypeOK /\ OrderInv /\ LossInv /\ [Next]_vars => (OrderInv /\ LossInv)'
  BY OrderStep, LossStep
<1>3. LossInv => LossAtCancelOnly
  <2> SUFFICES ASSUME LossInv, NEW s \in Probe
               PROVE  Cardinality(Unaccounted(s)) <= IF ctxDone THEN 1 ELSE 0
    BY DEF LossAtCancelOnly
  <2>1. ~ctxDone => Unaccounted(s) = {}
    BY DEF LossInv
  <2>2. PICK n \in Nat : Unaccounted(s) \subseteq {n}
    BY DEF LossInv
  <2>3. Cardinality({n}) = 1 /\ Cardinality({}) = 0
    BY FS_Singleton, FS_EmptySet
  <2>4. Unaccounted(s) = {} \/ Unaccounted(s) = {n}
    BY <2>2
  <2>5. QED
    BY <2>1, <2>3, <2>4
<1>4. QED
  BY <1>1, <1>2, <1>3, TypeCorrect, PTL DEF Spec

---------------------------------------------------------------------------
(* The ring of one probe, as its program and its reader see it. *)
RingOf(s) == INSTANCE ProbeRing WITH Slots <- RingSlots, made <- made[s], ring <- ring[s],
                                     putting <- s \notin detached, reading <- s \in open

(* Whoever registers, sheds, starts, closes and cancels, each probe's buffer is the        *)
(* abstract ring, which KernelProofs shows the hooks of a program to implement: the one    *)
(* step Produce stands for what they do.                                                   *)
THEOREM RingsImplementProbeRing ==
  ASSUME NEW s \in Probe
  PROVE  Spec => RingOf(s)!Spec
<1>1. Init => RingOf(s)!Init
  BY DEF Init, RingOf!Init
<1>2. TypeOK /\ [Next]_vars => [RingOf(s)!Next]_(RingOf(s)!ringVars)
  <2> SUFFICES ASSUME TypeOK, [Next]_vars PROVE RingOf(s)!Next \/ UNCHANGED RingOf(s)!ringVars
    OBVIOUS
  <2> USE DEF managerVars, kernelVars, consumerVars, chanVars, loopVars
  <2>1. ASSUME UNCHANGED <<made, ring>>, detached \subseteq detached', open' \subseteq open
        PROVE  RingOf(s)!Next
    BY <2>1 DEF RingOf!Next, RingOf!Close
  <2>2. ASSUME UNCHANGED <<made[s], ring[s], detached, open>>
        PROVE  RingOf(s)!Next
    BY <2>2 DEF RingOf!Next, RingOf!Close
  <2>3. ASSUME NEW t \in Probe, Produce(t) PROVE RingOf(s)!Next
    <3>1. CASE t = s
      <4>1. /\ s \notin detached /\ s \notin detached' /\ UNCHANGED <<detached, open>>
            /\ made' = [made EXCEPT ![s] = made[s] + 1]
            /\ \/ /\ Len(ring[s]) < RingSlots
                  /\ ring' = [ring EXCEPT ![s] = Append(ring[s], made[s] + 1)]
               \/ Len(ring[s]) = RingSlots /\ ring' = ring
        BY <2>3, <3>1 DEF Produce
      <4>2. made \in [Probe -> Nat] /\ ring \in [Probe -> Seq(Nat)]
        BY DEF TypeOK
      <4>3. /\ made'[s] = made[s] + 1
            /\ \/ Len(ring[s]) < RingSlots /\ ring'[s] = Append(ring[s], made[s] + 1)
               \/ Len(ring[s]) = RingSlots /\ ring'[s] = ring[s]
        BY <4>1, <4>2
      <4>4. RingOf(s)!Put
        BY <4>1, <4>3 DEF RingOf!Put
      <4>5. QED
        BY <4>4 DEF RingOf!Next
    <3>2. CASE t # s
      <4>1. UNCHANGED <<made[s], ring[s], detached, open>>
        BY <2>3, <3>2 DEF Produce, TypeOK
      <4>2. QED
        BY <2>2, <4>1
    <3>3. QED
      BY <3>1, <3>2
  <2>4. ASSUME NEW t \in Probe, ReadRecord(t) PROVE RingOf(s)!Next
    <3>1. /\ t \in open /\ ring[t] # << >> /\ ring' = [ring EXCEPT ![t] = Tail(ring[t])]
          /\ UNCHANGED <<made, detached, open>> /\ ring \in [Probe -> Seq(Nat)]
      BY <2>4 DEF ReadRecord, TypeOK
    <3>2. CASE t = s
      <4>1. s \in open /\ s \in open' /\ ring[s] # << >> /\ ring'[s] = Tail(ring[s])
        BY <3>1, <3>2
      <4>2. RingOf(s)!Take
        BY <3>1, <4>1 DEF RingOf!Take
      <4>3. QED
        BY <4>2 DEF RingOf!Next
    <3>3. CASE t # s
      <4>1. UNCHANGED <<made[s], ring[s], detached, open>>
        BY <3>1, <3>3
      <4>2. QED
        BY <2>2, <4>1
    <3>4. QED
      BY <3>2, <3>3
  <2>5. CASE Manager
    <3>1. ASSUME NEW S, CloseProbes(S) PROVE detached \subseteq detached' /\ open' \subseteq open
      BY <3>1 DEF CloseProbes
    <3>2. UNCHANGED <<made, ring>>
      BY <2>5 DEF Manager, Register, DisableProbe, DetachAll, EvaluateGuard, ShedHighestCost,
                  RingBufReaders
    <3>3. UNCHANGED <<detached, open>> \/ \E S \in SUBSET (Probe \cup {NoProbe}) : CloseProbes(S)
      BY <2>5, RegisteredProbes DEF Manager, Register, DisableProbe, DetachAll, EvaluateGuard,
                                    ShedHighestCost, RingBufReaders, TypeOK
    <3>4. QED
      BY <2>1, <3>1, <3>2, <3>3
  <2>6. CASE Start \/ StartStep \/ Receive \/ Cancel \/ UNCHANGED vars
    BY <2>1, <2>6 DEF Start, StartStep, CloseReaders, CloseEvents, CloseDone, Receive, Cancel, vars
  <2>7. ASSUME NEW t \in Probe,
               AddReader(t) \/ PollContext(t) \/ ReadFails(t) \/ SendEvent(t) \/ GiveUpSend(t)
        PROVE  RingOf(s)!Next
    <3>1. UNCHANGED <<made, ring, detached, open>>
      BY <2>7 DEF AddReader, PollContext, ReadFails, SendEvent, GiveUpSend
    <3>2. QED
      BY <2>1, <3>1
  <2>8. QED
    BY <2>3, <2>4, <2>5, <2>6, <2>7 DEF Next, ReadLoop, Returned
<1>3. QED
  BY <1>1, <1>2, TypeCorrect, PTL DEF Spec, RingOf!Spec

---------------------------------------------------------------------------
(* What a Start that waits for its goroutines has done: the context is over, and none of   *)
(* its readers is open.  There are finitely many, as AddReader takes one at a time.        *)
JoinInv ==
  /\ IsFiniteSet(readers) /\ IsFiniteSet(snapshot)
  /\ starter \in {"join", "closed", "returned"} => ctxDone /\ snapshot \cap open = {}

(* The parts of the join hold from the start on. *)
LEMMA JoinHolds == Spec => []JoinInv
<1>1. Init => JoinInv
  BY FS_EmptySet DEF Init, JoinInv
<1>2. TypeOK /\ JoinInv /\ [Next]_vars => JoinInv'
  <2> SUFFICES ASSUME TypeOK, JoinInv, [Next]_vars PROVE JoinInv'
    OBVIOUS
  <2> USE DEF managerVars, kernelVars, consumerVars, chanVars, loopVars
  <2>1. ASSUME UNCHANGED <<readers, snapshot, starter>>, ctxDone => ctxDone', open' \subseteq open
        PROVE  JoinInv'
    BY <2>1 DEF JoinInv
  <2>2. CASE Manager
    BY <2>1, <2>2 DEF Manager, Register, DisableProbe, DetachAll, EvaluateGuard,
                      ShedHighestCost, RingBufReaders, CloseProbes
  <2>3. CASE Start
    BY <2>3 DEF Start, JoinInv
  <2>4. CASE CloseReaders
    BY <2>4 DEF CloseReaders, JoinInv
  <2>5. CASE CloseEvents \/ CloseDone
    BY <2>5 DEF CloseEvents, CloseDone, JoinInv
  <2>6. CASE Receive \/ Cancel \/ UNCHANGED vars
    BY <2>1, <2>6 DEF Receive, Cancel, vars
  <2>7. ASSUME NEW s \in Probe, AddReader(s) PROVE JoinInv'
    <3>1. readers' = readers \cup {s} /\ UNCHANGED <<snapshot, starter, ctxDone, open>>
      BY <2>7 DEF AddReader
    <3>2. IsFiniteSet(readers \cup {s})
      BY FS_AddElement DEF JoinInv
    <3>3. QED
      BY <3>1, <3>2 DEF JoinInv
  <2>8. ASSUME NEW s \in Probe, Produce(s) \/ ReadLoop(s) PROVE JoinInv'
    <3>1. UNCHANGED <<readers, snapshot, starter, ctxDone, open>>
      BY <2>8 DEF Produce, ReadLoop, PollContext, ReadFails, ReadRecord, SendEvent, GiveUpSend
    <3>2. QED
      BY <2>1, <3>1
  <2>9. QED
    BY <2>2, <2>3, <2>4, <2>5, <2>6, <2>7, <2>8 DEF Next, StartStep, Returned
<1>3. QED
  BY <1>1, <1>2, TypeCorrect, PTL DEF Spec

(* The goroutines Start still waits for, and those of them that are in their send. *)
Running == { s \in snapshot : loop[s] # "ended" }
Sending == { s \in snapshot : loop[s] = "send" }
JoinWork == Cardinality(Running) + Cardinality(Sending)

(* While Start waits for its goroutines, every step of one of them brings its end nearer   *)
(* and no step of anybody else puts it off: none of them goes round its loop again.        *)
ReturnComesNearer ==
  starter = "join" =>
    /\ JoinWork' <= JoinWork
    /\ \A s \in Probe : ReadLoop(s) => JoinWork' < JoinWork

(* And each of them has such a step, whatever its ring holds and whether anybody receives. *)
NobodyBlocks ==
  starter = "join" =>
    \A s \in Running : \/ loop[s] = "check"
                       \/ loop[s] = "read" /\ s \notin open
                       \/ loop[s] = "send" /\ ctxDone

(* A part of a finite set counts less than another one it is a proper part of. *)
LEMMA PartCounts ==
  ASSUME NEW A, IsFiniteSet(A), NEW B \in SUBSET A
  PROVE  /\ Cardinality(A) \in Nat /\ Cardinality(B) \in Nat /\ Cardinality(B) <= Cardinality(A)
         /\ B # A => Cardinality(B) < Cardinality(A)
<1>1. IsFiniteSet(B) /\ Cardinality(B) <= Cardinality(A)
      /\ (Cardinality(A) = Cardinality(B) => A = B)
  BY FS_Subset
<1>2. Cardinality(A) \in Nat /\ Cardinality(B) \in Nat
  BY <1>1, FS_CardinalityType
<1>3. QED
  BY <1>1, <1>2

(* The work shrinks with its two sets. *)
LEMMA WorkOfParts ==
  ASSUME IsFiniteSet(snapshot), Running' \subseteq Running, Sending' \subseteq Sending
  PROVE  /\ JoinWork' <= JoinWork
         /\ Running' # Running \/ Sending' # Sending => JoinWork' < JoinWork
<1> DEFINE a == Cardinality(Running)
           b == Cardinality(Sending)
           c == Cardinality(Running')
           d == Cardinality(Sending')
<1>0. IsFiniteSet(Running) /\ IsFiniteSet(Sending)
  <2>1. Running \in SUBSET snapshot /\ Sending \in SUBSET snapshot
    BY DEF Running, Sending
  <2>2. QED
    BY <2>1, FS_Subset
<1>1. a \in Nat /\ c \in Nat /\ c <= a /\ (Running' # Running => c < a)
  BY <1>0, PartCounts
<1>2. b \in Nat /\ d \in Nat /\ d <= b /\ (Sending' # Sending => d < b)
  BY <1>0, PartCounts
<1>3. JoinWork = a + b /\ JoinWork' = c + d
  BY DEF JoinWork
<1> HIDE DEF a, b, c, d
<1>4. QED
  BY <1>1, <1>2, <1>3

(* While Start joins, no step leads away from its return, and a step of a loop leads to it. *)
LEMMA NearerStep == TypeOK /\ CloseInv /\ JoinInv /\ [Next]_vars => ReturnComesNearer
<1> SUFFICES ASSUME TypeOK, CloseInv, JoinInv, [Next]_vars, starter = "join"
             PROVE  /\ JoinWork' <= JoinWork
                    /\ \A s \in Probe : ReadLoop(s) => JoinWork' < JoinWork
  BY DEF ReturnComesNearer
<1> USE DEF managerVars, kernelVars, consumerVars, chanVars, loopVars
<1>0. IsFiniteSet(snapshot) /\ ctxDone /\ snapshot \cap open = {} /\ loop \in [Probe -> Places]
  BY DEF JoinInv, TypeOK, Places
<1>1. ASSUME UNCHANGED <<snapshot, loop>> PROVE JoinWork' <= JoinWork
  <2>1. Running' = Running /\ Sending' = Sending
    BY <1>1 DEF Running, Sending
  <2>2. QED
    BY <1>0, <2>1, WorkOfParts
<1>2. ASSUME NEW s \in Probe, ReadLoop(s)
      PROVE  JoinWork' <= JoinWork /\ JoinWork' < JoinWork
  <2>1. UNCHANGED snapshot /\ loop[s] # "off"
    BY <1>2 DEF ReadLoop, PollContext, ReadFails, ReadRecord, SendEvent, GiveUpSend
  <2>2. s \in snapshot /\ s \notin open
    BY <1>0, <2>1 DEF CloseInv
  <2>3. \/ loop[s] # "ended" /\ LoopGoto(s, "ended")
        \/ loop[s] = "send" /\ LoopGoto(s, "check")
    BY <1>0, <1>2, <2>2 DEF ReadLoop, PollContext, ReadFails, ReadRecord, SendEvent, GiveUpSend
  <2>4. \A t \in Probe \ {s} : loop'[t] = loop[t]
    BY <1>0, <2>3 DEF LoopGoto
  <2>5. snapshot \subseteq Probe
    BY DEF TypeOK
  <2>6. CASE loop[s] # "ended" /\ LoopGoto(s, "ended")
    <3>1. loop'[s] = "ended"
      BY <1>0, <2>6 DEF LoopGoto
    <3>2. /\ Running' \subseteq Running /\ Sending' \subseteq Sending
          /\ s \in Running \ Running'
      BY <2>1, <2>2, <2>4, <2>5, <2>6, <3>1 DEF Running, Sending
    <3>3. QED
      BY <1>0, <3>2, WorkOfParts
  <2>7. CASE loop[s] = "send" /\ LoopGoto(s, "check")
    <3>1. loop'[s] = "check"
      BY <1>0, <2>7 DEF LoopGoto
    <3>2. /\ Running' \subseteq Running /\ Sending' \subseteq Sending
          /\ s \in Sending \ Sending'
      BY <2>1, <2>2, <2>4, <2>5, <2>7, <3>1 DEF Running, Sending
    <3>3. QED
      BY <1>0, <3>2, WorkOfParts
  <2>8. QED
    BY <2>3, <2>6, <2>7
<1>3. ASSUME Manager PROVE JoinWork' <= JoinWork
  <2>1. UNCHANGED <<snapshot, loop>>
    BY <1>3 DEF Manager, Register, DisableProbe, DetachAll, EvaluateGuard, ShedHighestCost,
                RingBufReaders
  <2>2. QED
    BY <1>1, <2>1
<1>4. ASSUME StartStep \/ Receive \/ Cancel \/ UNCHANGED vars
      PROVE  JoinWork' <= JoinWork
  BY <1>1, <1>4 DEF StartStep, CloseReaders, CloseEvents, CloseDone, Receive, Cancel, vars
<1>5. ASSUME NEW s \in Probe, Produce(s) \/ AddReader(s) PROVE JoinWork' <= JoinWork
  BY <1>1, <1>5 DEF Produce, AddReader
<1>6. ~Start
  BY DEF Start
<1>7. QED
  BY <1>2, <1>3, <1>4, <1>5, <1>6 DEF Next, Returned

(* The safety half of StartReturns: after the end of the context nothing but the           *)
(* scheduling of its goroutines keeps Start from returning.                                *)
THEOREM StartComesNearer == Spec => [][ReturnComesNearer]_vars /\ []NobodyBlocks
<1>1. TypeOK /\ CloseInv /\ JoinInv => NobodyBlocks
  <2> SUFFICES ASSUME TypeOK, CloseInv, JoinInv, starter = "join", NEW s \in Running
               PROVE  loop[s] = "check" \/ (loop[s] = "read" /\ s \notin open)
                        \/ (loop[s] = "send" /\ ctxDone)
    BY DEF NobodyBlocks
  <2>1. s \in snapshot /\ s \in Probe /\ loop[s] \notin {"ended", "off"}
    BY DEF Running, CloseInv, TypeOK
  <2>2. QED
    BY <2>1 DEF JoinInv, TypeOK
<1>2. QED
  BY <1>1, NearerStep, TypeCorrect, CloseHolds, JoinHolds, PTL DEF Spec
=============================================================================
