--------------------------- MODULE ProbePipeline ---------------------------
(***************************************************************************)
(* pkg/collector: ProbeManager owns the probes and closes one when the CPU *)
(* budget is exceeded; RingBufConsumer runs one goroutine per ring buffer  *)
(* reader the manager hands it and sends the decoded events down one       *)
(* channel.  The kernel fills the rings, the manager's callers and the     *)
(* goroutines interleave, and one context ends the consumer.               *)
(***************************************************************************)
EXTENDS Integers, Sequences, FiniteSets

CONSTANTS
  SignalName,    (* signal names                                            *)
  Probe,         (* the *ProbeSpec values the callers have                  *)
  SignalOf,      (* Probe -> SignalName                                     *)
  NoProbe,
  allowed,       (* the signals the capability mode allows                  *)
  disableOrder,  (* the order in which signals are given up                 *)
  RingSlots,     (* records one ring buffer holds                           *)
  BufSize,       (* capacity of the events channel                          *)
  MaxRecords     (* bound: records each program makes                       *)

ASSUME PipelineAssumption ==
  /\ SignalOf \in [Probe -> SignalName] /\ NoProbe \notin Probe
  /\ allowed \subseteq SignalName
  /\ disableOrder \in Seq(SignalName)
  /\ RingSlots \in Nat \ {0} /\ BufSize \in Nat \ {0} /\ MaxRecords \in Nat

VARIABLES
  (* ProbeManager *)
  probes,      (* the registered spec of each signal, or NoProbe             *)
  accepted,    (* history: specs Register has taken                         *)
  detached,    (* specs closeProbe has closed                               *)
  again,       (* history: closed specs that were registered again since    *)
  governor,    (* CheckOverhead: "idle", or "exceeded" before it locks      *)
  (* the kernel side of each spec *)
  made,        (* records its program has put out                           *)
  ring,        (* the ones waiting in its ring buffer                       *)
  open,        (* readers that nobody has closed                            *)
  (* RingBufConsumer *)
  handed,      (* readers RingBufReaders returned, not yet added            *)
  readers,     (* readers AddReader took                                    *)
  starter,     (* where Start is                                            *)
  snapshot,    (* the readers Start copied                                  *)
  loop,        (* per reader: where its readLoop is                         *)
  hand,        (* per reader: the record its goroutine sends next, or 0     *)
  events, eventsClosed, done,   (* the channels                             *)
  ctxDone,
  got,         (* per spec: the last of its records a receiver took         *)
  dropped      (* history: per spec, records a full ring or the decoder lost *)

managerVars == <<probes, accepted, detached, again, governor>>
kernelVars == <<made, ring>>
consumerVars == <<handed, readers, snapshot>>
chanVars == <<events, eventsClosed, done>>
loopVars == <<loop, hand>>
vars == <<managerVars, kernelVars, open, consumerVars, starter, chanVars, loopVars, ctxDone,
          got, dropped>>

Init ==
  /\ probes = [g \in SignalName |-> NoProbe]
  /\ accepted = {} /\ detached = {} /\ again = {} /\ governor = "idle"
  /\ made = [s \in Probe |-> 0] /\ ring = [s \in Probe |-> << >>] /\ open = Probe
  /\ handed = {} /\ readers = {} /\ snapshot = {} /\ starter = "off"
  /\ loop = [s \in Probe |-> "off"] /\ hand = [s \in Probe |-> 0]
  /\ dropped = [s \in Probe |-> {}]
  /\ events = << >> /\ eventsClosed = FALSE /\ done = FALSE
  /\ ctxDone = FALSE
  /\ got = [s \in Probe |-> 0]

Registered == { probes[g] : g \in SignalName } \ {NoProbe}

---------------------------------------------------------------------------
(* ProbeManager                                                            *)

(* Register: a spec of an unsupported signal is refused; a spec takes the  *)
(* place of the one registered for its signal before.  Nothing else is     *)
(* asked of it: a spec may come again, also one that has been closed.      *)
Register(s) ==
  /\ SignalOf[s] \in allowed
  /\ probes' = [probes EXCEPT ![SignalOf[s]] = s]
  /\ accepted' = accepted \cup {s}
  /\ again' = again \cup ({s} \cap detached)
  /\ UNCHANGED <<detached, governor, kernelVars, open, consumerVars, starter, chanVars,
                 loopVars, ctxDone, got, dropped>>

(* closeProbe: links, reader, collection. *)
CloseProbes(S) ==
  /\ detached' = detached \cup S
  /\ open' = open \ S
  /\ again' = again \ S

DisableProbe(g) ==
  /\ probes[g] # NoProbe
  /\ CloseProbes({probes[g]})
  /\ probes' = [probes EXCEPT ![g] = NoProbe]
  /\ UNCHANGED <<accepted, governor, kernelVars, consumerVars, starter, chanVars, loopVars,
                 ctxDone, got, dropped>>

DetachAll ==
  /\ CloseProbes(Registered)
  /\ probes' = [g \in SignalName |-> NoProbe]
  /\ UNCHANGED <<accepted, governor, kernelVars, consumerVars, starter, chanVars, loopVars,
                 ctxDone, got, dropped>>

(* CheckOverhead, first half: guard.Evaluate, outside the mutex.  A nil    *)
(* guard, an error and a reading within the budget end the call here.      *)
EvaluateGuard ==
  /\ governor = "idle"
  /\ governor' = "exceeded"
  /\ UNCHANGED <<probes, accepted, detached, again, kernelVars, open, consumerVars, starter,
                 chanVars, loopVars, ctxDone, got, dropped>>

(* CheckOverhead, second half: under the mutex, the first registered       *)
(* signal of the disable order is closed and removed.                      *)
HighestCost(g) ==
  /\ probes[g] # NoProbe
  /\ \E i \in DOMAIN disableOrder :
       /\ disableOrder[i] = g
       /\ \A j \in 1..(i - 1) : probes[disableOrder[j]] = NoProbe

ShedHighestCost_KeepsEntry ==
  /\ governor = "exceeded"
  /\ governor' = "idle"
  /\ \/ \E g \in SignalName :
          /\ HighestCost(g)
          /\ CloseProbes({probes[g]})
          /\ UNCHANGED probes
     \/ /\ \A g \in SignalName : ~HighestCost(g)
        /\ UNCHANGED <<probes, detached, again, open>>
  /\ UNCHANGED <<accepted, kernelVars, consumerVars, starter, chanVars, loopVars, ctxDone, got, dropped>>
ShedHighestCost ==
  /\ governor = "exceeded"
  /\ governor' = "idle"
  /\ \/ \E g \in SignalName :
          /\ HighestCost(g)
          /\ CloseProbes({probes[g]})
          /\ probes' = [probes EXCEPT ![g] = NoProbe]
     \/ /\ \A g \in SignalName : ~HighestCost(g)
        /\ UNCHANGED <<probes, detached, again, open>>
  /\ UNCHANGED <<accepted, kernelVars, consumerVars, starter, chanVars, loopVars, ctxDone, got, dropped>>

(* RingBufReaders: what the caller gets is a copy, with the readers of     *)
(* closed specs that are registered again.  A caller passes each of them   *)
(* to AddReader once and before it calls Start: AddReader checks neither.  *)
RingBufReaders ==
  /\ handed = {} /\ starter = "off"
  /\ handed' = Registered \ readers
  /\ handed' # {}
  /\ UNCHANGED <<managerVars, kernelVars, open, readers, snapshot, starter, chanVars, loopVars,
                 ctxDone, got, dropped>>

---------------------------------------------------------------------------
(* The kernel: a program whose links are open adds a record to its ring; a *)
(* full ring loses the new record.                                         *)
Produce(s) ==
  /\ s \notin detached /\ made[s] < MaxRecords
  /\ made' = [made EXCEPT ![s] = @ + 1]
  /\ \/ /\ Len(ring[s]) < RingSlots
        /\ ring' = [ring EXCEPT ![s] = Append(@, made[s] + 1)]
        /\ UNCHANGED dropped
     \/ /\ Len(ring[s]) = RingSlots
        /\ dropped' = [dropped EXCEPT ![s] = @ \cup {made[s] + 1}]
        /\ UNCHANGED ring
  /\ UNCHANGED <<managerVars, open, consumerVars, starter, chanVars, loopVars, ctxDone, got>>

---------------------------------------------------------------------------
(* RingBufConsumer                                                         *)

AddReader(s) ==
  /\ s \in handed
  /\ handed' = handed \ {s}
  /\ readers' = readers \cup {s}
  /\ UNCHANGED <<managerVars, kernelVars, open, snapshot, starter, chanVars, loopVars,
                 ctxDone, got, dropped>>

(* Start: copy the readers under the mutex, one goroutine for each. *)
Start ==
  /\ starter = "off"
  /\ snapshot' = readers
  /\ loop' = [s \in Probe |-> IF s \in readers THEN "check" ELSE "off"]
  /\ starter' = "wait"
  /\ UNCHANGED <<managerVars, kernelVars, open, handed, readers, chanVars, hand,
                 ctxDone, got, dropped>>

(* The context is cancelled: Start closes its readers ... *)
CloseReaders ==
  /\ starter = "wait" /\ ctxDone
  /\ open' = open \ snapshot
  /\ starter' = "join"
  /\ UNCHANGED <<managerVars, kernelVars, consumerVars, chanVars, loopVars, ctxDone, got, dropped>>

(* ... waits for their goroutines and closes the channels. *)
CloseEvents_WithoutWait ==
  /\ starter = "join"
  /\ eventsClosed' = TRUE
  /\ starter' = "closed"
  /\ UNCHANGED <<managerVars, kernelVars, open, consumerVars, events, done, loopVars,
                 ctxDone, got, dropped>>
CloseEvents ==
  /\ starter = "join"
  /\ \A s \in snapshot : loop[s] = "ended"
  /\ eventsClosed' = TRUE
  /\ starter' = "closed"
  /\ UNCHANGED <<managerVars, kernelVars, open, consumerVars, events, done, loopVars,
                 ctxDone, got, dropped>>

CloseDone ==
  /\ starter = "closed"
  /\ done' = TRUE
  /\ starter' = "returned"
  /\ UNCHANGED <<managerVars, kernelVars, open, consumerVars, events, eventsClosed, loopVars,
                 ctxDone, got, dropped>>

LoopGoto(s, where) == loop' = [loop EXCEPT ![s] = where]

(* The poll of ctx.Done at the head of the loop. *)
PollContext(s) ==
  /\ loop[s] = "check"
  /\ LoopGoto(s, IF ctxDone THEN "ended" ELSE "read")
  /\ UNCHANGED <<managerVars, kernelVars, open, consumerVars, starter, chanVars, hand,
                 ctxDone, got, dropped>>

(* reader.Read on a closed reader fails at once; the loop goes round again *)
(* unless the context is done.                                             *)
ReadFails(s) ==
  /\ loop[s] = "read" /\ s \notin open
  /\ LoopGoto(s, IF ctxDone THEN "ended" ELSE "check")
  /\ UNCHANGED <<managerVars, kernelVars, open, consumerVars, starter, chanVars, hand,
                 ctxDone, got, dropped>>

(* reader.Read blocks until there is a record; it decodes or it does not.  *)
ReadRecord_SendsUndecoded(s) ==
  /\ loop[s] = "read" /\ s \in open /\ ring[s] # << >>
  /\ ring' = [ring EXCEPT ![s] = Tail(@)]
  /\ \/ /\ hand' = [hand EXCEPT ![s] = Head(ring[s])]
        /\ UNCHANGED dropped
     \/ /\ dropped' = [dropped EXCEPT ![s] = @ \cup {Head(ring[s])}]
        /\ UNCHANGED hand
  /\ LoopGoto(s, "send")
  /\ UNCHANGED <<managerVars, made, open, consumerVars, starter, chanVars, ctxDone, got>>
ReadRecord(s) ==
  /\ loop[s] = "read" /\ s \in open /\ ring[s] # << >>
  /\ ring' = [ring EXCEPT ![s] = Tail(@)]
  /\ \/ /\ hand' = [hand EXCEPT ![s] = Head(ring[s])]
        /\ LoopGoto(s, "send")
        /\ UNCHANGED dropped
     \/ /\ dropped' = [dropped EXCEPT ![s] = @ \cup {Head(ring[s])}]
        /\ LoopGoto(s, "check")
        /\ UNCHANGED hand
  /\ UNCHANGED <<managerVars, made, open, consumerVars, starter, chanVars, ctxDone, got>>

(* The select: room in the channel, or the end of the context. *)
SendEvent_DropsWhenFull(s) ==
  /\ loop[s] = "send"
  /\ events' = IF Len(events) < BufSize
               THEN Append(events, [source |-> s, n |-> hand[s]]) ELSE events
  /\ LoopGoto(s, "check")
  /\ hand' = [hand EXCEPT ![s] = 0]
  /\ UNCHANGED <<managerVars, kernelVars, open, consumerVars, starter, eventsClosed, done,
                 ctxDone, got, dropped>>
SendEvent(s) ==
  /\ loop[s] = "send"
  /\ Len(events) < BufSize
  /\ events' = Append(events, [source |-> s, n |-> hand[s]])
  /\ LoopGoto(s, "check")
  /\ hand' = [hand EXCEPT ![s] = 0]
  /\ UNCHANGED <<managerVars, kernelVars, open, consumerVars, starter, eventsClosed, done,
                 ctxDone, got, dropped>>

GiveUpSend_PlainSend(s) ==
  /\ FALSE
  /\ UNCHANGED vars
GiveUpSend(s) ==
  /\ loop[s] = "send" /\ ctxDone
  /\ LoopGoto(s, "ended")
  /\ hand' = [hand EXCEPT ![s] = 0]
  /\ UNCHANGED <<managerVars, kernelVars, open, consumerVars, starter, chanVars,
                 ctxDone, got, dropped>>

---------------------------------------------------------------------------
(* The receiver of Events(), and the cancellation.                         *)

Receive ==
  /\ events # << >>
  /\ got' = [got EXCEPT ![Head(events).source] = Head(events).n]
  /\ events' = Tail(events)
  /\ UNCHANGED <<managerVars, kernelVars, open, consumerVars, starter, eventsClosed, done,
                 loopVars, ctxDone, dropped>>

Cancel ==
  /\ ~ctxDone
  /\ ctxDone' = TRUE
  /\ UNCHANGED <<managerVars, kernelVars, open, consumerVars, starter, chanVars, loopVars, got, dropped>>

Returned == starter = "returned" /\ UNCHANGED vars

---------------------------------------------------------------------------
Manager ==
  \/ \E s \in Probe : Register(s)
  \/ \E g \in SignalName : DisableProbe(g)
  \/ DetachAll \/ EvaluateGuard \/ ShedHighestCost \/ RingBufReaders

ReadLoop(s) ==
  PollContext(s) \/ ReadFails(s) \/ ReadRecord(s) \/ SendEvent(s) \/ GiveUpSend(s)
StartStep == CloseReaders \/ CloseEvents \/ CloseDone

Next ==
  \/ Manager \/ Start \/ StartStep \/ Receive \/ Cancel \/ Returned
  \/ \E s \in Probe : Produce(s) \/ AddReader(s) \/ ReadLoop(s)

(* The goroutines of the consumer are scheduled.  Nothing is assumed of    *)
(* the manager's callers, of the kernel or of the receiver.                *)
Spec == Init /\ [][Next]_vars
FairSpec == Spec /\ WF_vars(StartStep) /\ \A s \in Probe : WF_vars(ReadLoop(s))

---------------------------------------------------------------------------
(* Properties                                                              *)

TypeOK ==
  /\ probes \in [SignalName -> Probe \cup {NoProbe}]
  /\ accepted \in SUBSET Probe /\ detached \in SUBSET Probe /\ again \in SUBSET Probe
  /\ open \in SUBSET Probe
  /\ governor \in {"idle", "exceeded"}
  /\ made \in [Probe -> Nat] /\ got \in [Probe -> Nat] /\ hand \in [Probe -> Nat]
  /\ ring \in [Probe -> Seq(Nat)] /\ dropped \in [Probe -> SUBSET Nat]
  /\ handed \in SUBSET Probe /\ readers \in SUBSET Probe /\ snapshot \in SUBSET Probe
  /\ starter \in {"off", "wait", "join", "closed", "returned"}
  /\ loop \in [Probe -> {"off", "check", "read", "send", "ended"}]
  /\ events \in Seq([source : Probe, n : Nat]) /\ Len(events) <= BufSize
  /\ eventsClosed \in BOOLEAN /\ done \in BOOLEAN /\ ctxDone \in BOOLEAN

(* The goroutines never send on the closed channel, which would panic: Start closes it     *)
(* only when the last of them has ended, also one that was blocked in its send.            *)
NoSendAfterClose == eventsClosed => \A s \in Probe : loop[s] \in {"off", "ended"}

InChannel(s) == { events[i].n : i \in { j \in DOMAIN events : events[j].source = s } }
InRing(s) == { ring[s][i] : i \in DOMAIN ring[s] }
Unaccounted(s) ==
  { n \in (got[s] + 1)..made[s] :
      n \notin dropped[s] \cup InRing(s) \cup InChannel(s) \cup {hand[s]} }

(* A record that entered the consumer is received, in the channel or in a goroutine's      *)
(* hands: a slow receiver makes the readers wait, and the kernel, not the consumer, loses  *)
(* records.  The end of the context costs each goroutine at most the record it holds.      *)
LossAtCancelOnly ==
  \A s \in Probe : Cardinality(Unaccounted(s)) <= IF ctxDone THEN 1 ELSE 0

(* The receiver sees the records of each probe in the order of the kernel, none twice.     *)
Feed == INSTANCE LossyFeed WITH Source <- Probe
KeepsFeedOrder == Feed!Spec

(* What the manager has closed it no longer lists, unless a caller has registered it again *)
(* since: whatever disables, sheds, detaches and registers in whatever order, no caller is *)
(* left with a closed reader that it did not ask for itself.  And no attached program is   *)
(* forgotten, except one that Register has overwritten with another probe of its signal.   *)
Forgotten == accepted \ (Registered \cup detached)
RegisteredOrDetached ==
  /\ Registered \cap detached \subseteq again
  /\ \A s \in Forgotten : \E t \in accepted \ {s} : SignalOf[t] = SignalOf[s]

(* Start returns and closes both channels after the end of the context, though the receiver *)
(* may have stopped and some readers may have been closed by the manager before.           *)
StartReturns == (ctxDone /\ starter = "wait") ~> done
=============================================================================
