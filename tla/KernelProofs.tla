---------------------------- MODULE KernelProofs ----------------------------
(***************************************************************************)
(* What the hooks of the eBPF programs preserve, for every set of keys and *)
(* programs, every map and ring size and every bound.                      *)
(***************************************************************************)
EXTENDS KernelProbe, FiniteSetTheorems, TLAPS

(* A clock reading and a threshold can be compared. *)
LEMMA Thresholds == \A p \in Programs : p.threshold \in Nat
BY KernelAssumption DEF KernelAssumption, ProgramAssumption

(* The bounds are numbers. *)
LEMMA Sizes == MaxEntries \in Nat \ {0} /\ RingSlots \in Nat \ {0} /\ MaxClock \in Nat \ {0}
                 /\ MaxAttempts \in Nat
BY KernelAssumption DEF KernelAssumption, BoundAssumption

(* The numbers of the records in the ring are numbers. *)
LEMMA RecordNumbers ==
  ASSUME TypeOK
  PROVE  \A i \in DOMAIN ring : i \in 1..Len(ring) /\ ring[i].n \in Nat
<1>1. ring \in Seq(Record)
  BY DEF TypeOK
<1>2. \A i \in DOMAIN ring : i \in 1..Len(ring) /\ ring[i] \in Record
  BY <1>1
<1>3. \A x \in Record : x.n \in Nat
  BY DEF Record
<1>4. QED
  BY <1>2, <1>3

(* Reserving keeps the types and the capacity of the ring. *)
LEMMA ReserveTypes ==
  ASSUME TypeOK, NEW k \in Key, NEW from \in Nat, NEW since \in Nat, Reserve(k, from, since)
  PROVE  /\ ring' \in Seq(Record) /\ Len(ring') <= RingSlots
         /\ holding' \in [Key -> Nat] /\ attempts' \in Nat /\ lost' \in SUBSET Nat
<1> DEFINE r == [n |-> attempts + 1, from |-> from, began |-> since, answered |-> answered[k]]
<1>1. r \in Record
  BY DEF TypeOK, Record
<1>2. attempts' \in Nat /\ lost' \in SUBSET Nat
  <2>1. attempts \in Nat /\ lost \in SUBSET Nat
    BY DEF TypeOK
  <2>2. attempts' = attempts + 1 /\ (lost' = lost \/ lost' = lost \cup {attempts + 1})
    BY DEF Reserve
  <2>3. attempts' \in Nat
    BY <2>1, <2>2
  <2>4. {attempts + 1} \in SUBSET Nat
    BY <2>1
  <2>5. QED
    BY <2>1, <2>2, <2>3, <2>4
<1>3. holding' \in [Key -> Nat]
  BY DEF TypeOK, Reserve
<1>4. CASE ring' = Append(ring, r) /\ Len(ring) < RingSlots
  <2> HIDE DEF r
  <2>1. ring \in Seq(Record)
    BY DEF TypeOK
  <2>2. QED
    BY <1>1, <1>2, <1>3, <1>4, <2>1, Sizes
<1>5. CASE ring' = ring
  BY <1>2, <1>3, <1>5 DEF TypeOK
<1>6. QED
  BY <1>4, <1>5 DEF Reserve

(* The start map keeps its types under an update. *)
LEMMA UpdateTypes ==
  ASSUME TypeOK, NEW k \in Key, Update(k)
  PROVE  start' \in [Key -> Nat]
<1>1. now \in Nat /\ start \in [Key -> Nat]
  BY Sizes DEF TypeOK
<1>2. start' = start \/ start' = [start EXCEPT ![k] = now]
  BY DEF Update
<1>3. QED
  BY <1>1, <1>2

(* So does the whole end hook. *)
LEMMA EndHookTypes ==
  ASSUME TypeOK, NEW k \in Key, EndHook(k)
  PROVE  /\ ring' \in Seq(Record) /\ Len(ring') <= RingSlots
         /\ holding' \in [Key -> Nat] /\ attempts' \in Nat /\ lost' \in SUBSET Nat
         /\ start' \in [Key -> Nat] /\ emitted' \in [Key -> Nat]
<1>1. start' \in [Key -> Nat] /\ emitted' \in [Key -> Nat]
  <2>1. start \in [Key -> Nat] /\ emitted \in [Key -> Nat] /\ Absent \in Nat
    BY DEF TypeOK, Absent
  <2>2. /\ start' = start \/ start' = [start EXCEPT ![k] = Absent]
        /\ emitted' = emitted \/ emitted' = [emitted EXCEPT ![k] = @ + 1]
    BY DEF EndHook
  <2>3. QED
    BY <2>1, <2>2
<1>2. CASE UNCHANGED ringVars
  BY <1>1, <1>2 DEF TypeOK, ringVars
<1>3. CASE Reserve(k, start[k], began[k])
  <2>1. start[k] \in Nat /\ began[k] \in Nat
    BY DEF TypeOK
  <2>2. QED
    BY <1>1, <1>3, <2>1, ReserveTypes
<1>4. QED
  BY <1>2, <1>3 DEF EndHook

(* No step leaves the types of the variables, and the ring never holds more than it has    *)
(* room for.                                                                               *)
THEOREM TypeCorrect == Spec => []TypeOK
<1> USE Sizes
<1>1. Init => TypeOK
  BY DEF Init, TypeOK, Absent, Record
<1>2. TypeOK /\ [Next]_vars => TypeOK'
  <2> SUFFICES ASSUME TypeOK, [Next]_vars PROVE TypeOK'
    OBVIOUS
  <2> USE DEF TypeOK, taskVars, ringVars
  <2>1. ASSUME NEW k \in Key, Enter(k) PROVE TypeOK'
    <3>1. start' \in [Key -> Nat]
      BY <2>1, UpdateTypes DEF Enter
    <3>2. phase' \in [Key -> {"idle", "outer", "inner", "after", "receiving"}]
      BY <2>1 DEF Enter
    <3>3. emitted' \in [Key -> Nat]
      BY <2>1 DEF Enter
    <3>4. began' \in [Key -> Nat] /\ abandoned' \in SUBSET Key
      <4>1. now \in Nat /\ abandoned \ {k} \in SUBSET Key
        OBVIOUS
      <4>2. began' = [began EXCEPT ![k] = now] /\ abandoned' = abandoned \ {k}
        BY <2>1 DEF Enter
      <4>3. QED
        BY <4>1, <4>2
    <3>5. QED
      BY <2>1, <3>1, <3>2, <3>3, <3>4 DEF Enter
  <2>2. ASSUME NEW k \in Key, Exit(k) PROVE TypeOK'
    <3>1. EndHook(k)
      BY <2>2 DEF Exit
    <3>2. phase' \in [Key -> {"idle", "outer", "inner", "after", "receiving"}]
      BY <2>2 DEF Exit
    <3>3. QED
      BY <2>2, <3>1, <3>2, EndHookTypes DEF Exit
  <2>3. ASSUME NEW k \in Key, Abandon(k) PROVE TypeOK'
    BY <2>3 DEF Abandon
  <2>4. ASSUME NEW k \in Key, Send(k) PROVE TypeOK'
    <3>1. start' \in [Key -> Nat]
      BY <2>4, UpdateTypes DEF Send
    <3>2. /\ began' \in [Key -> Nat] /\ answered' \in [Key -> BOOLEAN]
          /\ emitted' \in [Key -> Nat]
      BY <2>4 DEF Send
    <3>3. QED
      BY <2>4, <3>1, <3>2 DEF Send
  <2>5. ASSUME NEW k \in Key, Answer(k) PROVE TypeOK'
    BY <2>5 DEF Answer
  <2>6. ASSUME NEW k \in Key, RecvCall(k) PROVE TypeOK'
    <3>1. EndHook(k)
      BY <2>6 DEF RecvCall
    <3>2. phase' \in [Key -> {"idle", "outer", "inner", "after", "receiving"}]
      BY <2>6 DEF RecvCall
    <3>3. QED
      BY <2>6, <3>1, <3>2, EndHookTypes DEF RecvCall
  <2>7. ASSUME NEW k \in Key, RecvReturn(k) PROVE TypeOK'
    BY <2>7 DEF RecvReturn
  <2>8. ASSUME NEW k \in Key, Tracepoint(k) PROVE TypeOK'
    <3>1. PICK delay \in 0..(now - 1) : Reserve(k, now - delay, now - delay)
      BY <2>8 DEF Tracepoint
    <3>2. now - delay \in Nat
      BY <3>1
    <3>3. QED
      BY <2>8, <3>1, <3>2, ReserveTypes DEF Tracepoint
  <2>9. ASSUME NEW k \in Key, Submit(k) PROVE TypeOK'
    BY <2>9 DEF Submit
  <2>10. CASE Read
    <3>1. Head(ring) \in Record /\ Tail(ring) \in Seq(Record) /\ Len(Tail(ring)) <= RingSlots
      BY <2>10 DEF Read
    <3>2. Head(ring).n \in Nat
      BY <3>1 DEF Record
    <3>3. QED
      BY <2>10, <3>1, <3>2 DEF Read
  <2>11. CASE Detach
    BY <2>11 DEF Detach
  <2>12. CASE ClockTick
    BY <2>12 DEF ClockTick
  <2>13. CASE UNCHANGED vars
    BY <2>13 DEF vars
  <2>14. QED
    BY <2>1, <2>2, <2>3, <2>4, <2>5, <2>6, <2>7, <2>8, <2>9, <2>10, <2>11, <2>12, <2>13
       DEF Next, Hook, Detached
<1>3. QED
  BY <1>1, <1>2, PTL DEF Spec

---------------------------------------------------------------------------
(* What is in the ring after a reservation: the records of before, and at most one more,   *)
(* at the end, with the number of the attempt.                                             *)
LEMMA ReservedRecords ==
  ASSUME TypeOK, NEW k \in Key, NEW from \in Nat, NEW since \in Nat, Reserve(k, from, since)
  PROVE  /\ \A i \in DOMAIN ring' :
              \/ i \in DOMAIN ring /\ ring'[i] = ring[i]
              \/ /\ i = Len(ring) + 1
                 /\ ring'[i].n = attempts + 1 /\ ring'[i].from = from /\ ring'[i].began = since
         /\ \A i \in DOMAIN ring : i \in DOMAIN ring' /\ ring'[i] = ring[i]
         /\ attempts' = attempts + 1 /\ lost \subseteq lost'
         /\ \/ attempts + 1 \in lost'
            \/ Len(ring) + 1 \in DOMAIN ring' /\ ring'[Len(ring) + 1].n = attempts + 1
<1> DEFINE r == [n |-> attempts + 1, from |-> from, began |-> since, answered |-> answered[k]]
<1>1. r \in Record /\ ring \in Seq(Record)
  BY DEF TypeOK, Record
<1>2. r.n = attempts + 1 /\ r.from = from /\ r.began = since
  OBVIOUS
<1>3. \/ ring' = Append(ring, r) /\ lost' = lost
      \/ ring' = ring /\ lost' = lost \cup {attempts + 1}
  BY DEF Reserve
<1>4. attempts' = attempts + 1
  BY DEF Reserve
<1> HIDE DEF r
<1>5. CASE ring' = Append(ring, r) /\ lost' = lost
  BY <1>1, <1>2, <1>4, <1>5
<1>6. CASE ring' = ring /\ lost' = lost \cup {attempts + 1}
  BY <1>1, <1>4, <1>6
<1>7. QED
  BY <1>3, <1>5, <1>6

(* The start map after an update: the key's entry is new, or it has none as before. *)
LEMMA UpdatedStart ==
  ASSUME TypeOK, NEW k \in Key, Update(k)
  PROVE  /\ \A j \in Key \ {k} : start'[j] = start[j]
         /\ start'[k] = now \/ start'[k] = Absent
BY DEF TypeOK, Update

(* The end hook takes the key's entry away and touches no other one. *)
LEMMA EndedStart ==
  ASSUME TypeOK, NEW k \in Key, EndHook(k)
  PROVE  start'[k] = Absent /\ \A j \in Key \ {k} : start'[j] = start[j]
BY DEF TypeOK, EndHook

(* Every interval in the ring began with the operation that ended it.  StartInv makes the  *)
(* invariant inductive: it says the same of the entries still in the start map.            *)
SpanInv == StartInv /\ SpanIsReal

(* The programs report only real intervals. *)
THEOREM SpansAreReal == Spec => []SpanIsReal
<1>1. Init => SpanInv
  BY DEF Init, SpanInv, StartInv, SpanIsReal, Absent
<1>2. TypeOK /\ SpanInv /\ [Next]_vars => SpanInv'
  <2> SUFFICES ASSUME TypeOK, SpanInv, [Next]_vars PROVE SpanInv'
    OBVIOUS
  <2> USE DEF taskVars, ringVars
  <2>1. ASSUME NEW k \in Key, Reserve(k, start[k], began[k]), start[k] # Absent
        PROVE  SpanIsReal'
    <3>1. start[k] \in Nat /\ began[k] \in Nat /\ start[k] = began[k]
      BY <2>1 DEF TypeOK, SpanInv, StartInv
    <3>2. \A i \in DOMAIN ring' :
            \/ i \in DOMAIN ring /\ ring'[i] = ring[i]
            \/ ring'[i].from = start[k] /\ ring'[i].began = began[k]
      BY <2>1, <3>1, ReservedRecords
    <3>3. QED
      BY <3>1, <3>2 DEF SpanInv, SpanIsReal
  <2>2. ASSUME NEW k \in Key, EndHook(k), UNCHANGED began PROVE SpanInv'
    <3>1. StartInv'
      BY <2>2, EndedStart DEF SpanInv, StartInv
    <3>2. SpanIsReal'
      BY <2>1, <2>2 DEF EndHook, SpanInv, SpanIsReal
    <3>3. QED
      BY <3>1, <3>2 DEF SpanInv
  <2>3. ASSUME NEW k \in Key, Update(k), began' = [began EXCEPT ![k] = now], UNCHANGED ring
        PROVE  SpanInv'
    <3>1. StartInv'
      BY <2>3, UpdatedStart DEF TypeOK, SpanInv, StartInv
    <3>2. SpanIsReal'
      BY <2>3 DEF SpanInv, SpanIsReal
    <3>3. QED
      BY <3>1, <3>2 DEF SpanInv
  <2>4. ASSUME NEW k \in Key, Enter(k) \/ Send(k) PROVE SpanInv'
    BY <2>3, <2>4 DEF Enter, Send
  <2>5. ASSUME NEW k \in Key, Exit(k) \/ RecvCall(k) PROVE SpanInv'
    BY <2>2, <2>5 DEF Exit, RecvCall
  <2>6. ASSUME UNCHANGED <<start, began, ring>> PROVE SpanInv'
    BY <2>6 DEF SpanInv, StartInv, SpanIsReal
  <2>7. ASSUME NEW k \in Key, Abandon(k) \/ Answer(k) \/ RecvReturn(k) \/ Submit(k)
        PROVE  SpanInv'
    BY <2>6, <2>7 DEF Abandon, Answer, RecvReturn, Submit
  <2>8. ASSUME NEW k \in Key, Tracepoint(k) PROVE SpanInv'
    <3>1. PICK delay \in 0..(now - 1) : Reserve(k, now - delay, now - delay)
      BY <2>8 DEF Tracepoint
    <3>2. now - delay \in Nat
      BY <3>1 DEF TypeOK
    <3>3. \A i \in DOMAIN ring' :
            \/ i \in DOMAIN ring /\ ring'[i] = ring[i]
            \/ ring'[i].from = now - delay /\ ring'[i].began = now - delay
      BY <3>1, <3>2, ReservedRecords
    <3>4. UNCHANGED <<start, began>>
      BY <2>8 DEF Tracepoint
    <3>5. SpanIsReal'
      BY <3>3 DEF SpanInv, SpanIsReal
    <3>6. QED
      BY <3>4, <3>5 DEF SpanInv, StartInv
  <2>9. CASE Read
    <3>1. ring \in Seq(Record) /\ ring # << >> /\ ring' = Tail(ring) /\ UNCHANGED <<start, began>>
      BY <2>9 DEF Read, TypeOK
    <3>2. \A i \in DOMAIN ring' : i + 1 \in DOMAIN ring /\ ring'[i] = ring[i + 1]
      BY <3>1
    <3>3. QED
      BY <3>1, <3>2 DEF SpanInv, StartInv, SpanIsReal
  <2>10. CASE Detach \/ ClockTick \/ UNCHANGED vars
    BY <2>6, <2>10 DEF Detach, ClockTick, vars
  <2>11. QED
    BY <2>4, <2>5, <2>7, <2>8, <2>9, <2>10 DEF Next, Hook, Detached
<1>3. SpanInv => SpanIsReal
  BY DEF SpanInv
<1>4. QED
  BY <1>1, <1>2, <1>3, TypeCorrect, PTL DEF Spec

---------------------------------------------------------------------------
(* A key has a start entry only inside its operation, or after it was abandoned.           *)
THEOREM SlotsHeldByOperations == Spec => []SlotsAccounted
<1>1. Init => SlotsAccounted
  BY DEF Init, SlotsAccounted, Absent
<1>2. TypeOK /\ SlotsAccounted /\ [Next]_vars => SlotsAccounted'
  <2> SUFFICES ASSUME TypeOK, SlotsAccounted, [Next]_vars PROVE SlotsAccounted'
    OBVIOUS
  <2>0. UNCHANGED program
    <3>1. ASSUME NEW k \in Key, Hook(k) PROVE UNCHANGED program
      BY <3>1 DEF Hook, Enter, Exit, Abandon, Send, Answer, RecvCall, RecvReturn, Tracepoint
    <3>2. ASSUME NEW k \in Key, Submit(k) PROVE UNCHANGED program
      BY <3>2 DEF Submit
    <3>3. CASE Read \/ Detach \/ ClockTick \/ UNCHANGED vars
      BY <3>3 DEF Read, Detach, ClockTick, vars
    <3>4. QED
      BY <3>1, <3>2, <3>3 DEF Next, Detached
  <2> SUFFICES ASSUME program.shape = "span" PROVE SlotsAccounted'
    BY <2>0 DEF SlotsAccounted
  <2> USE DEF taskVars, ringVars
  <2>1. ASSUME NEW k \in Key, Enter(k) PROVE SlotsAccounted'
    <3>1. phase'[k] \in {"outer", "inner"} /\ \A j \in Key \ {k} : phase'[j] = phase[j]
      BY <2>1 DEF Enter, TypeOK
    <3>2. abandoned' = abandoned \ {k} /\ UNCHANGED program /\ Update(k)
      BY <2>1 DEF Enter
    <3>3. \A j \in Key \ {k} : start'[j] = start[j]
      BY <3>2, UpdatedStart
    <3>4. QED
      BY <3>1, <3>2, <3>3 DEF SlotsAccounted
  <2>2. ASSUME NEW k \in Key, Exit(k) PROVE SlotsAccounted'
    <3>1. \A j \in Key \ {k} : phase'[j] = phase[j]
      BY <2>2 DEF Exit, TypeOK
    <3>2. UNCHANGED <<program, abandoned>> /\ EndHook(k)
      BY <2>2 DEF Exit
    <3>3. start'[k] = Absent /\ \A j \in Key \ {k} : start'[j] = start[j]
      BY <3>2, EndedStart
    <3>4. QED
      BY <3>1, <3>2, <3>3 DEF SlotsAccounted
  <2>3. ASSUME NEW k \in Key, Abandon(k) PROVE SlotsAccounted'
    BY <2>3 DEF Abandon, SlotsAccounted, TypeOK
  <2>4. ASSUME NEW k \in Key, RecvReturn(k) PROVE SlotsAccounted'
    BY <2>4 DEF RecvReturn, SlotsAccounted, TypeOK
  <2>5. ASSUME UNCHANGED <<program, phase, abandoned, start>> PROVE SlotsAccounted'
    BY <2>5 DEF SlotsAccounted
  <2>6. ASSUME NEW k \in Key, Answer(k) \/ Tracepoint(k) \/ Submit(k) PROVE SlotsAccounted'
    BY <2>5, <2>6 DEF Answer, Tracepoint, Submit
  <2>7. ASSUME NEW k \in Key PROVE ~Send(k) /\ ~RecvCall(k)
    BY DEF Send, RecvCall
  <2>8. CASE Read \/ Detach \/ ClockTick \/ UNCHANGED vars
    BY <2>5, <2>8 DEF Read, Detach, ClockTick, vars
  <2>9. QED
    BY <2>1, <2>2, <2>3, <2>4, <2>6, <2>7, <2>8 DEF Next, Hook, Detached
<1>3. QED
  BY <1>1, <1>2, TypeCorrect, PTL DEF Spec

(* While a start entry is there, the operation has not reported; nor has it before the end *)
(* of its innermost hooks.  This is what forbids a second record.                          *)
ReportInv ==
  /\ OneRecordPerOperation
  /\ \A k \in Key : start[k] # Absent \/ phase[k] \in {"outer", "inner"} => emitted[k] = 0

(* No operation of a key is reported twice. *)
THEOREM ReportedOnce == Spec => []OneRecordPerOperation
<1>1. Init => ReportInv
  BY DEF Init, ReportInv, OneRecordPerOperation, Absent
<1>2. TypeOK /\ ReportInv /\ [Next]_vars => ReportInv'
  <2> SUFFICES ASSUME TypeOK, ReportInv, [Next]_vars PROVE ReportInv'
    OBVIOUS
  <2> USE DEF taskVars, ringVars
  <2>1. ASSUME NEW k \in Key, EndHook(k),
               \A j \in Key \ {k} : phase'[j] = phase[j],
               phase'[k] \notin {"outer", "inner"}
        PROVE  ReportInv'
    <3>1. start'[k] = Absent /\ \A j \in Key \ {k} : start'[j] = start[j]
      BY <2>1, EndedStart
    <3>2. /\ emitted'[k] <= 1
          /\ \A j \in Key \ {k} : emitted'[j] = emitted[j]
      <4>1. CASE UNCHANGED emitted
        BY <4>1 DEF ReportInv, OneRecordPerOperation
      <4>2. CASE start[k] # Absent /\ emitted' = [emitted EXCEPT ![k] = @ + 1]
        BY <4>2 DEF ReportInv, TypeOK
      <4>3. QED
        BY <2>1, <4>1, <4>2 DEF EndHook
    <3>3. QED
      BY <2>1, <3>1, <3>2 DEF ReportInv, OneRecordPerOperation
  <2>2. ASSUME NEW k \in Key, Enter(k) PROVE ReportInv'
    <3>1. Update(k) /\ \A j \in Key \ {k} : phase'[j] = phase[j] /\ emitted'[j] = emitted[j]
      BY <2>2 DEF Enter, TypeOK
    <3>2. emitted'[k] = 0
      BY <2>2 DEF Enter, TypeOK, ReportInv
    <3>3. \A j \in Key \ {k} : start'[j] = start[j]
      BY <3>1, UpdatedStart
    <3>4. QED
      BY <3>1, <3>2, <3>3 DEF ReportInv, OneRecordPerOperation
  <2>3. ASSUME NEW k \in Key, Send(k) PROVE ReportInv'
    <3>1. /\ Update(k) /\ UNCHANGED phase
          /\ emitted'[k] = 0 /\ \A j \in Key \ {k} : emitted'[j] = emitted[j]
      BY <2>3 DEF Send, TypeOK
    <3>2. \A j \in Key \ {k} : start'[j] = start[j]
      BY <3>1, UpdatedStart
    <3>3. QED
      BY <3>1, <3>2 DEF ReportInv, OneRecordPerOperation
  <2>4. ASSUME NEW k \in Key, Exit(k) \/ RecvCall(k) PROVE ReportInv'
    <3>1. /\ EndHook(k) /\ phase'[k] \notin {"outer", "inner"}
          /\ \A j \in Key \ {k} : phase'[j] = phase[j]
      BY <2>4 DEF Exit, RecvCall, TypeOK
    <3>2. QED
      BY <2>1, <3>1
  <2>5. ASSUME NEW k \in Key, Abandon(k) \/ RecvReturn(k) PROVE ReportInv'
    BY <2>5 DEF Abandon, RecvReturn, ReportInv, OneRecordPerOperation, TypeOK
  <2>6. ASSUME UNCHANGED <<phase, start, emitted>> PROVE ReportInv'
    BY <2>6 DEF ReportInv, OneRecordPerOperation
  <2>7. ASSUME NEW k \in Key, Answer(k) \/ Tracepoint(k) \/ Submit(k) PROVE ReportInv'
    BY <2>6, <2>7 DEF Answer, Tracepoint, Submit
  <2>8. CASE Read \/ Detach \/ ClockTick \/ UNCHANGED vars
    BY <2>6, <2>8 DEF Read, Detach, ClockTick, vars
  <2>9. QED
    BY <2>2, <2>3, <2>4, <2>5, <2>7, <2>8 DEF Next, Hook, Detached
<1>3. ReportInv => OneRecordPerOperation
  BY DEF ReportInv
<1>4. QED
  BY <1>1, <1>2, <1>3, TypeCorrect, PTL DEF Spec

---------------------------------------------------------------------------
(* The numbers of the records tried, taken, waiting and lost. *)
QueueInv == FifoDelivery /\ read <= attempts

(* Every step keeps the order of the numbers. *)
LEMMA QueueHolds == Spec => []QueueInv
<1>1. Init => QueueInv
  BY DEF Init, QueueInv, FifoDelivery, InRing
<1>2. TypeOK /\ QueueInv /\ [Next]_vars => QueueInv'
  <2> SUFFICES ASSUME TypeOK, QueueInv, [Next]_vars PROVE QueueInv'
    OBVIOUS
  <2> USE DEF taskVars, ringVars
  <2>1. ASSUME NEW k \in Key, NEW from \in Nat, NEW since \in Nat, Reserve(k, from, since),
               UNCHANGED read
        PROVE  QueueInv'
    <3>1. /\ \A i \in DOMAIN ring' :
               \/ i \in DOMAIN ring /\ ring'[i] = ring[i]
               \/ i = Len(ring) + 1 /\ ring'[i].n = attempts + 1
          /\ \A i \in DOMAIN ring : i \in DOMAIN ring' /\ ring'[i] = ring[i]
          /\ attempts' = attempts + 1 /\ lost \subseteq lost'
          /\ \/ attempts + 1 \in lost'
             \/ Len(ring) + 1 \in DOMAIN ring' /\ ring'[Len(ring) + 1].n = attempts + 1
      BY <2>1, ReservedRecords
    <3>2. ring \in Seq(Record) /\ attempts \in Nat /\ read \in Nat
      BY DEF TypeOK
    <3>3. \A i \in DOMAIN ring : i \in 1..Len(ring) /\ ring[i].n \in Nat
      BY RecordNumbers
    <3>4. \A i, j \in DOMAIN ring' : i < j => ring'[i].n < ring'[j].n
      BY <3>1, <3>2, <3>3 DEF QueueInv, FifoDelivery
    <3>5. \A i \in DOMAIN ring' : read' < ring'[i].n /\ ring'[i].n <= attempts'
      BY <2>1, <3>1, <3>2, <3>3 DEF QueueInv, FifoDelivery
    <3>6. ASSUME NEW n \in 1..attempts' PROVE n <= read' \/ n \in lost' \/ InRing(n)'
      <4>1. CASE n \in 1..attempts
        BY <2>1, <3>1, <4>1 DEF QueueInv, FifoDelivery, InRing
      <4>2. CASE n = attempts + 1
        BY <3>1, <4>2 DEF InRing
      <4>3. QED
        BY <3>1, <3>2, <4>1, <4>2
    <3>7. read' <= attempts'
      BY <2>1, <3>1, <3>2 DEF QueueInv
    <3>8. QED
      BY <3>4, <3>5, <3>6, <3>7 DEF QueueInv, FifoDelivery
  <2>2. ASSUME UNCHANGED <<ring, attempts, lost, read>> PROVE QueueInv'
    BY <2>2 DEF QueueInv, FifoDelivery, InRing
  <2>3. ASSUME NEW k \in Key, Exit(k) \/ RecvCall(k) PROVE QueueInv'
    <3>1. EndHook(k) /\ UNCHANGED read
      BY <2>3 DEF Exit, RecvCall
    <3>2. start[k] \in Nat /\ began[k] \in Nat
      BY DEF TypeOK
    <3>3. CASE Reserve(k, start[k], began[k])
      BY <2>1, <3>1, <3>2, <3>3
    <3>4. CASE UNCHANGED ringVars
      BY <2>2, <3>1, <3>4
    <3>5. QED
      BY <3>1, <3>3, <3>4 DEF EndHook
  <2>4. ASSUME NEW k \in Key, Tracepoint(k) PROVE QueueInv'
    <3>1. PICK delay \in 0..(now - 1) : Reserve(k, now - delay, now - delay)
      BY <2>4 DEF Tracepoint
    <3>2. now - delay \in Nat
      BY <3>1 DEF TypeOK
    <3>3. QED
      BY <2>1, <2>4, <3>1, <3>2 DEF Tracepoint
  <2>5. CASE Read
    <3>1. /\ ring \in Seq(Record) /\ ring # << >> /\ ring' = Tail(ring) /\ read' = ring[1].n
          /\ UNCHANGED <<attempts, lost>> /\ attempts \in Nat /\ read \in Nat
      BY <2>5 DEF Read, TypeOK
    <3>2. /\ 1 \in DOMAIN ring
          /\ \A i \in DOMAIN ring' : i + 1 \in DOMAIN ring /\ ring'[i] = ring[i + 1]
          /\ \A i \in DOMAIN ring \ {1} : i - 1 \in DOMAIN ring' /\ ring'[i - 1] = ring[i]
      BY <3>1
    <3>3. \A i \in DOMAIN ring : i \in 1..Len(ring) /\ ring[i].n \in Nat
      BY RecordNumbers
    <3>4. \A i, j \in DOMAIN ring' : i < j => ring'[i].n < ring'[j].n
      BY <3>1, <3>2, <3>3 DEF QueueInv, FifoDelivery
    <3>5. \A i \in DOMAIN ring' : read' < ring'[i].n /\ ring'[i].n <= attempts'
      BY <3>1, <3>2, <3>3 DEF QueueInv, FifoDelivery
    <3>6. ASSUME NEW n \in 1..attempts' PROVE n <= read' \/ n \in lost' \/ InRing(n)'
      <4>1. n <= read \/ n \in lost \/ InRing(n)
        BY <3>1 DEF QueueInv, FifoDelivery
      <4>2. CASE n <= read
        BY <3>1, <3>2, <3>3, <4>2 DEF QueueInv, FifoDelivery
      <4>3. CASE n \in lost
        BY <3>1, <4>3
      <4>4. CASE InRing(n)
        <5>1. PICK i \in DOMAIN ring : ring[i].n = n
          BY <4>4 DEF InRing
        <5>2. CASE i = 1
          BY <3>1, <3>3, <5>1, <5>2
        <5>3. CASE i # 1
          BY <3>2, <5>1, <5>3 DEF InRing
        <5>4. QED
          BY <5>2, <5>3
      <4>5. QED
        BY <4>1, <4>2, <4>3, <4>4
    <3>7. read' <= attempts'
      BY <3>1, <3>2, <3>3 DEF QueueInv, FifoDelivery
    <3>8. QED
      BY <3>4, <3>5, <3>6, <3>7 DEF QueueInv, FifoDelivery
  <2>6. ASSUME NEW k \in Key,
               Enter(k) \/ Abandon(k) \/ Send(k) \/ Answer(k) \/ RecvReturn(k) \/ Submit(k)
        PROVE  QueueInv'
    BY <2>2, <2>6 DEF Enter, Abandon, Send, Answer, RecvReturn, Submit
  <2>7. CASE Detach \/ ClockTick \/ UNCHANGED vars
    BY <2>2, <2>7 DEF Detach, ClockTick, vars
  <2>8. QED
    BY <2>3, <2>4, <2>5, <2>6, <2>7 DEF Next, Hook, Detached
<1>3. QED
  BY <1>1, <1>2, TypeCorrect, PTL DEF Spec

(* Records are taken in the order they were reserved in, and none is unaccounted for. *)
THEOREM DeliveredInOrder == Spec => []FifoDelivery
<1>1. QueueInv => FifoDelivery
  BY DEF QueueInv
<1>2. QED
  BY <1>1, QueueHolds, PTL

---------------------------------------------------------------------------
(* The records by their numbers alone: what an abstract ring holds. *)
Numbered == [i \in DOMAIN ring |-> ring[i].n]
Queue == INSTANCE ProbeRing WITH Slots <- RingSlots, made <- attempts, ring <- Numbered,
                                 putting <- attached, reading <- attached

(* Reserving is one step of the abstract ring: the number goes in, or is lost. *)
LEMMA ReserveIsPut ==
  ASSUME TypeOK, NEW k \in Key, NEW from \in Nat, NEW since \in Nat, Reserve(k, from, since),
         attached, UNCHANGED attached
  PROVE  Queue!Put
<1> DEFINE r == [n |-> attempts + 1, from |-> from, began |-> since, answered |-> answered[k]]
<1>1. r \in Record /\ r.n = attempts + 1 /\ attempts + 1 \in Nat
  BY DEF TypeOK, Record
<1>2. ring \in Seq(Record) /\ Len(ring) \in Nat /\ DOMAIN ring = 1..Len(ring)
  BY DEF TypeOK
<1>3. Numbered \in Seq(Nat) /\ Len(Numbered) = Len(ring)
  <2>1. \A i \in 1..Len(ring) : ring[i].n \in Nat
    BY <1>2, RecordNumbers
  <2>2. QED
    BY <1>2, <2>1 DEF Numbered
<1>4. /\ attempts' = attempts + 1
      /\ \/ Len(ring) < RingSlots /\ ring' = Append(ring, r)
         \/ Len(ring) = RingSlots /\ ring' = ring
  BY DEF Reserve
<1> HIDE DEF r
<1>5. CASE Len(ring) < RingSlots /\ ring' = Append(ring, r)
  <2>1. /\ DOMAIN ring' = 1..(Len(ring) + 1) /\ ring'[Len(ring) + 1] = r
        /\ \A i \in 1..Len(ring) : ring'[i] = ring[i]
    BY <1>1, <1>2, <1>5
  <2>2. Numbered' = [i \in 1..(Len(ring) + 1) |-> ring'[i].n]
    BY <2>1 DEF Numbered
  <2>3. Append(Numbered, attempts + 1)
          = [i \in 1..(Len(ring) + 1) |-> IF i = Len(ring) + 1 THEN attempts + 1 ELSE Numbered[i]]
    BY <1>1, <1>2, <1>3
  <2>4. \A i \in 1..(Len(ring) + 1) :
          ring'[i].n = IF i = Len(ring) + 1 THEN attempts + 1 ELSE Numbered[i]
    <3>1. ASSUME NEW i \in 1..(Len(ring) + 1)
          PROVE  ring'[i].n = IF i = Len(ring) + 1 THEN attempts + 1 ELSE Numbered[i]
      <4>1. CASE i = Len(ring) + 1
        BY <1>1, <2>1, <4>1
      <4>2. CASE i # Len(ring) + 1
        <5>1. i \in 1..Len(ring)
          BY <1>2, <4>2
        <5>2. QED
          BY <1>2, <2>1, <4>2, <5>1 DEF Numbered
      <4>3. QED
        BY <4>1, <4>2
    <3>2. QED
      BY <3>1
  <2>5. Numbered' = Append(Numbered, attempts + 1)
    BY <2>2, <2>3, <2>4
  <2>6. QED
    BY <1>3, <1>4, <1>5, <2>5 DEF Queue!Put
<1>6. CASE Len(ring) = RingSlots /\ ring' = ring
  BY <1>3, <1>4, <1>6 DEF Queue!Put, Numbered
<1>7. QED
  BY <1>4, <1>5, <1>6

(* A tail is the same sequence, one place further on. *)
LEMMA TailNumbers ==
  ASSUME NEW q \in Seq(Nat), q # << >>
  PROVE  Tail(q) = [i \in 1..(Len(q) - 1) |-> q[i + 1]]
<1> DEFINE t == Tail(q)
<1>1. t \in Seq(Nat) /\ Len(t) = Len(q) - 1 /\ \A i \in 1..(Len(q) - 1) : t[i] = q[i + 1]
  OBVIOUS
<1> HIDE DEF t
<1>2. t = [i \in 1..Len(t) |-> t[i]]
  BY <1>1
<1>3. QED
  BY <1>1, <1>2 DEF t

(* Taking the record in front is one step of the abstract ring. *)
LEMMA ReadIsTake ==
  ASSUME TypeOK, Read
  PROVE  Queue!Take
<1>1. /\ ring \in Seq(Record) /\ Len(ring) \in Nat /\ DOMAIN ring = 1..Len(ring)
      /\ ring # << >> /\ ring' = Tail(ring) /\ attached /\ UNCHANGED <<attempts, attached>>
  BY DEF TypeOK, Read
<1>2. /\ DOMAIN ring' = 1..(Len(ring) - 1) /\ Len(ring) >= 1
      /\ \A i \in 1..(Len(ring) - 1) : ring'[i] = ring[i + 1]
  BY <1>1
<1>3. Numbered \in Seq(Nat) /\ Len(Numbered) = Len(ring) /\ Numbered # << >>
  <2>1. \A i \in 1..Len(ring) : ring[i].n \in Nat
    BY <1>1, RecordNumbers
  <2>2. Numbered \in Seq(Nat) /\ Len(Numbered) = Len(ring)
    BY <1>1, <2>1 DEF Numbered
  <2>3. QED
    BY <1>2, <2>2
<1>4. Tail(Numbered) = [i \in 1..(Len(ring) - 1) |-> Numbered[i + 1]]
  BY <1>3, TailNumbers
<1>5. \A i \in 1..(Len(ring) - 1) : Numbered[i + 1] = ring'[i].n
  <2>1. \A i \in 1..(Len(ring) - 1) : i + 1 \in 1..Len(ring)
    BY <1>1
  <2>2. QED
    BY <1>1, <1>2, <2>1 DEF Numbered
<1>6. Numbered' = [i \in 1..(Len(ring) - 1) |-> ring'[i].n]
  BY <1>2 DEF Numbered
<1>7. Numbered' = Tail(Numbered)
  BY <1>4, <1>5, <1>6
<1>8. QED
  BY <1>1, <1>3, <1>7 DEF Queue!Take

(* What the abstract ring does not see. *)
QueueStill == UNCHANGED <<ring, attempts, attached>>

(* To its user a program with all its hooks is one ring buffer: that tasks interleave      *)
(* between reserving a record and submitting it cannot be told from the ring.              *)
THEOREM ImplementsProbeRing == Spec => Queue!Spec
<1>1. Init => Queue!Init
  <2>1. Init => Numbered = << >>
    BY DEF Init, Numbered
  <2>2. QED
    BY <2>1 DEF Init, Queue!Init
<1>2. TypeOK /\ [Next]_vars => [Queue!Next]_(Queue!ringVars)
  <2> SUFFICES ASSUME TypeOK, [Next]_vars PROVE Queue!Next \/ UNCHANGED Queue!ringVars
    OBVIOUS
  <2> USE DEF taskVars, ringVars
  <2>1. ASSUME QueueStill PROVE UNCHANGED Queue!ringVars
    BY <2>1 DEF QueueStill, Numbered, Queue!ringVars
  <2>2. ASSUME NEW k \in Key, Exit(k) \/ RecvCall(k)
        PROVE  Queue!Next \/ UNCHANGED Queue!ringVars
    <3>1. EndHook(k) /\ attached /\ UNCHANGED attached
      BY <2>2 DEF Exit, RecvCall, Task
    <3>2. start[k] \in Nat /\ began[k] \in Nat
      BY DEF TypeOK
    <3>3. CASE Reserve(k, start[k], began[k])
      BY <3>1, <3>2, <3>3, ReserveIsPut DEF Queue!Next
    <3>4. CASE UNCHANGED ringVars
      BY <2>1, <3>1, <3>4 DEF QueueStill
    <3>5. QED
      BY <3>1, <3>3, <3>4 DEF EndHook
  <2>3. ASSUME NEW k \in Key, Tracepoint(k) PROVE Queue!Next
    <3>1. PICK delay \in 0..(now - 1) : Reserve(k, now - delay, now - delay)
      BY <2>3 DEF Tracepoint
    <3>2. now - delay \in Nat
      BY <3>1 DEF TypeOK
    <3>3. attached /\ UNCHANGED attached
      BY <2>3 DEF Tracepoint, Task
    <3>4. QED
      BY <3>1, <3>2, <3>3, ReserveIsPut DEF Queue!Next
  <2>4. CASE Read
    BY <2>4, ReadIsTake DEF Queue!Next
  <2>5. CASE Detach
    <3>1. attached /\ attached' = FALSE /\ UNCHANGED <<ring, attempts>>
      BY <2>5 DEF Detach
    <3>2. QED
      BY <3>1 DEF Queue!Next, Queue!Close, Numbered
  <2>6. ASSUME NEW k \in Key,
               Enter(k) \/ Abandon(k) \/ Send(k) \/ Answer(k) \/ RecvReturn(k) \/ Submit(k)
        PROVE  QueueStill
    BY <2>6 DEF QueueStill, Enter, Abandon, Send, Answer, RecvReturn, Submit
  <2>7. CASE ClockTick \/ UNCHANGED vars
    BY <2>1, <2>7 DEF QueueStill, ClockTick, vars
  <2>8. QED
    BY <2>1, <2>2, <2>3, <2>4, <2>5, <2>6, <2>7 DEF Next, Hook, Detached
<1>3. QED
  BY <1>1, <1>2, TypeCorrect, PTL DEF Spec, Queue!Spec

(* A step counts one attempt, or takes one record further on, or does neither. *)
LEMMA CountersStep ==
  ASSUME TypeOK, QueueInv, [Next]_vars
  PROVE  \/ UNCHANGED <<attempts, read>>
         \/ attempts' = attempts + 1 /\ UNCHANGED read
         \/ read' \in (read + 1)..attempts /\ UNCHANGED attempts
<1> USE DEF taskVars, ringVars
<1>1. ASSUME NEW k \in Key, Exit(k) \/ RecvCall(k) \/ Tracepoint(k)
      PROVE  UNCHANGED read /\ (attempts' = attempts \/ attempts' = attempts + 1)
  BY <1>1 DEF Exit, RecvCall, Tracepoint, EndHook, Reserve
<1>2. ASSUME NEW k \in Key,
             Enter(k) \/ Abandon(k) \/ Send(k) \/ Answer(k) \/ RecvReturn(k) \/ Submit(k)
      PROVE  UNCHANGED <<attempts, read>>
  BY <1>2 DEF Enter, Abandon, Send, Answer, RecvReturn, Submit
<1>3. CASE Read
  <2>1. ring \in Seq(Record) /\ ring # << >> /\ read' = ring[1].n /\ UNCHANGED attempts
    BY <1>3 DEF Read, TypeOK
  <2>2. 1 \in DOMAIN ring
    BY <2>1
  <2>3. read \in Nat /\ attempts \in Nat /\ ring[1].n \in Nat
    BY <2>2, RecordNumbers DEF TypeOK
  <2>4. QED
    BY <2>1, <2>2, <2>3 DEF QueueInv, FifoDelivery
<1>4. CASE Detach \/ ClockTick \/ UNCHANGED vars
  BY <1>4 DEF Detach, ClockTick, vars
<1>5. QED
  BY <1>1, <1>2, <1>3, <1>4 DEF Next, Hook, Detached

(* The program as a feed of one source, whose numbers are the attempts. *)
Feed == INSTANCE LossyFeed WITH Source <- {"program"},
                                made <- [s \in {"program"} |-> attempts],
                                got <- [s \in {"program"} |-> read]

(* User space is given the records of a program in the order of their reservations, none   *)
(* twice and none that was lost: one slow hook cannot put two records out of order.        *)
THEOREM ImplementsLossyFeed == Spec => Feed!Spec
<1>1. Init => Feed!Init
  BY DEF Init, Feed!Init
<1>2. TypeOK /\ QueueInv /\ [Next]_vars
        => [Feed!Next]_<<[s \in {"program"} |-> attempts], [s \in {"program"} |-> read]>>
  <2> DEFINE made == [s \in {"program"} |-> attempts]
             got == [s \in {"program"} |-> read]
  <2> SUFFICES ASSUME TypeOK, QueueInv, [Next]_vars
               PROVE  Feed!Next \/ UNCHANGED <<made, got>>
    OBVIOUS
  <2>1. CASE UNCHANGED <<attempts, read>>
    BY <2>1
  <2>2. CASE attempts' = attempts + 1 /\ UNCHANGED read
    <3>1. made' = [made EXCEPT !["program"] = @ + 1] /\ UNCHANGED got
      BY <2>2
    <3>2. QED
      BY <3>1 DEF Feed!Next, Feed!Make
  <2>3. CASE read' \in (read + 1)..attempts /\ UNCHANGED attempts
    <3>1. /\ read' \in (got["program"] + 1)..made["program"]
          /\ got' = [got EXCEPT !["program"] = read'] /\ UNCHANGED made
      BY <2>3
    <3>2. QED
      BY <3>1 DEF Feed!Next, Feed!Get
  <2>4. QED
    BY <2>1, <2>2, <2>3, CountersStep
<1>3. QED
  BY <1>1, <1>2, TypeCorrect, QueueHolds, PTL DEF Spec, Feed!Spec

---------------------------------------------------------------------------
(* What a hook has reserved and not submitted is in the ring, and no two hooks hold one     *)
(* record.                                                                                 *)
HoldInv ==
  \A k \in Key : holding[k] # 0 =>
    /\ InRing(holding[k])
    /\ \A j \in Key \ {k} : holding[j] # holding[k]

(* The number of a record in the ring lies between what was read and what was tried. *)
LEMMA InRingBounds ==
  ASSUME TypeOK, QueueInv, NEW n, InRing(n)
  PROVE  n \in 1..attempts /\ read < n
<1>1. PICK i \in DOMAIN ring : ring[i].n = n
  BY DEF InRing
<1>2. n \in Nat /\ read < n /\ n <= attempts /\ read \in Nat /\ attempts \in Nat
  BY <1>1, RecordNumbers DEF QueueInv, FifoDelivery, TypeOK
<1>3. QED
  BY <1>2

(* What a reservation adds to the numbers in the ring and in the hooks. *)
LEMMA ReservedNumbers ==
  ASSUME TypeOK, NEW k \in Key, NEW from \in Nat, NEW since \in Nat, Reserve(k, from, since)
  PROVE  /\ \A n : InRing(n)' <=> InRing(n) \/ (n = attempts + 1 /\ ring' # ring)
         /\ \/ holding' = holding
            \/ ring' # ring /\ holding' = [holding EXCEPT ![k] = attempts + 1]
<1>1. ring \in Seq(Record) /\ holding \in [Key -> Nat]
  BY DEF TypeOK
<1>2. CASE ring' = ring /\ holding' = holding
  BY <1>2 DEF InRing
<1>3. CASE ring' # ring \/ holding' # holding
  <2> DEFINE r == [n |-> attempts + 1, from |-> from, began |-> since, answered |-> answered[k]]
  <2>1. ring' = Append(ring, r) /\ holding' = [holding EXCEPT ![k] = attempts + 1]
    BY <1>3 DEF Reserve
  <2>2. r \in Record /\ r.n = attempts + 1
    BY DEF TypeOK, Record
  <2> HIDE DEF r
  <2>3. /\ ring' # ring /\ Len(ring) + 1 \in DOMAIN ring' /\ ring'[Len(ring) + 1] = r
        /\ \A i \in DOMAIN ring : i \in DOMAIN ring' /\ ring'[i] = ring[i]
        /\ \A i \in DOMAIN ring' : i \in DOMAIN ring \/ i = Len(ring) + 1
    BY <1>1, <2>1, <2>2
  <2>4. QED
    BY <2>1, <2>2, <2>3 DEF InRing
<1>4. QED
  BY <1>2, <1>3

(* The record in front has the smallest number. *)
LEMMA FrontIsOldest ==
  ASSUME TypeOK, QueueInv, NEW n, InRing(n)
  PROVE  InRing(Head(ring).n) /\ Head(ring).n \in 1..n
<1>1. PICK i \in DOMAIN ring : ring[i].n = n
  BY DEF InRing
<1>2. ring \in Seq(Record) /\ 1 \in DOMAIN ring /\ Head(ring) = ring[1] /\ (i = 1 \/ 1 < i)
  BY <1>1 DEF TypeOK
<1>3. n \in Nat /\ ring[1].n \in Nat /\ (i = 1 \/ ring[1].n < n)
  BY <1>1, <1>2, RecordNumbers DEF QueueInv, FifoDelivery
<1>4. InRing(ring[1].n) /\ ring[1].n >= 1
  <2>1. InRing(ring[1].n)
    BY <1>2 DEF InRing
  <2>2. QED
    BY <2>1, InRingBounds
<1>5. QED
  BY <1>1, <1>2, <1>3, <1>4

(* What reading takes away: the number in front, and no other one. *)
LEMMA ReadNumbers ==
  ASSUME TypeOK, QueueInv, Read
  PROVE  /\ InRing(Head(ring).n) /\ holding' = holding
         /\ \A n : InRing(n)' <=> InRing(n) /\ n # Head(ring).n
         /\ \A n : InRing(n) => Head(ring).n <= n
<1>1. /\ ring \in Seq(Record) /\ ring # << >> /\ ring' = Tail(ring) /\ holding' = holding
  BY DEF Read, TypeOK
<1>2. /\ 1 \in DOMAIN ring /\ Head(ring) = ring[1]
      /\ \A i \in DOMAIN ring' : i + 1 \in DOMAIN ring /\ ring'[i] = ring[i + 1] /\ 1 < i + 1
      /\ \A i \in DOMAIN ring \ {1} : i - 1 \in DOMAIN ring' /\ ring'[i - 1] = ring[i] /\ 1 < i
  BY <1>1
<1>3. \A i \in DOMAIN ring : i \in Nat /\ ring[i].n \in Nat /\ (1 < i => ring[1].n < ring[i].n)
  BY <1>2, RecordNumbers DEF QueueInv, FifoDelivery
<1>4. \A n : InRing(n)' <=> InRing(n) /\ n # Head(ring).n
  <2>1. ASSUME NEW n, InRing(n)' PROVE InRing(n) /\ n # Head(ring).n
    <3>1. PICK i \in DOMAIN ring' : ring'[i].n = n
      BY <2>1 DEF InRing
    <3>2. i + 1 \in DOMAIN ring /\ ring[i + 1].n = n /\ 1 < i + 1
      BY <1>2, <3>1
    <3>3. ring[1].n < n /\ ring[1].n \in Nat
      BY <1>2, <1>3, <3>2
    <3>4. QED
      BY <1>2, <3>2, <3>3 DEF InRing
  <2>2. ASSUME NEW n, InRing(n), n # Head(ring).n PROVE InRing(n)'
    <3>1. PICK i \in DOMAIN ring : ring[i].n = n
      BY <2>2 DEF InRing
    <3>2. i # 1
      BY <1>2, <2>2, <3>1
    <3>3. QED
      BY <1>2, <3>1, <3>2 DEF InRing
  <2>3. QED
    BY <2>1, <2>2
<1>5. ASSUME NEW n, InRing(n) PROVE Head(ring).n <= n
  BY <1>5, FrontIsOldest
<1>6. QED
  BY <1>1, <1>2, <1>4, <1>5 DEF InRing

(* All steps sorted by what they do to the ring and to the reservations. *)
RingStill == UNCHANGED <<ring, holding>>
Reserves(k) ==
  \E from, since \in Nat : Reserve(k, from, since) /\ holding[k] = 0

(* A step leaves the ring, reads from it, submits a record of it or reserves one.         *)
LEMMA RingSteps ==
  ASSUME TypeOK, [Next]_vars
  PROVE  RingStill \/ Read \/ \E k \in Key : Submit(k) \/ Reserves(k)
<1> USE DEF taskVars, ringVars
<1>1. ASSUME NEW k \in Key, Exit(k) \/ RecvCall(k) PROVE RingStill \/ Reserves(k)
  <2>1. EndHook(k) /\ holding[k] = 0 /\ start[k] \in Nat /\ began[k] \in Nat
    BY <1>1 DEF Exit, RecvCall, Task, TypeOK
  <2>2. QED
    BY <2>1 DEF EndHook, Reserves, RingStill
<1>2. ASSUME NEW k \in Key, Tracepoint(k) PROVE Reserves(k)
  <2>1. PICK delay \in 0..(now - 1) : Reserve(k, now - delay, now - delay)
    BY <1>2 DEF Tracepoint
  <2>2. now - delay \in Nat /\ holding[k] = 0
    BY <1>2, <2>1 DEF TypeOK, Tracepoint, Task
  <2>3. QED
    BY <2>1, <2>2 DEF Reserves
<1>3. ASSUME NEW k \in Key, Enter(k) \/ Abandon(k) \/ Send(k) \/ Answer(k) \/ RecvReturn(k)
      PROVE  RingStill
  BY <1>3 DEF RingStill, Enter, Abandon, Send, Answer, RecvReturn
<1>4. CASE Detach \/ ClockTick \/ UNCHANGED vars
  BY <1>4 DEF RingStill, Detach, ClockTick, vars
<1>5. QED
  BY <1>1, <1>2, <1>3, <1>4 DEF Next, Hook, Detached

(* A record stays in the ring, and held, until its hook submits it.                        *)
LEMMA HoldStep == TypeOK /\ QueueInv /\ HoldInv /\ [Next]_vars => HoldInv'
<1> SUFFICES ASSUME TypeOK, QueueInv, HoldInv, [Next]_vars PROVE HoldInv'
  OBVIOUS
<1>0. holding \in [Key -> Nat] /\ attempts \in Nat
  BY DEF TypeOK
<1>1. CASE RingStill
  BY <1>1 DEF RingStill, HoldInv, InRing
<1>2. CASE Read
  <2>1. \A k \in Key : holding[k] # Head(ring).n
    BY <1>2 DEF Read
  <2>2. QED
    BY <1>2, <2>1, ReadNumbers DEF HoldInv
<1>3. ASSUME NEW k \in Key, Submit(k) PROVE HoldInv'
  <2>1. UNCHANGED ring /\ holding' = [holding EXCEPT ![k] = 0]
    BY <1>3 DEF Submit, ringVars, taskVars
  <2>2. \A n : InRing(n)' <=> InRing(n)
    BY <2>1 DEF InRing
  <2>3. QED
    BY <1>0, <2>1, <2>2 DEF HoldInv
<1>4. ASSUME NEW k \in Key, Reserves(k) PROVE HoldInv'
  <2>1. PICK from, since \in Nat : Reserve(k, from, since)
    BY <1>4 DEF Reserves
  <2>2. /\ \A n : InRing(n)' <=> InRing(n) \/ (n = attempts + 1 /\ ring' # ring)
        /\ \/ holding' = holding
           \/ ring' # ring /\ holding' = [holding EXCEPT ![k] = attempts + 1]
    BY <2>1, ReservedNumbers
  <2>3. CASE holding' = holding
    BY <2>2, <2>3 DEF HoldInv
  <2>4. CASE ring' # ring /\ holding' = [holding EXCEPT ![k] = attempts + 1]
    <3>1. PICK m \in Nat : m = attempts + 1
      BY <1>0
    <3>2. holding'[k] = m /\ \A j \in Key \ {k} : holding'[j] = holding[j]
      BY <1>0, <2>4, <3>1
    <3>3. ~InRing(m)
      <4>1. ASSUME InRing(m) PROVE m \in 1..attempts
        BY <4>1, InRingBounds
      <4>2. QED
        BY <1>0, <3>1, <4>1
    <3>4. \A j \in Key : holding[j] # m
      BY <1>0, <3>1, <3>3 DEF HoldInv
    <3>5. InRing(m)' /\ \A n : InRing(n) => InRing(n)'
      BY <2>2, <2>4, <3>1
    <3>6. QED
      BY <3>2, <3>4, <3>5 DEF HoldInv
  <2>5. QED
    BY <2>2, <2>3, <2>4
<1>5. QED
  BY <1>1, <1>2, <1>3, <1>4, RingSteps

(* A reserved record stays in the ring, and its hook's own, until that hook submits it:    *)
(* the reader never takes memory that a hook still writes.                                 *)
THEOREM ReservedStay == Spec => []HoldInv
<1>1. Init => HoldInv
  BY DEF Init, HoldInv
<1>2. QED
  BY <1>1, HoldStep, TypeCorrect, QueueHolds, PTL DEF Spec

---------------------------------------------------------------------------
(* What is between the reader and record n: the records up to it that wait, and those of   *)
(* them that are not submitted.                                                            *)
Waiting(n) == { m \in 1..n : InRing(m) }
Unsubmitted(n) == { m \in 1..n : \E k \in Key : holding[k] = m }
Work(n) == Cardinality(Waiting(n)) + Cardinality(Unsubmitted(n))

(* While a record waits, no step puts anything more between it and the reader: not a       *)
(* reservation, and not a hook that nests.  Each read and each submission of a record that *)
(* is not behind it brings it nearer, and one of the two can always be done.               *)
ComesNearer ==
  \A n \in Nat : InRing(n) =>
    /\ Work(n)' <= Work(n)
    /\ Read => Work(n)' < Work(n)
    /\ \A k \in Key : Submit(k) /\ holding[k] <= n => Work(n)' < Work(n)
FrontMoves ==
  \A n \in Nat : InRing(n) =>
    \/ \A k \in Key : holding[k] # Head(ring).n
    \/ \E k \in Key : holding[k] \in 1..n

(* A part of an initial interval counts less than another one it is a proper part of. *)
LEMMA PartCounts ==
  ASSUME NEW n \in Nat, NEW A \in SUBSET (1..n), NEW B \in SUBSET A
  PROVE  /\ Cardinality(A) \in Nat /\ Cardinality(B) \in Nat /\ Cardinality(B) <= Cardinality(A)
         /\ B # A => Cardinality(B) < Cardinality(A)
<1>1. IsFiniteSet(1..n)
  BY FS_Interval
<1>2. IsFiniteSet(A)
  BY <1>1, FS_Subset
<1>3. IsFiniteSet(B) /\ Cardinality(B) <= Cardinality(A)
      /\ (Cardinality(A) = Cardinality(B) => A = B)
  BY <1>2, FS_Subset
<1>4. Cardinality(A) \in Nat /\ Cardinality(B) \in Nat
  BY <1>2, <1>3, FS_CardinalityType
<1>5. QED
  BY <1>3, <1>4

(* The work shrinks with its two sets. *)
LEMMA WorkOfParts ==
  ASSUME NEW n \in Nat, Waiting(n)' \subseteq Waiting(n), Unsubmitted(n)' \subseteq Unsubmitted(n)
  PROVE  /\ Work(n)' <= Work(n) /\ Work(n) \in Nat /\ Work(n)' \in Nat
         /\ Waiting(n)' # Waiting(n) \/ Unsubmitted(n)' # Unsubmitted(n) => Work(n)' < Work(n)
<1>1. Waiting(n) \in SUBSET (1..n) /\ Unsubmitted(n) \in SUBSET (1..n)
  BY DEF Waiting, Unsubmitted
<1> DEFINE a == Cardinality(Waiting(n))
           b == Cardinality(Unsubmitted(n))
           c == Cardinality(Waiting(n)')
           d == Cardinality(Unsubmitted(n)')
<1>2. a \in Nat /\ c \in Nat /\ c <= a /\ (Waiting(n)' # Waiting(n) => c < a)
  BY <1>1, PartCounts
<1>3. b \in Nat /\ d \in Nat /\ d <= b /\ (Unsubmitted(n)' # Unsubmitted(n) => d < b)
  BY <1>1, PartCounts
<1>4. Work(n) = a + b /\ Work(n)' = c + d
  BY DEF Work
<1> HIDE DEF a, b, c, d
<1>5. QED
  BY <1>2, <1>3, <1>4

(* No step takes a record of the ring further from the reader, and a read or a submit of   *)
(* one before it brings it nearer.                                                         *)
LEMMA NearerStep == TypeOK /\ QueueInv /\ HoldInv /\ [Next]_vars => ComesNearer
<1> SUFFICES ASSUME TypeOK, QueueInv, HoldInv, [Next]_vars, NEW n \in Nat, InRing(n)
             PROVE  /\ Work(n)' <= Work(n)
                    /\ Read => Work(n)' < Work(n)
                    /\ \A k \in Key : Submit(k) /\ holding[k] <= n => Work(n)' < Work(n)
  BY DEF ComesNearer
<1>0. n \in 1..attempts /\ holding \in [Key -> Nat] /\ attempts \in Nat
  BY InRingBounds DEF TypeOK
<1>1. ASSUME Read PROVE Work(n)' < Work(n) /\ Work(n)' <= Work(n)
  <2>1. Unsubmitted(n)' = Unsubmitted(n)
    BY <1>1, ReadNumbers DEF Unsubmitted
  <2>2. Head(ring).n \in 1..n
    <3>1. Head(ring).n \in 1..attempts /\ Head(ring).n <= n
      BY <1>1, ReadNumbers, InRingBounds
    <3>2. QED
      BY <3>1
  <2>3. Waiting(n)' \subseteq Waiting(n) /\ Head(ring).n \in Waiting(n) \ Waiting(n)'
    BY <1>1, <2>2, ReadNumbers DEF Waiting
  <2>4. QED
    BY <2>1, <2>3, WorkOfParts
<1>2. ASSUME NEW k \in Key, Submit(k)
      PROVE  Work(n)' <= Work(n) /\ (holding[k] <= n => Work(n)' < Work(n))
  <2>1. holding[k] # 0 /\ UNCHANGED ring /\ holding' = [holding EXCEPT ![k] = 0]
    BY <1>2 DEF Submit, ringVars, taskVars
  <2>2. holding'[k] = 0 /\ \A j \in Key \ {k} : holding'[j] = holding[j]
    BY <1>0, <2>1
  <2>3. Waiting(n)' = Waiting(n)
    BY <2>1 DEF Waiting, InRing
  <2>4. Unsubmitted(n)' \subseteq Unsubmitted(n)
    <3>1. ASSUME NEW m \in 1..n, NEW j \in Key, holding'[j] = m PROVE holding[j] = m
      BY <2>2, <3>1
    <3>2. QED
      BY <3>1 DEF Unsubmitted
  <2>5. holding[k] <= n => holding[k] \in Unsubmitted(n) \ Unsubmitted(n)'
    <3>1. SUFFICES ASSUME holding[k] <= n PROVE holding[k] \in Unsubmitted(n) \ Unsubmitted(n)'
      OBVIOUS
    <3>2. holding[k] \in 1..n
      BY <1>0, <2>1, <3>1
    <3>3. \A j \in Key : holding'[j] # holding[k]
      BY <2>1, <2>2 DEF HoldInv
    <3>4. QED
      BY <3>2, <3>3 DEF Unsubmitted
  <2>6. QED
    BY <2>3, <2>4, <2>5, WorkOfParts
<1>3. ASSUME NEW k \in Key, Reserves(k) PROVE Work(n)' <= Work(n)
  <2>1. PICK from, since \in Nat : Reserve(k, from, since)
    BY <1>3 DEF Reserves
  <2>2. /\ \A m : InRing(m)' <=> InRing(m) \/ (m = attempts + 1 /\ ring' # ring)
        /\ \/ holding' = holding
           \/ ring' # ring /\ holding' = [holding EXCEPT ![k] = attempts + 1]
    BY <2>1, ReservedNumbers
  <2>3. attempts + 1 \notin 1..n
    BY <1>0
  <2>4. Waiting(n)' = Waiting(n)
    BY <2>2, <2>3 DEF Waiting
  <2>5. Unsubmitted(n)' \subseteq Unsubmitted(n)
    <3>1. ASSUME NEW m \in 1..n, NEW j \in Key, holding'[j] = m PROVE holding[j] = m
      BY <1>0, <2>2, <2>3, <3>1
    <3>2. QED
      BY <3>1 DEF Unsubmitted
  <2>6. QED
    BY <2>4, <2>5, WorkOfParts
<1>4. ASSUME RingStill PROVE Work(n)' <= Work(n)
  <2>1. Waiting(n)' = Waiting(n) /\ Unsubmitted(n)' = Unsubmitted(n)
    BY <1>4 DEF RingStill, Waiting, Unsubmitted, InRing
  <2>2. QED
    BY <2>1, WorkOfParts
<1>5. Work(n)' <= Work(n)
  BY <1>1, <1>2, <1>3, <1>4, RingSteps
<1>6. QED
  BY <1>1, <1>2, <1>5

(* The safety half of RecordsReachReader: nothing but the scheduling of the reader and of  *)
(* the hooks stands between a record in the ring and user space.                           *)
THEOREM RecordsComeNearer == Spec => [][ComesNearer]_vars /\ []FrontMoves
<1>1. TypeOK /\ QueueInv /\ HoldInv => FrontMoves
  <2> SUFFICES ASSUME TypeOK, QueueInv, NEW n \in Nat, InRing(n),
                      NEW k \in Key, holding[k] = Head(ring).n
               PROVE  \E j \in Key : holding[j] \in 1..n
    BY DEF FrontMoves
  <2>1. Head(ring).n \in 1..n
    BY FrontIsOldest
  <2>2. QED
    BY <2>1
<1>2. QED
  BY <1>1, NearerStep, TypeCorrect, QueueHolds, ReservedStay, PTL DEF Spec
=============================================================================
