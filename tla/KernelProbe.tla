---------------------------- MODULE KernelProbe ----------------------------
(***************************************************************************)
(* One eBPF program of ebpf/c/ while it is attached, the tasks that run    *)
(* into its hooks, its start map and its ring buffer.  All nine programs   *)
(* have one of three shapes: a start hook and an end hook around one       *)
(* operation of a key ("span"), the two UDP hooks of the DNS program       *)
(* ("dns"), and a single hook ("point").  A key is a thread, or a block    *)
(* request's device and sector.  Hooks of different keys interleave; the   *)
(* hooks of one key do not.                                                *)
(***************************************************************************)
EXTENDS Integers, Sequences, FiniteSets

CONSTANTS
  Key,           (* threads, or block requests                              *)
  Programs,      (* the programs of a run: see ProgramAssumption            *)
  MaxEntries,    (* max_entries of the start map                            *)
  RingSlots,     (* records the ring buffer has room for                    *)
  MaxClock,      (* bound: last value of the kernel clock                   *)
  MaxAttempts    (* bound: records the program tries to emit                *)

(* shape: which hooks; nests: the operation may run into the same hooks    *)
(* again (tcp_v6_connect calls tcp_v4_connect for a mapped address);       *)
(* restarts: the start hook may come again before the end hook, as         *)
(* sched_wakeup does for a task that is queued already; threshold:         *)
(* intervals shorter than this are not reported.                           *)
ProgramAssumption ==
  \A p \in Programs :
    p.shape \in {"span", "dns", "point"} /\ p.threshold \in Nat
    /\ p.nests \in BOOLEAN /\ p.restarts \in BOOLEAN
BoundAssumption ==
  MaxEntries \in Nat \ {0} /\ RingSlots \in Nat \ {0} /\ MaxClock \in Nat \ {0}
    /\ MaxAttempts \in Nat
ASSUME KernelAssumption == ProgramAssumption /\ BoundAssumption

(* The programs of ebpf/c.  One unit of the clock is as long as the        *)
(* program's threshold, where it has one.                                  *)
ConnectLatency == [shape |-> "span", nests |-> TRUE, restarts |-> FALSE,
                   threshold |-> 0]
TLSHandshake   == [shape |-> "span", nests |-> FALSE, restarts |-> FALSE,
                   threshold |-> 0]
RunqueueDelay  == [shape |-> "span", nests |-> FALSE, restarts |-> TRUE,
                   threshold |-> 1]  \* 100 us
DiskIOLatency  == [shape |-> "span", nests |-> FALSE, restarts |-> FALSE,
                   threshold |-> 1]  \* 500 us
MemReclaim     == [shape |-> "span", nests |-> FALSE, restarts |-> FALSE,
                   threshold |-> 1]  \* 10 us
SyscallLatency == [shape |-> "span", nests |-> FALSE, restarts |-> FALSE,
                   threshold |-> 1]  \* 1 ms
DNSLatency     == [shape |-> "dns", nests |-> FALSE, restarts |-> FALSE,
                   threshold |-> 0]
TCPRetransmit  == [shape |-> "point", nests |-> FALSE, restarts |-> FALSE,
                   threshold |-> 0]
CPUSteal       == [shape |-> "point", nests |-> FALSE, restarts |-> FALSE,
                   threshold |-> 1]  \* 50 us

ToolkitPrograms ==
  {ConnectLatency, TLSHandshake, RunqueueDelay, DiskIOLatency, MemReclaim, SyscallLatency,
   DNSLatency, TCPRetransmit, CPUSteal}

VARIABLES
  program,      (* the program that is attached                              *)
  attached,     (* its links are open                                        *)
  now,          (* bpf_ktime_get_ns                                          *)
  phase,        (* per key: what its task is doing                           *)
  began,        (* per key: when its present operation began                 *)
  answered,     (* per key: the DNS answer it waits for is there             *)
  start,        (* the start map: per key its timestamp, or Absent           *)
  ring,         (* reserved records, oldest first                            *)
  holding,      (* per key: the record its hook has reserved, not submitted  *)
  attempts,     (* records the program has tried to emit                     *)
  lost,         (* history: records bpf_ringbuf_reserve had no room for      *)
  read,         (* the last record user space has taken                      *)
  emitted,      (* history: records tried for the present operation          *)
  abandoned     (* history: keys whose last operation never met its end hook *)

taskVars == <<phase, began, answered, abandoned>>
ringVars == <<ring, holding, attempts, lost>>
vars == <<program, attached, now, taskVars, start, ringVars, emitted, read>>

Absent == 0
Stored == { k \in Key : start[k] # Absent }

Init ==
  /\ program \in Programs
  /\ attached = TRUE
  /\ now = 1
  /\ phase \in [Key -> IF program.shape = "span" THEN {"idle", "outer"} ELSE {"idle"}]
  /\ began = [k \in Key |-> 0]
  /\ answered = [k \in Key |-> FALSE]
  /\ start = [k \in Key |-> Absent]
  /\ ring = << >> /\ holding = [k \in Key |-> 0]
  /\ attempts = 0 /\ lost = {} /\ read = 0
  /\ emitted = [k \in Key |-> 0]
  /\ abandoned = {}

---------------------------------------------------------------------------
(* The BPF helpers the programs call.                                      *)

(* bpf_map_update_elem: a new key needs room in the map; BPF_ANY replaces  *)
(* the value of a key that is there.                                       *)
Update_NoExist(k) ==
  IF start[k] = Absent /\ Cardinality(Stored) < MaxEntries
  THEN start' = [start EXCEPT ![k] = now] ELSE UNCHANGED start
Update(k) ==
  IF start[k] # Absent \/ Cardinality(Stored) < MaxEntries
  THEN start' = [start EXCEPT ![k] = now] ELSE UNCHANGED start

(* bpf_ringbuf_reserve: a slot at the end, or none if the ring is full.    *)
Reserve(k, from, since) ==
  /\ attempts' = attempts + 1
  /\ \/ /\ Len(ring) < RingSlots
        /\ ring' = Append(ring, [n |-> attempts + 1, from |-> from, began |-> since,
                                 answered |-> answered[k]])
        /\ holding' = [holding EXCEPT ![k] = attempts + 1]
        /\ UNCHANGED lost
     \/ /\ Len(ring) = RingSlots
        /\ lost' = lost \cup {attempts + 1}
        /\ UNCHANGED <<ring, holding>>

Emits == attempts < MaxAttempts
Task(k) == attached /\ holding[k] = 0

---------------------------------------------------------------------------
(* Programs with a start and an end hook.                                  *)

(* A start hook that comes again opens no operation of its own: the        *)
(* interval runs from the latest one.                                      *)
Enter(k) ==
  /\ Task(k) /\ program.shape = "span" /\ Emits
  /\ \/ /\ phase[k] = "idle"
        /\ phase' = [phase EXCEPT ![k] = "outer"]
        /\ emitted' = [emitted EXCEPT ![k] = 0]
     \/ /\ phase[k] = "outer" /\ program.nests
        /\ phase' = [phase EXCEPT ![k] = "inner"]
        /\ UNCHANGED emitted
     \/ /\ phase[k] = "outer" /\ program.restarts
        /\ UNCHANGED <<phase, emitted>>
  /\ began' = [began EXCEPT ![k] = now]
  /\ abandoned' = abandoned \ {k}
  /\ Update(k)
  /\ UNCHANGED <<program, attached, now, answered, ring, holding, attempts, lost, read>>

(* The end hook: look the start up, delete it, and report an interval that *)
(* reaches the threshold.  Some programs delete before they reserve, some  *)
(* after; the key's own hooks do not run in between.                       *)
EndHook_KeepsEntryOnFullRing(k) ==
  \/ /\ start[k] = Absent
     /\ UNCHANGED <<start, emitted, ringVars>>
  \/ /\ start[k] # Absent
     /\ start' = IF Len(ring) = RingSlots THEN start ELSE [start EXCEPT ![k] = Absent]
     /\ \/ /\ now - start[k] < program.threshold
           /\ UNCHANGED <<emitted, ringVars>>
        \/ /\ now - start[k] >= program.threshold
           /\ emitted' = [emitted EXCEPT ![k] = @ + 1]
           /\ Reserve(k, start[k], began[k])
EndHook(k) ==
  \/ /\ start[k] = Absent
     /\ UNCHANGED <<start, emitted, ringVars>>
  \/ /\ start[k] # Absent
     /\ start' = [start EXCEPT ![k] = Absent]
     /\ \/ /\ now - start[k] < program.threshold
           /\ UNCHANGED <<emitted, ringVars>>
        \/ /\ now - start[k] >= program.threshold
           /\ emitted' = [emitted EXCEPT ![k] = @ + 1]
           /\ Reserve(k, start[k], began[k])

Exit(k) ==
  /\ Task(k) /\ program.shape = "span" /\ Emits
  /\ \/ /\ phase[k] = "inner"
        /\ phase' = [phase EXCEPT ![k] = "after"]
     \/ /\ phase[k] \in {"outer", "after"}
        /\ phase' = [phase EXCEPT ![k] = "idle"]
  /\ EndHook(k)
  /\ UNCHANGED <<program, attached, now, began, answered, abandoned, read>>

(* The task dies inside the operation, or the request never completes: the *)
(* end hook does not run and another task may later have the same key.     *)
Abandon(k) ==
  /\ Task(k) /\ program.shape = "span"
  /\ phase[k] # "idle"
  /\ phase' = [phase EXCEPT ![k] = "idle"]
  /\ abandoned' = abandoned \cup {k}
  /\ UNCHANGED <<program, attached, now, began, answered, start, ringVars, emitted, read>>

---------------------------------------------------------------------------
(* dns_latency.bpf.c                                                       *)

(* kprobe/udp_sendmsg on a socket whose destination port is 53; a send to  *)
(* any other port passes the hook by.                                      *)
Send(k) ==
  /\ Task(k) /\ program.shape = "dns" /\ phase[k] = "idle" /\ Emits
  /\ began' = [began EXCEPT ![k] = now]
  /\ answered' = [answered EXCEPT ![k] = FALSE]
  /\ emitted' = [emitted EXCEPT ![k] = 0]
  /\ Update(k)
  /\ UNCHANGED <<program, attached, now, phase, abandoned, ring, holding, attempts, lost, read>>

(* The answer to the task's latest query arrives at its socket. *)
Answer(k) ==
  /\ program.shape = "dns" /\ began[k] # 0 /\ ~answered[k]
  /\ answered' = [answered EXCEPT ![k] = TRUE]
  /\ UNCHANGED <<program, attached, now, phase, began, abandoned, start, ringVars, emitted, read>>

(* kprobe/udp_recvmsg: the task calls udp_recvmsg, on whichever socket.    *)
RecvCall(k) ==
  /\ Task(k) /\ program.shape = "dns" /\ phase[k] = "idle" /\ Emits
  /\ phase' = [phase EXCEPT ![k] = "receiving"]
  /\ EndHook(k)
  /\ UNCHANGED <<program, attached, now, began, answered, abandoned, read>>

(* udp_recvmsg comes back, with a datagram or a timeout. *)
RecvReturn(k) ==
  /\ Task(k) /\ phase[k] = "receiving"
  /\ phase' = [phase EXCEPT ![k] = "idle"]
  /\ UNCHANGED <<program, attached, now, began, answered, abandoned, start, ringVars, emitted, read>>

---------------------------------------------------------------------------
(* tcp_retransmit.bpf.c and cpu_steal.bpf.c: the tracepoint itself carries *)
(* the value, a count of one or a wait of some length.                     *)
Tracepoint(k) ==
  /\ Task(k) /\ program.shape = "point" /\ Emits
  /\ \E delay \in 0..(now - 1) :
       /\ delay >= program.threshold
       /\ Reserve(k, now - delay, now - delay)
  /\ UNCHANGED <<program, attached, now, taskVars, start, emitted, read>>

---------------------------------------------------------------------------
(* The second half of every reporting hook, and the reader.                *)

(* bpf_ringbuf_submit *)
Submit(k) ==
  /\ holding[k] # 0
  /\ holding' = [holding EXCEPT ![k] = 0]
  /\ UNCHANGED <<program, attached, now, taskVars, start, ring, attempts, lost, emitted, read>>

(* User space takes the oldest record; one that is reserved and not yet    *)
(* submitted holds the ones behind it back.                                *)
Read_WaitsForFullRing ==
  /\ attached /\ Len(ring) = RingSlots
  /\ \A k \in Key : holding[k] # Head(ring).n
  /\ read' = Head(ring).n
  /\ ring' = Tail(ring)
  /\ UNCHANGED <<program, attached, now, taskVars, start, holding, attempts, lost, emitted>>
Read_PassesReserved ==
  /\ attached
  /\ \E i \in DOMAIN ring :
       /\ \A k \in Key : holding[k] # ring[i].n
       /\ read' = ring[i].n
       /\ ring' = SubSeq(ring, 1, i - 1) \o SubSeq(ring, i + 1, Len(ring))
  /\ UNCHANGED <<program, attached, now, taskVars, start, holding, attempts, lost, emitted>>
Read ==
  /\ attached /\ ring # << >>
  /\ \A k \in Key : holding[k] # Head(ring).n
  /\ read' = Head(ring).n
  /\ ring' = Tail(ring)
  /\ UNCHANGED <<program, attached, now, taskVars, start, holding, attempts, lost, emitted>>

(* ProbeManager.closeProbe closes links, reader and maps. *)
Detach ==
  /\ attached
  /\ attached' = FALSE
  /\ UNCHANGED <<program, now, taskVars, start, ringVars, emitted, read>>

ClockTick ==
  /\ attached /\ now < MaxClock
  /\ now' = now + 1
  /\ UNCHANGED <<program, attached, taskVars, start, ringVars, emitted, read>>

Detached == ~attached /\ UNCHANGED vars

Hook(k) ==
  \/ Enter(k) \/ Exit(k) \/ Abandon(k)
  \/ Send(k) \/ Answer(k) \/ RecvCall(k) \/ RecvReturn(k)
  \/ Tracepoint(k)

Next ==
  \/ \E k \in Key : Hook(k) \/ Submit(k)
  \/ Read \/ Detach \/ ClockTick \/ Detached

(* A hook that has begun is run to its end by the kernel, and the reader   *)
(* goroutine is scheduled; nothing obliges a task to do anything.          *)
Spec == Init /\ [][Next]_vars
FairSpec == Spec /\ WF_vars(Read) /\ \A k \in Key : WF_vars(Submit(k))

---------------------------------------------------------------------------
(* Properties                                                              *)

Record == [n : Nat, from : Nat, began : Nat, answered : BOOLEAN]

TypeOK ==
  /\ program \in Programs /\ attached \in BOOLEAN /\ now \in 1..MaxClock
  /\ phase \in [Key -> {"idle", "outer", "inner", "after", "receiving"}]
  /\ began \in [Key -> Nat] /\ answered \in [Key -> BOOLEAN]
  /\ start \in [Key -> Nat]
  /\ ring \in Seq(Record) /\ Len(ring) <= RingSlots
  /\ holding \in [Key -> Nat]
  /\ attempts \in Nat /\ lost \in SUBSET Nat /\ read \in Nat
  /\ emitted \in [Key -> Nat] /\ abandoned \in SUBSET Key

InRing(n) == \E i \in DOMAIN ring : ring[i].n = n

(* What the start map holds for a key is the beginning of the key's present operation, or  *)
(* of the latest one that never met its end hook.                                          *)
StartInv == \A k \in Key : start[k] # Absent => start[k] = began[k]

(* Every interval a program reports began with the operation that ends it: no start is     *)
(* taken over from an operation whose task died, from the outer one of two nested          *)
(* connects, or from an older query of the thread (the BPF_ANY update of the start hooks). *)
SpanIsReal == \A i \in DOMAIN ring : ring[i].from = ring[i].began

(* One operation yields at most one record, also a v6 connect that runs through the v4     *)
(* hooks, and also when the ring had no room the first time (the delete of the end hooks). *)
OneRecordPerOperation == \A k \in Key : emitted[k] <= 1

(* A slot of the start map is held only by an operation that is going on or was abandoned: *)
(* no other path leaks the slots of a map that has room for 8192 keys.                     *)
SlotsAccounted ==
  program.shape = "span" =>
    \A k \in Key : start[k] # Absent => phase[k] \in {"outer", "inner"} \/ k \in abandoned

(* Records reach user space in the order of their reservations, and each record is taken,  *)
(* waiting in the ring, or lost to a full ring.                                            *)
FifoDelivery ==
  /\ \A i, j \in DOMAIN ring : i < j => ring[i].n < ring[j].n
  /\ \A i \in DOMAIN ring : read < ring[i].n /\ ring[i].n <= attempts
  /\ \A n \in 1..attempts : n <= read \/ n \in lost \/ InRing(n)

(* A record in the ring is taken while the program stays attached: a reserved record does  *)
(* not hold the ring back for ever.                                                        *)
RecordsReachReader ==
  \A n \in 1..MaxAttempts : InRing(n) ~> (read >= n \/ ~attached)

(* dns_latency.bpf.c:9 says the interval is closed when udp_recvmsg returns, which is when *)
(* the answer to the query is there.                                                       *)
CoversAnswer == program.shape = "dns" => \A i \in DOMAIN ring : ring[i].answered
=============================================================================
