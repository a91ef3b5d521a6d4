----------------------------- MODULE RetryStorm -----------------------------
(***************************************************************************)
(* correlation.RetryStormDetector: per pod, the times of its retransmits   *)
(* in a sliding window.  Every operation holds the detector's mutex, so it *)
(* is one step; the time it is called with was taken before, by the kernel *)
(* or by the caller, and is up to MaxLag behind the clock when the mutex   *)
(* is free.  Calls therefore come with times that go back.                 *)
(***************************************************************************)
EXTENDS Integers, Sequences, FiniteSets

CONSTANTS
  Pods,
  Window,        (* RetryStormDetector.window                                *)
  Threshold,     (* RetryStormDetector.threshold                             *)
  MaxLag,        (* how far a call's time may be behind the clock            *)
  MaxTime,       (* bound: the clock's last value                            *)
  MaxRecords     (* bound: records of a pod since the last Reset             *)

StormAssumption ==
  /\ Window \in Nat /\ Threshold \in Nat \ {0} /\ MaxLag \in Nat
  /\ MaxTime \in Nat /\ MaxRecords \in Nat
ASSUME StormAssumption

VARIABLES
  clock,
  buckets,       (* pod -> the events kept, in the order of their arrival;   *)
                 (* pods without a bucket are not in the domain              *)
  recorded,      (* history: all of a pod's times since the last Reset       *)
  answer         (* history: the last verdict, when and on how many events   *)

stormVars == <<clock, buckets, recorded, answer>>

NoAnswer == [pod |-> "none", at |-> 0, count |-> 0, storm |-> FALSE]

StormInit ==
  /\ clock = 0
  /\ buckets = << >>
  /\ recorded = [p \in Pods |-> << >>]
  /\ answer = NoAnswer

(* How many events stand before the first one that is not before the       *)
(* cutoff, and the events without them.                                    *)
Start(events, cutoff) ==
  Cardinality({ i \in DOMAIN events : \A j \in 1..i : events[j] < cutoff })

PruneOld_AtCutoff(events, now) ==
  SubSeq(events, Start(events, now - Window + 1) + 1, Len(events))
PruneOld_OneAtATime(events, now) ==
  IF Start(events, now - Window) > 0 THEN Tail(events) ELSE events
PruneOld(events, now) ==
  SubSeq(events, Start(events, now - Window) + 1, Len(events))

Bucket(p) == IF p \in DOMAIN buckets THEN buckets[p] ELSE << >>

(* The bucket becomes these events, and the verdict is on their number. *)
Keep(p, events) ==
  /\ buckets' = [q \in DOMAIN buckets \cup {p} |-> IF q = p THEN events ELSE buckets[q]]
  /\ answer' = [pod |-> p, at |-> clock, count |-> Len(events),
                storm |-> Len(events) >= Threshold]

CallTimes == (clock - MaxLag)..clock

Record(p, ts) ==
  /\ Len(recorded[p]) < MaxRecords
  /\ recorded' = [recorded EXCEPT ![p] = Append(@, ts)]
  /\ Keep(p, PruneOld(Append(Bucket(p), ts), ts))
  /\ UNCHANGED clock

(* IsStorm and Count, which differ in what they return of one answer. *)
Query(p, now) ==
  /\ \/ /\ p \in DOMAIN buckets
        /\ Keep(p, PruneOld(buckets[p], now))
     \/ /\ p \notin DOMAIN buckets
        /\ answer' = [pod |-> p, at |-> clock, count |-> 0, storm |-> FALSE]
        /\ UNCHANGED buckets
  /\ UNCHANGED <<clock, recorded>>

Reset ==
  /\ buckets' = << >>
  /\ recorded' = [p \in Pods |-> << >>]
  /\ answer' = NoAnswer
  /\ UNCHANGED clock

TimePasses ==
  /\ clock < MaxTime
  /\ clock' = clock + 1
  /\ UNCHANGED <<buckets, recorded, answer>>

StormNext ==
  \/ \E p \in Pods : \E t \in CallTimes : Record(p, t) \/ Query(p, t)
  \/ Reset \/ TimePasses

StormSpec == StormInit /\ [][StormNext]_stormVars

---------------------------------------------------------------------------
(* Properties                                                              *)

TypeOK ==
  /\ clock \in Nat
  /\ recorded \in [Pods -> Seq(Int)]
  /\ DOMAIN buckets \subseteq Pods /\ \A p \in DOMAIN buckets : buckets[p] \in Seq(Int)
  /\ \A p \in Pods : Len(Bucket(p)) <= Len(recorded[p])
  /\ answer = NoAnswer \/ answer.pod \in Pods
  /\ answer.at \in 0..clock /\ answer.count \in Nat /\ answer.storm \in BOOLEAN

Since(p, t) == { i \in DOMAIN recorded[p] : recorded[p][i] >= t }

(* A verdict of calm means that fewer than Threshold of the pod's retransmits lie in the   *)
(* window that ends at the verdict: calls whose times went back have not thrown away an    *)
(* event that a later verdict needs.                                                       *)
NoStormMissed ==
  answer # NoAnswer /\ Cardinality(Since(answer.pod, answer.at - Window)) >= Threshold
    => answer.storm

(* A storm is one of retransmits that are at most twice the lag older than the window: an  *)
(* old event may stay behind a younger one that arrived before it, but not for long.  With *)
(* times that do not go back (MaxLag = 0) both properties together are the definition of   *)
(* IsStorm.                                                                                *)
NoStaleStorm ==
  answer.storm =>
    Cardinality(Since(answer.pod, answer.at - Window - 2 * MaxLag)) >= Threshold

VerdictsBetweenWindows == NoStormMissed /\ NoStaleStorm

(* What is missing from a bucket is a first part of what was recorded, and has left the    *)
(* window for good, so that no later call can miss it.                                     *)
ForgetsOnlyThePast ==
  \A p \in Pods :
    LET gone == Len(recorded[p]) - Len(Bucket(p)) IN
    /\ \A i \in DOMAIN Bucket(p) : Bucket(p)[i] = recorded[p][gone + i]
    /\ \A i \in 1..gone : recorded[p][i] < clock - Window
=============================================================================
