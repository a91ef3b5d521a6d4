------------------------------ MODULE Delivery ------------------------------
(***************************************************************************)
(* The delivery of incidents over the webhook: cmd/attributor from its     *)
(* predictions to its exit, webhook.Exporter.Send with its retries, the    *)
(* network, and a receiver that may answer late, act without answering or  *)
(* not get the request at all.  A request the sender has given up may      *)
(* still be on the wire and be acted on later.                             *)
(***************************************************************************)
EXTENDS Integers, Sequences, FiniteSets

CONSTANTS
  Settings,      (* the flags an attributor may run with                     *)
  Incidents,     (* how many predictions it has                              *)
  MaxRetry,      (* Exporter.MaxRetry                                        *)
  Timeout        (* the client's timeout in seconds                          *)

Formats == {"generic", "pagerduty", "opsgenie"}

DeliveryAssumption ==
  /\ \A s \in Settings :
       s.enabled \in BOOLEAN /\ s.strict \in BOOLEAN /\ s.url \in BOOLEAN
         /\ s.format \in Formats \cup {"unsupported"}
  /\ Incidents \in Nat /\ MaxRetry \in Nat \ {0} /\ Timeout \in Nat \ {0}
ASSUME DeliveryAssumption

VARIABLES
  settings,
  pc,          (* where the attributor is                                   *)
  current,     (* the prediction that is being sent, 0 before the first one *)
  attempt,     (* Send's loop variable                                      *)
  left,        (* seconds until the timeout or the end of the backoff       *)
  spent,       (* history: seconds this Send has taken                      *)
  reply,       (* the answer that has come back on the open request         *)
  wire,        (* requests the receiver has not looked at yet               *)
  acted,       (* history: incidents the receiver acted on, in order        *)
  outcome,     (* history: what Send returned for each prediction           *)
  refusals,    (* history: 4xx answers read for each prediction             *)
  webhookErrCount, exitCode

sendVars == <<attempt, left, spent, reply>>
resultVars == <<outcome, refusals, webhookErrCount, exitCode>>
vars == <<settings, pc, current, sendVars, wire, acted, resultVars>>

Incident == 1..Incidents
None == "none"
Request == [n : Incident, attempt : 0..(MaxRetry - 1)]
Open == [n |-> current, attempt |-> attempt]
At(where) == exitCode = -1 /\ pc = where

Init ==
  /\ settings \in Settings
  /\ pc = "attribute" /\ current = 0
  /\ attempt = 0 /\ left = 0 /\ spent = 0 /\ reply = None
  /\ wire = {} /\ acted = << >>
  /\ outcome = [n \in Incident |-> None] /\ refusals = [n \in Incident |-> 0]
  /\ webhookErrCount = 0 /\ exitCode = -1

---------------------------------------------------------------------------
(* cmd/attributor                                                          *)

(* Load, attribute, validate, write: each step may fail and end the run.   *)
Attribute ==
  /\ At("attribute")
  /\ \/ pc' = "configure" /\ UNCHANGED exitCode
     \/ exitCode' = 1 /\ UNCHANGED pc
  /\ UNCHANGED <<settings, current, sendVars, wire, acted, outcome, refusals, webhookErrCount>>

(* The webhook flags, before the first delivery. *)
Configure ==
  /\ At("configure")
  /\ \/ /\ ~settings.enabled \/ (~settings.url /\ ~settings.strict)
        /\ pc' = "summary"
        /\ UNCHANGED exitCode
     \/ /\ settings.enabled /\ ~settings.url /\ settings.strict
        /\ exitCode' = 1
        /\ UNCHANGED pc
     \/ /\ settings.enabled /\ settings.url /\ settings.format \notin Formats
        /\ exitCode' = 2
        /\ UNCHANGED pc
     \/ /\ settings.enabled /\ settings.url /\ settings.format \in Formats
        /\ pc' = "next"
        /\ UNCHANGED exitCode
  /\ UNCHANGED <<settings, current, sendVars, wire, acted, outcome, refusals,
                 webhookErrCount>>

(* The next prediction of the loop; Send starts with its first attempt.    *)
(* The payload is built without an error: what cannot be marshalled has    *)
(* stopped the attributor when it wrote its predictions.                   *)
BeginSend ==
  /\ At("next") /\ current < Incidents
  /\ current' = current + 1
  /\ attempt' = 0 /\ left' = 0 /\ spent' = 0 /\ reply' = None
  /\ pc' = "post"
  /\ UNCHANGED <<settings, wire, acted, resultVars>>

LastSent ==
  /\ At("next") /\ current = Incidents
  /\ pc' = "summary"
  /\ UNCHANGED <<settings, current, sendVars, wire, acted, resultVars>>

(* The summary file, if one was asked for, and the return of main. *)
Summary ==
  /\ At("summary")
  /\ exitCode' \in {0, 1}
  /\ UNCHANGED <<settings, pc, current, sendVars, wire, acted, outcome, refusals,
                 webhookErrCount>>

(* Send has returned: an error is counted, and ends a strict run.          *)
SendReturns_StrictGoesOn(result) ==
  /\ outcome' = [outcome EXCEPT ![current] = result]
  /\ \/ /\ result = "delivered"
        /\ pc' = "next"
        /\ UNCHANGED <<webhookErrCount, exitCode>>
     \/ /\ result # "delivered"
        /\ webhookErrCount' = webhookErrCount + 1
        /\ IF settings.strict /\ result = "failed" THEN exitCode' = 1 /\ UNCHANGED pc
           ELSE pc' = "next" /\ UNCHANGED exitCode
SendReturns(result) ==
  /\ outcome' = [outcome EXCEPT ![current] = result]
  /\ \/ /\ result = "delivered"
        /\ pc' = "next"
        /\ UNCHANGED <<webhookErrCount, exitCode>>
     \/ /\ result # "delivered"
        /\ webhookErrCount' = webhookErrCount + 1
        /\ IF settings.strict THEN exitCode' = 1 /\ UNCHANGED pc
           ELSE pc' = "next" /\ UNCHANGED exitCode

---------------------------------------------------------------------------
(* Exporter.Send                                                           *)

(* Seconds of sleep before attempt a. *)
Backoff_OneDoublingMore(a) == 2 ^ a
Backoff(a) == 2 ^ (a - 1)

(* A retryable error: the next attempt after its backoff, or the end. *)
AttemptFailed ==
  \/ /\ attempt + 1 < MaxRetry
     /\ attempt' = attempt + 1
     /\ left' = Backoff(attempt + 1)
     /\ pc' = "backoff"
     /\ UNCHANGED <<outcome, webhookErrCount, exitCode>>
  \/ /\ attempt + 1 >= MaxRetry
     /\ left' = 0
     /\ SendReturns("failed")
     /\ UNCHANGED attempt

(* doPost, first half: the request leaves, or no connection is made.       *)
Post ==
  /\ At("post")
  /\ wire' = wire \cup {Open}
  /\ left' = Timeout
  /\ reply' = None
  /\ pc' = "await"
  /\ UNCHANGED <<settings, current, attempt, spent, acted, resultVars>>

NoConnection ==
  /\ At("post")
  /\ AttemptFailed
  /\ UNCHANGED <<settings, current, spent, reply, wire, acted, refusals>>

(* doPost, second half: the answer's status decides.                       *)
ReadAnswer_ServerErrorDelivers ==
  /\ At("await") /\ reply # None
  /\ reply' = None
  /\ \/ /\ reply \in {"ok", "server"}
        /\ SendReturns("delivered")
        /\ UNCHANGED <<attempt, left, refusals>>
     \/ /\ reply = "client"
        /\ refusals' = [refusals EXCEPT ![current] = @ + 1]
        /\ SendReturns("refused")
        /\ UNCHANGED <<attempt, left>>
  /\ UNCHANGED <<settings, current, spent, wire, acted>>
ReadAnswer_RetriesClientError ==
  /\ At("await") /\ reply # None
  /\ reply' = None
  /\ \/ /\ reply = "ok"
        /\ SendReturns("delivered")
        /\ UNCHANGED <<attempt, left, refusals>>
     \/ /\ reply = "client"
        /\ refusals' = [refusals EXCEPT ![current] = @ + 1]
        /\ AttemptFailed
     \/ /\ reply = "server"
        /\ AttemptFailed
        /\ UNCHANGED refusals
  /\ UNCHANGED <<settings, current, spent, wire, acted>>
ReadAnswer ==
  /\ At("await") /\ reply # None
  /\ reply' = None
  /\ \/ /\ reply = "ok"
        /\ SendReturns("delivered")
        /\ UNCHANGED <<attempt, left, refusals>>
     \/ /\ reply = "client"
        /\ refusals' = [refusals EXCEPT ![current] = @ + 1]
        /\ SendReturns("refused")
        /\ UNCHANGED <<attempt, left>>
     \/ /\ reply = "server"
        /\ AttemptFailed
        /\ UNCHANGED refusals
  /\ UNCHANGED <<settings, current, spent, wire, acted>>

(* The timeout, or a connection that breaks before the answer is whole. *)
TimedOut_OnlyTheBody ==
  /\ At("await") /\ left = 0 /\ reply # None
  /\ AttemptFailed
  /\ reply' = None
  /\ UNCHANGED <<settings, current, spent, wire, acted, refusals>>
TimedOut ==
  /\ At("await") /\ left = 0
  /\ AttemptFailed
  /\ reply' = None
  /\ UNCHANGED <<settings, current, spent, wire, acted, refusals>>

ConnectionBreaks ==
  /\ At("await")
  /\ AttemptFailed
  /\ reply' = None
  /\ UNCHANGED <<settings, current, spent, wire, acted, refusals>>

Wake ==
  /\ At("backoff") /\ left = 0
  /\ pc' = "post"
  /\ UNCHANGED <<settings, current, sendVars, wire, acted, resultVars>>

TimePasses ==
  /\ At("await") \/ At("backoff")
  /\ left > 0
  /\ left' = left - 1
  /\ spent' = spent + 1
  /\ UNCHANGED <<settings, pc, current, attempt, reply, wire, acted, resultVars>>

---------------------------------------------------------------------------
(* The network and the receiver, also when the sender has gone on or left. *)

LoseRequest(r) ==
  /\ wire' = wire \ {r}
  /\ UNCHANGED <<settings, pc, current, sendVars, acted, resultVars>>

(* A status below 400 comes after the incident was acted on, one from 400  *)
(* to 499 instead of that, and a 5xx may come after it.                    *)
Receive(r) ==
  /\ wire' = wire \ {r}
  /\ \E status \in {"ok", "client", "server"} :
       /\ \/ /\ status # "client"
             /\ acted' = Append(acted, r.n)
          \/ /\ status # "ok"
             /\ UNCHANGED acted
       /\ reply' = IF At("await") /\ r = Open THEN status ELSE reply
  /\ UNCHANGED <<settings, pc, current, attempt, left, spent, resultVars>>

Network == \E r \in wire : LoseRequest(r) \/ Receive(r)

Exited == exitCode # -1 /\ UNCHANGED vars

Sender ==
  \/ Attribute \/ Configure \/ BeginSend \/ LastSent \/ Summary
  \/ Post \/ NoConnection \/ ReadAnswer \/ TimedOut \/ ConnectionBreaks \/ Wake

Next == Sender \/ TimePasses \/ Network \/ Exited

(* The process is scheduled and time passes; the receiver owes nothing.    *)
Spec == Init /\ [][Next]_vars
FairSpec ==
  /\ Spec /\ WF_vars(TimePasses) /\ WF_vars(TimedOut)
  /\ WF_vars(Attribute \/ Configure \/ BeginSend \/ LastSent \/ Summary \/ Post \/ Wake)

---------------------------------------------------------------------------
(* Properties                                                              *)

TypeOK ==
  /\ settings \in Settings
  /\ pc \in {"attribute", "configure", "next", "post", "await", "backoff", "summary"}
  /\ current \in 0..Incidents /\ attempt \in 0..(MaxRetry - 1)
  /\ left \in Int /\ spent \in Nat
  /\ reply \in {None, "ok", "client", "server"}
  /\ wire \in SUBSET Request /\ acted \in Seq(Incident)
  /\ outcome \in [Incident -> {None, "delivered", "refused", "failed"}]
  /\ refusals \in [Incident -> Nat]
  /\ webhookErrCount \in Nat /\ exitCode \in {-1, 0, 1, 2}

(* An incident Send reports as delivered was acted on, and before any later incident was,  *)
(* though late requests of earlier ones may still arrive in between.                       *)
DeliveredInOrder ==
  \A n \in Incident : outcome[n] = "delivered" =>
    \E i \in DOMAIN acted : acted[i] = n /\ \A j \in 1..i : acted[j] <= n

(* Lost answers and late requests make the receiver act again on an incident, but never    *)
(* more often than Send has attempts (MaxRetry).                                           *)
ActedAtMostMaxRetry ==
  \A n \in Incident : Cardinality({ i \in DOMAIN acted : acted[i] = n }) <= MaxRetry

(* An answer of 4xx is the last word about an incident (nonRetryableError). *)
RefusalIsFinal ==
  \A n \in Incident : refusals[n] > 0 => refusals[n] = 1 /\ outcome[n] = "refused"

(* What the exit status and the summary's counter say is what happened to the deliveries:  *)
(* a strict run that ends well has delivered everything, and no run counts an error twice  *)
(* or forgets one.                                                                         *)
Undelivered == { n \in Incident : outcome[n] \in {"refused", "failed"} }
ExitTellsErrors ==
  /\ webhookErrCount = Cardinality(Undelivered)
  /\ exitCode = 0 /\ settings.strict => Undelivered = {}
  /\ exitCode = 0 /\ settings.enabled /\ settings.url => \A n \in Incident : outcome[n] # None

(* One Send holds its caller no longer than the timeouts of its attempts and the backoffs  *)
(* between them: for three attempts 1 s and 2 s, as the third of the backoffs that the     *)
(* guide lists (docs/guides/webhook-integration.md:117) would follow the last attempt.     *)
(* And the receiver has acted on no incident more often than there were attempts.          *)
SendBounded ==
  /\ spent <= MaxRetry * Timeout + 2 ^ (MaxRetry - 1) - 1
  /\ ActedAtMostMaxRetry

(* The attributor ends, whatever the receiver and the network do. *)
RunEnds == <>(exitCode # -1)
=============================================================================
