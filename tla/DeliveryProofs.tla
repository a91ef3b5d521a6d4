--------------------------- MODULE DeliveryProofs ---------------------------
(***************************************************************************)
(* What the delivery of incidents preserves, for every set of flags, every *)
(* number of incidents and attempts, and every network.                    *)
(***************************************************************************)
EXTENDS Delivery, FiniteTheorems

(* The numbers are numbers. *)
LEMMA Numbers == Incidents \in Nat /\ MaxRetry \in Nat \ {0} /\ Timeout \in Nat \ {0}
BY DeliveryAssumption DEF DeliveryAssumption

(* Adding an element at the end. *)
LEMMA AppendAt ==
  ASSUME NEW S, NEW q \in Seq(S), NEW x \in S
  PROVE  /\ Append(q, x) \in Seq(S) /\ Len(q) \in Nat
         /\ DOMAIN q = 1..Len(q) /\ DOMAIN Append(q, x) = 1..(Len(q) + 1)
         /\ Append(q, x)[Len(q) + 1] = x
         /\ \A i \in DOMAIN q : Append(q, x)[i] = q[i]
OBVIOUS

(* A backoff is a number of seconds. *)
LEMMA BackoffType == \A a \in 0..(MaxRetry - 1) : Backoff(a + 1) \in Int
<1> TAKE a \in 0..(MaxRetry - 1)
<1>1. a \in Nat /\ (a + 1) - 1 = a
  BY Numbers
<1>2. \A n \in Nat : 2 ^ n \in Int
  OBVIOUS
<1>3. QED
  BY <1>1, <1>2 DEF Backoff

Sending == exitCode = -1 /\ pc \in {"post", "await", "backoff"}

(* The prediction being sent is one, and has no outcome yet; nor have the later ones. *)
PlaceInv ==
  /\ Sending => current \in Incident /\ outcome[current] = None /\ refusals[current] = 0
  /\ \A n \in Incident : n > current => outcome[n] = None /\ refusals[n] = 0

(* What a return of Send changes, as far as the types are concerned. *)
LEMMA SendReturnsTypes ==
  ASSUME TypeOK, current \in Incident, SendReturns("delivered") \/ SendReturns("refused")
                                         \/ SendReturns("failed")
  PROVE  /\ outcome' \in [Incident -> {None, "delivered", "refused", "failed"}]
         /\ webhookErrCount' \in Nat /\ exitCode' \in {-1, 0, 1, 2}
         /\ pc' = "next" \/ (pc' = pc /\ exitCode' = 1)
         /\ \A n \in Incident : n # current => outcome'[n] = outcome[n]
BY DEF TypeOK, SendReturns

LEMMA AttemptFailedTypes ==
  ASSUME TypeOK, current \in Incident, AttemptFailed
  PROVE  /\ outcome' \in [Incident -> {None, "delivered", "refused", "failed"}]
         /\ webhookErrCount' \in Nat /\ exitCode' \in {-1, 0, 1, 2}
         /\ attempt' \in 0..(MaxRetry - 1) /\ left' \in Int
         /\ \/ pc' = "next" \/ (pc' = pc /\ exitCode' = 1)
            \/ pc' = "backoff" /\ UNCHANGED <<outcome, exitCode>>
         /\ \A n \in Incident : n # current => outcome'[n] = outcome[n]
<1>1. CASE /\ attempt + 1 < MaxRetry /\ attempt' = attempt + 1 /\ left' = Backoff(attempt + 1)
           /\ pc' = "backoff" /\ UNCHANGED <<outcome, webhookErrCount, exitCode>>
  <2>1. attempt' \in 0..(MaxRetry - 1)
    BY <1>1, Numbers DEF TypeOK
  <2>2. left' \in Int
    BY <1>1, BackoffType DEF TypeOK
  <2>3. QED
    BY <1>1, <2>1, <2>2 DEF TypeOK
<1>2. CASE left' = 0 /\ SendReturns("failed") /\ UNCHANGED attempt
  BY <1>2, SendReturnsTypes DEF TypeOK
<1>3. QED
  BY <1>1, <1>2 DEF AttemptFailed

(* No step leaves the types of the variables, and an incident gets its outcome when its    *)
(* Send returns, not before.                                                               *)
THEOREM TypeCorrect == Spec => [](TypeOK /\ PlaceInv)
<1>1. Init => TypeOK /\ PlaceInv
  BY Numbers DEF Init, TypeOK, PlaceInv, Sending, Incident, None
<1>2. TypeOK /\ PlaceInv /\ [Next]_vars => (TypeOK /\ PlaceInv)'
  <2> SUFFICES ASSUME TypeOK, PlaceInv, [Next]_vars PROVE TypeOK' /\ PlaceInv'
    OBVIOUS
  <2> USE DEF sendVars, resultVars
  <2>a. Incident \subseteq Int /\ current \in Int
    BY Numbers DEF TypeOK, Incident
  <2>1. CASE Attribute
    BY <2>1 DEF Attribute, At, TypeOK, PlaceInv, Sending
  <2>2. CASE Configure
    BY <2>2 DEF Configure, At, TypeOK, PlaceInv, Sending
  <2>3. CASE BeginSend
    <3>1. current + 1 \in Incident /\ current + 1 \in 0..Incidents /\ current + 1 > current
      BY <2>3, Numbers DEF BeginSend, TypeOK, Incident
    <3>2. 0 \in 0..(MaxRetry - 1)
      BY Numbers
    <3>3. TypeOK'
      BY <2>3, <3>1, <3>2 DEF BeginSend, TypeOK
    <3>4. PlaceInv'
      BY <2>3, <2>a, <3>1 DEF BeginSend, PlaceInv, Sending
    <3>5. QED
      BY <3>3, <3>4
  <2>4. CASE LastSent \/ Summary
    BY <2>4 DEF LastSent, Summary, At, TypeOK, PlaceInv, Sending
  <2>5. CASE Post
    <3>1. current \in Incident
      BY <2>5 DEF Post, At, PlaceInv, Sending
    <3>2. Open \in Request
      BY <3>1 DEF Open, Request, TypeOK
    <3>3. TypeOK'
      BY <2>5, <3>2, Numbers DEF Post, TypeOK
    <3>4. PlaceInv'
      BY <2>5 DEF Post, At, PlaceInv, Sending
    <3>5. QED
      BY <3>3, <3>4
  <2>6. CASE NoConnection \/ TimedOut \/ ConnectionBreaks
    <3>1. current \in Incident /\ Sending
      BY <2>6 DEF NoConnection, TimedOut, ConnectionBreaks, At, PlaceInv, Sending
    <3>2. /\ AttemptFailed /\ UNCHANGED <<settings, current, spent, wire, acted, refusals>>
          /\ reply' = reply \/ reply' = None
      BY <2>6 DEF NoConnection, TimedOut, ConnectionBreaks
    <3>3. TypeOK'
      BY <3>1, <3>2, AttemptFailedTypes DEF TypeOK
    <3>4. PlaceInv'
      BY <2>a, <3>1, <3>2, AttemptFailedTypes DEF PlaceInv, Sending
    <3>5. QED
      BY <3>3, <3>4
  <2>7. CASE ReadAnswer
    <3>1. current \in Incident /\ Sending
      BY <2>7 DEF ReadAnswer, At, PlaceInv, Sending
    <3>2. /\ UNCHANGED <<settings, current, spent, wire, acted>> /\ reply' = None
          /\ \/ AttemptFailed
             \/ /\ SendReturns("delivered") \/ SendReturns("refused")
                /\ UNCHANGED <<attempt, left>>
          /\ refusals' = refusals \/ refusals' = [refusals EXCEPT ![current] = @ + 1]
      BY <2>7 DEF ReadAnswer
    <3>3. /\ refusals' \in [Incident -> Nat]
          /\ \A n \in Incident : n # current => refusals'[n] = refusals[n]
      BY <3>1, <3>2 DEF TypeOK
    <3>4. /\ outcome' \in [Incident -> {None, "delivered", "refused", "failed"}]
          /\ webhookErrCount' \in Nat /\ exitCode' \in {-1, 0, 1, 2}
          /\ attempt' \in 0..(MaxRetry - 1) /\ left' \in Int
          /\ pc' \in {"next", pc, "backoff"}
          /\ \A n \in Incident : n # current => outcome'[n] = outcome[n]
      BY <3>1, <3>2, AttemptFailedTypes, SendReturnsTypes DEF TypeOK
    <3>5. TypeOK'
      BY <3>2, <3>3, <3>4 DEF TypeOK
    <3>6. Sending' => outcome' = outcome /\ refusals' = refusals
      BY <2>7, <3>1, AttemptFailedTypes, SendReturnsTypes DEF ReadAnswer, Sending
    <3>7. PlaceInv'
      BY <2>a, <3>1, <3>2, <3>3, <3>4, <3>6 DEF PlaceInv
    <3>8. QED
      BY <3>5, <3>7
  <2>8. CASE Wake \/ TimePasses
    BY <2>8 DEF Wake, TimePasses, At, TypeOK, PlaceInv, Sending
  <2>9. CASE Network
    <3>1. PICK r \in wire : LoseRequest(r) \/ Receive(r)
      BY <2>9 DEF Network
    <3>2. r.n \in Incident
      BY DEF TypeOK, Request
    <3>3. /\ UNCHANGED <<settings, pc, current, attempt, left, spent, resultVars>>
          /\ wire' = wire \ {r} /\ acted' \in {acted, Append(acted, r.n)}
          /\ reply' \in {reply, "ok", "client", "server"}
      BY <3>1 DEF LoseRequest, Receive
    <3>4. acted' \in Seq(Incident)
      <4>1. acted \in Seq(Incident)
        BY DEF TypeOK
      <4>2. Append(acted, r.n) \in Seq(Incident)
        BY <3>2, <4>1, AppendAt
      <4>3. QED
        BY <3>3, <4>1, <4>2
    <3>5. TypeOK'
      BY <3>3, <3>4 DEF TypeOK
    <3>6. PlaceInv'
      BY <3>3 DEF PlaceInv, Sending
    <3>7. QED
      BY <3>5, <3>6
  <2>10. CASE UNCHANGED vars
    BY <2>10 DEF vars, TypeOK, PlaceInv, Sending
  <2>11. QED
    BY <2>1, <2>2, <2>3, <2>4, <2>5, <2>6, <2>7, <2>8, <2>9, <2>10 DEF Next, Sender, Exited
<1>3. QED
  BY <1>1, <1>2, PTL DEF Spec

---------------------------------------------------------------------------
(* Nothing of a later prediction is on the wire or acted on, and a good answer was given   *)
(* after acting on the prediction it is read for.                                          *)
OrderInv ==
  /\ DeliveredInOrder
  /\ \A i \in DOMAIN acted : acted[i] <= current
  /\ \A r \in wire : r.n <= current
  /\ Sending /\ reply = "ok" => \E i \in DOMAIN acted : acted[i] = current

(* What a failed or refused attempt does to the outcomes. *)
LEMMA NotDelivered ==
  ASSUME TypeOK, current \in Incident, AttemptFailed \/ SendReturns("refused")
  PROVE  \A n \in Incident : outcome'[n] = "delivered" => outcome[n] = "delivered"
BY DEF TypeOK, AttemptFailed, SendReturns

(* An incident Send reports as delivered was acted on, and before any later incident was,  *)
(* whatever the network loses or delays.                                                   *)
THEOREM OrderHolds == Spec => []DeliveredInOrder
<1>1. Init => OrderInv
  BY DEF Init, OrderInv, DeliveredInOrder, Sending, None
<1>2. TypeOK /\ PlaceInv /\ OrderInv /\ [Next]_vars => OrderInv'
  <2> SUFFICES ASSUME TypeOK, PlaceInv, OrderInv, [Next]_vars PROVE OrderInv'
    OBVIOUS
  <2> USE DEF sendVars, resultVars
  <2>a. /\ Incident \subseteq Int /\ current \in Int
        /\ acted \in Seq(Incident) /\ Len(acted) \in Nat /\ DOMAIN acted = 1..Len(acted)
        /\ \A i \in DOMAIN acted : acted[i] \in Incident
    BY Numbers DEF TypeOK, Incident
  <2>1. CASE Attribute \/ Configure \/ LastSent \/ Summary
    BY <2>1 DEF Attribute, Configure, LastSent, Summary, At, OrderInv, DeliveredInOrder, Sending
  <2>2. CASE BeginSend
    <3>1. current' = current + 1 /\ UNCHANGED <<wire, acted, outcome>> /\ reply' = None
      BY <2>2 DEF BeginSend
    <3>2. \A r \in wire : r.n \in Int
      BY <2>a DEF TypeOK, Request
    <3>3. \A i \in DOMAIN acted : acted[i] <= current + 1
      <4> TAKE i \in DOMAIN acted
      <4>1. acted[i] \in Int /\ acted[i] <= current
        BY <2>a DEF OrderInv
      <4>2. QED
        BY <2>a, <4>1
    <3>4. \A r \in wire : r.n <= current + 1
      BY <2>a, <3>2 DEF OrderInv
    <3>5. QED
      BY <3>1, <3>3, <3>4 DEF OrderInv, DeliveredInOrder, None
  <2>3. CASE Post
    <3>1. UNCHANGED <<current, acted, outcome>> /\ wire' = wire \cup {Open} /\ reply' = None
      BY <2>3 DEF Post
    <3>2. Open.n <= current
      BY <2>a DEF Open
    <3>3. QED
      BY <3>1, <3>2 DEF OrderInv, DeliveredInOrder, None
  <2>4. ASSUME AttemptFailed \/ SendReturns("refused"), current \in Incident,
               UNCHANGED <<current, wire, acted>>, reply' = None \/ reply' = reply, Sending
        PROVE  OrderInv'
    <3>1. \A n \in Incident : outcome'[n] = "delivered" => outcome[n] = "delivered"
      BY <2>4, NotDelivered
    <3>2. QED
      BY <2>4, <3>1 DEF OrderInv, DeliveredInOrder, None
  <2>5. CASE NoConnection \/ TimedOut \/ ConnectionBreaks
    BY <2>4, <2>5 DEF NoConnection, TimedOut, ConnectionBreaks, At, PlaceInv, Sending
  <2>6. CASE ReadAnswer
    <3>1. /\ Sending /\ current \in Incident /\ UNCHANGED <<current, wire, acted>>
          /\ reply' = None
      BY <2>6 DEF ReadAnswer, At, PlaceInv, Sending
    <3>2. CASE reply # "ok"
      BY <2>4, <2>6, <3>1, <3>2 DEF ReadAnswer
    <3>3. CASE reply = "ok"
      <4>1. outcome' = [outcome EXCEPT ![current] = "delivered"]
        BY <2>6, <3>3 DEF ReadAnswer, SendReturns
      <4>2. PICK i \in DOMAIN acted : acted[i] = current
        BY <3>1, <3>3 DEF OrderInv
      <4>3. \A j \in 1..i : acted[j] <= current
        BY <2>a DEF OrderInv
      <4>4. DeliveredInOrder'
        <5> SUFFICES ASSUME NEW n \in Incident, outcome'[n] = "delivered"
                     PROVE  \E k \in DOMAIN acted :
                              acted[k] = n /\ \A j \in 1..k : acted[j] <= n
          BY <3>1 DEF DeliveredInOrder
        <5>1. CASE n = current
          BY <4>2, <4>3, <5>1
        <5>2. CASE n # current
          BY <4>1, <5>2 DEF OrderInv, DeliveredInOrder, TypeOK
        <5>3. QED
          BY <5>1, <5>2
      <4>5. QED
        BY <3>1, <4>4 DEF OrderInv, None
    <3>4. QED
      BY <3>2, <3>3
  <2>7. CASE Wake \/ TimePasses
    BY <2>7 DEF Wake, TimePasses, At, OrderInv, DeliveredInOrder, Sending
  <2>8. CASE Network
    <3>1. PICK r \in wire : LoseRequest(r) \/ Receive(r)
      BY <2>8 DEF Network
    <3>2. r.n \in Incident /\ r.n <= current
      BY DEF TypeOK, Request, OrderInv
    <3>3. CASE LoseRequest(r)
      BY <3>3 DEF LoseRequest, OrderInv, DeliveredInOrder, Sending
    <3>4. CASE Receive(r)
      <4>1. /\ UNCHANGED <<pc, current, attempt, outcome, exitCode>> /\ wire' = wire \ {r}
            /\ \/ acted' = Append(acted, r.n)
               \/ acted' = acted /\ (reply' # "ok" \/ reply' = reply)
            /\ reply' = reply \/ r = Open
        BY <3>4 DEF Receive
      <4>2. r = Open => r.n = current
        BY DEF Open
      <4>3. CASE acted' = acted
        BY <4>1, <4>3 DEF OrderInv, DeliveredInOrder, Sending
      <4>4. CASE acted' = Append(acted, r.n)
        <5> DEFINE m == Len(acted) + 1
        <5>1. /\ m \in DOMAIN acted' /\ acted'[m] = r.n /\ DOMAIN acted' = 1..m
              /\ \A i \in DOMAIN acted : i \in DOMAIN acted' /\ acted'[i] = acted[i]
              /\ \A i \in DOMAIN acted' : i \in DOMAIN acted \/ i = m
          BY <2>a, <3>2, <4>4, AppendAt
        <5>2. DeliveredInOrder'
          <6> SUFFICES ASSUME NEW n \in Incident, outcome[n] = "delivered"
                       PROVE  \E k \in DOMAIN acted' :
                                acted'[k] = n /\ \A j \in 1..k : acted'[j] <= n
            BY <4>1 DEF DeliveredInOrder
          <6>1. PICK k \in DOMAIN acted : acted[k] = n /\ \A j \in 1..k : acted[j] <= n
            BY DEF OrderInv, DeliveredInOrder
          <6>2. \A j \in 1..k : j \in DOMAIN acted
            BY <2>a
          <6>3. QED
            BY <5>1, <6>1, <6>2
        <5>3. \A i \in DOMAIN acted' : acted'[i] <= current
          BY <3>2, <5>1 DEF OrderInv
        <5>4. Sending /\ reply' = "ok" => \E i \in DOMAIN acted' : acted'[i] = current
          BY <4>1, <4>2, <5>1 DEF OrderInv
        <5>5. QED
          BY <4>1, <5>2, <5>3, <5>4 DEF OrderInv, Sending
      <4>5. QED
        BY <4>1, <4>3, <4>4
    <3>5. QED
      BY <3>1, <3>3, <3>4
  <2>9. CASE UNCHANGED vars
    BY <2>9 DEF vars, OrderInv, DeliveredInOrder, Sending
  <2>10. QED
    BY <2>1, <2>2, <2>3, <2>5, <2>6, <2>7, <2>8, <2>9 DEF Next, Sender, Exited
<1>3. OrderInv => DeliveredInOrder
  BY DEF OrderInv
<1>4. QED
  BY <1>1, <1>2, <1>3, TypeCorrect, PTL DEF Spec

---------------------------------------------------------------------------
(* The counter and the exit status follow the outcomes at every point of the loop. *)
ResultInv ==
  /\ RefusalIsFinal
  /\ webhookErrCount = Cardinality(Undelivered)
  /\ exitCode \in {-1, 0} /\ settings.strict => Undelivered = {}
  /\ exitCode = -1 /\ pc = "next" => \A n \in 1..current : outcome[n] # None
  /\ Sending => \A n \in 1..(current - 1) : outcome[n] # None
  /\ settings.enabled /\ settings.url /\ exitCode \in {-1, 0} /\ pc = "summary"
       => \A n \in Incident : outcome[n] # None
  /\ exitCode = 0 => pc = "summary"
  /\ exitCode = -1 /\ pc \in {"attribute", "configure"} => current = 0

(* The undelivered incidents can be counted. *)
LEMMA UndeliveredFinite == IsFiniteSet(Undelivered)
<1>1. IsFiniteSet(Incident)
  BY Numbers, FS_Interval DEF Incident
<1>2. QED
  BY <1>1, FS_Subset DEF Undelivered

(* A return of Send keeps the counter and the strict mode's promise. *)
LEMMA ReturnCounts ==
  ASSUME TypeOK, PlaceInv, ResultInv, Sending, UNCHANGED <<settings, current>>,
         NEW result \in {"delivered", "refused", "failed"}, SendReturns(result),
         \A n \in Incident : n # current => refusals'[n] = refusals[n],
         IF result = "refused" THEN refusals'[current] = 1 ELSE refusals'[current] = 0
  PROVE  ResultInv'
<1> USE DEF PlaceInv
<1>a. /\ current \in Incident /\ current \in Int /\ Incident = 1..Incidents
      /\ Incidents \in Int /\ exitCode = -1 /\ outcome[current] = None
  BY Numbers DEF TypeOK, Incident, Sending
<1>b. outcome' = [outcome EXCEPT ![current] = result]
  BY DEF SendReturns
<1>c. outcome'[current] = result /\ \A n \in Incident : n # current => outcome'[n] = outcome[n]
  BY <1>a, <1>b DEF TypeOK
<1>d. (pc' = "next" /\ exitCode' = -1) \/ exitCode' = 1
  BY <1>a DEF SendReturns
<1>1. RefusalIsFinal'
  BY <1>a, <1>c DEF ResultInv, RefusalIsFinal
<1>2. webhookErrCount' = Cardinality(Undelivered')
  <2>1. CASE result = "delivered"
    <3>1. Undelivered' = Undelivered /\ webhookErrCount' = webhookErrCount
      BY <1>a, <1>c, <2>1 DEF Undelivered, SendReturns, None
    <3>2. QED
      BY <3>1 DEF ResultInv
  <2>2. CASE result # "delivered"
    <3>1. Undelivered' = Undelivered \cup {current} /\ current \notin Undelivered
      BY <1>a, <1>c, <2>2 DEF Undelivered, None
    <3>2. webhookErrCount' = webhookErrCount + 1
      BY <2>2 DEF SendReturns
    <3>3. Cardinality(Undelivered \cup {current}) = Cardinality(Undelivered) + 1
      BY <3>1, UndeliveredFinite, FS_AddElement
    <3>4. QED
      BY <3>1, <3>2, <3>3 DEF ResultInv
  <2>3. QED
    BY <2>1, <2>2
<1>3. exitCode' \in {-1, 0} /\ settings'.strict => Undelivered' = {}
  <2> SUFFICES ASSUME exitCode' \in {-1, 0}, settings.strict PROVE Undelivered' = {}
    OBVIOUS
  <2>1. result = "delivered"
    BY DEF SendReturns
  <2>2. Undelivered = {}
    BY <1>a DEF ResultInv
  <2>3. QED
    BY <1>c, <2>1, <2>2 DEF Undelivered
<1>4. pc' = "next" => \A n \in 1..current' : outcome'[n] # None
  <2> SUFFICES ASSUME NEW n \in 1..current PROVE outcome'[n] # None
    OBVIOUS
  <2>1. n \in Incident /\ (n = current \/ n \in 1..(current - 1))
    BY <1>a
  <2>2. QED
    BY <1>c, <2>1 DEF ResultInv, None
<1>5. QED
  BY <1>1, <1>2, <1>3, <1>4, <1>d DEF ResultInv, Sending

(* The same for an attempt that fails. *)
LEMMA FailureCounts ==
  ASSUME TypeOK, PlaceInv, ResultInv, Sending, AttemptFailed,
         UNCHANGED <<settings, current, refusals>>
  PROVE  ResultInv'
<1>1. CASE SendReturns("failed")
  <2>1. refusals'[current] = 0
    BY DEF PlaceInv
  <2>2. QED
    BY <1>1, <2>1, ReturnCounts
<1>2. CASE pc' = "backoff" /\ UNCHANGED <<outcome, webhookErrCount, exitCode>>
  BY <1>2 DEF ResultInv, RefusalIsFinal, Undelivered, Sending
<1>3. QED
  BY <1>1, <1>2 DEF AttemptFailed

(* The invariant of the loop, from which the next two theorems follow. *)
LEMMA ResultsKept == Spec => []ResultInv
<1>1. Init => ResultInv
  <2> SUFFICES ASSUME Init PROVE ResultInv
    OBVIOUS
  <2>1. Undelivered = {}
    BY DEF Init, Undelivered, None
  <2>2. Cardinality(Undelivered) = 0
    BY <2>1, FS_EmptySet
  <2>3. QED
    BY <2>1, <2>2 DEF Init, ResultInv, RefusalIsFinal, Sending
<1>2. TypeOK /\ PlaceInv /\ ResultInv /\ [Next]_vars => ResultInv'
  <2> SUFFICES ASSUME TypeOK, PlaceInv, ResultInv, [Next]_vars PROVE ResultInv'
    OBVIOUS
  <2> USE DEF sendVars, resultVars
  <2>a. /\ Incident = 1..Incidents /\ Incidents \in Int /\ current \in 0..Incidents
    BY Numbers DEF TypeOK, Incident
  <2>1. CASE Attribute \/ Configure
    <3>1. /\ UNCHANGED <<settings, current, outcome, refusals, webhookErrCount>>
          /\ exitCode = -1 /\ pc \in {"attribute", "configure"}
          /\ \/ exitCode' = -1 /\ pc' = "configure"
             \/ exitCode' = -1 /\ pc' = "next"
             \/ exitCode' = -1 /\ pc' = "summary" /\ ~(settings.enabled /\ settings.url)
             \/ exitCode' \in {1, 2}
      BY <2>1 DEF Attribute, Configure, At
    <3>2. Undelivered' = Undelivered /\ current = 0
      BY <3>1 DEF Undelivered, ResultInv
    <3>3. QED
      BY <3>1, <3>2 DEF ResultInv, RefusalIsFinal, Sending
  <2>2. CASE BeginSend
    <3>1. /\ UNCHANGED <<settings, outcome, refusals, webhookErrCount, exitCode>>
          /\ exitCode = -1 /\ pc = "next" /\ pc' = "post" /\ current' = current + 1
      BY <2>2 DEF BeginSend, At
    <3>2. Undelivered' = Undelivered /\ current' - 1 = current
      BY <2>a, <3>1 DEF Undelivered
    <3>3. QED
      BY <3>1, <3>2 DEF ResultInv, RefusalIsFinal, Sending
  <2>3. CASE LastSent
    <3>1. /\ UNCHANGED <<settings, current, outcome, refusals, webhookErrCount, exitCode>>
          /\ exitCode = -1 /\ pc = "next" /\ pc' = "summary" /\ current = Incidents
      BY <2>3 DEF LastSent, At
    <3>2. Undelivered' = Undelivered
      BY <3>1 DEF Undelivered
    <3>3. QED
      BY <2>a, <3>1, <3>2 DEF ResultInv, RefusalIsFinal, Sending
  <2>4. CASE Summary
    <3>1. /\ UNCHANGED <<settings, pc, current, outcome, refusals, webhookErrCount>>
          /\ exitCode = -1 /\ pc = "summary" /\ exitCode' \in {0, 1}
      BY <2>4 DEF Summary, At
    <3>2. Undelivered' = Undelivered
      BY <3>1 DEF Undelivered
    <3>3. QED
      BY <3>1, <3>2 DEF ResultInv, RefusalIsFinal, Sending
  <2>5. CASE NoConnection \/ TimedOut \/ ConnectionBreaks
    BY <2>5, FailureCounts DEF NoConnection, TimedOut, ConnectionBreaks, At, Sending
  <2>6. CASE ReadAnswer
    <3>1. Sending /\ UNCHANGED <<settings, current>>
      BY <2>6 DEF ReadAnswer, At, Sending
    <3>2. CASE AttemptFailed /\ UNCHANGED refusals
      BY <3>1, <3>2, FailureCounts
    <3>3. CASE SendReturns("delivered") /\ UNCHANGED refusals
      <4>1. refusals'[current] = 0
        BY <3>1, <3>3 DEF PlaceInv
      <4>2. QED
        BY <3>1, <3>3, <4>1, ReturnCounts
    <3>4. CASE SendReturns("refused") /\ refusals' = [refusals EXCEPT ![current] = @ + 1]
      <4>1. current \in Incident /\ refusals[current] = 0 /\ refusals \in [Incident -> Nat]
        BY <3>1 DEF PlaceInv, TypeOK
      <4>2. refusals'[current] = 1 /\ \A n \in Incident : n # current => refusals'[n] = refusals[n]
        BY <3>4, <4>1
      <4>3. QED
        BY <3>1, <3>4, <4>2, ReturnCounts
    <3>5. QED
      BY <2>6, <3>2, <3>3, <3>4 DEF ReadAnswer
  <2>7. CASE Post \/ Wake \/ TimePasses
    <3>1. /\ UNCHANGED <<settings, current, outcome, refusals, webhookErrCount, exitCode>>
          /\ Sending /\ pc' \in {"post", "await", "backoff"}
      BY <2>7 DEF Post, Wake, TimePasses, At, Sending
    <3>2. Undelivered' = Undelivered
      BY <3>1 DEF Undelivered
    <3>3. QED
      BY <3>1, <3>2 DEF ResultInv, RefusalIsFinal, Sending
  <2>8. CASE Network \/ UNCHANGED vars
    <3>1. UNCHANGED <<settings, pc, current, outcome, refusals, webhookErrCount, exitCode>>
      BY <2>8 DEF Network, LoseRequest, Receive, vars
    <3>2. Undelivered' = Undelivered
      BY <3>1 DEF Undelivered
    <3>3. QED
      BY <3>1, <3>2 DEF ResultInv, RefusalIsFinal, Sending
  <2>9. QED
    BY <2>1, <2>2, <2>3, <2>4, <2>5, <2>6, <2>7, <2>8 DEF Next, Sender, Exited
<1>3. QED
  BY <1>1, <1>2, TypeCorrect, PTL DEF Spec

(* Once a 4xx answer has been read for an incident, Send has returned its error and nothing *)
(* is tried again (nonRetryableError).                                                      *)
THEOREM RefusalsFinal == Spec => []RefusalIsFinal
<1>1. ResultInv => RefusalIsFinal
  BY DEF ResultInv
<1>2. QED
  BY <1>1, ResultsKept, PTL

(* The error counter and the exit status of the attributor say what the deliveries came to. *)
THEOREM ExitHonest == Spec => []ExitTellsErrors
<1>1. ResultInv => ExitTellsErrors
  BY DEF ResultInv, ExitTellsErrors
<1>2. QED
  BY <1>1, ResultsKept, PTL

---------------------------------------------------------------------------
(* How long a Send takes, and how often the receiver acts.                 *)

(* The seconds before attempt a: timeouts and backoffs of those before it. *)
Budget(a) == a * Timeout + 2 ^ a - 1

SecondsInv ==
  /\ pc = "post" => spent <= Budget(attempt)
  /\ pc = "await" => left >= 0 /\ spent + left <= Budget(attempt) + Timeout
  /\ pc = "backoff" => left >= 0 /\ spent + left <= Budget(attempt)
  /\ spent <= Budget(MaxRetry - 1) + Timeout

(* More attempts, more seconds. *)
LEMMA NoLess ==
  ASSUME NEW a \in Nat, NEW b \in Nat, NEW t \in Nat, a <= b
  PROVE  0 <= a * t /\ a * t <= b * t /\ (a + 1) * t = a * t + t
<1>1. 0 <= a * t
  OBVIOUS
<1>2. 0 <= (b - a) * t /\ (b - a) * t = b * t - a * t
  OBVIOUS
<1>3. a * t \in Int /\ b * t \in Int
  OBVIOUS
<1>4. QED
  BY <1>1, <1>2, <1>3

(* A later attempt has more seconds, and one more a timeout and a backoff.  *)
LEMMA BudgetGrows ==
  ASSUME NEW a \in 0..(MaxRetry - 1)
  PROVE  /\ Budget(a) \in Nat /\ Budget(a) <= Budget(MaxRetry - 1)
         /\ Backoff(a + 1) \in Nat
         /\ Budget(a) + Timeout + Backoff(a + 1) = Budget(a + 1)
<1> DEFINE b == MaxRetry - 1
<1>1. a \in Nat /\ b \in Nat /\ a <= b /\ a + 1 \in Nat /\ (a + 1) - 1 = a /\ Timeout \in Nat
  BY Numbers
<1> HIDE DEF b
<1>2. /\ 0 <= a * Timeout /\ a * Timeout <= b * Timeout
      /\ (a + 1) * Timeout = a * Timeout + Timeout
  BY <1>1, NoLess
<1>3. 1 <= 2 ^ a /\ 2 ^ a <= 2 ^ b /\ 2 ^ (a + 1) = 2 * 2 ^ a
  BY <1>1, PowersGrow, PowersDouble
<1>4. 2 ^ a \in Nat /\ 2 ^ b \in Nat
  BY <1>1, PowerOfTwo
<1>5. a * Timeout \in Int /\ b * Timeout \in Int
  BY <1>1
<1>6. Backoff(a + 1) = 2 ^ a
  BY <1>1 DEF Backoff
<1>7. /\ Budget(a) = a * Timeout + 2 ^ a - 1 /\ Budget(b) = b * Timeout + 2 ^ b - 1
      /\ Budget(a + 1) = (a + 1) * Timeout + 2 ^ (a + 1) - 1
  BY DEF Budget
<1>8. Budget(a) \in Nat /\ Budget(a) <= Budget(b)
  BY <1>2, <1>3, <1>4, <1>5, <1>7
<1>9. Budget(a) + Timeout + Backoff(a + 1) = Budget(a + 1)
  BY <1>1, <1>2, <1>3, <1>4, <1>5, <1>6, <1>7
<1>10. QED
  BY <1>4, <1>6, <1>8, <1>9 DEF b

(* An attempt that fails leaves room for its backoff. *)
LEMMA FailureTakes ==
  ASSUME TypeOK, SecondsInv, AttemptFailed, spent' = spent,
         pc = "post" \/ pc = "await"
  PROVE  SecondsInv'
<1>1. /\ spent \in Nat /\ left \in Int /\ attempt \in 0..(MaxRetry - 1) /\ Timeout \in Nat
      /\ spent <= Budget(MaxRetry - 1) + Timeout
  BY Numbers DEF TypeOK, SecondsInv
<1>2. /\ Budget(attempt) \in Nat /\ Budget(attempt) <= Budget(MaxRetry - 1)
      /\ Backoff(attempt + 1) \in Nat
      /\ Budget(attempt) + Timeout + Backoff(attempt + 1) = Budget(attempt + 1)
  BY <1>1, BudgetGrows
<1>3. spent <= Budget(attempt) + Timeout
  BY <1>1, <1>2 DEF SecondsInv
<1>4. CASE attempt' = attempt + 1 /\ left' = Backoff(attempt + 1) /\ pc' = "backoff"
  <2>1. left' >= 0 /\ spent' + left' <= Budget(attempt')
    BY <1>1, <1>2, <1>3, <1>4
  <2>2. QED
    BY <1>1, <1>4, <2>1 DEF SecondsInv
<1>5. CASE left' = 0 /\ SendReturns("failed") /\ attempt' = attempt
  <2>1. pc' = "next" \/ pc' = pc
    BY <1>5 DEF SendReturns
  <2>2. spent' + left' <= Budget(attempt') + Timeout
    BY <1>1, <1>3, <1>5
  <2>3. QED
    BY <1>1, <1>5, <2>1, <2>2 DEF SecondsInv
<1>6. QED
  BY <1>4, <1>5 DEF AttemptFailed

(* No step takes more seconds than the attempts so far allow. *)
LEMMA SecondsKept == TypeOK /\ SecondsInv /\ [Next]_vars => SecondsInv'
<1> SUFFICES ASSUME TypeOK, SecondsInv, [Next]_vars PROVE SecondsInv'
  OBVIOUS
<1> USE DEF sendVars, resultVars
<1>0. /\ spent \in Nat /\ left \in Int /\ attempt \in 0..(MaxRetry - 1) /\ Timeout \in Nat
      /\ 0 \in 0..(MaxRetry - 1) /\ Budget(MaxRetry - 1) \in Nat
  <2>1. MaxRetry - 1 \in 0..(MaxRetry - 1) /\ 0 \in 0..(MaxRetry - 1)
    BY Numbers
  <2>2. QED
    BY <2>1, Numbers, BudgetGrows DEF TypeOK
<1>1. CASE Attribute \/ Configure \/ LastSent \/ Summary
  BY <1>1 DEF Attribute, Configure, LastSent, Summary, At, SecondsInv
<1>2. CASE BeginSend
  <2>1. 0 <= Budget(0)
    BY <1>0, BudgetGrows
  <2>2. pc' = "post" /\ spent' = 0 /\ attempt' = 0
    BY <1>2 DEF BeginSend
  <2>3. QED
    BY <1>0, <2>1, <2>2 DEF SecondsInv
<1>3. CASE Post
  <2>1. /\ pc = "post" /\ pc' = "await" /\ left' = Timeout /\ spent' = spent /\ attempt' = attempt
    BY <1>3 DEF Post, At
  <2>2. Budget(attempt) \in Nat /\ spent <= Budget(attempt)
    BY <1>0, <2>1, BudgetGrows DEF SecondsInv
  <2>3. left' >= 0 /\ spent' + left' <= Budget(attempt') + Timeout
    BY <1>0, <2>1, <2>2
  <2>4. QED
    BY <2>1, <2>3 DEF SecondsInv
<1>4. CASE NoConnection \/ TimedOut \/ ConnectionBreaks
  <2>1. AttemptFailed /\ spent' = spent /\ (pc = "post" \/ pc = "await")
    BY <1>4 DEF NoConnection, TimedOut, ConnectionBreaks, At
  <2>2. QED
    BY <2>1, FailureTakes
<1>5. CASE ReadAnswer
  <2>1. spent' = spent /\ pc = "await"
    BY <1>5 DEF ReadAnswer, At
  <2>2. CASE AttemptFailed
    BY <2>1, <2>2, FailureTakes
  <2>3. CASE (SendReturns("delivered") \/ SendReturns("refused")) /\ UNCHANGED <<attempt, left>>
    <3>1. pc' = "next" \/ pc' = pc
      BY <2>3 DEF SendReturns
    <3>2. QED
      BY <2>1, <2>3, <3>1 DEF SecondsInv
  <2>4. QED
    BY <1>5, <2>2, <2>3 DEF ReadAnswer
<1>6. CASE Wake
  <2>1. pc = "backoff" /\ pc' = "post" /\ UNCHANGED <<left, spent, attempt>>
    BY <1>6 DEF Wake, At
  <2>2. Budget(attempt) \in Nat /\ left >= 0 /\ spent + left <= Budget(attempt)
    BY <1>0, <2>1, BudgetGrows DEF SecondsInv
  <2>3. spent <= Budget(attempt)
    BY <1>0, <2>2
  <2>4. QED
    BY <2>1, <2>3 DEF SecondsInv
<1>7. CASE TimePasses
  <2>1. /\ pc = "await" \/ pc = "backoff"
        /\ left > 0 /\ left' = left - 1 /\ spent' = spent + 1 /\ UNCHANGED <<pc, attempt>>
    BY <1>7 DEF TimePasses, At
  <2>2. left' >= 0 /\ spent' + left' = spent + left /\ spent' <= spent + left
    BY <1>0, <2>1
  <2>3. Budget(attempt) \in Nat /\ Budget(attempt) <= Budget(MaxRetry - 1)
    BY <1>0, BudgetGrows
  <2>4. spent + left <= Budget(MaxRetry - 1) + Timeout
    BY <1>0, <2>1, <2>3 DEF SecondsInv
  <2>5. spent' <= Budget(MaxRetry - 1) + Timeout
    BY <1>0, <2>1, <2>2, <2>4
  <2>6. QED
    BY <2>1, <2>2, <2>5 DEF SecondsInv
<1>8. CASE Network \/ UNCHANGED vars
  BY <1>8 DEF Network, LoseRequest, Receive, vars, SecondsInv
<1>9. QED
  BY <1>1, <1>2, <1>3, <1>4, <1>5, <1>6, <1>7, <1>8 DEF Next, Sender, Exited

(* At the start no second has been taken. *)
LEMMA StartSeconds == Init => SecondsInv
<1>1. MaxRetry - 1 \in 0..(MaxRetry - 1) /\ Timeout \in Nat
  BY Numbers
<1>2. Budget(MaxRetry - 1) \in Nat
  BY <1>1, BudgetGrows
<1>3. QED
  BY <1>1, <1>2 DEF Init, SecondsInv

(* What the receiver did for an incident, what it may still do, and the attempts so far.   *)
Places(n) == { i \in DOMAIN acted : acted[i] = n }
Waiting(n) == { r \in wire : r.n = n }
Posted(n) ==
  IF n > current THEN 0
  ELSE IF n < current \/ pc \notin {"post", "await", "backoff"} THEN MaxRetry
  ELSE IF pc = "await" THEN attempt + 1 ELSE attempt

(* A request is acted on at most once, though possibly late, and each attempt makes one.   *)
RequestsInv ==
  /\ IsFiniteSet(wire)
  /\ \A n \in Incident : Cardinality(Places(n)) + Cardinality(Waiting(n)) <= Posted(n)

(* A set with one element more. *)
LEMMA OneMore ==
  ASSUME NEW S, IsFiniteSet(S), NEW x
  PROVE  Cardinality(S \cup {x}) \in Nat /\ Cardinality(S \cup {x}) <= Cardinality(S) + 1
<1>1. Cardinality(S) \in Nat
  BY FS_CardinalityType
<1>2. QED
  BY <1>1, FS_AddElement

(* Both can be counted. *)
LEMMA Counted ==
  ASSUME TypeOK, IsFiniteSet(wire), NEW n
  PROVE  /\ IsFiniteSet(Places(n)) /\ Cardinality(Places(n)) \in Nat
         /\ IsFiniteSet(Waiting(n)) /\ Cardinality(Waiting(n)) \in Nat
<1>1. DOMAIN acted = 1..Len(acted) /\ Len(acted) \in Nat
  BY DEF TypeOK
<1>2. IsFiniteSet(1..Len(acted))
  BY <1>1, FS_Interval
<1>3. Places(n) \in SUBSET (1..Len(acted)) /\ Waiting(n) \in SUBSET wire
  BY <1>1 DEF Places, Waiting
<1>4. IsFiniteSet(Places(n)) /\ IsFiniteSet(Waiting(n))
  BY <1>2, <1>3, FS_Subset
<1>5. QED
  BY <1>4, FS_CardinalityType

(* The attempts only become more, and never more than MaxRetry. *)
LEMMA PostedBounded ==
  ASSUME TypeOK, NEW n \in Incident
  PROVE  Posted(n) \in Nat /\ Posted(n) <= MaxRetry
BY Numbers DEF TypeOK, Posted

(* A step that leaves the wire and the receiver alone. *)
LEMMA SameRequests ==
  ASSUME RequestsInv, TypeOK, TypeOK', UNCHANGED <<wire, acted>>,
         \A n \in Incident : Posted(n) <= Posted(n)'
  PROVE  RequestsInv'
<1>1. \A n : Places(n)' = Places(n) /\ Waiting(n)' = Waiting(n)
  BY DEF Places, Waiting
<1>2. ASSUME NEW n \in Incident
      PROVE  Cardinality(Places(n)) + Cardinality(Waiting(n)) <= Posted(n)'
  <2>1. /\ Cardinality(Places(n)) \in Nat /\ Cardinality(Waiting(n)) \in Nat
        /\ Cardinality(Places(n)) + Cardinality(Waiting(n)) <= Posted(n)
    BY Counted DEF RequestsInv
  <2>2. Posted(n) \in Nat /\ Posted(n)' \in Nat
    <3>1. Posted(n) \in Nat
      BY PostedBounded
    <3>2. Posted(n)' \in Nat
      <4>1. attempt' \in 0..(MaxRetry - 1) /\ MaxRetry \in Nat
        BY Numbers DEF TypeOK
      <4>2. \A a \in 0..(MaxRetry - 1) : a \in Nat /\ a + 1 \in Nat
        BY <4>1
      <4>3. Posted(n)' \in {0, MaxRetry, attempt' + 1, attempt'}
        BY DEF Posted
      <4>4. QED
        BY <4>1, <4>2, <4>3
    <3>3. QED
      BY <3>1, <3>2
  <2>3. QED
    BY <2>1, <2>2
<1>3. QED
  BY <1>1, <1>2 DEF RequestsInv

(* The end of an attempt. *)
LEMMA FailureRequests ==
  ASSUME RequestsInv, TypeOK, TypeOK', UNCHANGED <<wire, acted, current>>,
         AttemptFailed \/ ((SendReturns("delivered") \/ SendReturns("refused")) /\ attempt' = attempt),
         pc = "post" \/ pc = "await"
  PROVE  RequestsInv'
<1>1. \/ pc' = "backoff" /\ attempt' = attempt + 1
      \/ pc' = "next"
      \/ pc' = pc /\ attempt' = attempt
  BY DEF AttemptFailed, SendReturns
<1>2. ASSUME NEW n \in Incident PROVE Posted(n) <= Posted(n)'
  <2>1. /\ current \in Int /\ n \in Int /\ attempt \in 0..(MaxRetry - 1) /\ MaxRetry \in Nat
    BY Numbers DEF TypeOK, Incident
  <2>2. QED
    BY <1>1, <2>1 DEF Posted
<1>3. QED
  BY <1>2, SameRequests

(* No step of the sender, the network or the receiver makes a request out of nothing. *)
LEMMA RequestsKept == TypeOK /\ TypeOK' /\ RequestsInv /\ [Next]_vars => RequestsInv'
<1> SUFFICES ASSUME TypeOK, TypeOK', RequestsInv, [Next]_vars PROVE RequestsInv'
  OBVIOUS
<1> USE DEF sendVars, resultVars
<1>0. /\ current \in Int /\ attempt \in 0..(MaxRetry - 1) /\ MaxRetry \in Nat /\ Incident \subseteq Int
      /\ acted \in Seq(Incident)
  BY Numbers DEF TypeOK, Incident
<1>1. CASE Attribute \/ Configure \/ LastSent \/ Summary \/ Wake \/ TimePasses
  <2>1. /\ UNCHANGED <<wire, acted, current, attempt>>
        /\ \/ pc' = pc
           \/ pc = "backoff" /\ pc' = "post"
           \/ pc \notin {"post", "await", "backoff"} /\ pc' \notin {"post", "await", "backoff"}
    BY <1>1 DEF Attribute, Configure, LastSent, Summary, Wake, TimePasses, At
  <2>2. \A n \in Incident : Posted(n) <= Posted(n)'
    BY <1>0, <2>1 DEF Posted
  <2>3. QED
    BY <2>1, <2>2, SameRequests
<1>2. CASE BeginSend
  <2>1. /\ UNCHANGED <<wire, acted>> /\ pc = "next" /\ current' = current + 1
        /\ pc' = "post" /\ attempt' = 0
    BY <1>2 DEF BeginSend, At
  <2>2. \A n \in Incident : Posted(n) <= Posted(n)'
    BY <1>0, <2>1 DEF Posted
  <2>3. QED
    BY <2>1, <2>2, SameRequests
<1>3. CASE NoConnection \/ TimedOut \/ ConnectionBreaks \/ ReadAnswer
  BY <1>3, FailureRequests DEF NoConnection, TimedOut, ConnectionBreaks, ReadAnswer, At
<1>4. CASE Post
  <2>1. /\ pc = "post" /\ pc' = "await" /\ wire' = wire \cup {Open}
        /\ UNCHANGED <<acted, current, attempt>>
    BY <1>4 DEF Post, At
  <2>2. IsFiniteSet(wire')
    BY <2>1, FS_AddElement DEF RequestsInv
  <2>3. ASSUME NEW n \in Incident
        PROVE  Cardinality(Places(n)') + Cardinality(Waiting(n)') <= Posted(n)'
    <3>1. /\ IsFiniteSet(Waiting(n)) /\ Cardinality(Places(n)) \in Nat
          /\ Cardinality(Waiting(n)) \in Nat
          /\ Cardinality(Places(n)) + Cardinality(Waiting(n)) <= Posted(n)
      BY Counted DEF RequestsInv
    <3>2. Places(n)' = Places(n)
      BY <2>1 DEF Places
    <3>3. CASE n # current
      <4>1. Waiting(n)' = Waiting(n) /\ Posted(n)' = Posted(n)
        BY <2>1, <3>3, <1>0 DEF Waiting, Open, Posted
      <4>2. QED
        BY <3>1, <3>2, <4>1
    <3>4. CASE n = current
      <4>1. Waiting(n)' = Waiting(n) \cup {Open}
        BY <2>1, <3>4 DEF Waiting, Open
      <4>2. Cardinality(Waiting(n) \cup {Open}) <= Cardinality(Waiting(n)) + 1
        BY <3>1, OneMore
      <4>3. Cardinality(Waiting(n) \cup {Open}) \in Nat
        BY <3>1, OneMore
      <4>4. Posted(n) = attempt /\ Posted(n)' = attempt + 1
        BY <1>0, <2>1, <3>4 DEF Posted
      <4>5. QED
        BY <1>0, <3>1, <3>2, <4>1, <4>2, <4>3, <4>4
    <3>5. QED
      BY <3>3, <3>4
  <2>4. QED
    BY <2>2, <2>3 DEF RequestsInv
<1>5. CASE Network
  <2>1. PICK r \in wire : LoseRequest(r) \/ Receive(r)
    BY <1>5 DEF Network
  <2>2. /\ wire' = wire \ {r} /\ UNCHANGED <<pc, current, attempt>>
        /\ acted' = acted \/ acted' = Append(acted, r.n)
    BY <2>1 DEF LoseRequest, Receive
  <2>3. IsFiniteSet(wire')
    BY <2>2, FS_RemoveElement DEF RequestsInv
  <2>4. r.n \in Incident
    BY DEF TypeOK, Request
  <2>5. ASSUME NEW n \in Incident
        PROVE  Cardinality(Places(n)') + Cardinality(Waiting(n)') <= Posted(n)'
    <3>1. /\ IsFiniteSet(Waiting(n)) /\ IsFiniteSet(Places(n))
          /\ Cardinality(Places(n)) \in Nat /\ Cardinality(Waiting(n)) \in Nat
          /\ Cardinality(Places(n)) + Cardinality(Waiting(n)) <= Posted(n)
      BY Counted DEF RequestsInv
    <3>2. Posted(n)' = Posted(n) /\ Posted(n) \in Int
      BY <2>2, PostedBounded DEF Posted
    <3>3. Waiting(n)' = Waiting(n) \ {r}
      BY <2>2 DEF Waiting
    <3>4. /\ Cardinality(Waiting(n) \ {r})
               = (IF r \in Waiting(n) THEN Cardinality(Waiting(n)) - 1 ELSE Cardinality(Waiting(n)))
      BY <3>1, FS_RemoveElement
    <3>5. CASE Places(n)' = Places(n)
      BY <3>1, <3>2, <3>3, <3>4, <3>5
    <3>6. CASE acted' = Append(acted, r.n) /\ r.n = n
      <4>1. Places(n)' = Places(n) \cup {Len(acted) + 1}
        BY <1>0, <2>4, <3>6, AppendAt DEF Places
      <4>2. Cardinality(Places(n) \cup {Len(acted) + 1}) <= Cardinality(Places(n)) + 1
            /\ Cardinality(Places(n) \cup {Len(acted) + 1}) \in Nat
        BY <3>1, OneMore
      <4>3. r \in Waiting(n)
        BY <3>6 DEF Waiting
      <4>4. QED
        BY <3>1, <3>2, <3>3, <3>4, <4>1, <4>2, <4>3
    <3>7. CASE acted' = Append(acted, r.n) /\ r.n # n
      <4>1. Places(n)' = Places(n)
        BY <1>0, <2>4, <3>7, AppendAt DEF Places
      <4>2. QED
        BY <3>5, <4>1
    <3>8. CASE acted' = acted
      BY <3>5, <3>8 DEF Places
    <3>9. QED
      BY <2>2, <3>6, <3>7, <3>8
  <2>6. QED
    BY <2>3, <2>5 DEF RequestsInv
<1>6. CASE UNCHANGED vars
  <2>1. \A n \in Incident : Posted(n)' = Posted(n) /\ Posted(n) \in Int
    BY <1>6, PostedBounded DEF vars, Posted
  <2>2. QED
    BY <1>6, <2>1, SameRequests DEF vars
<1>7. QED
  BY <1>1, <1>2, <1>3, <1>4, <1>5, <1>6 DEF Next, Sender, Exited

(* A Send is over after the timeouts and the doubling backoffs of its attempts, and the    *)
(* receiver acts on no incident more often than Send has attempts, lost answers, late      *)
(* requests and exits included.                                                            *)
THEOREM SendIsBounded == Spec => []SendBounded
<1>1. Init => SecondsInv /\ RequestsInv
  <2> SUFFICES ASSUME Init PROVE SecondsInv /\ RequestsInv
    OBVIOUS
  <2>1. SecondsInv
    BY StartSeconds
  <2>2. \A n \in Incident : Places(n) = {} /\ Waiting(n) = {} /\ Posted(n) = 0
    BY Numbers DEF Init, Places, Waiting, Posted, Incident
  <2>3. Cardinality({}) = 0 /\ IsFiniteSet(wire)
    BY FS_EmptySet DEF Init
  <2>4. QED
    BY <2>1, <2>2, <2>3 DEF RequestsInv
<1>2. TypeOK /\ TypeOK' /\ SecondsInv /\ RequestsInv /\ [Next]_vars => (SecondsInv /\ RequestsInv)'
  BY SecondsKept, RequestsKept
<1>3. TypeOK /\ SecondsInv /\ RequestsInv => SendBounded
  <2> SUFFICES ASSUME TypeOK, SecondsInv, RequestsInv PROVE SendBounded
    OBVIOUS
  <2>1. Budget(MaxRetry - 1) + Timeout = MaxRetry * Timeout + 2 ^ (MaxRetry - 1) - 1
    <3>1. MaxRetry - 1 \in Nat /\ MaxRetry \in Nat /\ Timeout \in Nat
      BY Numbers
    <3>2. ((MaxRetry - 1) + 1) * Timeout = (MaxRetry - 1) * Timeout + Timeout
      BY <3>1, NoLess
    <3>3. (MaxRetry - 1) + 1 = MaxRetry
      BY <3>1
    <3>4. (MaxRetry - 1) * Timeout \in Int /\ 2 ^ (MaxRetry - 1) \in Int
      BY <3>1, PowerOfTwo
    <3>5. QED
      BY <3>1, <3>2, <3>3, <3>4 DEF Budget
  <2>2. ASSUME NEW n \in Incident PROVE Cardinality(Places(n)) <= MaxRetry
    <3>1. /\ Cardinality(Places(n)) \in Nat /\ Cardinality(Waiting(n)) \in Nat
          /\ Cardinality(Places(n)) + Cardinality(Waiting(n)) <= Posted(n)
      BY Counted DEF RequestsInv
    <3>2. Posted(n) \in Nat /\ Posted(n) <= MaxRetry
      BY PostedBounded
    <3>3. QED
      BY <3>1, <3>2, Numbers
  <2>3. ActedAtMostMaxRetry
    BY <2>2 DEF ActedAtMostMaxRetry, Places
  <2>4. QED
    BY <2>1, <2>3 DEF SendBounded, SecondsInv
<1>4. QED
  BY <1>1, <1>2, <1>3, TypeCorrect, PTL DEF Spec
---------------------------------------------------------------------------
(* How far the run is from its end: the seconds and the steps that the later attempts, the *)
(* rest of this one and the predictions after this one can still take.                     *)
LaterAttempts(a) == Budget(MaxRetry - 1) - Budget(a) + 3 * (MaxRetry - 1 - a)
SendCost == LaterAttempts(0) + Timeout + 3
StepsLeft ==
  [attribute |-> 4, configure |-> 3, next |-> 2, summary |-> 1,
   post |-> Timeout + 4, await |-> 3, backoff |-> Timeout + 5]
SendWork == IF pc \in {"post", "await", "backoff"} THEN LaterAttempts(attempt) + left ELSE 0
RunWork == StepsLeft[pc] + (Incidents - current) * SendCost + SendWork

EndComesNearer ==
  /\ Sender \/ TimePasses => exitCode' # -1 \/ RunWork' < RunWork
  /\ Network => UNCHANGED <<RunWork, exitCode>>
EndMoves ==
  exitCode = -1 => RunWork \in Nat /\ (pc \in {"await", "backoff"} => left \in Nat)

(* A clock never runs below zero while a Send is under way. *)
LeftInv == pc \in {"post", "await", "backoff"} => left >= 0

(* What the places are worth. *)
LEMMA StepsAt ==
  /\ StepsLeft["attribute"] = 4 /\ StepsLeft["configure"] = 3 /\ StepsLeft["next"] = 2
  /\ StepsLeft["summary"] = 1 /\ StepsLeft["await"] = 3
  /\ StepsLeft["post"] = Timeout + 4 /\ StepsLeft["backoff"] = Timeout + 5
BY DEF StepsLeft

(* An attempt takes its timeout, its backoff and three steps from the attempts to come.    *)
LEMMA AttemptCosts ==
  ASSUME NEW a \in 0..(MaxRetry - 1)
  PROVE  /\ LaterAttempts(a) \in Nat
         /\ LaterAttempts(a + 1) + Timeout + Backoff(a + 1) + 3 = LaterAttempts(a)
         /\ SendCost \in Nat
<1> DEFINE b == MaxRetry - 1
           last == Budget(MaxRetry - 1)
<1>1. a \in Nat /\ b \in Nat /\ a <= b /\ 0 \in 0..(MaxRetry - 1) /\ Timeout \in Nat
  BY Numbers
<1>2. /\ Budget(a) \in Nat /\ Budget(a) <= last /\ last \in Nat
      /\ Backoff(a + 1) \in Nat
      /\ Budget(a) + Timeout + Backoff(a + 1) = Budget(a + 1)
      /\ Budget(0) \in Nat /\ Budget(0) <= last
  <2>1. MaxRetry - 1 \in 0..(MaxRetry - 1)
    BY Numbers
  <2>2. QED
    BY <1>1, <2>1, BudgetGrows
<1>3. /\ LaterAttempts(a) = last - Budget(a) + 3 * (b - a)
      /\ LaterAttempts(a + 1) = last - Budget(a + 1) + 3 * (b - (a + 1))
      /\ LaterAttempts(0) = last - Budget(0) + 3 * (b - 0)
  BY DEF LaterAttempts
<1> HIDE DEF b, last
<1>4. LaterAttempts(a) \in Nat /\ LaterAttempts(0) \in Nat
  BY <1>1, <1>2, <1>3
<1>5. LaterAttempts(a + 1) + Timeout + Backoff(a + 1) + 3 = LaterAttempts(a)
  BY <1>1, <1>2, <1>3
<1>6. QED
  BY <1>1, <1>4, <1>5 DEF SendCost

(* The sum of the three parts, and what a smaller part does to it.                         *)
LEMMA PartsOfRun ==
  ASSUME NEW x \in Nat, NEW k \in Nat, NEW c \in Nat, NEW y \in Nat
  PROVE  /\ k * c \in Nat /\ x + k * c + y \in Nat
         /\ \A u, v \in Nat : u + v < x + y => u + k * c + v < x + k * c + y
         /\ k > 0 => (k - 1) * c = k * c - c
<1>1. k * c \in Nat
  OBVIOUS
<1>2. k > 0 => (k - 1) * c = k * c - c
  OBVIOUS
<1>3. QED
  BY <1>1, <1>2

(* The parts are numbers. *)
LEMMA RunWorkTypes ==
  TypeOK /\ LeftInv
    => /\ SendCost \in Nat /\ Incidents - current \in Nat
       /\ StepsLeft[pc] \in Nat /\ SendWork \in Nat /\ RunWork \in Nat
<1> SUFFICES ASSUME TypeOK, LeftInv
             PROVE  /\ SendCost \in Nat /\ Incidents - current \in Nat
                    /\ StepsLeft[pc] \in Nat /\ SendWork \in Nat /\ RunWork \in Nat
  OBVIOUS
<1>1. attempt \in 0..(MaxRetry - 1) /\ left \in Int /\ Timeout \in Nat
  BY Numbers DEF TypeOK
<1>2. SendCost \in Nat /\ LaterAttempts(attempt) \in Nat
  BY <1>1, AttemptCosts
<1>3. Incidents - current \in Nat
  BY Numbers DEF TypeOK
<1>4. StepsLeft[pc] \in Nat
  BY <1>1, StepsAt DEF TypeOK
<1>5. SendWork \in Nat
  <2>1. CASE pc \in {"post", "await", "backoff"}
    <3>1. SendWork = LaterAttempts(attempt) + left /\ left >= 0
      BY <2>1 DEF SendWork, LeftInv
    <3>2. QED
      BY <1>1, <1>2, <3>1
  <2>2. CASE pc \notin {"post", "await", "backoff"}
    BY <2>2 DEF SendWork
  <2>3. QED
    BY <2>1, <2>2
<1>6. RunWork \in Nat
  BY <1>2, <1>3, <1>4, <1>5, PartsOfRun DEF RunWork
<1>7. QED
  BY <1>2, <1>3, <1>4, <1>5, <1>6

(* A step that keeps the prediction and takes from the other two parts is a step nearer.   *)
LEMMA LessToDo ==
  ASSUME TypeOK, TypeOK', LeftInv, LeftInv', current' = current,
         StepsLeft[pc'] + SendWork' < StepsLeft[pc] + SendWork
  PROVE  RunWork' < RunWork
<1> DEFINE k == Incidents - current
<1>1. /\ k' = k /\ k \in Nat /\ SendCost \in Nat
      /\ StepsLeft[pc] \in Nat /\ SendWork \in Nat
  BY RunWorkTypes
<1>2. StepsLeft[pc'] \in Nat /\ SendWork' \in Nat
  <2>1. (TypeOK /\ LeftInv => StepsLeft[pc] \in Nat /\ SendWork \in Nat)'
    BY RunWorkTypes, PTL
  <2>2. QED
    BY <2>1
<1>3. RunWork = StepsLeft[pc] + k * SendCost + SendWork
  BY DEF RunWork
<1>4. RunWork' = StepsLeft[pc'] + k * SendCost + SendWork'
  BY <1>1 DEF RunWork
<1> HIDE DEF k
<1>5. QED
  BY <1>1, <1>2, <1>3, <1>4, PartsOfRun

(* A failed attempt, and a Send that returns, are steps nearer.            *)
LEMMA FailureNearer ==
  ASSUME TypeOK, TypeOK', LeftInv, LeftInv', current' = current, AttemptFailed,
         pc = "post" \/ pc = "await"
  PROVE  exitCode' # -1 \/ RunWork' < RunWork
<1>1. /\ attempt \in 0..(MaxRetry - 1) /\ Timeout \in Nat /\ left \in Int /\ left >= 0
      /\ LaterAttempts(attempt) \in Nat
      /\ LaterAttempts(attempt + 1) + Timeout + Backoff(attempt + 1) + 3 = LaterAttempts(attempt)
  BY Numbers, AttemptCosts DEF TypeOK, LeftInv
<1>2. SendWork = LaterAttempts(attempt) + left /\ StepsLeft[pc] \in {3, Timeout + 4}
  BY StepsAt DEF SendWork
<1>3. CASE attempt' = attempt + 1 /\ left' = Backoff(attempt + 1) /\ pc' = "backoff"
  <2>1. SendWork' = LaterAttempts(attempt + 1) + Backoff(attempt + 1)
    BY <1>3 DEF SendWork
  <2>2. StepsLeft[pc'] = Timeout + 5
    BY <1>3, StepsAt
  <2>3. /\ attempt + 1 \in 0..(MaxRetry - 1) /\ Backoff(attempt + 1) \in Int
        /\ LaterAttempts(attempt + 1) \in Nat
    BY <1>1, <1>3, AttemptCosts, BackoffType DEF TypeOK
  <2>4. StepsLeft[pc'] + SendWork' < StepsLeft[pc] + SendWork
    BY <1>1, <1>2, <2>1, <2>2, <2>3
  <2>5. QED
    BY <2>4, LessToDo
<1>4. CASE SendReturns("failed")
  <2>1. CASE pc' = "next"
    <3>1. SendWork' = 0 /\ StepsLeft[pc'] = 2
      BY <2>1, StepsAt DEF SendWork
    <3>2. StepsLeft[pc'] + SendWork' < StepsLeft[pc] + SendWork
      BY <1>1, <1>2, <3>1
    <3>3. QED
      BY <3>2, LessToDo
  <2>2. CASE exitCode' = 1
    BY <2>2
  <2>3. QED
    BY <1>4, <2>1, <2>2 DEF SendReturns
<1>5. QED
  BY <1>3, <1>4 DEF AttemptFailed

(* The clocks stay where they may be. *)
LEMMA LeftKept == TypeOK /\ SecondsInv /\ SecondsInv' /\ LeftInv /\ [Next]_vars => LeftInv'
<1> SUFFICES ASSUME TypeOK, SecondsInv', LeftInv, [Next]_vars, pc' = "post" PROVE left' >= 0
  BY DEF LeftInv, SecondsInv
<1>1. CASE BeginSend
  BY <1>1 DEF BeginSend
<1>2. CASE Wake
  BY <1>2 DEF Wake, sendVars
<1>3. CASE UNCHANGED <<pc, left>>
  BY <1>3 DEF LeftInv
<1>4. CASE AttemptFailed
  BY <1>4 DEF AttemptFailed, SendReturns, LeftInv, TypeOK
<1>5. CASE ReadAnswer
  BY <1>4, <1>5 DEF ReadAnswer, At, SendReturns
<1>6. QED
  BY <1>1, <1>2, <1>3, <1>4, <1>5 DEF Next, Sender, Attribute, Configure, LastSent, Summary, Post,
     NoConnection, TimedOut, ConnectionBreaks, TimePasses, At, Network, LoseRequest, Receive,
     Exited, vars, sendVars

(* Every step of the sender and of its clock leads nearer, none of the network away.       *)
LEMMA RunGoesOn ==
  ASSUME TypeOK, TypeOK', LeftInv, LeftInv', [Next]_vars
  PROVE  EndComesNearer
<1> DEFINE Nearer == exitCode' # -1 \/ RunWork' < RunWork
<1>0. /\ attempt \in 0..(MaxRetry - 1) /\ Timeout \in Nat /\ left \in Int /\ current \in Int
      /\ LaterAttempts(attempt) \in Nat /\ SendCost \in Nat /\ Incidents \in Nat
  BY Numbers, AttemptCosts DEF TypeOK
<1>1. ASSUME current' = current, StepsLeft[pc'] + SendWork' < StepsLeft[pc] + SendWork PROVE Nearer
  BY <1>1, LessToDo
<1> HIDE DEF Nearer
<1>2. ASSUME exitCode' # -1 PROVE Nearer
  BY <1>2 DEF Nearer
<1>3. ASSUME Attribute \/ Configure PROVE Nearer
  <2>1. /\ current' = current
        /\ \/ exitCode' \in {1, 2}
           \/ pc = "attribute" /\ pc' = "configure"
           \/ pc = "configure" /\ pc' \in {"summary", "next"}
    BY <1>3 DEF Attribute, Configure, At
  <2>2. CASE exitCode' \in {1, 2}
    BY <1>2, <2>2
  <2>3. CASE \/ pc = "attribute" /\ pc' = "configure"
             \/ pc = "configure" /\ pc' \in {"summary", "next"}
    <3>1. SendWork = 0 /\ SendWork' = 0
      BY <2>3 DEF SendWork
    <3>2. StepsLeft[pc'] < StepsLeft[pc]
      BY <2>3, StepsAt
    <3>3. StepsLeft[pc'] \in Nat /\ StepsLeft[pc] \in Nat
      BY <2>3, StepsAt
    <3>4. QED
      BY <1>1, <2>1, <3>1, <3>2, <3>3
  <2>4. QED
    BY <2>1, <2>2, <2>3
<1>4. ASSUME BeginSend PROVE Nearer
  <2> DEFINE k == Incidents - current
  <2>1. /\ pc = "next" /\ pc' = "post" /\ current < Incidents /\ current' = current + 1
        /\ attempt' = 0 /\ left' = 0
    BY <1>4 DEF BeginSend, At
  <2>2. k \in Nat /\ k > 0 /\ Incidents - current' = k - 1
    BY <1>0, <2>1
  <2>3. RunWork = 2 + k * SendCost + 0
    BY <2>1, StepsAt DEF RunWork, SendWork
  <2>4. RunWork' = (Timeout + 4) + (k - 1) * SendCost + (LaterAttempts(0) + 0)
    <3>1. StepsLeft[pc'] = Timeout + 4
      BY <2>1, StepsAt
    <3>2. SendWork' = LaterAttempts(0) + 0
      BY <2>1 DEF SendWork
    <3>3. RunWork' = StepsLeft[pc'] + (Incidents - current') * SendCost + SendWork'
      BY DEF RunWork, StepsLeft, SendCost, LaterAttempts, Budget
    <3>4. QED
      BY <2>2, <3>1, <3>2, <3>3
  <2> HIDE DEF k
  <2>5. (k - 1) * SendCost = k * SendCost - SendCost /\ k * SendCost \in Nat
    BY <1>0, <2>2, PartsOfRun
  <2>6. SendCost = LaterAttempts(0) + Timeout + 3 /\ LaterAttempts(0) \in Nat
    <3>1. 0 \in 0..(MaxRetry - 1)
      BY Numbers
    <3>2. QED
      BY <3>1, AttemptCosts DEF SendCost
  <2>7. RunWork' < RunWork
    BY <1>0, <2>3, <2>4, <2>5, <2>6
  <2>8. QED
    BY <2>7 DEF Nearer
<1>5. ASSUME LastSent PROVE Nearer
  <2>1. pc = "next" /\ pc' = "summary" /\ current' = current
    BY <1>5 DEF LastSent, At
  <2>2. /\ SendWork = 0 /\ SendWork' = 0 /\ StepsLeft[pc'] = 1 /\ StepsLeft[pc] = 2
    BY <2>1, StepsAt DEF SendWork
  <2>3. QED
    BY <1>1, <2>1, <2>2
<1>6. ASSUME Summary PROVE Nearer
  <2>1. exitCode' # -1
    BY <1>6 DEF Summary
  <2>2. QED
    BY <1>2, <2>1
<1>7. ASSUME Post PROVE Nearer
  <2>1. /\ pc = "post" /\ pc' = "await" /\ left' = Timeout
        /\ UNCHANGED <<current, attempt>> /\ left >= 0
    BY <1>7 DEF Post, At, LeftInv
  <2>2. /\ SendWork = LaterAttempts(attempt) + left
        /\ SendWork' = LaterAttempts(attempt) + Timeout
        /\ StepsLeft[pc'] = 3 /\ StepsLeft[pc] = Timeout + 4
    BY <2>1, StepsAt DEF SendWork
  <2>3. StepsLeft[pc'] + SendWork' < StepsLeft[pc] + SendWork
    BY <1>0, <2>1, <2>2
  <2>4. QED
    BY <1>1, <2>1, <2>3
<1>8. ASSUME AttemptFailed, pc \in {"post", "await"}, current' = current PROVE Nearer
  BY <1>8, FailureNearer DEF Nearer
<1>9. ASSUME NoConnection \/ TimedOut \/ ConnectionBreaks PROVE Nearer
  BY <1>8, <1>9 DEF NoConnection, TimedOut, ConnectionBreaks, At
<1>10. ASSUME ReadAnswer PROVE Nearer
  <2>1. pc = "await" /\ current' = current /\ left >= 0
    BY <1>10 DEF ReadAnswer, At, LeftInv
  <2>2. CASE AttemptFailed
    BY <1>8, <2>1, <2>2
  <2>3. CASE pc' = "next"
    <3>1. /\ SendWork = LaterAttempts(attempt) + left /\ SendWork' = 0
          /\ StepsLeft[pc'] = 2 /\ StepsLeft[pc] = 3
      BY <2>1, <2>3, StepsAt DEF SendWork
    <3>2. StepsLeft[pc'] + SendWork' < StepsLeft[pc] + SendWork
      BY <1>0, <2>1, <3>1
    <3>3. QED
      BY <1>1, <2>1, <3>2
  <2>4. CASE exitCode' = 1
    BY <1>2, <2>4
  <2>5. QED
    BY <1>10, <2>2, <2>3, <2>4 DEF ReadAnswer, SendReturns
<1>11. ASSUME Wake PROVE Nearer
  <2>1. pc = "backoff" /\ pc' = "post" /\ UNCHANGED <<current, attempt, left>>
    BY <1>11 DEF Wake, At, sendVars
  <2>2. /\ SendWork = LaterAttempts(attempt) + left /\ SendWork' = LaterAttempts(attempt) + left
        /\ StepsLeft[pc'] = Timeout + 4 /\ StepsLeft[pc] = Timeout + 5
    BY <2>1, StepsAt DEF SendWork
  <2>3. StepsLeft[pc'] + SendWork' < StepsLeft[pc] + SendWork
    BY <1>0, <2>2
  <2>4. QED
    BY <1>1, <2>1, <2>3
<1>12. ASSUME TimePasses PROVE Nearer
  <2>1. /\ pc \in {"await", "backoff"} /\ pc' = pc /\ left' = left - 1
        /\ UNCHANGED <<current, attempt>>
    BY <1>12 DEF TimePasses, At
  <2>2. /\ SendWork = LaterAttempts(attempt) + left
        /\ SendWork' = LaterAttempts(attempt) + (left - 1)
        /\ StepsLeft[pc'] = StepsLeft[pc] /\ StepsLeft[pc] \in Nat
    BY <1>0, <2>1, StepsAt DEF SendWork
  <2>3. StepsLeft[pc'] + SendWork' < StepsLeft[pc] + SendWork
    BY <1>0, <2>2
  <2>4. QED
    BY <1>1, <2>1, <2>3
<1>13. ASSUME Network PROVE UNCHANGED <<RunWork, exitCode>>
  <2>1. UNCHANGED <<pc, current, attempt, left, exitCode>>
    BY <1>13 DEF Network, LoseRequest, Receive, sendVars, resultVars
  <2>2. QED
    BY <2>1 DEF RunWork, SendWork
<1>14. QED
  BY <1>3, <1>4, <1>5, <1>6, <1>7, <1>9, <1>10, <1>11, <1>12, <1>13
     DEF Sender, EndComesNearer, Nearer

(* The safety half of RunEnds.  Every step of the attributor and every second it waits     *)
(* takes something from what the run can still do, which is a number from the start on,    *)
(* or ends the run; nothing the network or the receiver does, or leaves undone, adds to    *)
(* it; and a clock that is waited for has not run past zero, so it ticks or has run out.   *)
THEOREM RunComesNearer == Spec => [][EndComesNearer]_vars /\ []EndMoves
<1>1. Init => LeftInv
  BY DEF Init, LeftInv
<1>2. TypeOK /\ LeftInv => EndMoves
  BY RunWorkTypes DEF EndMoves, LeftInv, TypeOK
<1>3. QED
  BY <1>1, <1>2, LeftKept, StartSeconds, SecondsKept, RunGoesOn, TypeCorrect, PTL DEF Spec
=============================================================================
