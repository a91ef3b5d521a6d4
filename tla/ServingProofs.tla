--------------------------- MODULE ServingProofs ---------------------------
(***************************************************************************)
(* What the service says of a request is right, for any number of clients, *)
(* requests and tokens, however clients leave and the clock is set.        *)
(***************************************************************************)
EXTENDS Serving, FiniteTheorems

Events == {"meta", "token", "done", "body", "failed"}
Places ==
  {"idle", "uncounted", "retrieving", "generating", "meta", "token", "calculate", "done",
   "answer", "body", "counting", "ended"}
Handler ==
  [at: Places, body: Request, gone: BOOLEAN, code: Int, sent: Seq(Events), size: Nat,
   time: [start: Int, first: Int, last: Int], outcome: {"none", "ok", "error", "bad_request"}]

(* The stream so far: the meta event and k tokens. *)
Prefix(k) == <<"meta">> \o [i \in 1..k |-> "token"]

(* Justified of a handler, with the state it looks at as parameters. *)
JustifiedBy(h, back, set) ==
  /\ h.outcome = "ok" => h.code = 200 /\ h.sent = Complete(h)
  /\ h.outcome \in {"error", "bad_request"} => h.sent # Complete(h)
  /\ h.outcome = "error" =>
       h.gone \/ set > 0 \/ (back = "llama_cpp" /\ h.code = 502 /\ h.sent = <<"failed">>)

(* Before it is to be counted a handler has written what its place tells. *)
Place(h) ==
  /\ h.at # "counting" => h.outcome = "none"
  /\ h.at \in {"idle", "retrieving", "generating", "meta", "answer", "body"} =>
       h.sent = << >> /\ h.code = 0
  /\ h.at \in {"idle", "retrieving", "generating"} => h.size = 0
  /\ h.at = "meta" => h.body.stream /\ h.size > 0
  /\ h.at = "token" =>
       /\ h.body.stream /\ h.code = 200
       /\ \E k \in 0..(h.size - 1) : h.sent = Prefix(k)
  /\ h.at \in {"calculate", "done"} =>
       h.body.stream /\ h.size > 0 /\ h.code = 200 /\ h.sent = Prefix(h.size)
  /\ h.at \in {"answer", "body"} => ~h.body.stream

(* The times it took are in order and past, if the clock was never set back. *)
Timed(h, now, set) ==
  set = 0 =>
    /\ h.at \in {"retrieving", "generating", "meta", "answer", "token"} => h.time.start <= now
    /\ h.at = "token" /\ h.sent # Prefix(0) => InOrder(h.time) /\ h.time.last <= now
    /\ h.at = "calculate" => InOrder(h.time)

Good(h, back, now, set) ==
  h \in Handler /\ Place(h) /\ Timed(h, now, set) /\ (h.at = "counting" => JustifiedBy(h, back, set))

RagInv ==
  /\ clock \in Int /\ slips \in Nat
  /\ DOMAIN chat = Clients
  /\ \A c \in Clients : Good(chat[c], backend, clock, slips)

(* ----------------------------- what is written -------------------------- *)

LEMMA Repeated ==
  ASSUME NEW S, NEW e \in S, NEW k \in Nat
  PROVE  [i \in 1..k |-> e] \in Seq(S) /\ Len([i \in 1..k |-> e]) = k
OBVIOUS

LEMMA Led ==
  ASSUME NEW S, NEW e \in S, NEW t \in Seq(S)
  PROVE  /\ <<e>> \o t \in Seq(S) /\ Len(<<e>> \o t) = Len(t) + 1
         /\ \A i \in 1..(Len(t) + 1) : (<<e>> \o t)[i] = IF i = 1 THEN e ELSE t[i - 1]
OBVIOUS

LEMMA Appended ==
  ASSUME NEW S, NEW e \in S, NEW t \in Seq(S)
  PROVE  /\ Append(t, e) \in Seq(S) /\ Len(Append(t, e)) = Len(t) + 1
         /\ Append(t, e)[Len(t) + 1] = e /\ t \o <<e>> = Append(t, e)
         /\ \A i \in 1..Len(t) : Append(t, e)[i] = t[i]
OBVIOUS

LEMMA SameSequence ==
  ASSUME NEW S, NEW s \in Seq(S), NEW t \in Seq(S), Len(s) = Len(t),
         \A i \in 1..Len(s) : s[i] = t[i]
  PROVE  s = t
OBVIOUS

LEMMA OnePrefix ==
  ASSUME NEW k \in Nat
  PROVE  /\ Prefix(k) \in Seq(Events) /\ Len(Prefix(k)) = k + 1
         /\ \A i \in 1..(k + 1) : Prefix(k)[i] = IF i = 1 THEN "meta" ELSE "token"
<1> DEFINE t == [i \in 1..k |-> "token"]
<1>1. t \in Seq(Events) /\ Len(t) = k
  BY Repeated DEF Events
<1>2. \A i \in 1..k : t[i] = "token"
  OBVIOUS
<1>3. Prefix(k) = <<"meta">> \o t
  BY DEF Prefix
<1>4. "meta" \in Events
  BY DEF Events
<1> HIDE DEF t
<1>5. QED
  BY <1>1, <1>2, <1>3, <1>4, Led

LEMMA Prefixes ==
  ASSUME NEW k \in Nat
  PROVE  /\ Prefix(k) \in Seq(Events) /\ Len(Prefix(k)) = k + 1
         /\ Append(Prefix(k), "token") = Prefix(k + 1)
<1> DEFINE p == Prefix(k)   q == Prefix(k + 1)
<1>1. /\ p \in Seq(Events) /\ Len(p) = k + 1
      /\ \A i \in 1..(k + 1) : p[i] = IF i = 1 THEN "meta" ELSE "token"
  BY OnePrefix
<1>2. /\ q \in Seq(Events) /\ Len(q) = k + 2
      /\ \A i \in 1..(k + 2) : q[i] = IF i = 1 THEN "meta" ELSE "token"
  BY OnePrefix
<1> HIDE DEF p, q
<1>3. "token" \in Events
  BY DEF Events
<1>4. Append(p, "token") \in Seq(Events) /\ Len(Append(p, "token")) = k + 2
  BY <1>1, <1>3, Appended
<1>5. \A i \in 1..(k + 2) : Append(p, "token")[i] = q[i]
  BY <1>1, <1>2
<1>6. Append(p, "token") = q
  BY <1>2, <1>4, <1>5, SameSequence
<1>7. QED
  BY <1>1, <1>6 DEF p, q

LEMMA NonePrefix == Prefix(0) = <<"meta">> /\ Append(<< >>, "meta") = <<"meta">>
<1>1. [i \in 1..0 |-> "token"] = << >>
  OBVIOUS
<1>2. QED
  BY <1>1 DEF Prefix

(* A response that is complete ends with another event than a failure's.   *)
LEMMA CompleteIs ==
  ASSUME NEW h \in Handler
  PROVE  /\ ~h.body.stream => Complete(h) = <<"body">>
         /\ h.body.stream => /\ Complete(h) = Append(Prefix(h.size), "done")
                            /\ Len(Complete(h)) = h.size + 2
         /\ \A s \in Seq(Events) : Complete(h) # Append(s, "failed")
<1>1. h.size \in Nat /\ h.body.stream \in BOOLEAN
  BY DEF Handler, Request
<1>2. CASE ~h.body.stream
  <2>1. Complete(h) = <<"body">>
    BY <1>2 DEF Complete
  <2>2. ASSUME NEW s \in Seq(Events) PROVE <<"body">> # Append(s, "failed")
    OBVIOUS
  <2>3. QED
    BY <1>2, <2>1, <2>2
<1>3. CASE h.body.stream
  <2> DEFINE p == Prefix(h.size)   t == [i \in 1..h.size |-> "token"]
  <2>1. Complete(h) = <<"meta">> \o t \o <<"done">> /\ p = <<"meta">> \o t
    BY <1>3 DEF Complete, Prefix
  <2>2. p \in Seq(Events) /\ Len(p) = h.size + 1
    BY <1>1, Prefixes
  <2>3. Complete(h) = p \o <<"done">>
    BY <2>1
  <2> HIDE DEF p
  <2>4. "done" \in Events
    BY DEF Events
  <2>5. /\ Complete(h) = Append(p, "done") /\ Len(Complete(h)) = h.size + 2
        /\ Complete(h)[Len(Complete(h))] = "done"
    BY <1>1, <2>2, <2>3, <2>4, Appended
  <2>6. ASSUME NEW s \in Seq(Events) PROVE Append(s, "failed")[Len(Append(s, "failed"))] = "failed"
    OBVIOUS
  <2>7. QED
    BY <1>3, <2>5, <2>6 DEF p
<1>4. QED
  BY <1>2, <1>3

(* --------------------------- steps of a handler ------------------------- *)

(* A refusal is counted under a label the client cannot be misled by: what *)
(* it has is not the whole response, and an error has its reason.          *)
LEMMA RefusedIsGood ==
  ASSUME NEW h \in Handler, NEW reply \in Int, NEW label \in {"error", "bad_request"},
         NEW back, NEW now \in Int, NEW set \in Nat, h.sent # Complete(h),
         label = "error" =>
           \/ h.gone \/ set > 0
           \/ back = "llama_cpp" /\ reply = 502 /\ h.code = 0 /\ h.sent = << >>
  PROVE  Good(Refused(h, reply, label), back, now, set)
<1> DEFINE r == Refused(h, reply, label)
<1>1. "failed" \in Events /\ h.sent \in Seq(Events)
  BY DEF Events, Handler
<1>2. Append(h.sent, "failed") \in Seq(Events)
  BY <1>1, Appended
<1>3. /\ r.at = "counting" /\ r.outcome = label /\ r.time = NoTime
      /\ r.code = (IF h.code = 0 THEN reply ELSE h.code) /\ r.gone = h.gone
      /\ r.sent = (IF h.gone THEN h.sent ELSE Append(h.sent, "failed"))
      /\ r.body = h.body /\ r.size = h.size
  BY DEF Refused, Handler
<1>4. r \in Handler
  <2> DEFINE sent == IF h.gone THEN h.sent ELSE Append(h.sent, "failed")
             code == IF h.code = 0 THEN reply ELSE h.code
  <2>1. r = [h EXCEPT !.at = "counting", !.outcome = label, !.time = NoTime,
                      !.code = code, !.sent = sent]
    BY DEF Refused, Handler
  <2>2. sent \in Seq(Events) /\ code \in Int
    BY <1>1, <1>2 DEF Handler
  <2>3. NoTime \in [start: Int, first: Int, last: Int]
    BY DEF NoTime
  <2> HIDE DEF sent, code, r
  <2>4. QED
    BY <2>1, <2>2, <2>3 DEF Handler, Places
<1>5. Complete(r) = Complete(h)
  BY <1>3 DEF Complete
<1> HIDE DEF r
<1>6. r.sent # Complete(r)
  BY <1>1, <1>3, <1>5, CompleteIs
<1>7. << >> \in Seq(Events) /\ Append(<< >>, "failed") = <<"failed">>
  OBVIOUS
<1>8. JustifiedBy(r, back, set)
  <2>1. r.outcome # "ok"
    BY <1>3
  <2>2. ASSUME r.outcome = "error", ~h.gone, ~(set > 0)
        PROVE  back = "llama_cpp" /\ r.code = 502 /\ r.sent = <<"failed">>
    <3>1. back = "llama_cpp" /\ reply = 502 /\ h.code = 0 /\ h.sent = << >>
      BY <1>3, <2>2
    <3>2. QED
      BY <1>3, <1>7, <2>2, <3>1
  <2>3. r.outcome = "error" => \/ r.gone \/ set > 0
                               \/ back = "llama_cpp" /\ r.code = 502 /\ r.sent = <<"failed">>
    BY <1>3, <2>2
  <2>4. QED
    BY <1>6, <2>1, <2>3 DEF JustifiedBy
<1>9. Place(r) /\ Timed(r, now, set)
  BY <1>3 DEF Place, Timed
<1>10. QED
  BY <1>4, <1>8, <1>9 DEF Good, r

LEMMA Local ==
  ASSUME RagInv, NEW c \in Clients, NEW h, chat' = [chat EXCEPT ![c] = h],
         UNCHANGED <<backend, clock, slips>>, Good(h, backend, clock, slips)
  PROVE  RagInv'
<1>1. clock' \in Int /\ slips' \in Nat /\ DOMAIN chat' = Clients
  BY DEF RagInv
<1>2. ASSUME NEW d \in Clients PROVE Good(chat'[d], backend', clock', slips')
  <2>1. chat'[d] = IF d = c THEN h ELSE chat[d]
    BY DEF RagInv
  <2>2. QED
    BY <2>1 DEF RagInv
<1>3. QED
  BY <1>1, <1>2 DEF RagInv

(* A handler of the invariant, for the steps below. *)
LEMMA OneHandler ==
  ASSUME RagInv, NEW c \in Clients
  PROVE  /\ chat[c] \in Handler /\ Place(chat[c]) /\ Timed(chat[c], clock, slips)
         /\ chat[c].at = "counting" => JustifiedBy(chat[c], backend, slips)
         /\ clock \in Int /\ slips \in Nat /\ c \in DOMAIN chat
BY DEF RagInv, Good

LEMMA NothingSent ==
  ASSUME NEW h \in Handler, h.sent = << >>
  PROVE  h.sent # Complete(h)
<1>1. h.size \in Nat
  BY DEF Handler
<1>2. QED
  BY <1>1, CompleteIs

LEMMA RefuseStep ==
  ASSUME RagInv, NEW c \in Clients, NEW reply \in Int, NEW label \in {"error", "bad_request"},
         Refuse(c, reply, label), UNCHANGED <<backend, clock, slips>>,
         chat[c].sent # Complete(chat[c]),
         label = "error" =>
           \/ chat[c].gone \/ slips > 0
           \/ backend = "llama_cpp" /\ reply = 502 /\ chat[c].code = 0 /\ chat[c].sent = << >>
  PROVE  RagInv'
<1> DEFINE h == Refused(chat[c], reply, label)
<1>1. Good(h, backend, clock, slips)
  BY OneHandler, RefusedIsGood
<1>2. chat' = [chat EXCEPT ![c] = h]
  BY OneHandler DEF Refuse
<1>3. backend' = backend /\ clock' = clock /\ slips' = slips
  OBVIOUS
<1> HIDE DEF h
<1>4. QED
  BY ONLY RagInv, c \in Clients, <1>1, <1>2, <1>3, Local

(* The three fields a wrong method sets are set in the handler of one client. *)
LEMMA MethodRefused ==
  ASSUME NEW f, NEW g, NEW c \in DOMAIN f, NEW b, NEW place, NEW reply,
         g = [f EXCEPT ![c].at = place, ![c].body = b, ![c].code = reply]
  PROVE  g = [f EXCEPT ![c] = [f[c] EXCEPT !.at = place, !.body = b, !.code = reply]]
OBVIOUS

LEMMA MethodHandler ==
  ASSUME NEW k \in Handler, NEW b \in Request, NEW place \in Places, NEW reply \in Int
  PROVE  [k EXCEPT !.at = place, !.body = b, !.code = reply] \in Handler
BY DEF Handler

LEMMA ReceiveStep ==
  ASSUME RagInv, NEW c \in Clients, NEW b \in Bodies[c], Receive(c, b)
  PROVE  RagInv'
<1>1. /\ chat[c].at = "idle" /\ UNCHANGED <<backend, clock, slips>>
      /\ chat[c] \in Handler /\ Place(chat[c]) /\ clock \in Int /\ slips \in Nat
      /\ b \in Request /\ c \in DOMAIN chat
  BY OneHandler, RagAssumption DEF Receive, Step, RagAssumption
<1>2. chat[c].sent = << >> /\ chat[c].code = 0 /\ chat[c].size = 0 /\ chat[c].outcome = "none"
  BY <1>1 DEF Place
<1>3. CASE chat' = [chat EXCEPT ![c].at = "uncounted", ![c].body = b, ![c].code = 405]
  <2> DEFINE reply == 405
             h == [chat[c] EXCEPT !.at = "uncounted", !.body = b, !.code = reply]
  <2>0. reply \in Int /\ c \in DOMAIN chat
    BY <1>1
  <2>6. chat' = [chat EXCEPT ![c].at = "uncounted", ![c].body = b, ![c].code = reply]
    BY <1>3
  <2> HIDE DEF reply
  <2>1. chat' = [chat EXCEPT ![c] = h]
    BY <2>0, <2>6, MethodRefused
  <2>2. h \in Handler
    <3>1. "uncounted" \in Places
      BY DEF Places
    <3>2. QED
      BY <1>1, <2>0, <3>1, MethodHandler
  <2>5. h.at = "uncounted" /\ h.outcome = "none"
    BY <1>1, <1>2 DEF Handler
  <2> HIDE DEF h
  <2>3. Good(h, backend, clock, slips)
    BY <2>2, <2>5 DEF Good, Place, Timed
  <2>4. QED
    BY <1>1, <2>1, <2>3, Local
<1>4. CASE chat' = [chat EXCEPT ![c] = Refused([@ EXCEPT !.body = b], 400, "bad_request")]
  <2> DEFINE g == [chat[c] EXCEPT !.body = b]
             h == Refused(g, 400, "bad_request")
  <2>1. chat' = [chat EXCEPT ![c] = h]
    BY <1>1, <1>4
  <2>2. g \in Handler /\ g.sent = << >>
    BY <1>1, <1>2 DEF Handler
  <2> HIDE DEF g
  <2>3. Good(h, backend, clock, slips)
    BY <1>1, <2>2, NothingSent, RefusedIsGood
  <2> HIDE DEF h
  <2>4. QED
    BY <1>1, <2>1, <2>3, Local
<1>5. CASE chat' = [chat EXCEPT ![c].at = "retrieving", ![c].body = b, ![c].time.start = clock]
  <2> DEFINE h == [chat[c] EXCEPT !.at = "retrieving", !.body = b, !.time.start = clock]
  <2>1. chat' = [chat EXCEPT ![c] = h]
    BY <1>1, <1>5
  <2>2. /\ h \in Handler /\ h.at = "retrieving" /\ h.outcome = "none" /\ h.sent = << >>
        /\ h.code = 0 /\ h.size = 0 /\ h.time.start = clock
    BY <1>1, <1>2 DEF Handler, Places
  <2> HIDE DEF h
  <2>3. Good(h, backend, clock, slips)
    BY <1>1, <2>2 DEF Good, Place, Timed
  <2>4. QED
    BY <1>1, <2>1, <2>3, Local
<1>6. QED
  BY <1>3, <1>4, <1>5 DEF Receive

LEMMA RetrievalStep ==
  ASSUME RagInv, NEW c \in Clients, SimulateRetrieval(c) \/ RetrievalCancelled(c)
  PROVE  RagInv'
<1>1. /\ chat[c].at = "retrieving" /\ UNCHANGED <<backend, clock, slips>>
      /\ chat[c] \in Handler /\ Place(chat[c]) /\ Timed(chat[c], clock, slips)
      /\ c \in DOMAIN chat /\ slips \in Nat /\ clock \in Int
  BY OneHandler DEF SimulateRetrieval, RetrievalCancelled, Step
<1>2. /\ chat[c].sent = << >> /\ chat[c].code = 0 /\ chat[c].size = 0
      /\ chat[c].outcome = "none"
  BY <1>1 DEF Place
<1>3. CASE SimulateRetrieval(c)
  <2> DEFINE h == [chat[c] EXCEPT !.at = "generating"]
  <2>1. chat' = [chat EXCEPT ![c] = h]
    BY <1>1, <1>3 DEF SimulateRetrieval
  <2>2. h \in Handler
    BY <1>1 DEF Handler, Places
  <2>3. /\ h.at = "generating" /\ h.outcome = "none" /\ h.sent = << >> /\ h.code = 0
        /\ h.size = 0 /\ h.time = chat[c].time
    BY <1>1, <1>2 DEF Handler
  <2> HIDE DEF h
  <2>4. Good(h, backend, clock, slips)
    BY <1>1, <2>2, <2>3 DEF Good, Place, Timed
  <2>5. QED
    BY ONLY RagInv, c \in Clients, <1>1, <2>1, <2>4, Local
<1>4. CASE RetrievalCancelled(c)
  <2>1. Refuse(c, 500, "error") /\ chat[c].gone
    BY <1>4 DEF RetrievalCancelled
  <2>2. chat[c].sent # Complete(chat[c])
    BY <1>1, <1>2, NothingSent
  <2>3. QED
    BY <1>1, <2>1, <2>2, RefuseStep
<1>5. QED
  BY <1>3, <1>4

LEMMA SomeTokens ==
  ASSUME NEW b \in Request, NEW n \in Lengths(b)
  PROVE  n \in Nat /\ n > 0
<1>1. DefaultMax \in Nat /\ DefaultMax > 0 /\ StubMax \in Nat /\ StubMax > 0
  BY RagAssumption DEF RagAssumption
<1>2. MaxTokens(b) \in Nat /\ MaxTokens(b) > 0
  BY <1>1 DEF MaxTokens, Request
<1>3. QED
  BY <1>1, <1>2 DEF Lengths

LEMMA GenerateStep ==
  ASSUME RagInv, NEW c \in Clients, Generate(c) \/ GenerateFails(c)
  PROVE  RagInv'
<1>1. /\ chat[c].at = "generating" /\ UNCHANGED <<backend, clock, slips>>
      /\ chat[c] \in Handler /\ Place(chat[c]) /\ Timed(chat[c], clock, slips)
      /\ c \in DOMAIN chat /\ slips \in Nat /\ clock \in Int
  BY OneHandler DEF Generate, GenerateFails, Step
<1>2. /\ chat[c].sent = << >> /\ chat[c].code = 0 /\ chat[c].outcome = "none"
      /\ chat[c].body \in Request
  BY <1>1 DEF Place, Handler
<1>3. CASE Generate(c)
  <2>1. PICK n \in Lengths(chat[c].body) :
          chat' = [chat EXCEPT ![c].size = n,
                               ![c].at = IF chat[c].body.stream THEN "meta" ELSE "answer"]
    BY <1>3 DEF Generate
  <2> DEFINE place == IF chat[c].body.stream THEN "meta" ELSE "answer"
             h == [chat[c] EXCEPT !.size = n, !.at = place]
  <2>2. n \in Nat /\ n > 0
    BY <1>2, SomeTokens
  <2>3. chat' = [chat EXCEPT ![c] = h]
    BY <1>1, <2>1
  <2>4. place \in {"meta", "answer"} /\ (place = "meta" <=> chat[c].body.stream)
    BY <1>2 DEF Request
  <2> HIDE DEF place
  <2>5. h \in Handler
    BY <1>1, <2>2, <2>4 DEF Handler, Places
  <2>6. /\ h.at = place /\ h.size = n /\ h.outcome = "none" /\ h.sent = << >> /\ h.code = 0
        /\ h.body = chat[c].body /\ h.time = chat[c].time
    BY <1>1, <1>2 DEF Handler
  <2> HIDE DEF h
  <2>7. Good(h, backend, clock, slips)
    BY <1>1, <2>2, <2>4, <2>5, <2>6 DEF Good, Place, Timed
  <2>8. QED
    BY ONLY RagInv, c \in Clients, <1>1, <2>3, <2>7, Local
<1>4. CASE GenerateFails(c)
  <2>1. Refuse(c, 502, "error") /\ backend = "llama_cpp"
    BY <1>4 DEF GenerateFails
  <2>2. chat[c].sent # Complete(chat[c])
    BY <1>1, <1>2, NothingSent
  <2>3. QED
    BY <1>1, <1>2, <2>1, <2>2, RefuseStep
<1>5. QED
  BY <1>3, <1>4

(* One write: the event goes out, or the client is gone and the handler of *)
(* that moment is refused.                                                 *)
Sent(h, event, next) ==
  [h EXCEPT !.code = IF @ = 0 THEN 200 ELSE @, !.sent = Append(@, event), !.at = next,
            !.outcome = IF next = "counting" THEN "ok" ELSE @]

LEMMA SentIs ==
  ASSUME NEW h \in Handler, NEW event \in Events, NEW next \in Places
  PROVE  LET w == Sent(h, event, next)
         IN  /\ w \in Handler /\ w.at = next /\ w.sent = Append(h.sent, event)
             /\ w.code = (IF h.code = 0 THEN 200 ELSE h.code)
             /\ w.outcome = (IF next = "counting" THEN "ok" ELSE h.outcome)
             /\ w.body = h.body /\ w.size = h.size /\ w.time = h.time
<1> DEFINE code == IF h.code = 0 THEN 200 ELSE h.code
           outcome == IF next = "counting" THEN "ok" ELSE h.outcome
           sent == Append(h.sent, event)
           w == Sent(h, event, next)
<1>1. w = [h EXCEPT !.code = code, !.sent = sent, !.at = next, !.outcome = outcome]
  BY DEF Sent, Handler
<1>2. sent \in Seq(Events)
  BY Appended DEF Handler
<1>3. code \in Int /\ outcome \in {"none", "ok", "error", "bad_request"}
  BY DEF Handler
<1> HIDE DEF code, outcome, sent, w
<1>4. w \in Handler
  BY <1>1, <1>2, <1>3 DEF Handler
<1>5. /\ w.at = next /\ w.sent = sent /\ w.code = code /\ w.outcome = outcome
      /\ w.body = h.body /\ w.size = h.size /\ w.time = h.time
  BY <1>1 DEF Handler
<1>6. QED
  BY <1>4, <1>5 DEF code, outcome, sent, w

LEMMA WriteStep ==
  ASSUME RagInv, NEW c \in Clients, NEW h \in Handler, NEW event, NEW next,
         Write(c, h, event, next), UNCHANGED <<backend, clock, slips>>, h.sent # Complete(h),
         Good(Sent(h, event, next), backend, clock, slips)
  PROVE  RagInv'
<1> DEFINE full == Sent(h, event, next)
           broken == Refused(h, 200, "error")
<1>1. PICK w \in Written(h, event, next) : chat' = [chat EXCEPT ![c] = w]
  BY DEF Write
<1>2. w = full \/ (h.gone /\ w = broken)
  BY DEF Written, Sent
<1>3. clock \in Int /\ slips \in Nat
  BY OneHandler
<1>4. h.gone => Good(broken, backend, clock, slips)
  BY <1>3, RefusedIsGood
<1>5. Good(full, backend, clock, slips)
  OBVIOUS
<1> HIDE DEF full, broken
<1>6. Good(w, backend, clock, slips)
  BY <1>2, <1>4, <1>5
<1>7. backend' = backend /\ clock' = clock /\ slips' = slips
  OBVIOUS
<1>8. QED
  BY ONLY RagInv, c \in Clients, <1>1, <1>6, <1>7, Local

LEMMA PrefixIsNotComplete ==
  ASSUME NEW h \in Handler, h.body.stream, NEW k \in 0..h.size, h.sent = Prefix(k)
  PROVE  h.sent # Complete(h)
<1>1. h.size \in Nat /\ k \in Nat /\ k <= h.size
  BY DEF Handler
<1>2. Len(Prefix(k)) = k + 1
  BY <1>1, Prefixes
<1>3. Len(Complete(h)) = h.size + 2
  BY CompleteIs
<1>4. QED
  BY <1>1, <1>2, <1>3

LEMMA MetaStep ==
  ASSUME RagInv, NEW c \in Clients, WriteMeta(c)
  PROVE  RagInv'
<1> DEFINE h == chat[c]   w == Sent(h, "meta", "token")
<1>1. /\ h.at = "meta" /\ UNCHANGED <<backend, clock, slips>> /\ Write(c, h, "meta", "token")
      /\ h \in Handler /\ Place(h) /\ Timed(h, clock, slips)
  BY OneHandler DEF WriteMeta, Step
<1>2. /\ h.sent = << >> /\ h.code = 0 /\ h.outcome = "none" /\ h.body.stream
      /\ h.size \in Nat /\ h.size > 0
  BY <1>1 DEF Place, Handler
<1>3. "meta" \in Events /\ "token" \in Places
  BY DEF Events, Places
<1> HIDE DEF h
<1>4. /\ w \in Handler /\ w.at = "token" /\ w.sent = Append(h.sent, "meta") /\ w.code = 200
      /\ w.outcome = "none" /\ w.body = h.body /\ w.size = h.size /\ w.time = h.time
  BY <1>1, <1>2, <1>3, SentIs
<1>5. w.sent = Prefix(0)
  BY <1>2, <1>4, NonePrefix
<1> HIDE DEF w
<1>6. Place(w)
  <2>1. 0 \in 0..(w.size - 1)
    BY <1>2, <1>4
  <2>2. QED
    BY <1>2, <1>4, <1>5, <2>1 DEF Place
<1>7. Timed(w, clock, slips)
  BY <1>1, <1>4, <1>5 DEF Timed
<1>8. Good(w, backend, clock, slips)
  BY <1>4, <1>6, <1>7 DEF Good
<1>9. h.sent # Complete(h)
  BY <1>1, <1>2, NothingSent
<1>10. QED
  BY <1>1, <1>8, <1>9, WriteStep DEF w

LEMMA TokenStep ==
  ASSUME RagInv, NEW c \in Clients, WriteToken(c)
  PROVE  RagInv'
<1> DEFINE h == chat[c]
           first == IF Len(h.sent) = 1 THEN clock ELSE h.time.first
           timed == [h EXCEPT !.time.first = first, !.time.last = clock]
           next == IF MoreTokens(h) THEN "token" ELSE "calculate"
           w == Sent(timed, "token", next)
<1>1. /\ h.at = "token" /\ UNCHANGED <<backend, clock, slips>>
      /\ h \in Handler /\ Place(h) /\ Timed(h, clock, slips)
      /\ clock \in Int /\ slips \in Nat
  BY OneHandler DEF WriteToken, Step
<1>2. h.body.stream /\ h.code = 200 /\ h.size \in Nat /\ h.outcome = "none"
  BY <1>1 DEF Place, Handler
<1>3. PICK k \in 0..(h.size - 1) : h.sent = Prefix(k)
  BY <1>1 DEF Place
<1>4. k \in Nat /\ k < h.size /\ Len(h.sent) = k + 1
  <2> HIDE DEF h, first, timed, next, w
  <2>1. k \in Nat /\ k < h.size
    BY <1>2, <1>3
  <2>2. Len(Prefix(k)) = k + 1
    BY <2>1, Prefixes
  <2>3. QED
    BY <1>3, <2>1, <2>2
<1>5. Write(c, timed, "token", next)
  BY <1>1 DEF WriteToken, Handler
<1>6. "token" \in Events /\ next \in Places
  BY DEF Events, Places
<1>7. timed \in Handler
  BY <1>1 DEF Handler
<1>8. /\ timed.sent = h.sent /\ timed.body = h.body /\ timed.size = h.size
      /\ timed.code = 200 /\ timed.outcome = "none" /\ timed.time.start = h.time.start
      /\ timed.time.first = first /\ timed.time.last = clock
  BY <1>1, <1>2 DEF Handler
<1>9. next = IF k + 1 < h.size THEN "token" ELSE "calculate"
  BY <1>4 DEF MoreTokens
<1>10. slips = 0 => InOrder(timed.time)
  <2>1. CASE k = 0
    BY <1>1, <1>4, <1>8, <2>1 DEF Timed, InOrder, Handler
  <2>2. CASE k > 0
    <3>1. h.sent # Prefix(0)
      <4> HIDE DEF h
      <4>1. Len(Prefix(0)) = 1
        BY NonePrefix
      <4>2. Len(h.sent) # 1
        BY <1>4, <2>2
      <4>3. QED
        BY <4>1, <4>2
    <3>2. QED
      BY <1>1, <1>4, <1>8, <2>2, <3>1 DEF Timed, InOrder, Handler
  <2>3. QED
    BY <1>4, <2>1, <2>2
<1> HIDE DEF h, first, timed, next
<1>11. /\ w \in Handler /\ w.at = next /\ w.sent = Append(h.sent, "token") /\ w.code = 200
       /\ w.outcome = "none" /\ w.body = h.body /\ w.size = h.size /\ w.time = timed.time
  <2>1. next # "counting"
    BY <1>9
  <2>2. /\ w \in Handler /\ w.at = next /\ w.sent = Append(timed.sent, "token")
        /\ w.code = (IF timed.code = 0 THEN 200 ELSE timed.code)
        /\ w.outcome = (IF next = "counting" THEN "ok" ELSE timed.outcome)
        /\ w.body = timed.body /\ w.size = timed.size /\ w.time = timed.time
    BY <1>6, <1>7, SentIs
  <2> HIDE DEF w
  <2>3. QED
    BY <1>8, <2>1, <2>2
<1> HIDE DEF w
<1>12. w.sent = Prefix(k + 1)
  <2>1. Append(Prefix(k), "token") = Prefix(k + 1)
    BY <1>4, Prefixes
  <2>2. QED
    BY <1>3, <1>11, <2>1
<1>13. Place(w)
  <2>1. CASE k + 1 < h.size
    <3>1. k + 1 \in 0..(w.size - 1)
      BY <1>2, <1>4, <1>11, <2>1
    <3>2. QED
      BY <1>2, <1>9, <1>11, <1>12, <2>1, <3>1 DEF Place
  <2>2. CASE ~(k + 1 < h.size)
    <3>1. k + 1 = w.size /\ w.size > 0
      BY <1>2, <1>4, <1>11, <2>2
    <3>2. QED
      BY <1>2, <1>9, <1>11, <1>12, <2>2, <3>1 DEF Place
  <2>3. QED
    BY <2>1, <2>2
<1>14. Timed(w, clock, slips)
  <2>1. slips = 0 => h.time.start <= clock
    BY <1>1 DEF Timed
  <2>2. QED
    BY <1>1, <1>8, <1>9, <1>10, <1>11, <2>1 DEF Timed
<1>15. Good(w, backend, clock, slips)
  BY <1>9, <1>11, <1>13, <1>14 DEF Good
<1>16. timed.sent # Complete(timed)
  BY <1>2, <1>3, <1>4, <1>7, <1>8, PrefixIsNotComplete
<1>17. QED
  BY <1>1, <1>5, <1>7, <1>15, <1>16, WriteStep DEF w

LEMMA CalculateStep ==
  ASSUME RagInv, NEW c \in Clients, CalculateStream(c)
  PROVE  RagInv'
<1> DEFINE h == chat[c]
           w == [h EXCEPT !.at = "done", !.time = NoTime]
<1>1. /\ h.at = "calculate" /\ UNCHANGED <<backend, clock, slips>>
      /\ h \in Handler /\ Place(h) /\ Timed(h, clock, slips)
      /\ clock \in Int /\ slips \in Nat /\ c \in DOMAIN chat
  BY OneHandler DEF CalculateStream, Step
<1>2. /\ h.body.stream /\ h.code = 200 /\ h.size \in Nat /\ h.size > 0 /\ h.outcome = "none"
      /\ h.sent = Prefix(h.size)
  BY <1>1 DEF Place, Handler
<1>3. h.sent # Complete(h)
  <2>1. h.size \in 0..h.size
    BY <1>2
  <2> HIDE DEF h
  <2>2. QED
    BY <1>1, <1>2, <2>1, PrefixIsNotComplete
<1>4. \/ chat' = [chat EXCEPT ![c].at = "done", ![c].time = NoTime]
      \/ ~InOrder(h.time) /\ Refuse(c, 500, "error")
  BY DEF CalculateStream, Calculate
<1>5. CASE chat' = [chat EXCEPT ![c].at = "done", ![c].time = NoTime]
  <2>1. chat' = [chat EXCEPT ![c] = w]
    BY <1>1, <1>5
  <2>2. NoTime \in [start: Int, first: Int, last: Int] /\ "done" \in Places
    BY DEF NoTime, Places
  <2>3. w \in Handler
    BY <1>1, <2>2 DEF Handler
  <2>4. /\ w.at = "done" /\ w.sent = h.sent /\ w.code = h.code /\ w.body = h.body
        /\ w.size = h.size /\ w.outcome = h.outcome
    BY <1>1 DEF Handler
  <2> HIDE DEF h, w
  <2>5. Good(w, backend, clock, slips)
    BY <1>2, <2>3, <2>4 DEF Good, Place, Timed
  <2>6. QED
    BY ONLY RagInv, c \in Clients, <1>1, <2>1, <2>5, Local
<1>6. CASE ~InOrder(h.time) /\ Refuse(c, 500, "error")
  <2>1. slips > 0
    BY <1>1, <1>6 DEF Timed
  <2>2. QED
    BY <1>1, <1>3, <1>6, <2>1, RefuseStep
<1>7. QED
  BY <1>4, <1>5, <1>6

LEMMA DoneStep ==
  ASSUME RagInv, NEW c \in Clients, WriteDone(c)
  PROVE  RagInv'
<1> DEFINE h == chat[c]   w == Sent(h, "done", "counting")
<1>1. /\ h.at = "done" /\ UNCHANGED <<backend, clock, slips>> /\ Write(c, h, "done", "counting")
      /\ h \in Handler /\ Place(h) /\ slips \in Nat
  BY OneHandler DEF WriteDone, Step
<1>2. /\ h.body.stream /\ h.code = 200 /\ h.size \in Nat /\ h.sent = Prefix(h.size)
  BY <1>1 DEF Place, Handler
<1>3. "done" \in Events /\ "counting" \in Places /\ h.size \in 0..h.size
  BY <1>2 DEF Events, Places
<1> HIDE DEF h
<1>4. /\ w \in Handler /\ w.at = "counting" /\ w.sent = Append(h.sent, "done") /\ w.code = 200
      /\ w.outcome = "ok" /\ w.body = h.body /\ w.size = h.size /\ w.time = h.time
  BY <1>1, <1>2, <1>3, SentIs
<1> HIDE DEF w
<1>5. w.sent = Complete(w)
  BY <1>2, <1>4, CompleteIs
<1>6. JustifiedBy(w, backend, slips)
  BY <1>4, <1>5 DEF JustifiedBy
<1>7. Good(w, backend, clock, slips)
  BY <1>4, <1>6 DEF Good, Place, Timed
<1>8. h.sent # Complete(h)
  BY <1>1, <1>2, <1>3, PrefixIsNotComplete
<1>9. QED
  BY <1>1, <1>7, <1>8, WriteStep DEF w

LEMMA AnswerStep ==
  ASSUME RagInv, NEW c \in Clients, NonStreamResponse(c)
  PROVE  RagInv'
<1> DEFINE h == chat[c]
           w == [h EXCEPT !.at = "body", !.time = NoTime]
<1>1. /\ h.at = "answer" /\ UNCHANGED <<backend, clock, slips>>
      /\ h \in Handler /\ Place(h) /\ Timed(h, clock, slips)
      /\ clock \in Int /\ slips \in Nat /\ c \in DOMAIN chat
  BY OneHandler DEF NonStreamResponse, Step
<1>2. ~h.body.stream /\ h.code = 0 /\ h.outcome = "none" /\ h.sent = << >>
  BY <1>1 DEF Place
<1>3. PICK warmup \in 0..1, window \in 0..1 :
        Calculate(c, [h.time EXCEPT !.first = clock + warmup, !.last = clock + warmup + window],
                  "body")
  BY DEF NonStreamResponse
<1> DEFINE t == [h.time EXCEPT !.first = clock + warmup, !.last = clock + warmup + window]
<1>4. slips = 0 => InOrder(t)
  <2>1. /\ t.start = h.time.start /\ t.first = clock + warmup /\ h.time.start \in Int
        /\ t.last = clock + warmup + window
    BY <1>1 DEF Handler
  <2>2. slips = 0 => h.time.start <= clock
    BY <1>1 DEF Timed
  <2> HIDE DEF t, h
  <2>3. QED
    BY <1>1, <2>1, <2>2 DEF InOrder
<1>5. \/ chat' = [chat EXCEPT ![c].at = "body", ![c].time = NoTime]
      \/ ~InOrder(t) /\ Refuse(c, 500, "error")
  BY <1>3 DEF Calculate
<1>6. h.sent # Complete(h)
  BY <1>1, <1>2, NothingSent
<1> HIDE DEF t
<1>7. CASE chat' = [chat EXCEPT ![c].at = "body", ![c].time = NoTime]
  <2>1. chat' = [chat EXCEPT ![c] = w]
    BY <1>1, <1>7
  <2>2. NoTime \in [start: Int, first: Int, last: Int] /\ "body" \in Places
    BY DEF NoTime, Places
  <2>3. w \in Handler
    BY <1>1, <2>2 DEF Handler
  <2>4. /\ w.at = "body" /\ w.sent = h.sent /\ w.code = h.code /\ w.body = h.body
        /\ w.outcome = h.outcome
    BY <1>1 DEF Handler
  <2> HIDE DEF h, w
  <2>5. Good(w, backend, clock, slips)
    BY <1>2, <2>3, <2>4 DEF Good, Place, Timed
  <2>6. QED
    BY ONLY RagInv, c \in Clients, <1>1, <2>1, <2>5, Local
<1>8. CASE ~InOrder(t) /\ Refuse(c, 500, "error")
  <2>1. slips > 0
    BY <1>1, <1>4, <1>8
  <2>2. QED
    BY <1>1, <1>6, <1>8, <2>1, RefuseStep
<1>9. QED
  BY <1>5, <1>7, <1>8

LEMMA BodyStep ==
  ASSUME RagInv, NEW c \in Clients, WriteBody(c)
  PROVE  RagInv'
<1> DEFINE h == chat[c]   w == Sent(h, "body", "counting")
<1>1. /\ h.at = "body" /\ UNCHANGED <<backend, clock, slips>> /\ Write(c, h, "body", "counting")
      /\ h \in Handler /\ Place(h) /\ slips \in Nat
  BY OneHandler DEF WriteBody, Step
<1>2. ~h.body.stream /\ h.code = 0 /\ h.sent = << >>
  BY <1>1 DEF Place
<1>3. "body" \in Events /\ "counting" \in Places
  BY DEF Events, Places
<1> HIDE DEF h
<1>4. /\ w \in Handler /\ w.at = "counting" /\ w.sent = Append(h.sent, "body") /\ w.code = 200
      /\ w.outcome = "ok" /\ w.body = h.body /\ w.size = h.size /\ w.time = h.time
  BY <1>1, <1>2, <1>3, SentIs
<1> HIDE DEF w
<1>5. Append(<< >>, "body") = <<"body">>
  OBVIOUS
<1>6. w.sent = Complete(w)
  BY <1>2, <1>4, <1>5, CompleteIs
<1>7. JustifiedBy(w, backend, slips)
  BY <1>4, <1>6 DEF JustifiedBy
<1>8. Good(w, backend, clock, slips)
  BY <1>4, <1>7 DEF Good, Place, Timed
<1>9. h.sent # Complete(h)
  BY <1>1, <1>2, NothingSent
<1>10. QED
  BY <1>1, <1>8, <1>9, WriteStep DEF w

LEMMA IdleIs == Idle \in Handler /\ Idle.sent = << >> /\ Idle.code = 0 /\ Idle.size = 0
               /\ Idle.outcome = "none" /\ Idle.at = "idle"
BY DEF Idle, Handler, NoBody, NoTime, Request, Places

LEMMA ReturnStep ==
  ASSUME RagInv, NEW c \in Clients, Count(c) \/ ReturnUncounted(c)
  PROVE  RagInv'
<1> DEFINE w == [Idle EXCEPT !.at = "ended"]
<1>1. UNCHANGED <<backend, clock, slips>> /\ chat' = [chat EXCEPT ![c] = w]
  BY DEF Count, ReturnUncounted, Step, Return
<1>2. w \in Handler /\ w.at = "ended" /\ w.outcome = "none"
  BY IdleIs DEF Handler, Places
<1> HIDE DEF w
<1>3. Good(w, backend, clock, slips)
  BY <1>2 DEF Good, Place, Timed
<1>4. QED
  BY ONLY RagInv, c \in Clients, <1>1, <1>3, Local

LEMMA DisconnectStep ==
  ASSUME RagInv, NEW c \in Clients, Disconnect(c)
  PROVE  RagInv'
<1> DEFINE h == chat[c]   w == [h EXCEPT !.gone = TRUE]
<1>1. UNCHANGED <<backend, clock, slips>> /\ chat' = [chat EXCEPT ![c].gone = TRUE]
  BY DEF Disconnect
<1>2. h \in Handler /\ Place(h) /\ Timed(h, clock, slips) /\ h.at # "counting" /\ c \in DOMAIN chat
  BY OneHandler DEF Disconnect
<1>3. chat' = [chat EXCEPT ![c] = w]
  BY <1>1, <1>2
<1>4. /\ w \in Handler /\ w.at = h.at /\ w.sent = h.sent /\ w.code = h.code /\ w.body = h.body
      /\ w.size = h.size /\ w.time = h.time /\ w.outcome = h.outcome
  BY <1>2 DEF Handler
<1> HIDE DEF h, w
<1>5. Good(w, backend, clock, slips)
  BY <1>2, <1>4 DEF Good, Place, Timed
<1>6. QED
  BY ONLY RagInv, c \in Clients, <1>1, <1>3, <1>5, Local

(* ------------------------------ the service ----------------------------- *)

LEMMA TickStep == ASSUME RagInv, Tick PROVE RagInv'
<1>1. clock' = clock + 1 /\ UNCHANGED <<backend, slips, chat>>
  BY DEF Tick
<1>2. ASSUME NEW c \in Clients PROVE Good(chat[c], backend, clock', slips)
  <2>1. Good(chat[c], backend, clock, slips) /\ clock \in Int /\ chat[c] \in Handler
    BY DEF RagInv, Good
  <2>2. chat[c].time.start \in Int /\ chat[c].time.last \in Int
    BY <2>1 DEF Handler
  <2>3. QED
    BY <1>1, <2>1, <2>2 DEF Good, Timed
<1>3. QED
  BY <1>1, <1>2 DEF RagInv

LEMMA SetBackStep == ASSUME RagInv, SetBack PROVE RagInv'
<1>1. slips' = slips + 1 /\ clock' \in 1..(clock - 1) /\ UNCHANGED <<backend, chat>>
  BY DEF SetBack
<1>2. slips \in Nat /\ slips' \in Nat /\ slips' > 0 /\ clock' \in Int
  BY <1>1 DEF RagInv
<1>3. ASSUME NEW c \in Clients PROVE Good(chat[c], backend, clock', slips')
  BY <1>2 DEF RagInv, Good, Timed, JustifiedBy
<1>4. QED
  BY <1>1, <1>2, <1>3 DEF RagInv

LEMMA RagStart == RagInit => RagInv
<1> SUFFICES ASSUME RagInit PROVE RagInv
  OBVIOUS
<1>1. clock = 1 /\ slips = 0 /\ chat = [c \in Clients |-> Idle]
  BY DEF RagInit
<1>2. Good(Idle, backend, clock, slips)
  BY IdleIs DEF Good, Place, Timed
<1>3. QED
  BY <1>1, <1>2 DEF RagInv

LEMMA RagStep == ASSUME RagInv, RagNext PROVE RagInv'
BY TickStep, SetBackStep, DisconnectStep, ReceiveStep, RetrievalStep, GenerateStep, MetaStep,
   TokenStep, CalculateStep, DoneStep, AnswerStep, BodyStep, ReturnStep DEF RagNext

LEMMA ServingStep == RagInv /\ [Next]_vars => RagInv'
<1> SUFFICES ASSUME RagInv, [Next]_vars PROVE RagInv'
  OBVIOUS
<1>1. CASE Serve
  BY <1>1, RagStep DEF Serve
<1>2. CASE UNCHANGED ragVars
  BY <1>2 DEF ragVars, RagInv
<1>3. Serve \/ UNCHANGED ragVars
  BY DEF Next, Scrape, Ctl, Ask, Forget, vars
<1>4. QED
  BY <1>1, <1>2, <1>3

(* For any number of clients and tokens: a request is counted as ok        *)
(* exactly when its whole response was written under the status 200, and   *)
(* as an error only when the client had gone, llama.cpp had failed before  *)
(* anything was written, or the clock had been set back (handleChat).      *)
THEOREM OutcomesJustified == Spec => []OutcomeIsJustified
<1>1. Init => RagInv
  BY RagStart DEF Init
<1>2. RagInv => OutcomeIsJustified
  <2> SUFFICES ASSUME RagInv, NEW c \in Clients PROVE Justified(chat[c])
    BY DEF OutcomeIsJustified
  <2>1. CASE chat[c].at = "counting"
    BY <2>1, OneHandler DEF JustifiedBy, Justified
  <2>2. CASE chat[c].at # "counting"
    BY <2>2, OneHandler DEF Place, Justified
  <2>3. QED
    BY <2>1, <2>2
<1>3. QED
  BY <1>1, <1>2, ServingStep, PTL DEF Spec

(* ------------------------------- the metrics ---------------------------- *)

(* A request that the histogram holds and that is to be counted as ok, or  *)
(* that is still at a write; and one that may end as ok or as an error.    *)
Recorded(h) == h.at \in {"done", "body"} \/ (h.at = "counting" /\ h.outcome = "ok")
Pending(h) == h.at \in {"done", "body"} \/ (h.at = "counting" /\ h.outcome \in {"ok", "error"})

(* What a step does to the metrics and to the two sets of handlers.        *)
Quiet ==
  /\ UNCHANGED <<ttftHist, slowest, requestTotal>>
  /\ \A c \in Clients : (Recorded(chat[c])' => Recorded(chat[c])) /\ (Pending(chat[c]) => Pending(chat[c])')
Records(c) ==
  /\ \E ttft \in Nat : RecordSnapshot(ttft)
  /\ UNCHANGED requestTotal
  /\ ~Recorded(chat[c]) /\ Recorded(chat[c])' /\ ~Pending(chat[c]) /\ Pending(chat[c])'
Counts(c) ==
  /\ UNCHANGED <<ttftHist, slowest>>
  /\ requestTotal' = [requestTotal EXCEPT ![chat[c].outcome] = @ + 1]
  /\ chat[c].at = "counting" /\ ~Recorded(chat[c])' /\ ~Pending(chat[c])'
Others(c) == \A d \in Clients \ {c} : chat'[d] = chat[d]

LEMMA RefusedAt ==
  ASSUME NEW h \in Handler, NEW reply, NEW label
  PROVE  Refused(h, reply, label).at = "counting" /\ Refused(h, reply, label).outcome = label
BY DEF Refused, Handler

LEMMA OneChanged ==
  ASSUME RagInv, NEW c \in Clients, NEW h, chat' = [chat EXCEPT ![c] = h]
  PROVE  chat'[c] = h /\ Others(c)
BY DEF RagInv, Others

LEMMA QuietHandler ==
  ASSUME RagInv, NEW c \in Clients, NEW h, chat' = [chat EXCEPT ![c] = h],
         Recorded(h) => Recorded(chat[c]), Pending(chat[c]) => Pending(h),
         UNCHANGED <<ttftHist, slowest, requestTotal>>
  PROVE  Quiet
<1>1. chat'[c] = h /\ Others(c)
  BY OneChanged
<1>2. ASSUME NEW d \in Clients 
      PROVE  (Recorded(chat'[d]) => Recorded(chat[d])) /\ (Pending(chat[d]) => Pending(chat'[d]))
  <2>1. CASE d = c
    BY <1>1, <2>1
  <2>2. CASE d # c
    BY <1>1, <2>2 DEF Others
  <2>3. QED
    BY <2>1, <2>2
<1>3. QED
  BY <1>2 DEF Quiet, Recorded, Pending

(* A refusal of one that is not to be a bad request is quiet. *)
LEMMA QuietRefusal ==
  ASSUME RagInv, NEW c \in Clients, NEW h \in Handler, NEW reply, NEW label \in {"error", "bad_request"},
         chat' = [chat EXCEPT ![c] = Refused(h, reply, label)],
         label = "error" \/ ~Pending(chat[c]), UNCHANGED <<ttftHist, slowest, requestTotal>>
  PROVE  Quiet
<1> DEFINE r == Refused(h, reply, label)
<1>1. r.at = "counting" /\ r.outcome = label
  BY RefusedAt
<1>2. chat' = [chat EXCEPT ![c] = r]
  OBVIOUS
<1> HIDE DEF r
<1>3. ~Recorded(r) /\ (Pending(chat[c]) => Pending(r))
  BY <1>1 DEF Recorded, Pending
<1>4. QED
  BY <1>2, <1>3, QuietHandler

LEMMA QuietMove ==
  ASSUME RagInv, NEW c \in Clients, NEW h, chat' = [chat EXCEPT ![c] = h],
         h.at \notin {"done", "body", "counting"}, ~Pending(chat[c]),
         UNCHANGED <<ttftHist, slowest, requestTotal>>
  PROVE  Quiet
<1>1. ~Recorded(h)
  BY DEF Recorded
<1>2. QED
  BY <1>1, QuietHandler

LEMMA ReceiveEffect ==
  ASSUME RagInv, NEW c \in Clients, NEW b \in Bodies[c], Receive(c, b)
  PROVE  Quiet
<1>1. /\ chat[c].at = "idle" /\ UNCHANGED <<ttftHist, slowest, requestTotal>>
      /\ chat[c] \in Handler /\ c \in DOMAIN chat /\ b \in Request
  BY OneHandler, RagAssumption DEF Receive, Step, RagAssumption, metrics
<1>2. ~Pending(chat[c])
  BY <1>1 DEF Pending
<1>3. CASE chat' = [chat EXCEPT ![c].at = "uncounted", ![c].body = b, ![c].code = 405]
  <2> DEFINE reply == 405
             h == [chat[c] EXCEPT !.at = "uncounted", !.body = b, !.code = reply]
  <2>0. reply \in Int /\ c \in DOMAIN chat
    BY <1>1
  <2>6. chat' = [chat EXCEPT ![c].at = "uncounted", ![c].body = b, ![c].code = reply]
    BY <1>3
  <2> HIDE DEF reply
  <2>1. chat' = [chat EXCEPT ![c] = h]
    BY <2>0, <2>6, MethodRefused
  <2>3. h.at = "uncounted"
    BY ONLY <1>1 DEF Handler
  <2> HIDE DEF h
  <2>2. QED
    BY <1>1, <1>2, <2>1, <2>3, QuietMove
<1>4. CASE chat' = [chat EXCEPT ![c] = Refused([@ EXCEPT !.body = b], 400, "bad_request")]
  <2> DEFINE h == [chat[c] EXCEPT !.body = b]
  <2>1. chat' = [chat EXCEPT ![c] = Refused(h, 400, "bad_request")] /\ h \in Handler
    BY <1>1, <1>4 DEF Handler
  <2> HIDE DEF h
  <2>2. UNCHANGED <<ttftHist, slowest, requestTotal>> /\ ~Pending(chat[c])
    BY <1>1, <1>2
  <2>3. QED
    BY <2>1, <2>2, QuietRefusal
<1>5. CASE chat' = [chat EXCEPT ![c].at = "retrieving", ![c].body = b, ![c].time.start = clock]
  <2> DEFINE h == [chat[c] EXCEPT !.at = "retrieving", !.body = b, !.time.start = clock]
  <2>1. chat' = [chat EXCEPT ![c] = h] /\ h.at = "retrieving"
    BY <1>1, <1>5 DEF Handler
  <2> HIDE DEF h
  <2>2. QED
    BY <1>1, <1>2, <2>1, QuietMove
<1>6. QED
  BY <1>3, <1>4, <1>5 DEF Receive

LEMMA EarlyEffect ==
  ASSUME RagInv, NEW c \in Clients,
         SimulateRetrieval(c) \/ RetrievalCancelled(c) \/ Generate(c) \/ GenerateFails(c)
  PROVE  Quiet
<1>1. /\ chat[c].at \in {"retrieving", "generating"} /\ chat[c] \in Handler /\ c \in DOMAIN chat
      /\ UNCHANGED <<ttftHist, slowest, requestTotal>>
  BY OneHandler
     DEF SimulateRetrieval, RetrievalCancelled, Generate, GenerateFails, Step, metrics
<1>2. ~Pending(chat[c])
  BY <1>1 DEF Pending
<1>3. CASE SimulateRetrieval(c)
  <2> DEFINE h == [chat[c] EXCEPT !.at = "generating"]
  <2>1. chat' = [chat EXCEPT ![c] = h] /\ h.at = "generating"
    BY <1>1, <1>3 DEF SimulateRetrieval, Handler
  <2> HIDE DEF h
  <2>2. QED
    BY <1>1, <1>2, <2>1, QuietMove
<1>4. CASE RetrievalCancelled(c) \/ GenerateFails(c)
  <2>1. \/ chat' = [chat EXCEPT ![c] = Refused(chat[c], 500, "error")]
        \/ chat' = [chat EXCEPT ![c] = Refused(chat[c], 502, "error")]
    BY <1>1, <1>4 DEF RetrievalCancelled, GenerateFails, Refuse
  <2>2. QED
    BY <1>1, <2>1, QuietRefusal
<1>5. CASE Generate(c)
  <2>1. PICK n \in Lengths(chat[c].body) :
          chat' = [chat EXCEPT ![c].size = n,
                               ![c].at = IF chat[c].body.stream THEN "meta" ELSE "answer"]
    BY <1>5 DEF Generate
  <2> DEFINE place == IF chat[c].body.stream THEN "meta" ELSE "answer"
             h == [chat[c] EXCEPT !.size = n, !.at = place]
  <2>2. chat' = [chat EXCEPT ![c] = h] /\ h.at = place /\ place \in {"meta", "answer"}
    BY <1>1, <2>1 DEF Handler
  <2> HIDE DEF h, place
  <2>3. QED
    BY <1>1, <1>2, <2>2, QuietMove
<1>6. QED
  BY <1>3, <1>4, <1>5

(* A write is quiet: where it is to be counted as ok, it was recorded. *)
LEMMA WriteEffect ==
  ASSUME RagInv, NEW c \in Clients, NEW h \in Handler, NEW event \in Events, NEW next \in Places,
         Write(c, h, event, next),
         IF next = "counting" THEN chat[c].at \in {"done", "body"}
         ELSE next \in {"token", "calculate"} /\ ~Pending(chat[c])
  PROVE  Quiet
<1> DEFINE full == Sent(h, event, next)
<1>1. PICK w \in Written(h, event, next) : chat' = [chat EXCEPT ![c] = w]
  BY DEF Write
<1>2. w = full \/ w = Refused(h, 200, "error")
  BY DEF Written, Sent
<1>3. UNCHANGED <<ttftHist, slowest, requestTotal>>
  BY DEF Write, metrics
<1>4. full.at = next /\ (next = "counting" => full.outcome = "ok")
  BY SentIs
<1> HIDE DEF full
<1>5. CASE w = full
  <2>1. Recorded(w) => Recorded(chat[c])
    BY <1>4, <1>5 DEF Recorded
  <2>2. Pending(chat[c]) => Pending(w)
    BY <1>4, <1>5 DEF Pending
  <2>3. QED
    BY <1>1, <1>3, <2>1, <2>2, QuietHandler
<1>6. CASE w = Refused(h, 200, "error")
  BY <1>1, <1>3, <1>6, QuietRefusal
<1>7. QED
  BY <1>2, <1>5, <1>6

LEMMA WritesEffect ==
  ASSUME RagInv, NEW c \in Clients,
         WriteMeta(c) \/ WriteToken(c) \/ WriteDone(c) \/ WriteBody(c)
  PROVE  Quiet
<1> DEFINE h == chat[c]
<1>1. h \in Handler /\ clock \in Int
  BY OneHandler
<1>2. {"meta", "token", "done", "body"} \subseteq Events
      /\ {"token", "calculate", "counting"} \subseteq Places
  BY DEF Events, Places
<1>3. CASE WriteMeta(c)
  <2>1. h.at = "meta" /\ Write(c, h, "meta", "token")
    BY <1>3 DEF WriteMeta, Step
  <2>2. QED
    BY <1>1, <1>2, <2>1, WriteEffect DEF Pending
<1>4. CASE WriteToken(c)
  <2> DEFINE first == IF Len(h.sent) = 1 THEN clock ELSE h.time.first
             timed == [h EXCEPT !.time.first = first, !.time.last = clock]
             next == IF MoreTokens(h) THEN "token" ELSE "calculate"
  <2>1. h.at = "token" /\ Write(c, timed, "token", next)
    BY <1>1, <1>4 DEF WriteToken, Step, Handler
  <2>2. timed \in Handler /\ next \in {"token", "calculate"}
    BY <1>1 DEF Handler
  <2> HIDE DEF timed, next
  <2>3. QED
    BY <1>2, <2>1, <2>2, WriteEffect DEF Pending
<1>5. CASE WriteDone(c) \/ WriteBody(c)
  <2>1. h.at \in {"done", "body"} /\ \E event \in {"done", "body"} : Write(c, h, event, "counting")
    BY <1>5 DEF WriteDone, WriteBody, Step
  <2>2. QED
    BY <1>1, <1>2, <2>1, WriteEffect
<1>6. QED
  BY <1>3, <1>4, <1>5

(* A refusal of the handler as it stands tells the metrics nothing. *)
LEMMA QuietError ==
  ASSUME RagInv, NEW c \in Clients, NEW reply,
         chat' = [chat EXCEPT ![c] = Refused(chat[c], reply, "error")],
         UNCHANGED <<ttftHist, slowest, requestTotal>>
  PROVE  Quiet
<1>1. chat[c] \in Handler
  BY OneHandler
<1>2. QED
  BY <1>1, QuietRefusal

(* The handler that has its times either records or is refused. *)
LEMMA CalculateEffect ==
  ASSUME RagInv, NEW c \in Clients, NEW t \in [start: Int, first: Int, last: Int],
         NEW next \in {"done", "body"}, Calculate(c, t, next), chat[c].at \in {"calculate", "answer"}
  PROVE  Quiet \/ (Records(c) /\ Others(c))
<1>1. chat[c] \in Handler /\ c \in DOMAIN chat
  BY OneHandler
<1>2. ~Recorded(chat[c]) /\ ~Pending(chat[c])
  BY DEF Recorded, Pending
<1>3. UNCHANGED requestTotal
  BY DEF Calculate
<1>4. CASE /\ InOrder(t) /\ RecordSnapshot(TTFT(t))
           /\ chat' = [chat EXCEPT ![c].at = next, ![c].time = NoTime]
  <2> DEFINE h == [chat[c] EXCEPT !.at = next, !.time = NoTime]
  <2>1. chat' = [chat EXCEPT ![c] = h] /\ h.at = next
    BY <1>1, <1>4 DEF Handler
  <2>2. TTFT(t) \in Nat
    BY <1>4 DEF InOrder, TTFT
  <2> HIDE DEF h
  <2>3. chat'[c] = h /\ Others(c)
    BY <2>1, OneChanged
  <2>4. Recorded(chat[c])' /\ Pending(chat[c])'
    BY <2>1, <2>3 DEF Recorded, Pending
  <2>5. QED
    BY <1>2, <1>3, <1>4, <2>2, <2>3, <2>4 DEF Records
<1>5. CASE ~InOrder(t) /\ Refuse(c, 500, "error") /\ UNCHANGED <<ttftHist, slowest>>
  <2>1. chat' = [chat EXCEPT ![c] = Refused(chat[c], 500, "error")]
    BY <1>1, <1>5 DEF Refuse
  <2>2. UNCHANGED <<ttftHist, slowest, requestTotal>>
    BY <1>3, <1>5
  <2>3. QED
    BY ONLY RagInv, c \in Clients, <2>1, <2>2, QuietError
<1>6. QED
  BY <1>4, <1>5 DEF Calculate

LEMMA SnapshotEffect ==
  ASSUME RagInv, NEW c \in Clients, CalculateStream(c) \/ NonStreamResponse(c)
  PROVE  Quiet \/ (Records(c) /\ Others(c))
<1> DEFINE h == chat[c]
<1>1. h \in Handler /\ clock \in Int /\ h.time \in [start: Int, first: Int, last: Int]
  BY OneHandler DEF Handler
<1>2. CASE CalculateStream(c)
  BY <1>1, <1>2, CalculateEffect DEF CalculateStream, Step
<1>3. CASE NonStreamResponse(c)
  <2>1. PICK warmup \in 0..1, window \in 0..1 :
          Calculate(c, [h.time EXCEPT !.first = clock + warmup, !.last = clock + warmup + window],
                    "body")
    BY <1>3 DEF NonStreamResponse
  <2> DEFINE t == [h.time EXCEPT !.first = clock + warmup, !.last = clock + warmup + window]
  <2>2. t \in [start: Int, first: Int, last: Int]
    <3>1. clock + warmup \in Int /\ clock + warmup + window \in Int
      BY <1>1
    <3> HIDE DEF h
    <3>2. QED
      BY <1>1, <3>1
  <2>3. h.at = "answer" /\ Calculate(c, t, "body")
    BY <1>3, <2>1 DEF NonStreamResponse, Step
  <2> HIDE DEF t
  <2>4. QED
    BY <2>2, <2>3, CalculateEffect
<1>4. QED
  BY <1>2, <1>3

LEMMA CountEffect ==
  ASSUME RagInv, NEW c \in Clients, Count(c) \/ ReturnUncounted(c) \/ Disconnect(c)
  PROVE  Quiet \/ (Counts(c) /\ Others(c))
<1>1. chat[c] \in Handler /\ c \in DOMAIN chat
  BY OneHandler
<1> DEFINE w == [Idle EXCEPT !.at = "ended"]
<1>2. w.at = "ended"
  BY DEF Idle
<1>3. CASE Count(c)
  <2>1. chat[c].at = "counting" /\ chat' = [chat EXCEPT ![c] = w] /\ UNCHANGED <<ttftHist, slowest>>
    BY <1>3 DEF Count, Return, Step
  <2>2. requestTotal' = [requestTotal EXCEPT ![chat[c].outcome] = @ + 1]
    BY <1>3 DEF Count
  <2> HIDE DEF w
  <2>3. chat'[c] = w /\ Others(c)
    BY <2>1, OneChanged
  <2>4. ~Recorded(chat[c])' /\ ~Pending(chat[c])'
    BY <1>2, <2>3 DEF Recorded, Pending
  <2>5. QED
    BY <2>1, <2>2, <2>3, <2>4 DEF Counts
<1>4. CASE ReturnUncounted(c)
  <2>1. chat[c].at = "uncounted" /\ chat' = [chat EXCEPT ![c] = w]
        /\ UNCHANGED <<ttftHist, slowest, requestTotal>>
    BY <1>4 DEF ReturnUncounted, Return, Step, metrics
  <2> HIDE DEF w
  <2>2. QED
    BY <1>2, <2>1, QuietMove DEF Pending
<1>5. CASE Disconnect(c)
  <2> DEFINE h == [chat[c] EXCEPT !.gone = TRUE]
  <2>1. chat' = [chat EXCEPT ![c] = h] /\ UNCHANGED <<ttftHist, slowest, requestTotal>>
    BY <1>1, <1>5 DEF Disconnect, metrics
  <2>2. h.at = chat[c].at /\ h.outcome = chat[c].outcome
    BY <1>1 DEF Handler
  <2> HIDE DEF h
  <2>3. (Recorded(h) => Recorded(chat[c])) /\ (Pending(chat[c]) => Pending(h))
    BY <2>2 DEF Recorded, Pending
  <2>4. QED
    BY <2>1, <2>3, QuietHandler
<1>6. QED
  BY <1>3, <1>4, <1>5

LEMMA Effects ==
  ASSUME RagInv, RagNext
  PROVE  Quiet \/ \E c \in Clients : (Records(c) \/ Counts(c)) /\ Others(c)
<1>1. CASE Tick \/ SetBack
  BY <1>1 DEF Tick, SetBack, metrics, Quiet, Recorded, Pending
<1>2. ASSUME NEW c \in Clients,
             \/ Disconnect(c) \/ \E b \in Bodies[c] : Receive(c, b)
             \/ SimulateRetrieval(c) \/ RetrievalCancelled(c) \/ Generate(c) \/ GenerateFails(c)
             \/ WriteMeta(c) \/ WriteToken(c) \/ CalculateStream(c) \/ WriteDone(c)
             \/ NonStreamResponse(c) \/ WriteBody(c) \/ Count(c) \/ ReturnUncounted(c)
      PROVE  Quiet \/ \E d \in Clients : (Records(d) \/ Counts(d)) /\ Others(d)
  BY <1>2, ReceiveEffect, EarlyEffect, WritesEffect, SnapshotEffect, CountEffect
<1>3. QED
  BY <1>1, <1>2 DEF RagNext

(* ------------------------- the histogram and the counts ----------------- *)

RecordedSet == { c \in Clients : Recorded(chat[c]) }
PendingSet == { c \in Clients : Pending(chat[c]) }

HistTyped ==
  /\ ttftHist \in [Buckets -> Nat] /\ slowest \in Int
  /\ requestTotal \in [Statuses -> Nat]
  /\ \A b \in Buckets : ttftHist[b] > 0 => slowest >= b

(* The histogram holds what is counted as ok and what is recorded, and     *)
(* nothing but what is counted or pending.                                 *)
HistInv ==
  /\ HistTyped
  /\ requestTotal["ok"] + Cardinality(RecordedSet) <= SumFunction(ttftHist)
  /\ SumFunction(ttftHist) <= requestTotal["ok"] + requestTotal["error"] + Cardinality(PendingSet)

LEMMA SomeBuckets ==
  /\ LastBound \in Nat /\ Infinite = LastBound + 1 /\ Buckets = 0..Infinite /\ IsFiniteSet(Buckets)
  /\ \A ttft \in Nat : BucketOf(ttft) \in Buckets /\ BucketOf(ttft) <= ttft
<1>1. LastBound \in Nat
  BY RagAssumption DEF RagAssumption
<1>2. IsFiniteSet(0..Infinite)
  BY <1>1, FS_Interval DEF Infinite
<1>3. QED
  BY <1>1, <1>2 DEF Buckets, Infinite, BucketOf

LEMMA SomeClients ==
  /\ IsFiniteSet(RecordedSet) /\ Cardinality(RecordedSet) \in Nat
  /\ IsFiniteSet(PendingSet) /\ Cardinality(PendingSet) \in Nat
  /\ IsFiniteSet(RecordedSet') /\ Cardinality(RecordedSet') \in Nat
  /\ IsFiniteSet(PendingSet') /\ Cardinality(PendingSet') \in Nat
<1>1. IsFiniteSet(Clients)
  BY RagAssumption DEF RagAssumption
<1>2. /\ RecordedSet \in SUBSET Clients /\ PendingSet \in SUBSET Clients
      /\ RecordedSet' \in SUBSET Clients /\ PendingSet' \in SUBSET Clients
  BY DEF RecordedSet, PendingSet
<1>3. \A T \in SUBSET Clients : IsFiniteSet(T) /\ Cardinality(T) \in Nat
  BY <1>1, FS_Subset, FS_CardinalityType
<1>4. QED
  BY <1>2, <1>3

LEMMA ObservedIs ==
  ASSUME HistTyped
  PROVE  SumFunction(ttftHist) = SumFunctionOnSet(ttftHist, Buckets) /\ SumFunction(ttftHist) \in Int
<1>1. DOMAIN ttftHist = Buckets /\ \A b \in Buckets : ttftHist[b] \in Int
  BY DEF HistTyped
<1>2. QED
  BY <1>1, SomeBuckets, TotalIsInt DEF SumFunction

LEMMA RecordStep ==
  ASSUME HistTyped, NEW ttft \in Nat, RecordSnapshot(ttft), UNCHANGED requestTotal
  PROVE  HistTyped' /\ SumFunction(ttftHist)' = SumFunction(ttftHist) + 1
<1> DEFINE e == BucketOf(ttft)
<1>1. e \in Buckets /\ e <= ttft /\ IsFiniteSet(Buckets) /\ Buckets \subseteq Int
  BY SomeBuckets
<1>2. ttftHist' = [ttftHist EXCEPT ![e] = @ + 1] /\ slowest' = IF ttft > slowest THEN ttft ELSE slowest
  BY DEF RecordSnapshot
<1>3. ttftHist \in [Buckets -> Nat] /\ slowest \in Int
  BY DEF HistTyped
<1> HIDE DEF e
<1>4. \A b \in Buckets : ttftHist'[b] = IF b = e THEN ttftHist[b] + 1 ELSE ttftHist[b]
  BY <1>1, <1>2, <1>3
<1>5. /\ slowest' \in Int /\ slowest' >= slowest /\ slowest' >= ttft
  BY <1>2, <1>3
<1>6. HistTyped'
  <2>1. ttftHist' \in [Buckets -> Nat]
    BY <1>1, <1>2, <1>3
  <2>2. ASSUME NEW b \in Buckets, ttftHist'[b] > 0 PROVE slowest' >= b
    <3>1. CASE b = e
      BY <1>1, <1>5, <3>1
    <3>2. CASE b # e
      <4>1. slowest >= b
        BY <1>4, <2>2, <3>2 DEF HistTyped
      <4>2. QED
        BY <1>1, <1>3, <1>5, <4>1
    <3>3. QED
      BY <3>1, <3>2
  <2>3. QED
    BY <1>5, <2>1, <2>2 DEF HistTyped, Buckets, Infinite, Statuses
<1>7. SumFunctionOnSet(ttftHist', Buckets) = SumFunctionOnSet(ttftHist, Buckets) + 1
  <2>1. \A b \in Buckets : ttftHist[b] \in Int
    BY <1>3
  <2>2. QED
    BY <1>1, <1>4, <2>1, TotalBumped
<1>8. SumFunction(ttftHist)' = SumFunctionOnSet(ttftHist', Buckets)
  BY <1>6 DEF HistTyped, SumFunction, Buckets, Infinite
<1>9. QED
  BY <1>6, <1>7, <1>8, ObservedIs

LEMMA QuietHist == ASSUME HistInv, Quiet PROVE HistInv'
<1>1. RecordedSet' \subseteq RecordedSet /\ PendingSet \subseteq PendingSet'
  BY DEF Quiet, RecordedSet, PendingSet
<1>2. /\ Cardinality(RecordedSet') <= Cardinality(RecordedSet)
      /\ Cardinality(PendingSet) <= Cardinality(PendingSet')
  BY <1>1, SomeClients, FS_Subset
<1>3. ttftHist' = ttftHist /\ slowest' = slowest /\ requestTotal' = requestTotal
  BY DEF Quiet
<1>4. HistTyped'
  BY <1>3 DEF HistInv, HistTyped, Buckets, Infinite, Statuses
<1>5. SumFunction(ttftHist) \in Int /\ SumFunction(ttftHist)' = SumFunction(ttftHist)
  BY <1>3, ObservedIs DEF HistInv
<1>6. requestTotal["ok"] \in Nat /\ requestTotal["error"] \in Nat
  BY DEF HistInv, HistTyped, Statuses
<1> DEFINE n == SumFunction(ttftHist)
<1> HIDE DEF n
<1>7. /\ requestTotal["ok"] + Cardinality(RecordedSet) <= n
      /\ n <= requestTotal["ok"] + requestTotal["error"] + Cardinality(PendingSet)
      /\ n \in Int
  BY <1>5 DEF HistInv, n
<1>8. /\ requestTotal["ok"] + Cardinality(RecordedSet') <= n
      /\ n <= requestTotal["ok"] + requestTotal["error"] + Cardinality(PendingSet')
  BY <1>2, <1>6, <1>7, SomeClients
<1>9. QED
  BY <1>3, <1>4, <1>5, <1>8 DEF HistInv, n

LEMMA RecordsHist == ASSUME HistInv, NEW c \in Clients, Records(c), Others(c) PROVE HistInv'
<1>1. PICK ttft \in Nat : RecordSnapshot(ttft)
  BY DEF Records
<1>2. HistTyped /\ requestTotal' = requestTotal
  BY DEF HistInv, Records
<1>3. HistTyped' /\ SumFunction(ttftHist)' = SumFunction(ttftHist) + 1 /\ SumFunction(ttftHist) \in Int
  BY <1>1, <1>2, RecordStep, ObservedIs
<1>4. /\ RecordedSet' = RecordedSet \cup {c} /\ c \notin RecordedSet
      /\ PendingSet' = PendingSet \cup {c} /\ c \notin PendingSet
  BY DEF Records, Others, RecordedSet, PendingSet, Recorded, Pending
<1>5. /\ Cardinality(RecordedSet') = Cardinality(RecordedSet) + 1
      /\ Cardinality(PendingSet') = Cardinality(PendingSet) + 1
  BY <1>4, SomeClients, FS_AddElement
<1>6. requestTotal["ok"] \in Nat /\ requestTotal["error"] \in Nat
  BY <1>2 DEF HistTyped, Statuses
<1>7. /\ requestTotal["ok"] + Cardinality(RecordedSet) <= SumFunction(ttftHist)
      /\ SumFunction(ttftHist) <= requestTotal["ok"] + requestTotal["error"] + Cardinality(PendingSet)
  BY DEF HistInv
<1>8. /\ requestTotal["ok"] + Cardinality(RecordedSet') <= SumFunction(ttftHist)'
      /\ SumFunction(ttftHist)' <= requestTotal["ok"] + requestTotal["error"] + Cardinality(PendingSet')
  BY <1>3, <1>5, <1>6, <1>7, SomeClients
<1>9. QED
  BY <1>2, <1>3, <1>8 DEF HistInv

LEMMA CountsHist ==
  ASSUME RagInv, HistInv, NEW c \in Clients, Counts(c), Others(c)
  PROVE  HistInv'
<1>1. ttftHist' = ttftHist /\ slowest' = slowest /\ HistTyped
  BY DEF HistInv, Counts
<1> DEFINE label == chat[c].outcome
<1>2. /\ requestTotal' = [requestTotal EXCEPT ![label] = @ + 1] /\ requestTotal \in [Statuses -> Nat]
      /\ label \in {"none", "ok", "error", "bad_request"} /\ chat[c].at = "counting"
  BY <1>1, OneHandler DEF Counts, HistTyped, Handler
<1>3. /\ RecordedSet' = RecordedSet \ {c} /\ (c \in RecordedSet <=> label = "ok")
      /\ PendingSet' = PendingSet \ {c} /\ (c \in PendingSet <=> label \in {"ok", "error"})
  BY <1>2 DEF Counts, Others, RecordedSet, PendingSet, Recorded, Pending
<1> HIDE DEF label
<1>4. /\ Cardinality(RecordedSet') = Cardinality(RecordedSet) - (IF label = "ok" THEN 1 ELSE 0)
      /\ Cardinality(PendingSet') = Cardinality(PendingSet) - (IF label \in {"ok", "error"} THEN 1 ELSE 0)
  BY <1>3, SomeClients, FS_RemoveElement
<1>5. /\ requestTotal' \in [Statuses -> Nat]
      /\ requestTotal'["ok"] = requestTotal["ok"] + (IF label = "ok" THEN 1 ELSE 0)
      /\ requestTotal'["error"] = requestTotal["error"] + (IF label = "error" THEN 1 ELSE 0)
      /\ requestTotal["ok"] \in Nat /\ requestTotal["error"] \in Nat
  <2>1. {"ok", "error", "bad_request"} = Statuses /\ "none" \notin Statuses
    BY DEF Statuses
  <2>2. CASE label = "none"
    <3>1. requestTotal' = [s \in Statuses |-> IF s = label THEN requestTotal[s] + 1 ELSE requestTotal[s]]
      BY <1>2
    <3>2. \A s \in Statuses : requestTotal'[s] = requestTotal[s]
      BY <2>1, <2>2, <3>1
    <3>3. requestTotal' = [s \in Statuses |-> requestTotal[s]]
      BY <3>1, <3>2
    <3>4. requestTotal' = requestTotal
      BY <1>2, <3>3
    <3>5. requestTotal["ok"] \in Nat /\ requestTotal["error"] \in Nat
      BY <1>2, <2>1
    <3>6. requestTotal' \in [Statuses -> Nat]
      BY <1>2, <3>4
    <3>7. (IF label = "ok" THEN 1 ELSE 0) = 0 /\ (IF label = "error" THEN 1 ELSE 0) = 0
      BY <2>2
    <3>8. QED
      BY <3>4, <3>5, <3>6, <3>7
  <2>3. CASE label \in Statuses
    BY <1>2, <2>1, <2>3
  <2>4. QED
    BY <1>2, <2>1, <2>2, <2>3
<1>6. HistTyped'
  BY <1>1, <1>5 DEF HistTyped, Buckets, Infinite, Statuses
<1>7. SumFunction(ttftHist)' = SumFunction(ttftHist) /\ SumFunction(ttftHist) \in Int
  BY <1>1, ObservedIs
<1>8. /\ requestTotal["ok"] + Cardinality(RecordedSet) <= SumFunction(ttftHist)
      /\ SumFunction(ttftHist) <= requestTotal["ok"] + requestTotal["error"] + Cardinality(PendingSet)
  BY DEF HistInv
<1>9. /\ requestTotal'["ok"] + Cardinality(RecordedSet') <= SumFunction(ttftHist)'
      /\ SumFunction(ttftHist)' <= requestTotal'["ok"] + requestTotal'["error"] + Cardinality(PendingSet')
  <2> DEFINE n == SumFunction(ttftHist)
  <2> HIDE DEF n
  <2>1. n \in Int /\ SumFunction(ttftHist)' = n
    BY <1>7 DEF n
  <2>2. /\ requestTotal["ok"] + Cardinality(RecordedSet) <= n
        /\ n <= requestTotal["ok"] + requestTotal["error"] + Cardinality(PendingSet)
    BY <1>8 DEF n
  <2>3. requestTotal'["ok"] + Cardinality(RecordedSet') <= n
    BY <1>4, <1>5, <2>1, <2>2, SomeClients
  <2>4. n <= requestTotal'["ok"] + requestTotal'["error"] + Cardinality(PendingSet')
    BY <1>4, <1>5, <2>1, <2>2, SomeClients
  <2>5. QED
    BY <2>1, <2>3, <2>4
<1>10. QED
  BY <1>6, <1>9 DEF HistInv

LEMMA HistStart == RagInit => HistInv
<1> SUFFICES ASSUME RagInit PROVE HistInv
  OBVIOUS
<1>1. /\ ttftHist = [b \in Buckets |-> 0] /\ slowest = -1 /\ requestTotal = [s \in Statuses |-> 0]
      /\ chat = [c \in Clients |-> Idle]
  BY DEF RagInit
<1>2. HistTyped
  BY <1>1 DEF HistTyped
<1>3. RecordedSet = {} /\ PendingSet = {}
  BY <1>1 DEF RecordedSet, PendingSet, Recorded, Pending, Idle
<1>4. Cardinality(RecordedSet) = 0 /\ Cardinality(PendingSet) = 0
  BY <1>3, FS_EmptySet
<1>5. SumFunction(ttftHist) = 0
  <2>1. \A b \in Buckets : ttftHist[b] = 0
    BY <1>1
  <2>2. SumFunctionOnSet(ttftHist, Buckets) = 0
    BY <2>1, SomeBuckets, TotalOfZeros
  <2>3. QED
    BY <1>2, <2>2, ObservedIs
<1>6. requestTotal["ok"] = 0 /\ requestTotal["error"] = 0
  BY <1>1 DEF Statuses
<1>7. QED
  BY <1>2, <1>4, <1>5, <1>6 DEF HistInv

LEMMA HistStep == RagInv /\ HistInv /\ [Next]_vars => HistInv'
<1> SUFFICES ASSUME RagInv, HistInv, [Next]_vars PROVE HistInv'
  OBVIOUS
<1>1. CASE RagNext
  BY <1>1, Effects, QuietHist, RecordsHist, CountsHist
<1>2. CASE UNCHANGED ragVars
  <2>1. Quiet
    BY <1>2 DEF ragVars, metrics, Quiet, Recorded, Pending
  <2>2. QED
    BY <2>1, QuietHist
<1>3. RagNext \/ UNCHANGED ragVars
  BY DEF Next, Serve, Scrape, Ctl, Ask, Forget, vars
<1>4. QED
  BY <1>1, <1>2, <1>3

(* For any number of clients, buckets and requests: the TTFT histogram     *)
(* holds every request counted as ok, and none that is not counted or at   *)
(* its last write or count (recordSnapshot, handleChat).                   *)
THEOREM HistogramHolds == Spec => []HistogramBrackets
<1>1. Init => RagInv /\ HistInv
  BY RagStart, HistStart DEF Init
<1>2. RagInv /\ HistInv => HistogramBrackets
  <2> SUFFICES ASSUME RagInv, HistInv PROVE HistogramBrackets
    OBVIOUS
  <2> DEFINE inFlight == { c \in Clients : chat[c].at \in {"done", "body", "counting"} }
             n == SumFunction(ttftHist)
  <2>1. PendingSet \in SUBSET inFlight /\ inFlight \in SUBSET Clients
    BY DEF PendingSet, Pending
  <2>2. IsFiniteSet(inFlight)
    BY <2>1, RagAssumption, FS_Subset DEF RagAssumption
  <2>3. Cardinality(PendingSet) <= Cardinality(inFlight) /\ Cardinality(inFlight) \in Nat
    BY <2>1, <2>2, FS_Subset, FS_CardinalityType
  <2>4. requestTotal["ok"] \in Nat /\ requestTotal["error"] \in Nat /\ n \in Int
    BY ObservedIs DEF HistInv, HistTyped, Statuses
  <2>5. /\ requestTotal["ok"] + Cardinality(RecordedSet) <= n
        /\ n <= requestTotal["ok"] + requestTotal["error"] + Cardinality(PendingSet)
    BY DEF HistInv
  <2> HIDE DEF n, inFlight
  <2>6. /\ requestTotal["ok"] <= n
        /\ n <= requestTotal["ok"] + requestTotal["error"] + Cardinality(inFlight)
    BY <2>3, <2>4, <2>5, SomeClients
  <2>7. QED
    BY <2>6 DEF HistogramBrackets, n, inFlight
<1>3. QED
  BY <1>1, <1>2, ServingStep, HistStep, PTL DEF Spec

(* ------------------------------- Prometheus ----------------------------- *)

(* What was scraped was once the histogram, and the histogram only grows.  *)
PromInv ==
  /\ scrapes \in Nat
  /\ scrapes = 0 => oldest = << >>
  /\ scrapes > 0 =>
       /\ oldest \in [Buckets -> Nat] /\ newest \in [Buckets -> Nat]
       /\ \A b \in Buckets : oldest[b] <= newest[b] /\ newest[b] <= ttftHist[b]

LEMMA Grows ==
  ASSUME RagInv, HistInv, [Next]_vars
  PROVE  /\ \A b \in Buckets : ttftHist[b] <= ttftHist'[b]
         /\ slowest <= slowest'
<1>1. ttftHist \in [Buckets -> Nat] /\ slowest \in Int
  BY DEF HistInv, HistTyped
<1>2. CASE UNCHANGED <<ttftHist, slowest>>
  BY <1>1, <1>2
<1>3. CASE \E ttft \in Nat : RecordSnapshot(ttft)
  <2>1. PICK ttft \in Nat : RecordSnapshot(ttft)
    BY <1>3
  <2> DEFINE e == BucketOf(ttft)
  <2>2. /\ ttftHist' = [ttftHist EXCEPT ![e] = @ + 1]
        /\ slowest' = IF ttft > slowest THEN ttft ELSE slowest
    BY <2>1 DEF RecordSnapshot
  <2> HIDE DEF e
  <2>3. \A b \in Buckets : ttftHist'[b] = IF b = e THEN ttftHist[b] + 1 ELSE ttftHist[b]
    BY <1>1, <2>2
  <2>4. QED
    BY <1>1, <2>2, <2>3
<1>4. UNCHANGED <<ttftHist, slowest>> \/ \E ttft \in Nat : RecordSnapshot(ttft)
  <2>1. CASE RagNext
    BY <2>1, Effects DEF Quiet, Records, Counts
  <2>2. CASE UNCHANGED ragVars
    BY <2>2 DEF ragVars, metrics
  <2>3. QED
    BY <2>1, <2>2 DEF Next, Serve, Scrape, Ctl, Ask, Forget, vars
<1>5. QED
  BY <1>2, <1>3, <1>4

LEMMA PromStep == RagInv /\ HistInv /\ PromInv /\ [Next]_vars => PromInv'
<1> SUFFICES ASSUME RagInv, HistInv, PromInv, [Next]_vars PROVE PromInv'
  OBVIOUS
<1>1. /\ ttftHist \in [Buckets -> Nat] /\ ttftHist' \in [Buckets -> Nat] /\ scrapes \in Nat
      /\ \A b \in Buckets : ttftHist[b] <= ttftHist'[b]
  <2>1. HistInv' /\ Buckets' = Buckets
    BY HistStep DEF Buckets, Infinite
  <2>2. QED
    BY <2>1, Grows DEF HistInv, HistTyped, PromInv
<1>2. CASE Scrape
  <2>1. /\ scrapes' = scrapes + 1 /\ newest' = ttftHist /\ ttftHist' = ttftHist
        /\ oldest' \in {ttftHist, oldest, newest} /\ (scrapes = 0 => oldest' = ttftHist)
    BY <1>2 DEF Scrape, PromInv, ragVars, metrics
  <2>2. scrapes' \in Nat /\ scrapes' > 0
    BY <1>1, <2>1
  <2>3. oldest' \in [Buckets -> Nat] /\ \A b \in Buckets : oldest'[b] <= ttftHist[b]
    <3>1. CASE oldest' = ttftHist
      BY <1>1, <3>1
    <3>2. CASE scrapes > 0 /\ oldest' \in {oldest, newest}
      BY <1>1, <3>2 DEF PromInv
    <3>3. QED
      BY <1>1, <2>1, <3>1, <3>2
  <2>4. \A b \in Buckets : oldest'[b] <= newest'[b] /\ newest'[b] <= ttftHist'[b]
    BY <1>1, <2>1, <2>3
  <2>5. QED
    BY <1>1, <2>1, <2>2, <2>3, <2>4 DEF PromInv, Buckets, Infinite
<1>3. CASE UNCHANGED <<oldest, newest, scrapes>>
  <2>1. ASSUME scrapes > 0, NEW b \in Buckets PROVE newest[b] <= ttftHist'[b]
    <3>1. newest[b] \in Nat /\ newest[b] <= ttftHist[b]
      BY <2>1 DEF PromInv
    <3>2. QED
      BY <1>1, <3>1
  <2>2. QED
    BY <1>3, <2>1 DEF PromInv, Buckets, Infinite
<1>4. QED
  BY <1>2, <1>3 DEF Next, Serve, Ctl, Ask, Forget, promVars, vars

(* The observations up to a bucket are one bucket's more than before it.   *)
LEMMA CountsUp ==
  ASSUME PromInv, scrapes > 0
  PROVE  /\ \A b \in Buckets : Came[b] \in Nat /\ CountUpTo(b) \in Nat
         /\ CountUpTo(0) = Came[0]
         /\ \A b \in Buckets \ {0} : CountUpTo(b) = Came[b] + CountUpTo(b - 1)
<1>1. Infinite \in Nat /\ Buckets = 0..Infinite
  BY SomeBuckets
<1>2. ASSUME NEW b \in Buckets PROVE Came[b] \in Nat
  BY <1>2 DEF Came, PromInv
<1>3. ASSUME NEW b \in Buckets
      PROVE  IsFiniteSet(0..b) /\ (\A d \in 0..b : Came[d] \in Nat) /\ b \in 0..b
  BY <1>1, <1>2, FS_Interval
<1>4. ASSUME NEW b \in Buckets
      PROVE  /\ SumFunctionOnSet(Came, 0..b) \in Nat
             /\ SumFunctionOnSet(Came, 0..b) = Came[b] + SumFunctionOnSet(Came, (0..b) \ {b})
  <2>1. \A d \in 0..b : Came[d] \in Int
    BY <1>3
  <2>2. QED
    BY <1>3, <2>1, TotalIsNat, TotalWithout
<1>5. CountUpTo(0) = Came[0]
  <2>1. (0..0) \ {0} = {} /\ 0 \in Buckets
    BY <1>1
  <2>2. CountUpTo(0) = Came[0] + SumFunctionOnSet(Came, {})
    BY <1>4, <2>1 DEF CountUpTo
  <2>3. QED
    BY <1>2, <2>1, <2>2, TotalOfNone
<1>6. ASSUME NEW b \in Buckets \ {0} PROVE CountUpTo(b) = Came[b] + CountUpTo(b - 1)
  <2>1. (0..b) \ {b} = 0..(b - 1) /\ b \in Buckets
    BY <1>1
  <2>2. QED
    BY <1>4, <2>1 DEF CountUpTo
<1>7. QED
  BY <1>2, <1>4, <1>5, <1>6 DEF CountUpTo

(* The first bucket that holds the rank, and that something came into it.  *)
LEMMA RankBucket ==
  ASSUME PromInv, scrapes > 0, NEW n \in Nat, n > 0, n = CountUpTo(Infinite)
  PROVE  /\ \E b \in Buckets : /\ 100 * CountUpTo(b) >= 95 * n
                               /\ b = 0 \/ ~(100 * CountUpTo(b - 1) >= 95 * n)
         /\ \A b \in Buckets :
              /\ 100 * CountUpTo(b) >= 95 * n
              /\ b = 0 \/ ~(100 * CountUpTo(b - 1) >= 95 * n)
              => newest[b] > 0
<1>1. Infinite \in Nat /\ Buckets = 0..Infinite
  BY SomeBuckets
<1>2. IsFiniteSet(Buckets) /\ Infinite \in Buckets
  BY SomeBuckets
<1> DEFINE holds(b) == 100 * CountUpTo(b) >= 95 * n
           bad == { 0..b : b \in { d \in Buckets : holds(d) } }
<1>3. holds(Infinite)
  <2>1. 100 * n >= 95 * n
    OBVIOUS
  <2>2. QED
    BY <2>1
<1>4. bad \subseteq SUBSET Buckets /\ bad # {}
  BY <1>1, <1>2, <1>3
<1>5. PICK s \in bad : \A t \in bad : t \subseteq s => t = s
  <2> HIDE DEF bad
  <2>1. QED
    BY <1>2, <1>4, Smallest
<1>6. PICK b \in Buckets : s = 0..b /\ holds(b)
  BY <1>5
<1>7. b = 0 \/ ~holds(b - 1)
  <2>1. SUFFICES ASSUME b # 0, holds(b - 1) PROVE FALSE
    OBVIOUS
  <2>2. b - 1 \in Buckets /\ 0..(b - 1) \subseteq 0..b /\ b \in 0..b /\ b \notin 0..(b - 1)
    BY <1>1, <2>1
  <2> HIDE DEF holds
  <2>3. 0..(b - 1) \in bad
    BY <2>1, <2>2
  <2>4. QED
    BY <1>5, <1>6, <2>2, <2>3
<1>8. ASSUME NEW d \in Buckets, holds(d), d = 0 \/ ~holds(d - 1) PROVE newest[d] > 0
  <2>1. Came[d] \in Nat /\ CountUpTo(d) \in Nat /\ CountUpTo(0) = Came[0]
    BY CountsUp
  <2>2. Came[d] > 0
    <3>1. CASE d = 0
      BY <1>8, <2>1, <3>1
    <3>2. CASE d # 0
      <4>1. d - 1 \in Buckets /\ d \in Buckets \ {0}
        BY <1>1, <3>2
      <4>2. CountUpTo(d) = Came[d] + CountUpTo(d - 1) /\ CountUpTo(d - 1) \in Nat
        BY <4>1, CountsUp
      <4>3. QED
        BY <1>8, <2>1, <3>2, <4>2
    <3>3. QED
      BY <3>1, <3>2
  <2>3. Came[d] = newest[d] - oldest[d] /\ newest[d] \in Nat /\ oldest[d] \in Nat
    BY DEF Came, PromInv
  <2>4. QED
    BY <2>2, <2>3
<1>9. QED
  BY <1>6, <1>7, <1>8

(* An answer of the quantile is NaN, or a number within or at the bound of *)
(* a bucket that some request was recorded in.                             *)
LEMMA QuantileIs ==
  ASSUME PromInv, HistTyped, scrapes > 0, NEW v \in Quantile95
  PROVE  \/ v = NaN
         \/ /\ v \in Nat
            /\ \E b \in Buckets :
                 /\ slowest >= b
                 /\ \/ b = Infinite /\ v = TickMS * Infinite
                    \/ v \in {TickMS * b + TickMS \div 2, TickMS * (b + 1)}
<1> DEFINE n == CountUpTo(Infinite)
           first(b) == /\ 100 * CountUpTo(b) >= 95 * n
                       /\ b = 0 \/ ~(100 * CountUpTo(b - 1) >= 95 * n)
           bucket == CHOOSE b \in Buckets : first(b)
<1>1. Infinite \in Nat /\ Buckets = 0..Infinite /\ n \in Nat /\ TickMS \in Nat
  BY SomeBuckets, CountsUp, ServingAssumption DEF ServingAssumption
<1>2. CASE n = 0
  BY <1>2 DEF Quantile95
<1>3. CASE n # 0
  <2>1. (\E b \in Buckets : first(b)) /\ \A b \in Buckets : first(b) => newest[b] > 0
    BY <1>1, <1>3, RankBucket
  <2>2. bucket \in Buckets /\ first(bucket)
    BY <2>1
  <2>3. v \in IF bucket = Infinite THEN {TickMS * Infinite}
              ELSE {TickMS * bucket + TickMS \div 2, TickMS * (bucket + 1)}
    BY <1>3 DEF Quantile95
  <2> HIDE DEF bucket, first, n
  <2>4. ttftHist[bucket] > 0
    <3>1. newest[bucket] > 0 /\ newest[bucket] <= ttftHist[bucket]
      BY <2>1, <2>2 DEF PromInv
    <3>2. newest[bucket] \in Nat /\ ttftHist[bucket] \in Nat
      BY <2>2 DEF PromInv, HistTyped
    <3>3. QED
      BY <3>1, <3>2
  <2>5. slowest >= bucket
    BY <2>2, <2>4 DEF HistTyped
  <2>6. TickMS \div 2 \in Nat
    BY <1>1
  <2>7. /\ TickMS * Infinite \in Nat /\ TickMS * bucket \in Nat
        /\ TickMS * (bucket + 1) \in Nat
    BY <1>1, <2>2
  <2>8. v \in Nat
    BY <2>3, <2>6, <2>7
  <2>9. QED
    BY <2>2, <2>3, <2>5, <2>8
<1>4. QED
  BY <1>2, <1>3

(* ------------------------------- the verdict ---------------------------- *)

MetricNames == {"ttft_p95_ms", "error_rate", "burn_rate"}
Results ==
  [pass: BOOLEAN, error: BOOLEAN,
   violations: SUBSET [metric: MetricNames, threshold: Float, actual: Float]]
Replies == Float \cup {NoAnswer, Unreachable}
SomeError == \E i \in DOMAIN answers : answers[i] \in {NoAnswer, Unreachable}
SomeHigh == \E i \in DOMAIN answers : TooHigh(i)
SomeOdd == \E i \in DOMAIN answers : TooHigh(i) /\ ~Finite(i)
Numbers(g) ==
  (\A m \in MetricNames : g[m] \in Float) /\ g["failOpen"] \in 0..1

(* While a gate runs its result tells what it was answered so far; nothing *)
(* is left of it when the next process starts.                             *)
CtlInv ==
  /\ result \in Results
  /\ answers \in Seq(Replies) /\ asked = Len(answers) /\ asked <= 3
  /\ line.command # "cdgate" => result = Passing /\ answers = << >>
  /\ line = NoLine => status = -1
  /\ line.command = "cdgate" => Numbers(gate)
  /\ Evaluating => /\ result.error <=> SomeError
                   /\ result.pass <=> ~SomeError /\ ~SomeHigh
                   /\ Marshals(result) <=> ~SomeOdd
  /\ ExitTellsOutcome

LEMMA GateSettingsAre ==
  ASSUME NEW l \in CommandLines, NEW files \in Files,
         NEW file, file \in {files["default"], files["named"]}
  PROVE  LET g == GateSettings(l, IF file.readable THEN Load(file.settings) ELSE Default)
         IN  /\ \A m \in MetricNames : g[m] \in Float
             /\ g["failOpen"] \in 0..1
<1> DEFINE cfg == IF file.readable THEN Load(file.settings) ELSE Default
           g == GateSettings(l, cfg)
<1>1. Settings(l.flags) /\ Settings(file.settings)
  BY CtlAssumption DEF CtlAssumption
<1> DEFINE kept == {"ttft_p95_ms", "error_rate", "burn_rate", "failOpen"}
<1>2. /\ kept \subseteq DOMAIN Default /\ kept \cap Thresholds = kept \ {"failOpen"}
      /\ \A f \in kept : Default[f] \in IF f = "failOpen" THEN 0..1 ELSE Float
  BY DEF Default, Thresholds, Float
<1>3. \A f \in kept : cfg[f] \in IF f = "failOpen" THEN 0..1 ELSE Float
  <2>1. \A f \in kept \cap DOMAIN file.settings :
          file.settings[f] \in IF f = "failOpen" THEN 0..1 ELSE Float
    BY <1>1, <1>2 DEF Settings
  <2>2. "failOpen" \in Verbatim
    BY DEF Verbatim
  <2>3. \A f \in kept : Load(file.settings)[f] \in IF f = "failOpen" THEN 0..1 ELSE Float
    BY <1>2, <2>1, <2>2 DEF Load, Normalize
  <2>4. QED
    BY <1>2, <2>3
<1> HIDE DEF cfg
<1>4. \A f \in kept \cap DOMAIN l.flags :
        l.flags[f] \in IF f = "failOpen" THEN 0..1 ELSE Float
  BY <1>1, <1>2 DEF Settings
<1>5. \A f \in kept : g[f] \in IF f = "failOpen" THEN 0..1 ELSE Float
  BY <1>2, <1>3, <1>4 DEF GateSettings
<1>6. QED
  BY <1>5 DEF cfg, MetricNames

LEMMA MetricIs ==
  /\ DOMAIN Metrics = 1..3 /\ Len(Metrics) = 3
  /\ \A i \in 1..3 : Metrics[i] \in MetricNames
BY DEF Metrics, MetricNames

LEMMA NoCommand == NoLine.command = ""
BY DEF NoLine

(* A command starts when nothing is left of the one before. *)
LEMMA StartIs ==
  ASSUME CtlInv, NEW commands, Start(commands)
  PROVE  /\ line = NoLine /\ status = -1 /\ result = Passing /\ answers = << >> /\ asked = 0
         /\ line' \in CommandLines /\ line'.command \in commands
<1>1. line = NoLine /\ line.command # "cdgate" /\ line' \in CommandLines /\ line'.command \in commands
  BY DEF Start, NoLine
<1>2. answers = << >> /\ asked = Len(answers)
  BY <1>1 DEF CtlInv
<1>3. QED
  BY <1>1, <1>2 DEF CtlInv

LEMMA InformStep == ASSUME CtlInv, Usage \/ Inform, UNCHANGED promVars PROVE CtlInv'
<1>1. /\ result = Passing /\ answers = << >> /\ asked = 0
      /\ line'.command \in {"unknown", "version", "help"}
  BY StartIs DEF Usage, Inform
<1>2. UNCHANGED <<result, asked, answers>>
  BY DEF Usage, Inform, promVars
<1>3. line'.command # "cdgate" /\ line'.command # "prereq" /\ line' # NoLine
  BY <1>1, NoCommand
<1>4. ExitTellsOutcome' /\ ~Evaluating'
  BY <1>3 DEF ExitTellsOutcome, Ran, Evaluating
<1>5. QED
  BY <1>1, <1>2, <1>3, <1>4 DEF CtlInv

LEMMA StartGateStep == ASSUME CtlInv, RunCDGateCheck, UNCHANGED promVars PROVE CtlInv'
<1>1. /\ result = Passing /\ answers = << >> /\ asked = 0 /\ status = -1
      /\ line' \in CommandLines /\ line'.command = "cdgate"
  BY StartIs DEF RunCDGateCheck
<1>2. UNCHANGED <<result, asked, answers, status>>
  BY DEF RunCDGateCheck, promVars
<1>3. line' # NoLine
  BY <1>1, NoCommand
<1>4. Numbers(gate')
  <2>1. PICK files \in Files :
          LET file == files[ResolveConfigPath(line')]
          IN  gate' = GateSettings(line', IF file.readable THEN Load(file.settings) ELSE Default)
    BY DEF RunCDGateCheck
  <2> DEFINE file == files[ResolveConfigPath(line')]
  <2>2. file \in {files["default"], files["named"]}
    BY DEF ResolveConfigPath
  <2>3. gate' = GateSettings(line', IF file.readable THEN Load(file.settings) ELSE Default)
    BY <2>1
  <2> HIDE DEF file
  <2>4. QED
    BY <1>1, <2>2, <2>3, GateSettingsAre DEF Numbers
<1>5. ~SomeError' /\ ~SomeHigh' /\ ~SomeOdd'
  BY <1>1, <1>2 DEF SomeError, SomeHigh, SomeOdd
<1>6. Passing.pass /\ ~Passing.error /\ Marshals(Passing)
  BY DEF Passing, Marshals
<1>7. ExitTellsOutcome'
  BY <1>1, <1>2 DEF ExitTellsOutcome, Ran
<1>8. Marshals(result)' <=> Marshals(Passing)
  BY <1>1, <1>2 DEF Marshals
<1>9. QED
  BY <1>1, <1>2, <1>3, <1>4, <1>5, <1>6, <1>7, <1>8 DEF CtlInv

(* What fails of a host is a warning, exactly when the blockers pass.      *)
LEMMA Passes ==
  ASSUME NEW host \in Hosts, NEW s, s = CollectSnapshot(host)
  PROVE  LET new == ~(s.major < 5 \/ (s.major = 5 /\ s.minor < 15))
         IN  /\ Evaluate(s) <=> Blockers \subseteq s.facts /\ new
             /\ StrictPass(s) <=> (Blockers \cup Warnings) \subseteq s.facts /\ new
<1> DEFINE new == ~(s.major < 5 \/ (s.major = 5 /\ s.minor < 15))
<1>1. /\ host \in [facts: SUBSET STRING, release: STRING, major: Nat, minor: Nat]
      /\ host.release # "numbered" => host.major = 0
  BY CtlAssumption DEF CtlAssumption
<1>2. /\ s.release = host.release /\ s.major = host.major /\ s.minor = host.minor
      /\ s.major \in Nat /\ s.minor \in Nat
  BY <1>1 DEF CollectSnapshot
<1>3. BuildKernelCheck(s) <=> new
  <2>1. CASE s.release = "numbered"
    BY <1>2, <2>1 DEF BuildKernelCheck
  <2>2. CASE s.release # "numbered"
    BY <1>1, <1>2, <2>2 DEF BuildKernelCheck
  <2>3. QED
    BY <2>1, <2>2
<1>4. "kernel_version" \notin Warnings /\ Blockers \cap Warnings = {}
  BY DEF Warnings, Blockers
<1> HIDE DEF new
<1>5. Evaluate(s) <=> Blockers \subseteq s.facts /\ new
  BY <1>3, <1>4 DEF Evaluate, Failed
<1>6. StrictPass(s) <=> (Blockers \cup Warnings) \subseteq s.facts /\ new
  BY <1>3, <1>4 DEF StrictPass, Failed
<1>7. QED
  BY <1>5, <1>6 DEF new

LEMMA PrereqStep == ASSUME CtlInv, RunPrereqCheck, UNCHANGED promVars PROVE CtlInv'
<1>1. /\ result = Passing /\ answers = << >> /\ asked = 0
      /\ line' \in CommandLines /\ line'.command = "prereq"
  BY StartIs DEF RunPrereqCheck
<1>2. UNCHANGED <<result, asked, answers>>
  BY DEF RunPrereqCheck, promVars
<1>3. line' # NoLine /\ line'.command # "cdgate"
  BY <1>1, NoCommand
<1>4. PICK host \in Hosts : snapshot' = CollectSnapshot(host)
  BY DEF RunPrereqCheck
<1> DEFINE s == snapshot'
           new == ~(s.major < 5 \/ (s.major = 5 /\ s.minor < 15))
           pass == IF line'.strict THEN StrictPass(s) ELSE Evaluate(s)
           required == {"host_linux", "btf_available", "bpftool_installed", "privileged_execution"}
                         \cup (IF line'.strict THEN Warnings ELSE {})
<1>5. status' = IF UnknownOutput(line') THEN 2 ELSE IF pass THEN 0 ELSE 1
  BY DEF RunPrereqCheck, Exit
<1>6. pass <=> required \subseteq s.facts /\ new
  <2>1. /\ Evaluate(s) <=> Blockers \subseteq s.facts /\ new
        /\ StrictPass(s) <=> (Blockers \cup Warnings) \subseteq s.facts /\ new
    BY <1>4, Passes
  <2>2. required = Blockers \cup (IF line'.strict THEN Warnings ELSE {})
    BY DEF Blockers
  <2>3. line'.strict \in BOOLEAN
    BY <1>1, CtlAssumption DEF CtlAssumption
  <2> HIDE DEF new, s
  <2>4. CASE line'.strict
    <3>1. (pass <=> StrictPass(s)) /\ required = Blockers \cup Warnings
      BY <2>2, <2>4
    <3> HIDE DEF pass, required
    <3>2. QED
      BY <2>1, <3>1
  <2>5. CASE ~line'.strict
    <3>1. (pass <=> Evaluate(s)) /\ required = Blockers
      BY <2>2, <2>5
    <3> HIDE DEF pass, required
    <3>2. QED
      BY <2>1, <3>1
  <2>6. QED
    BY <2>3, <2>4, <2>5
<1>7. ExitTellsOutcome'
  <2>1. ~Ran("cdgate")'
    BY <1>3 DEF Ran
  <2>2. Ran("prereq")' => (status' = 0 <=> required \subseteq s.facts /\ new)
    BY <1>5, <1>6 DEF Ran
  <2>3. QED
    BY <2>1, <2>2 DEF ExitTellsOutcome
<1>8. ~Evaluating'
  BY <1>3 DEF Evaluating
<1>9. QED
  BY <1>1, <1>2, <1>3, <1>7, <1>8 DEF CtlInv

LEMMA ConcludeStep == ASSUME CtlInv, Conclude, UNCHANGED promVars PROVE CtlInv'
<1>1. /\ line.command = "cdgate" /\ status = -1 /\ UNCHANGED <<line, gate, asked, answers>>
      /\ Numbers(gate) /\ (result.error <=> SomeError) /\ (result.pass <=> ~SomeError /\ ~SomeHigh)
      /\ Marshals(result) <=> ~SomeOdd
      /\ result \in Results
  BY DEF Conclude, Evaluating, CtlInv, promVars
<1> DEFINE pass == result.pass \/ (result.error /\ gate.failOpen = 1)
<1>2. /\ result' = [result EXCEPT !.pass = pass]
      /\ status' = IF UnknownOutput(line) THEN 2
                   ELSE IF line.output = "json" /\ ~Marshals(result) THEN 1
                   ELSE IF pass THEN 0 ELSE 1
  BY DEF Conclude, Exit
<1>3. pass \in BOOLEAN
  BY <1>1
<1>4. result' \in Results
  BY <1>1, <1>2, <1>3 DEF Results
<1>5. line # NoLine /\ status' # -1
  <2>1. line # NoLine
    BY <1>1, NoCommand
  <2> HIDE DEF pass
  <2>2. status' \in {0, 1, 2}
    BY <1>2
  <2>3. QED
    BY <2>1, <2>2
<1>6. ExitTellsOutcome'
  <2> DEFINE excused == SomeError /\ gate.failOpen = 1 /\ ~(line.output = "json" /\ SomeOdd)
  <2>1. ~Ran("prereq")'
    BY <1>1 DEF Ran
  <2>2. SomeOdd => SomeHigh
    BY DEF SomeOdd, SomeHigh
  <2>3. ~UnknownOutput(line) =>
          status' = IF excused THEN 0 ELSE IF SomeError \/ SomeHigh THEN 1 ELSE 0
    BY <1>1, <1>2, <2>2
  <2>4. /\ Ran("cdgate")' => ~UnknownOutput(line)
        /\ SomeError' = SomeError /\ SomeHigh' = SomeHigh /\ SomeOdd' = SomeOdd
    BY <1>1 DEF Ran, SomeError, SomeHigh, SomeOdd, TooHigh, Finite
  <2>5. Ran("cdgate")' =>
          status' = IF /\ SomeError' /\ gate'.failOpen = 1
                       /\ ~(line'.output = "json" /\ SomeOdd')
                    THEN 0 ELSE IF SomeError' \/ SomeHigh' THEN 1 ELSE 0
    BY <1>1, <2>3, <2>4
  <2>6. QED
    BY <2>1, <2>5 DEF ExitTellsOutcome, SomeError, SomeHigh, SomeOdd
<1>7. ~Evaluating'
  BY <1>5 DEF Evaluating
<1>8. QED
  BY <1>1, <1>4, <1>5, <1>6, <1>7 DEF CtlInv

LEMMA ForgetStep == ASSUME Forget PROVE CtlInv'
<1>1. line' = NoLine /\ asked' = 0 /\ result' = Passing /\ status' = -1 /\ answers' = << >>
  BY DEF Forget, Reap
<1>2. NoLine.command = ""
  BY DEF NoLine
<1>3. Passing \in Results
  BY DEF Passing, Results
<1>4. << >> \in Seq(Replies) /\ Len(<< >>) = 0
  OBVIOUS
<1>5. ExitTellsOutcome' /\ ~Evaluating'
  BY <1>1, <1>2 DEF ExitTellsOutcome, Ran, Evaluating
<1>6. asked' = Len(answers') /\ asked' <= 3 /\ answers' \in Seq(Replies)
  BY <1>1, <1>4
<1>7. QED
  BY <1>1, <1>2, <1>3, <1>5, <1>6 DEF CtlInv

(* ------------------------------- the answers ---------------------------- *)

LEMMA AskedIs ==
  ASSUME CtlInv, Asking
  PROVE  /\ line.command = "cdgate" /\ status = -1 /\ line # NoLine /\ Numbers(gate)
         /\ ~result.error /\ ~SomeError /\ (result.pass <=> ~SomeHigh)
         /\ Marshals(result) <=> ~SomeOdd
         /\ asked \in 0..2 /\ asked + 1 \in 1..3 /\ Len(answers) = asked
         /\ Metric \in MetricNames
<1>1. line.command = "cdgate" /\ status = -1 /\ ~result.error /\ asked < 3 /\ Evaluating
  BY MetricIs DEF Asking, Evaluating
<1>2. line # NoLine
  BY <1>1, NoCommand
<1>3. asked = Len(answers) /\ answers \in Seq(Replies)
  BY DEF CtlInv
<1>4. asked \in 0..2 /\ asked + 1 \in 1..3
  BY <1>1, <1>3
<1>5. QED
  BY <1>1, <1>2, <1>3, <1>4, MetricIs DEF CtlInv, Metric

(* What a query gives in place of a value is none of the numbers.          *)
LEMMA Specials ==
  /\ NaN \notin Int /\ PosInf \notin Int /\ NegInf \notin Int
  /\ NaN # PosInf /\ NaN # NegInf /\ PosInf # NegInf
  /\ \A v \in {NoAnswer, Unreachable} : v \notin Float /\ v \notin Int /\ v # PosInf
BY CtlAssumption, ServingAssumption DEF CtlAssumption, FloatAssumption, ServingAssumption, Float

Over(a, threshold) ==
  \/ a \in Int /\ threshold \in Int /\ a > threshold
  \/ a = PosInf /\ threshold \in Int \cup {NegInf}
  \/ a \in Int /\ threshold = NegInf

(* The comparison of two float64.                                          *)
LEMMA ExceedsIs ==
  ASSUME NEW v \in Float, NEW threshold \in Float
  PROVE  Exceeds(v, threshold) <=> Over(v, threshold)
BY Specials DEF Exceeds, Over, Float

(* One more answer is an error or too high, or an old one is. *)
LEMMA AnsweredIs ==
  ASSUME CtlInv, Asking, NEW v \in Replies, Answered(v), gate' = gate
  PROVE  /\ answers' \in Seq(Replies) /\ Len(answers') = Len(answers) + 1
         /\ SomeError' <=> SomeError \/ v \in {NoAnswer, Unreachable}
         /\ SomeHigh' <=> SomeHigh \/ Over(v, gate[Metric])
         /\ SomeOdd' <=>
              SomeOdd \/ (Over(v, gate[Metric]) /\ ~(v \in Int /\ gate[Metric] \in Int))
<1>1. answers \in Seq(Replies) /\ answers' = Append(answers, v)
  BY DEF CtlInv, Answered
<1>2. /\ answers' \in Seq(Replies) /\ Len(answers') = Len(answers) + 1
      /\ answers'[Len(answers) + 1] = v /\ \A i \in 1..Len(answers) : answers'[i] = answers[i]
  BY <1>1, Appended
<1> PICK n \in Nat : n = Len(answers)
  BY <1>1
<1>3. DOMAIN answers = 1..n /\ DOMAIN answers' = 1..(n + 1) /\ n = asked
  BY <1>1, <1>2 DEF CtlInv
<1>4. /\ \A i \in DOMAIN answers : i \in DOMAIN answers' /\ answers'[i] = answers[i]
      /\ \A i \in DOMAIN answers' : i \in DOMAIN answers \/ i = n + 1
      /\ n + 1 \in DOMAIN answers' /\ answers'[n + 1] = v
  BY <1>2, <1>3
<1>5. SomeError' <=> SomeError \/ v \in {NoAnswer, Unreachable}
  BY <1>4 DEF SomeError
<1>6. Metrics[n + 1] = Metric
  BY <1>3 DEF Metric
<1>7. /\ \A i \in DOMAIN answers : /\ TooHigh(i)' <=> TooHigh(i)
                                   /\ Finite(i)' <=> Finite(i)
      /\ TooHigh(n + 1)' <=> Over(v, gate[Metric])
      /\ Finite(n + 1)' <=> v \in Int /\ gate[Metric] \in Int
  BY <1>4, <1>6 DEF TooHigh, Finite, Over
<1>8. SomeHigh' <=> \E i \in DOMAIN answers' : TooHigh(i)'
  BY DEF SomeHigh
<1>9. SomeOdd' <=> \E i \in DOMAIN answers' : TooHigh(i)' /\ ~Finite(i)'
  BY DEF SomeOdd
<1>10. SomeHigh' <=> SomeHigh \/ Over(v, gate[Metric])
  BY <1>4, <1>7, <1>8 DEF SomeHigh
<1>11. SomeOdd' <=>
         SomeOdd \/ (Over(v, gate[Metric]) /\ ~(v \in Int /\ gate[Metric] \in Int))
  BY <1>4, <1>7, <1>9 DEF SomeOdd
<1>12. QED
  BY <1>2, <1>5, <1>10, <1>11

LEMMA FailsStep ==
  ASSUME CtlInv, QueryFails, NEW v \in {NoAnswer, Unreachable}, Answered(v)
  PROVE  CtlInv'
<1>1. /\ Asking /\ asked' = asked + 1 /\ UNCHANGED <<line, gate, snapshot, status>>
      /\ result' = [result EXCEPT !.pass = FALSE, !.error = TRUE]
  BY DEF QueryFails
<1>2. v \in Replies /\ ~Over(v, gate[Metric])
  BY Specials DEF Replies, Over
<1>3. /\ answers' \in Seq(Replies) /\ Len(answers') = Len(answers) + 1 /\ SomeError'
      /\ SomeOdd' <=> SomeOdd
  BY <1>1, <1>2, AnsweredIs
<1>4. /\ line.command = "cdgate" /\ status = -1 /\ line # NoLine /\ Numbers(gate)
      /\ asked \in 0..2 /\ Len(answers) = asked
      /\ Marshals(result) <=> ~SomeOdd
  BY <1>1, AskedIs
<1>5. /\ result' \in Results /\ result'.error /\ ~result'.pass
      /\ result'.violations = result.violations
  BY <1>1 DEF CtlInv, Results
<1>6. ExitTellsOutcome'
  BY <1>1, <1>4 DEF ExitTellsOutcome, Ran
<1>7. asked' = Len(answers') /\ asked' <= 3
  BY <1>1, <1>3, <1>4
<1>8. Marshals(result)' <=> ~SomeOdd'
  BY <1>3, <1>4, <1>5 DEF Marshals
<1>9. QED
  BY <1>1, <1>3, <1>4, <1>5, <1>6, <1>7, <1>8 DEF CtlInv

LEMMA QueryStep ==
  ASSUME CtlInv, NEW v \in Float, Query(v), Answered(v)
  PROVE  CtlInv'
<1> DEFINE high == Over(v, gate[Metric])
           finite == v \in Int /\ gate[Metric] \in Int
           w == [metric |-> Metric, threshold |-> gate[Metric], actual |-> v]
<1>1. Asking /\ asked' = asked + 1 /\ UNCHANGED <<line, gate, snapshot, status>>
  BY DEF Query
<1>2. /\ line.command = "cdgate" /\ status = -1 /\ line # NoLine /\ Numbers(gate)
      /\ asked \in 0..2 /\ Len(answers) = asked
      /\ ~result.error /\ ~SomeError /\ (result.pass <=> ~SomeHigh)
      /\ Marshals(result) <=> ~SomeOdd
      /\ Metric \in MetricNames
  BY <1>1, AskedIs
<1>3. gate[Metric] \in Float
  BY <1>2 DEF Numbers
<1>4. result' = IF high THEN [result EXCEPT !.pass = FALSE, !.violations = @ \cup {w}]
                ELSE result
  BY <1>3, ExceedsIs DEF Query
<1>5. v \in Replies /\ v \notin {NoAnswer, Unreachable}
  BY Specials DEF Replies
<1>6. answers' \in Seq(Replies) /\ Len(answers') = Len(answers) + 1
      /\ (SomeError' <=> SomeError) /\ (SomeHigh' <=> SomeHigh \/ high)
      /\ (SomeOdd' <=> SomeOdd \/ (high /\ ~finite))
  BY <1>1, <1>5, AnsweredIs
<1>7. /\ w \in [metric: MetricNames, threshold: Float, actual: Float]
      /\ w.threshold \in Int /\ w.actual \in Int <=> finite
  BY <1>2, <1>3
<1> HIDE DEF high, finite, w
<1>8. /\ result' \in Results
      /\ ~result'.error /\ (result'.pass <=> ~SomeHigh /\ ~high)
      /\ Marshals(result)' <=> Marshals(result) /\ (high => finite)
  <2>1. result \in Results
    BY DEF CtlInv
  <2>2. CASE high
    <3>1. /\ result' \in Results /\ ~result'.error /\ ~result'.pass
          /\ result'.violations = result.violations \cup {w}
      BY <1>2, <1>4, <1>7, <2>1, <2>2 DEF Results
    <3>2. QED
      BY <1>7, <2>2, <3>1 DEF Marshals
  <2>3. CASE ~high
    BY <1>2, <1>4, <2>1, <2>3 DEF Marshals
  <2>4. QED
    BY <2>2, <2>3
<1>9. ExitTellsOutcome'
  BY <1>1, <1>2 DEF ExitTellsOutcome, Ran
<1>10. asked' = Len(answers') /\ asked' <= 3
  BY <1>1, <1>2, <1>6
<1>11. /\ (result'.error <=> SomeError') /\ (result'.pass <=> ~SomeError' /\ ~SomeHigh')
       /\ (Marshals(result)' <=> ~SomeOdd')
  BY <1>2, <1>6, <1>8
<1>12. QED
  BY <1>1, <1>2, <1>6, <1>8, <1>9, <1>10, <1>11 DEF CtlInv

(* What Prometheus answers of a metric is a float64, and for the TTFT a    *)
(* quantile.                                                               *)
LEMMA ValueIs ==
  ASSUME HistInv, PromInv, NEW metric, NEW v \in Values(metric)
  PROVE  /\ v \in Float
         /\ metric = "ttft_p95_ms" => scrapes > 0 /\ v \in Quantile95
<1>1. CASE metric # "ttft_p95_ms"
  BY <1>1, ServingAssumption DEF ServingAssumption, Values
<1>2. CASE metric = "ttft_p95_ms"
  <2>1. ~(scrapes < 2) /\ v \in Quantile95
    BY <1>2 DEF Values
  <2>2. scrapes > 0
    BY <2>1 DEF PromInv
  <2>3. v \in Nat \/ v = NaN
    BY <2>1, <2>2, QuantileIs DEF HistInv
  <2>4. QED
    BY <1>2, <2>1, <2>2, <2>3 DEF Float
<1>3. QED
  BY <1>1, <1>2

LEMMA CtlStep == HistInv /\ PromInv /\ CtlInv /\ [Next]_vars => CtlInv'
<1> SUFFICES ASSUME HistInv, PromInv, CtlInv, [Next]_vars PROVE CtlInv'
  OBVIOUS
<1>1. CASE UNCHANGED <<ctlVars, answers>>
  <2>1. /\ UNCHANGED <<line, gate, snapshot, asked, result, status, answers>>
        /\ SomeError' = SomeError /\ SomeHigh' = SomeHigh /\ SomeOdd' = SomeOdd
        /\ Evaluating' = Evaluating /\ Marshals(result)' = Marshals(result)
    BY <1>1 DEF ctlVars, SomeError, SomeHigh, SomeOdd, TooHigh, Finite, Evaluating, Marshals
  <2>2. ExitTellsOutcome'
    <3>1. ExitTellsOutcome
      BY DEF CtlInv
    <3>2. QED
      BY <2>1, <3>1 DEF ExitTellsOutcome, Ran, TooHigh, Finite
  <2>3. QED
    BY <2>1, <2>2 DEF CtlInv
<1>2. CASE Ctl
  <2>1. UNCHANGED promVars
    BY <1>2 DEF Ctl
  <2>2. QED
    BY <1>2, <2>1, InformStep, StartGateStep, ConcludeStep, PrereqStep DEF Ctl
<1>3. CASE Ask
  <2>1. CASE \E v \in Values(Metric) : Query(v) /\ Answered(v)
    BY <2>1, ValueIs, QueryStep
  <2>2. CASE \E v \in {NoAnswer, Unreachable} : QueryFails /\ Answered(v)
    BY <2>2, FailsStep
  <2>3. QED
    BY <1>3, <2>1, <2>2 DEF Ask
<1>4. CASE Forget
  BY <1>4, ForgetStep
<1>5. QED
  BY <1>1, <1>2, <1>3, <1>4 DEF Next, Serve, Scrape, promVars, vars

LEMMA CtlStart == Init => PromInv /\ CtlInv
<1> SUFFICES ASSUME Init PROVE PromInv /\ CtlInv
  OBVIOUS
<1>1. /\ line = NoLine /\ asked = 0 /\ result = Passing /\ status = -1 /\ answers = << >>
      /\ oldest = << >> /\ scrapes = 0
  BY DEF Init, CtlInit
<1>2. Passing \in Results
  BY DEF Passing, Results
<1>3. line.command = ""
  BY <1>1, NoCommand
<1>4. ExitTellsOutcome /\ ~Evaluating
  BY <1>3 DEF ExitTellsOutcome, Ran, Evaluating
<1>5. asked = Len(answers) /\ asked <= 3 /\ answers \in Seq(Replies)
  BY <1>1
<1>6. PromInv
  BY <1>1 DEF PromInv
<1>7. QED
  BY <1>1, <1>2, <1>3, <1>4, <1>5, <1>6 DEF CtlInv

(* Whatever float64 Prometheus answers or a user sets, also NaN and the    *)
(* infinities, and however the process was called: a gate ends with 0      *)
(* exactly when every query was answered with no metric over its threshold *)
(* or an error met fail-open, unless JSON was asked for and a violation    *)
(* found before the error has an infinity in it; otherwise with 1.  A host *)
(* passes exactly when its blockers do, with --strict all its checks       *)
(* (runCDGateCheck, EvaluateSLOGate, prereq.Evaluate).                     *)
THEOREM ExitTells == Spec => []ExitTellsOutcome
<1>1. Init => RagInv /\ HistInv /\ PromInv /\ CtlInv
  BY RagStart, HistStart, CtlStart DEF Init
<1>2. CtlInv => ExitTellsOutcome
  BY DEF CtlInv
<1>3. QED
  BY <1>1, <1>2, ServingStep, HistStep, PromStep, CtlStep, PTL DEF Spec

(* ------------------------------- the blame ------------------------------ *)

LEMMA Multiples ==
  ASSUME NEW T \in Nat \ {0}, NEW g \in Int, g % T = 0
  PROVE  g = T * (g \div T) /\ g \div T \in Int
OBVIOUS

LEMMA Scaled ==
  ASSUME NEW T \in Nat \ {0}, NEW a \in Int, NEW b \in Int
  PROVE  /\ T * a \in Int
         /\ T * (a + 1) = T * a + T
         /\ a >= b => T * a >= T * b
         /\ T \div 2 \in Nat /\ T \div 2 < T
<1>1. T * a \in Int /\ T * (a + 1) = T * a + T
  OBVIOUS
<1>2. a >= b => T * a >= T * b
  OBVIOUS
<1>3. T \div 2 \in Nat /\ T \div 2 < T
  OBVIOUS
<1>4. QED
  BY <1>1, <1>2, <1>3

(* A quantile over a threshold that is a bound lies in a bucket beyond it. *)
LEMMA OverTheBound ==
  ASSUME NEW g \in Int, g % TickMS = 0, NEW b \in Nat, NEW v \in Nat, v > g,
         v \in {TickMS * b, TickMS * b + TickMS \div 2, TickMS * (b + 1)}
  PROVE  TickMS * b >= g
<1> DEFINE k == g \div TickMS
<1>1. TickMS \in Nat \ {0}
  BY ServingAssumption DEF ServingAssumption
<1>2. g = TickMS * k /\ k \in Int
  BY <1>1, Multiples
<1> HIDE DEF k
<1>3. v <= TickMS * b + TickMS
  <2>1. TickMS * b \in Int /\ TickMS * (b + 1) = TickMS * b + TickMS
        /\ TickMS \div 2 \in Nat /\ TickMS \div 2 < TickMS
    BY <1>1, Scaled
  <2>2. QED
    BY <1>1, <2>1
<1>4. b >= k
  <2>1. SUFFICES ASSUME b < k PROVE FALSE
    BY <1>2
  <2>2. k >= b + 1 /\ b + 1 \in Int /\ b \in Int
    BY <1>2, <2>1
  <2>3. TickMS * k >= TickMS * (b + 1) /\ TickMS * (b + 1) = TickMS * b + TickMS
        /\ TickMS * k \in Int /\ TickMS * b \in Int
    BY <1>1, <1>2, <2>2, Scaled
  <2>4. QED
    BY <1>1, <1>2, <1>3, <2>3
<1>5. QED
  BY <1>1, <1>2, <1>4, Scaled

LEMMA QueryBlames ==
  ASSUME HistInv, PromInv, CtlInv, NEW v \in Values(Metric), Query(v),
         Metric = "ttft_p95_ms", Exceeds(v, gate[Metric]),
         gate["ttft_p95_ms"] \in Int, gate["ttft_p95_ms"] % TickMS = 0
  PROVE  TickMS * slowest >= gate["ttft_p95_ms"]
<1> DEFINE g == gate["ttft_p95_ms"]
<1>1. scrapes > 0 /\ v \in Quantile95
  BY ValueIs
<1>2. g \in Int /\ v # NaN /\ (v \in Nat => v > g)
  BY Specials DEF Exceeds
<1>3. PICK b \in Buckets :
        /\ v \in Nat /\ slowest >= b
        /\ \/ b = Infinite /\ v = TickMS * Infinite
           \/ v \in {TickMS * b + TickMS \div 2, TickMS * (b + 1)}
  BY <1>1, <1>2, QuantileIs DEF HistInv
<1>4. v \in {TickMS * b, TickMS * b + TickMS \div 2, TickMS * (b + 1)} /\ b \in Nat
  BY <1>3, SomeBuckets
<1>5. TickMS * b >= g
  BY <1>2, <1>3, <1>4, OverTheBound
<1>6. slowest \in Int /\ TickMS \in Nat \ {0}
  BY ServingAssumption DEF HistInv, HistTyped, ServingAssumption
<1>7. TickMS * slowest >= TickMS * b /\ TickMS * slowest \in Int /\ TickMS * b \in Int
  BY <1>3, <1>4, <1>6, Scaled
<1> HIDE DEF g
<1>8. TickMS * slowest >= g
  BY <1>2, <1>5, <1>7
<1>9. QED
  BY <1>8 DEF g

(* A TTFT that is over stays over. *)
LEMMA StaysSlow ==
  ASSUME RagInv, HistInv, [Next]_vars, NEW g \in Int, TickMS * slowest >= g
  PROVE  TickMS * slowest' >= g
<1>1. slowest \in Int /\ slowest' \in Int /\ slowest' >= slowest /\ TickMS \in Nat \ {0}
  BY HistStep, Grows, ServingAssumption DEF HistInv, HistTyped, ServingAssumption
<1>2. TickMS * slowest' >= TickMS * slowest /\ TickMS * slowest \in Int /\ TickMS * slowest' \in Int
  BY <1>1, Scaled
<1>3. QED
  BY <1>2

LEMMA BlameStep ==
  RagInv /\ HistInv /\ PromInv /\ CtlInv /\ BlockedBySlowRequest /\ [Next]_vars
    => BlockedBySlowRequest'
<1> SUFFICES ASSUME RagInv, HistInv, PromInv, CtlInv, BlockedBySlowRequest, [Next]_vars,
                    NEW w \in result'.violations, w.metric = "ttft_p95_ms",
                    w.threshold \in Int, w.threshold % TickMS = 0
             PROVE  TickMS * slowest' >= w.threshold
  BY DEF BlockedBySlowRequest
<1>1. CASE w \in result.violations
  <2>1. TickMS * slowest >= w.threshold
    BY <1>1 DEF BlockedBySlowRequest
  <2>2. QED
    BY <2>1, StaysSlow
<1> DEFINE Found(v) ==
             [metric |-> Metric, threshold |-> gate[Metric], actual |-> v]
<1>2. CASE \E v \in Values(Metric) : Query(v) /\ Exceeds(v, gate[Metric]) /\ w = Found(v)
  <2>1. PICK v \in Values(Metric) : Query(v) /\ Exceeds(v, gate[Metric]) /\ w = Found(v)
    BY <1>2
  <2>2. Metric = "ttft_p95_ms" /\ w.threshold = gate["ttft_p95_ms"]
    BY <2>1
  <2>3. TickMS * slowest >= w.threshold
    BY <2>1, <2>2, QueryBlames
  <2>4. QED
    BY <2>3, StaysSlow
<1>3. \/ w \in result.violations
      \/ \E v \in Values(Metric) : Query(v) /\ Exceeds(v, gate[Metric]) /\ w = Found(v)
  <2>1. CASE Serve \/ Scrape \/ UNCHANGED vars
    BY <2>1 DEF Serve, Scrape, vars, ctlVars
  <2>2. CASE Forget
    BY <2>2 DEF Forget, Reap, Passing
  <2>3. CASE Usage \/ Inform \/ RunCDGateCheck \/ RunPrereqCheck
    BY <2>3 DEF Usage, Inform, RunCDGateCheck, RunPrereqCheck
  <2>4. CASE Conclude
    BY <2>4 DEF Conclude, CtlInv, Results
  <2>5. CASE QueryFails
    BY <2>5 DEF QueryFails, CtlInv, Results
  <2>6. CASE \E v \in Values(Metric) : Query(v) /\ Answered(v)
    <3>1. PICK v \in Values(Metric) : Query(v)
      BY <2>6
    <3>2. CASE Exceeds(v, gate[Metric])
      <4>1. result'.violations = result.violations \cup {Found(v)}
        BY <3>1, <3>2 DEF Query, CtlInv, Results
      <4>2. QED
        BY <3>1, <3>2, <4>1
    <3>3. CASE ~Exceeds(v, gate[Metric])
      BY <3>1, <3>3 DEF Query
    <3>4. QED
      BY <3>2, <3>3
  <2>7. QED
    BY <2>1, <2>2, <2>3, <2>4, <2>5, <2>6 DEF Next, Ctl, Ask
<1>4. QED
  BY <1>1, <1>2, <1>3

(* For any buckets, clients and scrapes: a gate whose threshold is the     *)
(* bound of a bucket blames the TTFT only if some request's TTFT was at    *)
(* least that (HTTPQuerier.Query, EvaluateSLOGate, recordSnapshot).        *)
THEOREM BlamesSlowRequest == Spec => []BlockedBySlowRequest
<1>1. Init => RagInv /\ HistInv /\ PromInv /\ CtlInv /\ BlockedBySlowRequest
  <2>1. Init => result.violations = {}
    BY DEF Init, CtlInit, Passing
  <2>2. QED
    BY <2>1, RagStart, HistStart, CtlStart DEF Init, BlockedBySlowRequest
<1>2. QED
  BY <1>1, ServingStep, HistStep, PromStep, CtlStep, BlameStep, PTL DEF Spec
=============================================================================
