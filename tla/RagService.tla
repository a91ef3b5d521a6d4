----------------------------- MODULE RagService -----------------------------
(***************************************************************************)
(* demo/rag-service: one goroutine per chat request, over the histograms   *)
(* and counters all of them share.  Times are wall-clock ticks: every time *)
(* the handler takes has its monotonic part stripped by UTC(), so that a   *)
(* clock set back shows in its differences.  A tick is the width of a TTFT *)
(* bucket: bucket b holds the differences of b ticks and a part of one.  A *)
(* wait may last any number of ticks, none included.                       *)
(***************************************************************************)
EXTENDS Integers, Sequences, FiniteSets

CONSTANTS
  Clients,       (* each sends one request                                   *)
  Bodies,        (* client -> [post, json, prompt, stream, max] it may send  *)
  BackendFlags,  (* the values --llm-backend may have                        *)
  LastBound,     (* the last TTFT bucket with a bound                        *)
  DefaultMax,    (* 64 tokens when a request gives no positive number        *)
  StubMax,       (* 256 tokens at most from the stub backend                 *)
  Window,        (* the correlation window, in ticks                         *)
  MaxClock,      (* bound: the clock                                         *)
  MaxSlips,      (* bound: times the clock is set back                       *)
  MaxGone        (* bound: requests at one time whose client has closed      *)

Request == [post: BOOLEAN, json: BOOLEAN, prompt: BOOLEAN, stream: BOOLEAN, max: Int]

RagAssumption ==
  /\ IsFiniteSet(Clients) /\ Window \in Nat
  /\ \A c \in Clients : Bodies[c] \subseteq Request
  /\ LastBound \in Nat /\ {DefaultMax, StubMax} \subseteq Nat \ {0}
ASSUME RagAssumption

VARIABLES
  backend,       (* "stub" or "llama_cpp"                                    *)
  clock, slips,  (* the wall clock, and how often it was set back            *)
  chat,          (* client -> its handler: where it is (at), the request     *)
                 (* (body), whether the client has closed (gone), the status *)
                 (* line (code, 0 before) and what was written after it      *)
                 (* (sent), the tokens generated (size), the times taken     *)
                 (* (time) and the label it is to be counted under (outcome) *)
  ttftHist,      (* bucket -> observations; Infinite is the last bucket      *)
  slowest,       (* history: the greatest TTFT recorded, -1 before           *)
  requestTotal,  (* status -> requests                                       *)
  correlationTotal

metrics == <<ttftHist, slowest, requestTotal, correlationTotal>>
ragVars == <<backend, clock, slips, chat, metrics>>

Infinite == LastBound + 1
Buckets == 0..Infinite
Statuses == {"ok", "error", "bad_request"}
NoBody == [post |-> FALSE, json |-> FALSE, prompt |-> FALSE, stream |-> FALSE, max |-> 0]
NoTime == [start |-> 0, first |-> 0, last |-> 0]
Idle == [at |-> "idle", body |-> NoBody, gone |-> FALSE, code |-> 0, sent |-> << >>,
         size |-> 0, time |-> NoTime, outcome |-> "none"]

ParseLLMBackend(raw) ==
  IF raw \in {"", "stub"} THEN "stub"
  ELSE IF raw = "llama_cpp" THEN "llama_cpp" ELSE "unsupported"

(* A backend that is not supported ends the process before it listens. *)
RagInit ==
  /\ backend \in { ParseLLMBackend(raw) : raw \in BackendFlags } \ {"unsupported"}
  /\ clock = 1 /\ slips = 0
  /\ chat = [c \in Clients |-> Idle]
  /\ ttftHist = [b \in Buckets |-> 0] /\ slowest = -1
  /\ requestTotal = [s \in Statuses |-> 0]
  /\ correlationTotal = 0

(* ------------------------------ environment ----------------------------- *)

(* The clock moves at any time, and a few times it is set back. *)
Tick ==
  /\ clock < MaxClock /\ clock' = clock + 1
  /\ UNCHANGED <<backend, slips, chat, metrics>>

SetBack ==
  /\ slips < MaxSlips /\ slips' = slips + 1
  /\ clock' \in 1..(clock - 1)
  /\ UNCHANGED <<backend, chat, metrics>>

(* After its last write a handler does not notice. *)
Disconnect(c) ==
  /\ chat[c].at \notin {"idle", "counting", "uncounted", "ended"}
  /\ Cardinality({ d \in Clients : chat[d].gone }) < MaxGone
  /\ chat' = [chat EXCEPT ![c].gone = TRUE]
  /\ UNCHANGED <<backend, clock, slips, metrics>>

(* ------------------------------ the handler ----------------------------- *)
(* A step of c's handler leaves the environment alone.                     *)

Step(c, place) == chat[c].at = place /\ UNCHANGED <<backend, clock, slips>>

(* http.Error: the status goes out unless one has; its text joins the body *)
(* of a client that is still there.  The handler only has to count then.   *)
Refused(h, status, label) ==
  [h EXCEPT !.at = "counting", !.outcome = label, !.time = NoTime,
            !.code = IF @ = 0 THEN status ELSE @,
            !.sent = IF h.gone THEN @ ELSE Append(@, "failed")]
Refuse(c, status, label) == chat' = [chat EXCEPT ![c] = Refused(@, status, label)]

(* handleChat up to the retrieval. *)
Receive(c, b) ==
  /\ Step(c, "idle") /\ UNCHANGED metrics
  /\ \/ /\ ~b.post
        /\ chat' = [chat EXCEPT ![c].at = "uncounted", ![c].body = b, ![c].code = 405]
     \/ /\ b.post /\ ~(b.json /\ b.prompt)
        /\ chat' = [chat EXCEPT ![c] = Refused([@ EXCEPT !.body = b], 400, "bad_request")]
     \/ /\ b.post /\ b.json /\ b.prompt
        /\ chat' = [chat EXCEPT ![c].at = "retrieving", ![c].body = b, ![c].time.start = clock]

(* The signal carries the trace of the span: only the window can part them. *)
Correlates(c) == chat[c].time.start - clock \in -Window..Window

SimulateRetrieval(c) ==
  /\ Step(c, "retrieving")
  /\ correlationTotal' = correlationTotal + (IF Correlates(c) THEN 1 ELSE 0)
  /\ chat' = [chat EXCEPT ![c].at = "generating"]
  /\ UNCHANGED <<ttftHist, slowest, requestTotal>>

(* The sleeps of the retrieval look at the request's context. *)
RetrievalCancelled(c) ==
  /\ Step(c, "retrieving") /\ chat[c].gone
  /\ Refuse(c, 500, "error") /\ UNCHANGED metrics

MaxTokens(b) == IF b.max <= 0 THEN DefaultMax ELSE b.max
Lengths(b) ==
  IF backend = "stub" THEN {IF MaxTokens(b) < StubMax THEN MaxTokens(b) ELSE StubMax}
                      ELSE 1..MaxTokens(b)

Generate(c) ==
  /\ Step(c, "generating") /\ UNCHANGED metrics
  /\ \E n \in Lengths(chat[c].body) :
       chat' = [chat EXCEPT ![c].size = n, ![c].at = IF chat[c].body.stream THEN "meta" ELSE "answer"]

(* llama.cpp may be away, slow, refuse or answer nothing of use. *)
GenerateFails(c) ==
  /\ Step(c, "generating") /\ backend = "llama_cpp"
  /\ Refuse(c, 502, "error") /\ UNCHANGED metrics

(* One Encode: it may fail, or be lost in a buffer, when the client is gone. *)
Written(h, event, next) ==
  {[h EXCEPT !.code = IF @ = 0 THEN 200 ELSE @, !.sent = Append(@, event), !.at = next,
             !.outcome = IF next = "counting" THEN "ok" ELSE @]}
    \cup (IF h.gone THEN {Refused(h, 200, "error")} ELSE {})
Write(c, h, event, next) ==
  /\ \E w \in Written(h, event, next) : chat' = [chat EXCEPT ![c] = w]
  /\ UNCHANGED metrics

WriteMeta(c) == Step(c, "meta") /\ Write(c, chat[c], "meta", "token")

(* The event after the meta event is the first token. *)
MoreTokens_ToTheLast(h) == Len(h.sent) <= h.size
MoreTokens(h) == Len(h.sent) < h.size
WriteToken(c) ==
  /\ Step(c, "token")
  /\ LET h == chat[c]
         timed == [h EXCEPT !.time.first = IF Len(h.sent) = 1 THEN clock ELSE @,
                            !.time.last = clock]
     IN  Write(c, timed, "token", IF MoreTokens(h) THEN "token" ELSE "calculate")

(* slo.Calculate refuses times out of order; the TTFT is in ticks. *)
InOrder(t) == t.start <= t.first /\ t.first <= t.last
TTFT(t) == t.first - t.start
BucketOf(ttft) == IF ttft > LastBound THEN Infinite ELSE ttft

RecordSnapshot_PositiveOnly(ttft) ==
  /\ ttftHist' = [ttftHist EXCEPT ![BucketOf(ttft)] = IF ttft > 0 THEN @ + 1 ELSE @]
  /\ slowest' = IF ttft > slowest THEN ttft ELSE slowest
RecordSnapshot(ttft) ==
  /\ ttftHist' = [ttftHist EXCEPT ![BucketOf(ttft)] = @ + 1]
  /\ slowest' = IF ttft > slowest THEN ttft ELSE slowest

Calculate(c, t, next) ==
  /\ \/ /\ InOrder(t) /\ RecordSnapshot(TTFT(t))
        /\ chat' = [chat EXCEPT ![c].at = next, ![c].time = NoTime]
     \/ /\ ~InOrder(t) /\ Refuse(c, 500, "error")
        /\ UNCHANGED <<ttftHist, slowest>>
  /\ UNCHANGED <<requestTotal, correlationTotal>>

CalculateStream(c) == Step(c, "calculate") /\ Calculate(c, chat[c].time, "done")
WriteDone(c) == Step(c, "done") /\ Write(c, chat[c], "done", "counting")

(* nonStreamResponse computes the times of tokens it does not wait for:    *)
(* the warm-up and the cadence may each reach the next tick.               *)
NonStreamResponse(c) ==
  /\ Step(c, "answer")
  /\ \E warmup \in 0..1, window \in 0..1 :
       /\ window = 0 \/ chat[c].size > 1
       /\ Calculate(c, [chat[c].time EXCEPT !.first = clock + warmup,
                                            !.last = clock + warmup + window], "body")

WriteBody(c) == Step(c, "body") /\ Write(c, chat[c], "body", "counting")

(* The request is counted after the client may have its answer; what the   *)
(* handler knew of it is gone when it returns.                             *)
Return(c) == chat' = [chat EXCEPT ![c] = [Idle EXCEPT !.at = "ended"]]

Count(c) ==
  /\ Step(c, "counting") /\ Return(c)
  /\ requestTotal' = [requestTotal EXCEPT ![chat[c].outcome] = @ + 1]
  /\ UNCHANGED <<ttftHist, slowest, correlationTotal>>

ReturnUncounted(c) == Step(c, "uncounted") /\ Return(c) /\ UNCHANGED metrics

RagNext ==
  \/ Tick \/ SetBack
  \/ \E c \in Clients :
       \/ Disconnect(c) \/ \E b \in Bodies[c] : Receive(c, b)
       \/ SimulateRetrieval(c) \/ RetrievalCancelled(c) \/ Generate(c) \/ GenerateFails(c)
       \/ WriteMeta(c) \/ WriteToken(c) \/ CalculateStream(c) \/ WriteDone(c)
       \/ NonStreamResponse(c) \/ WriteBody(c) \/ Count(c) \/ ReturnUncounted(c)
=============================================================================
