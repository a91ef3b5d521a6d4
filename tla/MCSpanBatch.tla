----------------------------- MODULE MCSpanBatch -----------------------------
(***************************************************************************)
(* Two spans, one without a time; windows of 1, 2, 4 and 6 around a span   *)
(* at 7, so that every edge is reached from both sides; deliveries of up   *)
(* to two signals of few identities each, more than the least fanout.      *)
(***************************************************************************)
EXTENDS SpanBatch

MCTimes == 0..14
Identity(trace, pod, pid, conn, service) ==
  [trace |-> trace, pod |-> pod, pid |-> pid, conn |-> conn, service |-> service, node |-> "n"]
At(id, t, attributes) ==
  [trace |-> id.trace, pod |-> id.pod, pid |-> id.pid, conn |-> id.conn,
   service |-> id.service, node |-> id.node, at |-> t, attributes |-> attributes]
Full == Identity("t", "p", 7, "c", "s")
NoAttributes == << >>

MCBatches ==
  { <<At(Full, 7, NoAttributes), At([Full EXCEPT !.trace = ""], 7, [dns_latency_ms |-> 2])>>,
    <<At(Full, 0, [dns_latency_ms |-> 2]), At([Full EXCEPT !.trace = ""], 8, [connect_latency_ms |-> 1])>> }

Ids == {Full, [Full EXCEPT !.trace = "u"], [Full EXCEPT !.trace = "", !.pid = 8],
        [Full EXCEPT !.trace = "", !.pid = 0, !.conn = "d"], [Full EXCEPT !.service = "", !.trace = "", !.pod = "q"]}
SignalsAt(times) ==
  { [trace |-> id.trace, pod |-> id.pod, pid |-> id.pid, conn |-> id.conn, service |-> id.service,
     node |-> id.node, at |-> t, signal |-> nv[1], value |-> nv[2]] :
      id \in Ids, t \in times,
      nv \in {<<"dns_latency_ms", 1>>, <<"dns_latency_ms", 3>>, <<"connect_latency_ms", 2>>, <<"other", 4>>} }
Pick(times, values) == { s \in SignalsAt(times) : s.value \in values }
MCDeliveries ==
  { <<s>> : s \in Pick({5, 8}, {3}) } \cup { <<s>> : s \in Pick({0, 11}, {2}) }
    \cup { <<s, t>> : s \in { s \in Pick({9}, {1, 4}) : s.pid = 8 \/ s.trace = "u" },
                     t \in { t \in Pick({6}, {3}) : t.pod = "p" } }
    \cup { <<s, s, t, s>> : s \in { s \in Pick({6}, {1}) : s.pid = 7 },
                           t \in { t \in Pick({8}, {2}) : t.trace = "t" } }

MCCorrelators ==
  {[window |-> 0, threshold |-> 65, fanout |-> 1], [window |-> 3, threshold |-> 0, fanout |-> 0],
   [window |-> 0, threshold |-> 80, fanout |-> 2]}
=============================================================================
