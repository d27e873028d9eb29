------------------------- MODULE Connection_proofs -------------------------
(***************************************************************************)
(* What travels between the component and OVSDB, for every table size,     *)
(* number of requests and threads, and set of faults: one monitor of the   *)
(* Feedback table, and a receipt for every request that can be answered.   *)
(***************************************************************************)
EXTENDS OvsAgentApi_proofs

----------------------------------------------------------------------------
(* Queues *)

\* An element is appended behind the others, which keep their places.
LEMMA Queued ==
    ASSUME NEW S, NEW s \in Seq(S), NEW e \in S
    PROVE  /\ Len(s) \in Nat
           /\ Append(s, e) \in Seq(S)
           /\ Len(Append(s, e)) = Len(s) + 1
           /\ \A i \in 1 .. Len(s) : Append(s, e)[i] = s[i]
           /\ Append(s, e)[Len(s) + 1] = e
BY LenProperties, AppendProperties

\* The head is taken off and every other element moves up by one.
LEMMA Dequeued ==
    ASSUME NEW S, NEW s \in Seq(S), s # <<>>
    PROVE  /\ Len(s) \in Nat \ {0}
           /\ Head(s) = s[1] /\ Head(s) \in S
           /\ Tail(s) \in Seq(S)
           /\ Len(Tail(s)) = Len(s) - 1
           /\ \A i \in 1 .. Len(Tail(s)) : Tail(s)[i] = s[i + 1]
<1>1. Len(s) \in Nat \ {0}
  BY EmptySeq
<1>. QED  BY <1>1, HeadTailProperties

----------------------------------------------------------------------------
(* One monitor.  monitorFeedback is set exactly while the library has its  *)
(* one monitor; the request for it is on its way, or has been executed, at *)
(* most once.                                                              *)

MonitorKept ==
    /\ lpc \in {"monitor", "monitor_request"} => ~monitorFeedback
    /\ monitorFeedback => Len(monitors) = 1
    /\ ~monitorFeedback => monitors = <<>>

AsksMonitor(i) == i \in 1 .. Len(sent) /\ sent[i].op = "monitor"

MonitorAskedOnce ==
    /\ \A i, j \in Nat : AsksMonitor(i) /\ AsksMonitor(j) => i = j
    /\ \A i \in Nat : AsksMonitor(i) => monitorFeedback /\ dbMonitors = <<>>
    /\ dbMonitors # <<>> => monitorFeedback
    /\ Len(dbMonitors) <= 1

\* A request of another kind, appended to the others, asks for no monitor.
LEMMA OtherRequest ==
    ASSUME TypeOK, MonitorAskedOnce, NEW q \in DbRequest, q.op # "monitor",
           sent' = Append(sent, q),
           UNCHANGED <<monitorFeedback, dbMonitors>>
    PROVE  MonitorAskedOnce'
<1>1. \A i \in Nat : AsksMonitor(i)' => AsksMonitor(i)
  BY Queued DEF AsksMonitor, TypeOK
<1>. QED  BY <1>1 DEF MonitorAskedOnce

\* A step of a client thread sends at most an insert.
LEMMA MonitorClient ==
    ASSUME TypeOK, MonitorKept, MonitorAskedOnce, NEW r \in Request, client(r)
    PROVE  MonitorKept' /\ MonitorAskedOnce'
<1>1. UNCHANGED <<lpc, monitorFeedback, monitors, dbMonitors>>
  BY DEF client, proceed, interact, id_generate, set_blocked,
         insert_transaction, evict_transaction, remove_load, remove_clear,
         evict_clear, delete_clear, store_transaction, write_register,
         write_link, write_sent, write_failed, wait_lock, wait_woken,
         wait_spurious, wait_return, wait_timeout, cleanup, listenVars, apiVars,
         dbVars
<1>2. MonitorKept'
  BY <1>1 DEF MonitorKept
<1>3. CASE write_sent(r)
  <2> DEFINE q == [op |-> "insert", rid |-> rid[r], arg |-> r]
  <2>1. q \in DbRequest /\ q.op # "monitor" /\ sent' = Append(sent, q)
    BY <1>3, RequestTypes DEF TypeOK, write_sent
  <2>. QED  BY <1>1, <1>2, <2>1, OtherRequest
<1>4. CASE ~write_sent(r)
  <2>1. sent' = sent
    BY <1>4 DEF client, proceed, interact, id_generate, set_blocked,
         insert_transaction, evict_transaction, remove_load, remove_clear,
         evict_clear, delete_clear, store_transaction, write_register,
         write_link, write_failed, wait_lock, wait_woken, wait_spurious,
         wait_return, wait_timeout, cleanup, wireVars
  <2>. QED  BY <1>1, <1>2, <2>1 DEF MonitorAskedOnce, AsksMonitor
<1>. QED  BY <1>3, <1>4

\* The listen thread asks for a monitor when it has none, and forgets the node
\* of a request it could not send.
LEMMA MonitorListen ==
    ASSUME TypeOK, MonitorKept, MonitorAskedOnce, ovsdb_listen \/ listen_exit
    PROVE  MonitorKept' /\ MonitorAskedOnce'
<1>1. CASE send_monitor_feedback_request
  <2>0. /\ monitors = <<>> /\ ~monitorFeedback /\ dbMonitors = <<>>
        /\ \A i \in Nat : ~AsksMonitor(i)
    BY <1>1 DEF send_monitor_feedback_request, MonitorKept, MonitorAskedOnce
  <2>1. /\ lrid \in Nat /\ uid \in Nat
        /\ dbMonitors' = dbMonitors /\ lpc' = "unlink"
    BY <1>1 DEF send_monitor_feedback_request, GoOn, TypeOK, dbVars
  <2> DEFINE q == [op |-> "monitor", rid |-> lrid, arg |-> uid]
             added == Append(monitors, uid)
  <2>2. /\ q \in DbRequest
        /\ added \in Seq(Nat) /\ Len(added) = 1 /\ added[1] = uid
    <3>1. q \in DbRequest
      BY <2>1, RequestTypes
    <3>2. monitors \in Seq(Nat) /\ Len(monitors) = 0
      BY <2>0, EmptySeq
    <3>. QED  BY <2>1, <3>1, <3>2, Queued
  <2>3. CASE monitors' = added /\ monitorFeedback' = TRUE /\ sent' = Append(sent, q)
    <3>1. MonitorKept'
      BY <2>1, <2>2, <2>3 DEF MonitorKept
    <3>2. \A i \in Nat : AsksMonitor(i)' => i = Len(sent) + 1
      <4>1. /\ Len(sent) \in Nat /\ Len(sent') = Len(sent) + 1
            /\ \A i \in 1 .. Len(sent) : sent'[i] = sent[i]
        BY <2>2, <2>3, Queued DEF TypeOK
      <4>2. SUFFICES ASSUME NEW i \in Nat, i \in 1 .. Len(sent'),
                            i # Len(sent) + 1, sent'[i].op = "monitor"
                     PROVE  FALSE
        BY DEF AsksMonitor
      <4>3. AsksMonitor(i)
        BY <4>1, <4>2 DEF AsksMonitor
      <4>. QED  BY <2>0, <4>3
    <3>3. MonitorAskedOnce'
      BY <2>0, <2>1, <2>3, <3>2 DEF MonitorAskedOnce
    <3>. QED  BY <3>1, <3>3
  <2>4. CASE /\ monitors' = mon_list_remove(added, uid)
             /\ monitorFeedback' = FALSE /\ UNCHANGED sent
    <3>1. added # <<>> /\ Head(added) = uid
      <4>. HIDE DEF added
      <4>1. added # <<>>
        <5>1. <<>> \in Seq(Nat) /\ Len(<<>>) = 0
          BY EmptySeq
        <5>2. Len(added) # 0
          BY <2>2
        <5>. QED  BY <5>1, <5>2, Zenon
      <4>. QED  BY <2>2, <4>1, Dequeued
    <3>2. Tail(added) \in Seq(Nat) /\ Len(Tail(added)) = 0
      BY <2>2, <3>1, Dequeued
    <3>3. monitors' = <<>>
      BY <2>4, <3>1, <3>2, EmptySeq DEF mon_list_remove
    <3>4. MonitorKept'
      BY <2>1, <2>4, <3>3 DEF MonitorKept
    <3>5. MonitorAskedOnce'
      BY <2>0, <2>1, <2>4 DEF MonitorAskedOnce, AsksMonitor
    <3>. QED  BY <3>4, <3>5
  <2>. QED  BY <1>1, <2>3, <2>4 DEF send_monitor_feedback_request
<1>2. CASE write_callback
  <2>1. /\ UNCHANGED <<monitorFeedback, monitors, sent, dbMonitors>>
        /\ lpc' \in {"monitor", "monitor_request"} => ~monitorFeedback
    BY <1>2 DEF write_callback, GoOn, dbVars, wireVars
  <2>. QED  BY <2>1 DEF MonitorKept, MonitorAskedOnce, AsksMonitor
<1>3. CASE delete_gateway_config \/ delete_feedback
  <2>1. PICK op \in {"deleteGw", "deleteFb"}, next \in {"deleteFb", "signal"} :
            delete_row(op, next)
    BY <1>3 DEF delete_gateway_config, delete_feedback
  <2>2. /\ UNCHANGED <<monitorFeedback, monitors, dbMonitors>>
        /\ lpc' \in {"deleteFb", "signal", "listen"}
    BY <2>1 DEF delete_row, GoOn, BackToListen, dbVars, apiVars
  <2>3. MonitorKept'
    BY <2>2 DEF MonitorKept
  <2> DEFINE q == [op |-> op, rid |-> lrid, arg |-> msg.uuid]
  <2>4. lrid \in Nat /\ msg.uuid \in Nat
    BY DEF TypeOK, DbMessage
  <2>5. q \in DbRequest /\ q.op # "monitor"
    BY <2>1, <2>4, RequestTypes
  <2>6. sent' = Append(sent, q) \/ sent' = sent
    BY <2>1 DEF delete_row
  <2>7. CASE sent' = sent
    BY <2>2, <2>3, <2>7 DEF MonitorAskedOnce, AsksMonitor
  <2>8. CASE sent' = Append(sent, q)
    BY <2>2, <2>3, <2>5, <2>8, OtherRequest
  <2>. QED  BY <2>6, <2>7, <2>8
<1>4. CASE listen_exit
  <2>1. /\ UNCHANGED <<monitorFeedback, monitors>> /\ lpc' = "exited"
        /\ sent' = <<>> /\ dbMonitors' = <<>>
    BY <1>4 DEF listen_exit, GoOn, apiVars
  <2>2. Len(sent') = 0 /\ Len(dbMonitors') = 0
    BY <2>1, EmptySeq
  <2>3. \A i \in Nat : ~AsksMonitor(i)'
    BY <2>2 DEF AsksMonitor
  <2>. QED  BY <2>1, <2>2, <2>3 DEF MonitorKept, MonitorAskedOnce
<1>5. CASE \/ listen \/ call_number \/ call_id_generate \/ call_register
           \/ call_link \/ receipt_unlink \/ receipt_unlink_store
           \/ complete_find \/ complete_remove \/ complete_load
           \/ complete_clear \/ complete_callback \/ signal_test \/ signal_wake
  <2>1. \A node : listen_dispatch(Head(inbox), node)
                      \in {"update", "unlink", "find", "listen"}
    BY DEF listen_dispatch
  <2>2. /\ UNCHANGED <<monitorFeedback, monitors, sent, dbMonitors>>
        /\ lpc' \in {"monitor", "monitor_request"}
             => lpc \in {"monitor", "monitor_request"}
    BY <1>5, <2>1
       DEF listen, call_number, call_id_generate, call_register, call_link,
           receipt_unlink, receipt_unlink_store, complete_find,
           complete_remove, complete_load, complete_clear, complete_callback,
           signal_test, signal_wake, BackToListen, GoOn, apiVars, dbVars, wireVars
  <2>. QED  BY <2>2 DEF MonitorKept, MonitorAskedOnce, AsksMonitor
<1>. QED  BY <1>1, <1>2, <1>3, <1>4, <1>5 DEF ovsdb_listen

\* The server turns the request on its way into the monitor.
LEMMA MonitorExecuted ==
    ASSUME TypeOK, MonitorKept, MonitorAskedOnce, db_execute
    PROVE  MonitorKept' /\ MonitorAskedOnce'
<1> DEFINE q == Head(sent)
<1>0. sent # <<>> /\ sent \in Seq(DbRequest) /\ dbMonitors \in Seq(Nat)
  BY DEF db_execute, TypeOK
<1>1. UNCHANGED <<lpc, monitorFeedback, monitors>> /\ sent' = Tail(sent)
  BY DEF db_execute, listenVars, apiVars
<1>2. \A i \in Nat : AsksMonitor(i)' => i + 1 \in Nat /\ AsksMonitor(i + 1)
  BY <1>0, <1>1, Dequeued DEF AsksMonitor
<1>3. q \in DbRequest /\ (q.op = "monitor" => AsksMonitor(1))
  BY <1>0, Dequeued DEF AsksMonitor
<1>4. CASE q.op = "monitor"
  <2>1. monitorFeedback /\ dbMonitors = <<>> /\ dbMonitors' = Append(dbMonitors, q.arg)
    BY <1>3, <1>4 DEF MonitorAskedOnce, db_execute
  <2>2. Len(dbMonitors') = 1
    BY <1>0, <1>3, <2>1, RequestFields, Queued, EmptySeq
  <2>3. \A i \in Nat : ~AsksMonitor(i)'
    <3>1. SUFFICES ASSUME NEW i \in Nat, AsksMonitor(i)' PROVE FALSE
      OBVIOUS
    <3>2. i # 0
      BY <3>1 DEF AsksMonitor
    <3>3. AsksMonitor(1) /\ AsksMonitor(i + 1) /\ 1 \in Nat /\ i + 1 \in Nat
      BY <1>2, <1>3, <1>4, <3>1
    <3>4. 1 = i + 1
      BY <3>3 DEF MonitorAskedOnce
    <3>. QED  BY <3>2, <3>4
  <2>. QED  BY <1>1, <2>1, <2>2, <2>3 DEF MonitorKept, MonitorAskedOnce
<1>5. CASE q.op # "monitor"
  <2>1. dbMonitors' = dbMonitors
    BY <1>5 DEF db_execute
  <2>. QED  BY <1>1, <1>2, <2>1 DEF MonitorKept, MonitorAskedOnce
<1>. QED  BY <1>4, <1>5

\* The monitor request stays the only one, whoever acts.
LEMMA MonitorNext ==
    ASSUME TypeOK, MonitorKept, MonitorAskedOnce, [Next]_vars
    PROVE  MonitorKept' /\ MonitorAskedOnce'
<1>1. CASE other_insert \/ agent \/ idle \/ UNCHANGED vars
  <2>1. UNCHANGED <<lpc, monitorFeedback, monitors, sent, dbMonitors>>
    BY <1>1 DEF other_insert, agent, agent_feedback, idle, vars, listenVars,
                apiVars, dbVars, wireVars
  <2>. QED  BY <2>1 DEF MonitorKept, MonitorAskedOnce, AsksMonitor
<1>. QED  BY <1>1, MonitorClient, MonitorListen, MonitorExecuted DEF Next

\* The library keeps one monitor of the Feedback table, in its own list and at
\* the server: no interleaving of receipts, failed writes and retries of
\* ovs_agent_api_write_callback makes it ask for a second one, so no Feedback
\* is delivered twice.
THEOREM MonitorCorrect == Spec => []OneFeedbackMonitor
<1>1. Init => MonitorKept /\ MonitorAskedOnce
  BY EmptySeq DEF Init, MonitorKept, MonitorAskedOnce, AsksMonitor
<1>2. TypeOK /\ (MonitorKept /\ MonitorAskedOnce) /\ [Next]_vars
        => (MonitorKept /\ MonitorAskedOnce)'
  BY MonitorNext
<1>3. MonitorKept /\ MonitorAskedOnce => OneFeedbackMonitor
  BY EmptySeq DEF MonitorKept, MonitorAskedOnce, OneFeedbackMonitor
<1>. QED  BY <1>1, <1>2, <1>3, TypeCorrect, PTL DEF Spec

----------------------------------------------------------------------------
(* Ids on the wire.  A reply is matched with its receipt by its request id *)
(* alone, and a receipt of that id is unlinked.  What makes this safe is   *)
(* that an id is used once: it is either still to be sent, or in one       *)
(* request, or in one reply, or being answered.                            *)

SentIds  == {sent[i].rid : i \in 1 .. Len(sent)}
ReplyIds == {inbox[i].rid : i \in {j \in 1 .. Len(inbox) : inbox[j].kind = "reply"}}
WireIds  == SentIds \cup ReplyIds

UsedOnce ==
    /\ \A i, j \in 1 .. Len(sent) : sent[i].rid = sent[j].rid => i = j
    /\ \A i, j \in 1 .. Len(inbox) :
         (inbox[i].kind = "reply" /\ inbox[j].kind = "reply"
            /\ inbox[i].rid = inbox[j].rid) => i = j
    /\ SentIds \cap ReplyIds = {}

\* A request with a new id is sent.
LEMMA WireSend ==
    ASSUME TypeOK, UsedOnce, NEW q \in DbRequest, q.rid \notin WireIds,
           sent' = Append(sent, q), inbox' = inbox
    PROVE  UsedOnce' /\ WireIds' = WireIds \cup {q.rid}
<1>1. /\ Len(sent) \in Nat /\ Len(sent') = Len(sent) + 1
      /\ \A i \in 1 .. Len(sent) : sent'[i] = sent[i]
      /\ sent'[Len(sent) + 1] = q
  BY Queued DEF TypeOK
<1>2. SentIds' = SentIds \cup {q.rid} /\ ReplyIds' = ReplyIds
  <2>1. ReplyIds' = ReplyIds
    BY DEF ReplyIds
  <2>2. SentIds' \subseteq SentIds \cup {q.rid}
    BY <1>1 DEF SentIds
  <2>3. SentIds \cup {q.rid} \subseteq SentIds'
    BY <1>1 DEF SentIds
  <2>. QED  BY <2>1, <2>2, <2>3
<1>3. \A i \in 1 .. Len(sent) : sent[i].rid # q.rid
  BY DEF WireIds, SentIds
<1>4. \A i, j \in 1 .. Len(sent') : sent'[i].rid = sent'[j].rid => i = j
  BY <1>1, <1>3 DEF UsedOnce
<1>5. UsedOnce'
  BY <1>2, <1>4 DEF UsedOnce, WireIds
<1>. QED  BY <1>2, <1>5 DEF WireIds

\* The server answers the first request with a reply of the same id.
LEMMA WireExecute ==
    ASSUME TypeOK, UsedOnce, sent # <<>>, NEW m \in DbMessage,
           m.kind = "reply", m.rid = Head(sent).rid,
           sent' = Tail(sent), inbox' = Append(inbox, m)
    PROVE  UsedOnce' /\ WireIds' = WireIds
<1> DEFINE n == Head(sent).rid
<1>1. /\ Len(sent) \in Nat \ {0} /\ Len(sent') = Len(sent) - 1
      /\ \A i \in 1 .. Len(sent') : sent'[i] = sent[i + 1]
      /\ n = sent[1].rid
  BY Dequeued DEF TypeOK
<1>2. /\ Len(inbox) \in Nat /\ Len(inbox') = Len(inbox) + 1
      /\ \A i \in 1 .. Len(inbox) : inbox'[i] = inbox[i]
      /\ inbox'[Len(inbox) + 1] = m
  BY Queued DEF TypeOK
<1>. HIDE DEF n
<1>3. n \in SentIds /\ n \notin ReplyIds
  BY <1>1 DEF SentIds, UsedOnce
<1>4. \A i \in 1 .. Len(sent') : sent'[i].rid # n
  BY <1>1 DEF UsedOnce
<1>5. \A i \in 1 .. Len(inbox) : inbox[i].kind = "reply" => inbox[i].rid # n
  BY <1>3 DEF ReplyIds
<1>6. SentIds' = SentIds \ {n}
  <2>1. SentIds' \subseteq SentIds \ {n}
    BY <1>1, <1>4 DEF SentIds
  <2>2. ASSUME NEW i \in 1 .. Len(sent), sent[i].rid # n
        PROVE  sent[i].rid \in SentIds'
    <3>1. i - 1 \in 1 .. Len(sent') /\ sent'[i - 1] = sent[i]
      BY <1>1, <2>2
    <3>. QED  BY <3>1 DEF SentIds
  <2>. QED  BY <2>1, <2>2 DEF SentIds
<1>7. ReplyIds' = ReplyIds \cup {n}
  <2>1. ReplyIds' \subseteq ReplyIds \cup {n}
    BY <1>2 DEF ReplyIds, n
  <2>2. ReplyIds \subseteq ReplyIds'
    BY <1>2 DEF ReplyIds
  <2>3. n \in ReplyIds'
    BY <1>2 DEF ReplyIds, n
  <2>. QED  BY <2>1, <2>2, <2>3
<1>8. WireIds' = WireIds /\ SentIds' \cap ReplyIds' = {}
  BY <1>3, <1>6, <1>7 DEF WireIds, UsedOnce
<1>9. \A i, j \in 1 .. Len(sent') : sent'[i].rid = sent'[j].rid => i = j
  BY <1>1 DEF UsedOnce
<1>10. ASSUME NEW i \in 1 .. Len(inbox'), NEW j \in 1 .. Len(inbox'),
              inbox'[i].kind = "reply", inbox'[j].kind = "reply",
              inbox'[i].rid = inbox'[j].rid
       PROVE  i = j
  BY <1>2, <1>5, <1>10 DEF UsedOnce, n
<1>. QED  BY <1>8, <1>9, <1>10 DEF UsedOnce

\* The listen thread takes the first message.
LEMMA WireReceive ==
    ASSUME TypeOK, UsedOnce, inbox # <<>>, sent' = sent, inbox' = Tail(inbox)
    PROVE  /\ UsedOnce' /\ WireIds' \subseteq WireIds
           /\ Head(inbox).kind = "reply" =>
                Head(inbox).rid \in WireIds /\ Head(inbox).rid \notin WireIds'
<1>1. /\ Len(inbox) \in Nat \ {0} /\ Len(inbox') = Len(inbox) - 1
      /\ \A i \in 1 .. Len(inbox') : inbox'[i] = inbox[i + 1]
      /\ Head(inbox) = inbox[1]
  BY Dequeued DEF TypeOK
<1>2. SentIds' = SentIds /\ ReplyIds' \subseteq ReplyIds
  <2>1. SentIds' = SentIds
    BY DEF SentIds
  <2>2. ASSUME NEW i \in 1 .. Len(inbox'), inbox'[i].kind = "reply"
        PROVE  inbox'[i].rid \in ReplyIds
    <3>1. i + 1 \in 1 .. Len(inbox) /\ inbox'[i] = inbox[i + 1]
      BY <1>1
    <3>. QED  BY <2>2, <3>1 DEF ReplyIds
  <2>. QED  BY <2>1, <2>2 DEF ReplyIds
<1>3. ASSUME Head(inbox).kind = "reply"
      PROVE  Head(inbox).rid \in ReplyIds /\ Head(inbox).rid \notin ReplyIds'
  <2>1. Head(inbox).rid \in ReplyIds
    BY <1>1, <1>3 DEF ReplyIds
  <2>2. \A i \in 1 .. Len(inbox') : inbox'[i].kind = "reply"
                => inbox'[i].rid # Head(inbox).rid
    BY <1>1, <1>3 DEF UsedOnce
  <2>. QED  BY <2>1, <2>2 DEF ReplyIds
<1>4. \A i, j \in 1 .. Len(inbox') :
         (inbox'[i].kind = "reply" /\ inbox'[j].kind = "reply"
            /\ inbox'[i].rid = inbox'[j].rid) => i = j
  BY <1>1 DEF UsedOnce
<1>5. UsedOnce'
  BY <1>2, <1>4 DEF UsedOnce
<1>. QED  BY <1>2, <1>3, <1>5 DEF WireIds, UsedOnce

\* Updates are no replies.
LEMMA WireUpdate ==
    ASSUME TypeOK, UsedOnce, NEW us \in Seq(DbMessage),
           \A i \in 1 .. Len(us) : us[i].kind = "update",
           sent' = sent, inbox' = inbox \o us
    PROVE  UsedOnce' /\ WireIds' = WireIds
<1>1. /\ Len(inbox) \in Nat /\ Len(us) \in Nat
      /\ Len(inbox') = Len(inbox) + Len(us)
      /\ \A i \in 1 .. Len(inbox) : inbox'[i] = inbox[i]
      /\ \A i \in 1 .. Len(inbox') :
           i \notin 1 .. Len(inbox) => inbox'[i] = us[i - Len(inbox)]
  BY ConcatProperties, LenProperties DEF TypeOK
<1>2. \A i \in 1 .. Len(inbox') : inbox'[i].kind = "reply" =>
           i \in 1 .. Len(inbox) /\ inbox'[i] = inbox[i]
  <2>1. ASSUME NEW i \in 1 .. Len(inbox'), i \notin 1 .. Len(inbox)
        PROVE  inbox'[i].kind = "update"
    <3>1. i - Len(inbox) \in 1 .. Len(us)
      BY <1>1, <2>1
    <3>. QED  BY <1>1, <2>1, <3>1
  <2>. QED  BY <1>1, <2>1
<1>3. SentIds' = SentIds /\ ReplyIds' = ReplyIds
  <2>1. SentIds' = SentIds
    BY DEF SentIds
  <2>2. ReplyIds' \subseteq ReplyIds
    BY <1>2 DEF ReplyIds
  <2>3. ReplyIds \subseteq ReplyIds'
    BY <1>1 DEF ReplyIds
  <2>. QED  BY <2>1, <2>2, <2>3
<1>4. \A i, j \in 1 .. Len(inbox') :
         (inbox'[i].kind = "reply" /\ inbox'[j].kind = "reply"
            /\ inbox'[i].rid = inbox'[j].rid) => i = j
  BY <1>2 DEF UsedOnce
<1>5. UsedOnce'
  BY <1>3, <1>4 DEF UsedOnce
<1>. QED  BY <1>3, <1>5 DEF WireIds

----------------------------------------------------------------------------
(* Receipts.  Together with the ids on the wire, the ids that have been     *)
(* taken and are still to be sent, and the one being answered; every id so *)
(* far came from id_generate.  All of it holds as long as no two threads    *)
(* have met in id_generate: then they may have taken one id.               *)

Actor == Request \cup {ListenThread}

HeldId(a) == IF a = ListenThread THEN lrid ELSE rid[a]

\* a has loaded the last id and not stored the next one.
Generating(a) == IF a = ListenThread THEN call = "store" ELSE pc[a] = "number"

\* a has an id of its own and has not sent a request with it.
Unsent(a) ==
    IF a = ListenThread THEN call \in {"register", "link", "send"}
    ELSE pc[a] \in {"block", "insert", "evict", "evict_load", "evict_clear",
                    "store", "register", "link", "write"}

AboutToSend(a) == IF a = ListenThread THEN call = "send" ELSE pc[a] = "write"

Answering ==
    lpc \in {"update", "monitor", "monitor_request", "unlink", "unlink_store"}

Registered(n) == \E i \in 1 .. Len(receipts) : receipts[i].rid = n

IdsIssued ==
    /\ \A n \in WireIds : n <= id
    /\ \A a \in Actor : Unsent(a) => HeldId(a) <= id
    /\ Answering => msg.rid <= id
    /\ \A a \in Actor : Generating(a) => HeldId(a) = id + 1
    /\ \A a, b \in Actor : Generating(a) /\ Generating(b) => a = b

IdsApart ==
    /\ Answering => msg.rid \notin WireIds
    /\ \A a \in Actor : Unsent(a) =>
         HeldId(a) \notin WireIds /\ ~ (Answering /\ msg.rid = HeldId(a))
    /\ \A a, b \in Actor :
         Unsent(a) /\ Unsent(b) /\ HeldId(a) = HeldId(b) => a = b

RegisteredFirst ==
    /\ \A n \in WireIds : Registered(n)
    /\ \A a \in Actor : AboutToSend(a) => Registered(HeldId(a))

ReceiptInv == UsedOnce /\ IdsIssued /\ IdsApart /\ RegisteredFirst

\* What actor a holds, and what it is doing with it, does not change.
Still(a) ==
    /\ HeldId(a)' = HeldId(a)
    /\ Generating(a)' = Generating(a)
    /\ Unsent(a)' = Unsent(a)
    /\ AboutToSend(a)' = AboutToSend(a)

StillBut(a) == \A b \in Actor \ {a} : Still(b)

SameAnswer == UNCHANGED <<lpc, msg>> \/ (Answering' => Answering /\ msg' = msg)

\* Ids are numbers.
LEMMA WireIdsType ==
    ASSUME TypeOK
    PROVE  /\ WireIds \subseteq Nat /\ msg.rid \in Nat /\ id \in Nat
           /\ \A a \in Actor : HeldId(a) \in Nat
<1>1. msg.rid \in Nat
  BY DEF TypeOK, DbMessage
<1>2. \A i \in 1 .. Len(sent) : sent[i].rid \in Nat
  BY ElementOfSeq, RequestFields DEF TypeOK
<1>3. \A i \in 1 .. Len(inbox) : inbox[i].rid \in Nat
  <2>1. \A i \in 1 .. Len(inbox) : inbox[i] \in DbMessage
    BY ElementOfSeq DEF TypeOK
  <2>. QED  BY <2>1 DEF DbMessage
<1>4. id \in Nat /\ \A a \in Actor : HeldId(a) \in Nat
  BY DEF TypeOK, Actor, HeldId
<1>. QED  BY <1>1, <1>2, <1>3, <1>4 DEF WireIds, SentIds, ReplyIds

\* A window that has been met in stays met in.
LEMMA OverlapGrows ==
    ASSUME [Next]_vars
    PROVE  overlapped \subseteq overlapped'
BY DEF Next, client, proceed, interact, id_generate, set_blocked,
       insert_transaction, evict_transaction, remove_load, remove_clear,
       evict_clear, delete_clear, store_transaction, write_register, write_link,
       write_sent, write_failed, wait_lock, wait_woken, wait_spurious,
       wait_return, wait_timeout, cleanup, ovsdb_listen, listen, write_callback,
       call_number, call_id_generate, call_register, call_link,
       send_monitor_feedback_request, receipt_unlink, receipt_unlink_store,
       complete_find, complete_remove, complete_load, complete_clear,
       complete_callback, delete_gateway_config, delete_feedback, delete_row,
       signal_test, signal_wake, listen_exit, db_execute, other_insert, agent,
       agent_feedback, idle, vars, history, Enter

\* Whoever enters the window of id_generate without meeting another is alone.
LEMMA AloneGenerating ==
    ASSUME Enter("id", Numbering), "id" \notin overlapped'
    PROVE  \A a \in Actor : ~Generating(a)
<1>1. Numbering = {}
  BY DEF Enter
<1>. QED  BY <1>1 DEF Numbering, Listening, Actor, Generating

\* A new node keeps the others.
LEMMA NodeAppended ==
    ASSUME TypeOK, NEW x \in Receipt, receipts' = Append(receipts, x)
    PROVE  /\ \A n : Registered(n) => Registered(n)'
           /\ Registered(x.rid)'
<1>1. /\ Len(receipts) \in Nat /\ Len(receipts') = Len(receipts) + 1
      /\ \A i \in 1 .. Len(receipts) : receipts'[i] = receipts[i]
      /\ receipts'[Len(receipts) + 1] = x
  BY Queued DEF TypeOK
<1>. QED  BY <1>1 DEF Registered

\* Taking a node out keeps the nodes of other ids.
LEMMA NodeTaken ==
    ASSUME TypeOK, NEW k \in 1 .. Len(receipts),
           receipts' = SubSeq(receipts, 1, k - 1)
                         \o SubSeq(receipts, k + 1, Len(receipts))
    PROVE  \A n : Registered(n) /\ n # receipts[k].rid => Registered(n)'
<1> DEFINE L == SubSeq(receipts, 1, k - 1)
           R == SubSeq(receipts, k + 1, Len(receipts))
<1>0. Len(receipts) \in Nat /\ receipts \in Seq(Receipt)
  BY LenProperties DEF TypeOK
<1>1. /\ L \in Seq(Receipt) /\ Len(L) = k - 1
      /\ \A i \in 1 .. k - 1 : L[i] = receipts[i]
  BY <1>0, SubSeqProperties
<1>2. /\ R \in Seq(Receipt) /\ Len(R) = Len(receipts) - k
      /\ \A i \in 1 .. Len(receipts) - k : R[i] = receipts[k + i]
  BY <1>0, SubSeqProperties
<1>3. receipts' = L \o R
  OBVIOUS
<1>. HIDE DEF L, R
<1>4. /\ Len(receipts') = Len(receipts) - 1
      /\ \A i \in 1 .. k - 1 : receipts'[i] = receipts[i]
      /\ \A i \in k .. Len(receipts) - 1 : receipts'[i] = receipts[i + 1]
  <2>1. /\ Len(receipts') = Len(L) + Len(R)
        /\ \A i \in 1 .. Len(L) + Len(R) :
             receipts'[i] = IF i <= Len(L) THEN L[i] ELSE R[i - Len(L)]
    <3>1. L \in Seq(Receipt) /\ R \in Seq(Receipt)
      BY <1>1, <1>2
    <3>2. /\ Len(L \o R) = Len(L) + Len(R)
          /\ \A i \in 1 .. Len(L) + Len(R) :
               (L \o R)[i] = IF i <= Len(L) THEN L[i] ELSE R[i - Len(L)]
      BY ONLY <3>1, ConcatProperties
    <3>. QED  BY <1>3, <3>2
  <2>2. ASSUME NEW i \in k .. Len(receipts) - 1
        PROVE  receipts'[i] = receipts[i + 1]
    <3>1. receipts'[i] = R[i - (k - 1)]
      BY ONLY <1>0, <1>1, <1>2, <2>1, k \in 1 .. Len(receipts), i \in k .. Len(receipts) - 1
    <3>2. i - (k - 1) \in 1 .. Len(receipts) - k /\ k + (i - (k - 1)) = i + 1
      BY ONLY <1>0, k \in 1 .. Len(receipts), i \in k .. Len(receipts) - 1
    <3>. QED  BY ONLY <1>2, <3>1, <3>2
  <2>3. Len(receipts') = Len(receipts) - 1
    BY ONLY <1>0, <1>1, <1>2, <2>1, k \in 1 .. Len(receipts)
  <2>4. ASSUME NEW i \in 1 .. k - 1
        PROVE  receipts'[i] = receipts[i]
    <3>1. i \in 1 .. Len(L) + Len(R) /\ i <= Len(L)
      BY ONLY <1>0, <1>1, <1>2, k \in 1 .. Len(receipts), i \in 1 .. k - 1
    <3>2. receipts'[i] = L[i]
      BY ONLY <2>1, <3>1
    <3>3. L[i] = receipts[i]
      BY ONLY <1>1, i \in 1 .. k - 1
    <3>. QED  BY ONLY <3>2, <3>3
  <2>. QED  BY ONLY <2>2, <2>3, <2>4
<1>5. SUFFICES ASSUME NEW n, NEW j \in 1 .. Len(receipts), receipts[j].rid = n,
                      n # receipts[k].rid
               PROVE  Registered(n)'
  BY DEF Registered
<1>6. CASE j < k
  <2>1. j \in 1 .. Len(receipts') /\ receipts'[j] = receipts[j]
    BY ONLY <1>0, <1>4, <1>6, k \in 1 .. Len(receipts), j \in 1 .. Len(receipts)
  <2>. QED  BY <1>5, <2>1 DEF Registered
<1>7. CASE j > k
  <2>1. j - 1 \in 1 .. Len(receipts') /\ receipts'[j - 1] = receipts[j]
    BY ONLY <1>0, <1>4, <1>7, k \in 1 .. Len(receipts), j \in 1 .. Len(receipts)
  <2>. QED  BY <1>5, <2>1 DEF Registered
<1>. QED  BY <1>0, <1>5, <1>6, <1>7

\* Nothing happens on the wire.
LEMMA WireIdle ==
    ASSUME UsedOnce, UNCHANGED <<sent, inbox>>
    PROVE  UsedOnce' /\ WireIds' = WireIds
<1>1. SentIds' = SentIds /\ ReplyIds' = ReplyIds
  BY DEF SentIds, ReplyIds
<1>. QED  BY <1>1 DEF UsedOnce, WireIds

\* A step that takes no id, drops no receipt and begins no answer.
LEMMA ReceiptsKept ==
    ASSUME TypeOK, ReceiptInv, UsedOnce', WireIds' \subseteq WireIds,
           id' = id, SameAnswer,
           \A n : Registered(n) => Registered(n)',
           \A a \in Actor :
               /\ Unsent(a)' => Unsent(a) /\ HeldId(a)' = HeldId(a)
               /\ Generating(a)' => Generating(a) /\ HeldId(a)' = HeldId(a)
               /\ AboutToSend(a)' => AboutToSend(a) /\ HeldId(a)' = HeldId(a)
    PROVE  ReceiptInv'
<1>0. Answering' => Answering /\ msg' = msg
  BY DEF SameAnswer, Answering
<1>1. IdsIssued'
  BY <1>0 DEF ReceiptInv, IdsIssued
<1>2. IdsApart'
  BY <1>0 DEF ReceiptInv, IdsApart
<1>3. RegisteredFirst'
  BY DEF ReceiptInv, RegisteredFirst
<1>. QED  BY <1>1, <1>2, <1>3 DEF ReceiptInv

\* a loads the last id, with nobody else in id_generate.
LEMMA IdLoaded ==
    ASSUME TypeOK, ReceiptInv, NEW a \in Actor, StillBut(a),
           \A b \in Actor : ~Generating(b),
           HeldId(a)' = id + 1, ~Unsent(a)', ~AboutToSend(a)',
           UNCHANGED <<id, receipts, sent, inbox, lpc, msg>>
    PROVE  ReceiptInv'
<1>1. UsedOnce' /\ WireIds' = WireIds
  BY WireIdle DEF ReceiptInv
<1>2. IdsIssued'
  BY <1>1 DEF ReceiptInv, IdsIssued, StillBut, Still, Answering
<1>3. IdsApart'
  BY <1>1 DEF ReceiptInv, IdsApart, StillBut, Still, Answering
<1>4. RegisteredFirst'
  BY <1>1 DEF ReceiptInv, RegisteredFirst, StillBut, Still, Registered
<1>. QED  BY <1>1, <1>2, <1>3, <1>4 DEF ReceiptInv

\* a stores the id it has made of it, which nobody has.
LEMMA IdStored ==
    ASSUME TypeOK, ReceiptInv, NEW a \in Actor, StillBut(a), Generating(a),
           HeldId(a)' = HeldId(a), ~Generating(a)', ~AboutToSend(a)',
           id' = HeldId(a),
           UNCHANGED <<receipts, sent, inbox>>, SameAnswer
    PROVE  ReceiptInv'
<1>0. /\ WireIds \subseteq Nat /\ msg.rid \in Nat /\ id \in Nat
      /\ \A b \in Actor : HeldId(b) \in Nat
  BY WireIdsType
<1>00. Answering' => Answering /\ msg' = msg
  BY DEF SameAnswer, Answering
<1>1. UsedOnce' /\ WireIds' = WireIds
  BY WireIdle DEF ReceiptInv
<1>2. HeldId(a) = id + 1 /\ \A b \in Actor \ {a} : ~Generating(b)
  BY DEF ReceiptInv, IdsIssued
<1>3. /\ \A n \in WireIds : n # id + 1
      /\ \A b \in Actor : Unsent(b) => HeldId(b) # id + 1
      /\ Answering => msg.rid # id + 1
  BY <1>0 DEF ReceiptInv, IdsIssued
<1>4. IdsIssued'
  <2>1. \A n \in WireIds' : n <= id'
    BY <1>0, <1>1, <1>2 DEF ReceiptInv, IdsIssued
  <2>2. \A b \in Actor : Unsent(b)' => HeldId(b)' <= id'
    BY <1>0, <1>2 DEF ReceiptInv, IdsIssued, StillBut, Still
  <2>3. Answering' => msg'.rid <= id'
    BY <1>0, <1>00, <1>2 DEF ReceiptInv, IdsIssued
  <2>4. \A b \in Actor : ~Generating(b)'
    BY <1>2 DEF StillBut, Still
  <2>. QED  BY <2>1, <2>2, <2>3, <2>4 DEF IdsIssued
<1>5. IdsApart'
  BY <1>00, <1>1, <1>2, <1>3 DEF ReceiptInv, IdsApart, StillBut, Still
<1>6. RegisteredFirst'
  BY <1>1 DEF ReceiptInv, RegisteredFirst, StillBut, Still, Registered
<1>. QED  BY <1>1, <1>4, <1>5, <1>6 DEF ReceiptInv

\* a links the receipt of its id.
LEMMA IdRegistered ==
    ASSUME TypeOK, ReceiptInv, NEW a \in Actor, StillBut(a), Unsent(a),
           HeldId(a)' = HeldId(a), ~Generating(a)',
           NEW x \in Receipt, x.rid = HeldId(a), receipts' = Append(receipts, x),
           UNCHANGED <<id, sent, inbox, lpc, msg>>
    PROVE  ReceiptInv'
<1>1. UsedOnce' /\ WireIds' = WireIds
  BY WireIdle DEF ReceiptInv
<1>2. IdsIssued'
  BY <1>1 DEF ReceiptInv, IdsIssued, StillBut, Still, Answering
<1>3. IdsApart'
  BY <1>1 DEF ReceiptInv, IdsApart, StillBut, Still, Answering
<1>4. RegisteredFirst'
  <2>1. /\ \A n : Registered(n) => Registered(n)'
        /\ Registered(HeldId(a))'
    BY NodeAppended
  <2>2. \A b \in Actor : (AboutToSend(b) => Registered(HeldId(b)))'
    BY <2>1 DEF ReceiptInv, RegisteredFirst, StillBut, Still, Registered
  <2>. QED  BY <1>1, <2>1, <2>2 DEF ReceiptInv, RegisteredFirst
<1>. QED  BY <1>1, <1>2, <1>3, <1>4 DEF ReceiptInv

\* a sends its request, or fails to.
LEMMA IdSent ==
    ASSUME TypeOK, ReceiptInv, NEW a \in Actor, StillBut(a), AboutToSend(a),
           ~Unsent(a)', ~Generating(a)', ~AboutToSend(a)',
           NEW q \in DbRequest, q.rid = HeldId(a),
           sent' \in {sent, Append(sent, q)},
           UNCHANGED <<id, receipts, inbox>>, SameAnswer
    PROVE  ReceiptInv'
<1>0. /\ WireIds \subseteq Nat /\ id \in Nat
      /\ \A b \in Actor : HeldId(b) \in Nat
      /\ Answering' => Answering /\ msg' = msg
  BY WireIdsType DEF SameAnswer, Answering
<1>00. Unsent(a) /\ q.rid \notin WireIds
  BY DEF ReceiptInv, IdsApart, AboutToSend, Unsent
<1>1. UsedOnce' /\ WireIds' \subseteq WireIds \cup {q.rid}
  BY <1>00, WireIdle, WireSend DEF ReceiptInv
<1>2. IdsIssued'
  BY <1>0, <1>00, <1>1 DEF ReceiptInv, IdsIssued, StillBut, Still
<1>3. IdsApart'
  <2>1. Answering' => msg'.rid \notin WireIds'
    BY <1>0, <1>00, <1>1 DEF ReceiptInv, IdsApart
  <2>2. \A b \in Actor : Unsent(b)' => Unsent(b) /\ b # a /\ HeldId(b)' = HeldId(b)
    BY DEF StillBut, Still
  <2>3. \A b \in Actor : Unsent(b)' => HeldId(b) # q.rid
    BY <1>00, <2>2 DEF ReceiptInv, IdsApart
  <2>. QED  BY <1>0, <1>1, <2>1, <2>2, <2>3 DEF ReceiptInv, IdsApart
<1>4. RegisteredFirst'
  <2>1. \A n : Registered(n)' <=> Registered(n)
    BY DEF Registered
  <2>2. \A n \in WireIds' : Registered(n)
    BY <1>1 DEF ReceiptInv, RegisteredFirst
  <2>3. \A b \in Actor : AboutToSend(b)' => AboutToSend(b) /\ HeldId(b)' = HeldId(b)
    BY DEF StillBut, Still
  <2>. QED  BY <2>1, <2>2, <2>3 DEF ReceiptInv, RegisteredFirst
<1>. QED  BY <1>1, <1>2, <1>3, <1>4 DEF ReceiptInv

\* A client thread moves nobody's id but its own.
LEMMA ClientStill ==
    ASSUME TypeOK, NEW r \in Request, client(r)
    PROVE  /\ r \in Actor /\ r # ListenThread /\ StillBut(r)
           /\ UNCHANGED <<lpc, msg, inbox>>
<1> USE DEF Goto
<1>1. /\ UNCHANGED <<lpc, msg, inbox, call, lrid>>
      /\ \A s \in Request \ {r} : pc'[s] = pc[s] /\ rid'[s] = rid[s]
  BY DEF TypeOK, client, proceed, interact, id_generate, set_blocked,
         insert_transaction, evict_transaction, remove_load, remove_clear,
         evict_clear, delete_clear, store_transaction, write_register,
         write_link, write_sent, write_failed, wait_lock, wait_woken,
         wait_spurious, wait_return, wait_timeout, cleanup, listenVars,
         callVars, wireVars
<1>2. \A b \in Actor \ {r} : Still(b)
  <2> SUFFICES ASSUME NEW b \in Actor \ {r} PROVE Still(b)
    OBVIOUS
  <2>1. CASE b = ListenThread
    BY <1>1, <2>1 DEF Still, HeldId, Generating, Unsent, AboutToSend
  <2>2. CASE b # ListenThread
    <3>1. b \in Request \ {r} /\ pc'[b] = pc[b] /\ rid'[b] = rid[b]
      BY <1>1, <2>2 DEF Actor
    <3>. QED  BY <2>2, <3>1 DEF Still, HeldId, Generating, Unsent, AboutToSend
  <2>. QED  BY <2>1, <2>2
<1>. QED  BY <1>1, <1>2 DEF Actor, StillBut, ListenThread, Request

\* A client thread takes a new id, registers the receipt, and only then writes.
LEMMA ReceiptsClient ==
    ASSUME TypeOK, ReceiptInv, "id" \notin overlapped', NEW r \in Request, client(r)
    PROVE  ReceiptInv'
<1> USE DEF Goto
<1>0. /\ id \in Nat
      /\ rid \in [Request -> Nat] /\ pc \in [Request -> ClientPoint]
  BY DEF TypeOK
<1>1. /\ r \in Actor /\ r # ListenThread /\ StillBut(r)
      /\ UNCHANGED <<lpc, msg, inbox>>
      /\ SameAnswer
  BY ClientStill DEF SameAnswer
<1>2. CASE interact(r)
  <2>1. /\ UNCHANGED <<sent, receipts, id>> /\ rid'[r] = id + 1
        /\ pc'[r] = "number" /\ Enter("id", Numbering)
    BY <1>0, <1>2 DEF interact, wireVars, apiVars
  <2>2. HeldId(r)' = id + 1 /\ ~Unsent(r)' /\ ~AboutToSend(r)'
    BY <1>1, <2>1 DEF HeldId, Unsent, AboutToSend
  <2>. QED  BY <1>1, <2>1, <2>2, AloneGenerating, IdLoaded
<1>3. CASE id_generate(r)
  <2>1. /\ UNCHANGED <<sent, receipts, rid>> /\ id' = rid[r]
        /\ pc[r] = "number" /\ pc'[r] \in {"block", "register"}
    BY <1>0, <1>3 DEF id_generate, wireVars
  <2>2. /\ Generating(r) /\ HeldId(r)' = HeldId(r) /\ HeldId(r) = rid[r]
        /\ ~Generating(r)' /\ ~AboutToSend(r)'
    BY <1>1, <2>1 DEF HeldId, Generating, AboutToSend
  <2>. QED  BY <1>1, <2>1, <2>2, IdStored
<1>4. CASE write_link(r)
  <2> DEFINE x == [rid |-> rid[r], cb |-> IF Transacts(r) THEN "write" ELSE "dummy"]
  <2>1. /\ UNCHANGED <<sent, id, rid>> /\ pc[r] = "link" /\ pc'[r] = "write"
        /\ receipts' = Append(receipts, x)
    BY <1>0, <1>4 DEF write_link, wireVars
  <2>2. x \in Receipt /\ x.rid = rid[r]
    BY <1>0 DEF Receipt
  <2>3. /\ Unsent(r) /\ HeldId(r)' = HeldId(r) /\ HeldId(r) = rid[r]
        /\ ~Generating(r)'
    BY <1>1, <2>1 DEF HeldId, Generating, Unsent
  <2>. HIDE DEF x
  <2>. QED  BY <1>1, <2>1, <2>2, <2>3, IdRegistered
<1>5. CASE write_sent(r)
  <2> DEFINE q == [op |-> "insert", rid |-> rid[r], arg |-> r]
  <2>1. /\ UNCHANGED <<receipts, id, rid>> /\ sent' = Append(sent, q)
        /\ pc[r] = "write" /\ pc'[r] \in {"lock", "succeeded"}
    BY <1>0, <1>5 DEF write_sent, apiVars
  <2>2. q \in DbRequest /\ q.rid = rid[r]
    BY <1>0, RequestTypes
  <2>3. /\ AboutToSend(r) /\ HeldId(r) = rid[r]
        /\ ~Unsent(r)' /\ ~Generating(r)' /\ ~AboutToSend(r)'
    BY <1>1, <2>1 DEF HeldId, Generating, Unsent, AboutToSend
  <2>. HIDE DEF q
  <2>. QED  BY <1>1, <2>1, <2>2, <2>3, IdSent
<1>6. CASE ~ (interact(r) \/ id_generate(r) \/ write_link(r) \/ write_sent(r))
  <2>1. /\ UNCHANGED <<sent, receipts, id, rid>>
        /\ pc'[r] \in {"block", "insert", "evict", "evict_load", "evict_clear",
                       "store", "register", "link"}
             => pc[r] \in {"block", "insert", "evict", "evict_load",
                           "evict_clear", "store", "register", "link"}
        /\ pc'[r] \notin {"write", "number"}
    BY <1>0, <1>6 DEF client, proceed, set_blocked, insert_transaction,
              evict_transaction, remove_load, remove_clear, evict_clear,
              delete_clear, store_transaction, write_register,
              write_failed, wait_lock, wait_woken, wait_spurious, wait_return,
              wait_timeout, cleanup, apiVars, wireVars
  <2>2. UsedOnce' /\ WireIds' = WireIds
    BY <1>1, <2>1, WireIdle DEF ReceiptInv
  <2>3. /\ HeldId(r)' = HeldId(r) /\ ~Generating(r)' /\ ~AboutToSend(r)'
        /\ Unsent(r)' => Unsent(r)
    BY <1>1, <2>1 DEF HeldId, Generating, Unsent, AboutToSend
  <2>4. \A n : Registered(n) => Registered(n)'
    BY <2>1 DEF Registered
  <2>. QED  BY <1>1, <2>1, <2>2, <2>3, <2>4, ReceiptsKept DEF StillBut, Still
<1>. QED  BY <1>2, <1>3, <1>4, <1>5, <1>6

\* Only a reply is answered; an update goes to the monitor callback.
LEMMA DispatchKinds ==
    ASSUME NEW m, NEW node
    PROVE  /\ listen_dispatch(m, node) \in {"update", "unlink", "find", "listen"}
           /\ listen_dispatch(m, node) \in {"update", "unlink"} => m.kind = "reply"
           /\ listen_dispatch(m, node) = "find" => m.kind = "update"
BY Zenon DEF listen_dispatch

\* The calls of the DB layer treat the id of the listen thread in the same way.
LEMMA ReceiptsCall ==
    ASSUME TypeOK, ReceiptInv, "id" \notin overlapped', CallStep
    PROVE  ReceiptInv'
<1>0. /\ id \in Nat /\ lrid \in Nat /\ uid \in Nat /\ msg.uuid \in Nat
      /\ ListenThread \in Actor
  BY DEF TypeOK, Actor, DbMessage
<1>1. StillBut(ListenThread) /\ inbox' = inbox
  <2>1. UNCHANGED <<pc, rid, inbox>>
    BY DEF CallStep, call_number, call_id_generate, call_register, call_link,
           send_monitor_feedback_request, delete_gateway_config,
           delete_feedback, delete_row, clientVars, wireVars
  <2>. QED  BY <2>1 DEF StillBut, Still, HeldId, Generating, Unsent, AboutToSend
<1>2. CASE call_number
  <2>1. /\ UNCHANGED <<sent, receipts, id, lpc, msg>> /\ lrid' = id + 1
        /\ call' = "store" /\ Enter("id", Numbering)
    BY <1>2 DEF call_number, wireVars, apiVars
  <2>2. /\ HeldId(ListenThread)' = id + 1 /\ ~Unsent(ListenThread)'
        /\ ~AboutToSend(ListenThread)'
    BY <2>1 DEF HeldId, Unsent, AboutToSend
  <2>. QED  BY <1>0, <1>1, <2>1, <2>2, AloneGenerating, IdLoaded
<1>3. CASE call_id_generate
  <2>1. /\ UNCHANGED <<sent, receipts, lrid, msg>> /\ id' = lrid
        /\ call = "store" /\ call' \in {"load", "register"}
        /\ Answering' => Answering
    BY <1>3 DEF call_id_generate, wireVars, GoOn, Answering
  <2>2. /\ Generating(ListenThread) /\ HeldId(ListenThread)' = HeldId(ListenThread)
        /\ HeldId(ListenThread) = lrid
        /\ ~Generating(ListenThread)' /\ ~AboutToSend(ListenThread)'
    BY <2>1 DEF HeldId, Generating, AboutToSend
  <2>. QED  BY <1>0, <1>1, <2>1, <2>2, IdStored DEF SameAnswer
<1>4. CASE call_register
  <2>1. /\ UNCHANGED <<sent, receipts, id, lrid, lpc, msg>>
        /\ call = "register" /\ call' = "link"
    BY <1>4 DEF call_register, wireVars, apiVars
  <2>2. UsedOnce' /\ WireIds' = WireIds
    BY <1>1, <2>1, WireIdle DEF ReceiptInv
  <2>3. \A n : Registered(n) => Registered(n)'
    BY <2>1 DEF Registered
  <2>4. /\ HeldId(ListenThread)' = HeldId(ListenThread)
        /\ ~Generating(ListenThread)' /\ ~AboutToSend(ListenThread)'
        /\ Unsent(ListenThread)
    BY <2>1 DEF HeldId, Generating, Unsent, AboutToSend
  <2>. QED  BY <1>0, <1>1, <2>1, <2>2, <2>3, <2>4, ReceiptsKept
            DEF StillBut, Still, SameAnswer
<1>5. CASE call_link
  <2>1. /\ UNCHANGED <<sent, id, lrid, lpc, msg>>
        /\ call = "link" /\ call' = "send"
        /\ receipts' = Append(receipts, DummyReceipt(lrid))
    BY <1>5 DEF call_link, wireVars
  <2>2. DummyReceipt(lrid) \in Receipt /\ DummyReceipt(lrid).rid = lrid
    BY <1>0 DEF DummyReceipt, Receipt
  <2>3. /\ Unsent(ListenThread) /\ HeldId(ListenThread)' = HeldId(ListenThread)
        /\ HeldId(ListenThread) = lrid /\ ~Generating(ListenThread)'
    BY <2>1 DEF HeldId, Generating, Unsent
  <2>. QED  BY <1>0, <1>1, <2>1, <2>2, <2>3, IdRegistered
<1>6. CASE /\ send_monitor_feedback_request \/ delete_gateway_config
              \/ delete_feedback
  <2>1. PICK q \in DbRequest : q.rid = lrid /\ sent' \in {sent, Append(sent, q)}
    <3>1. CASE send_monitor_feedback_request
      <4> DEFINE q == [op |-> "monitor", rid |-> lrid, arg |-> uid]
      <4>1. q \in DbRequest /\ q.rid = lrid
        BY <1>0, RequestTypes
      <4>2. sent' \in {sent, Append(sent, q)}
        BY <3>1 DEF send_monitor_feedback_request
      <4>. QED  BY <4>1, <4>2
    <3>2. CASE delete_gateway_config \/ delete_feedback
      <4>1. PICK op \in {"deleteGw", "deleteFb"}, next \in {"deleteFb", "signal"} :
                delete_row(op, next)
        BY <3>2 DEF delete_gateway_config, delete_feedback
      <4> DEFINE q == [op |-> op, rid |-> lrid, arg |-> msg.uuid]
      <4>2. q \in DbRequest /\ q.rid = lrid
        BY <1>0, RequestTypes
      <4>3. sent' \in {sent, Append(sent, q)}
        BY <4>1 DEF delete_row
      <4>. QED  BY <4>2, <4>3
    <3>. QED  BY <1>6, <3>1, <3>2
  <2>2. /\ UNCHANGED <<id, receipts>> /\ call = "send" /\ call' = "load"
        /\ Answering' => Answering /\ msg' = msg
    BY <1>6 DEF send_monitor_feedback_request, delete_gateway_config,
                delete_feedback, delete_row, EndCall, GoOn, BackToListen,
                Answering, apiVars
  <2>3. /\ AboutToSend(ListenThread) /\ HeldId(ListenThread) = lrid
        /\ ~Unsent(ListenThread)' /\ ~Generating(ListenThread)'
        /\ ~AboutToSend(ListenThread)'
    BY <2>2 DEF HeldId, Generating, Unsent, AboutToSend
  <2>. QED  BY <1>0, <1>1, <2>1, <2>2, <2>3, IdSent DEF SameAnswer
<1>. QED  BY <1>2, <1>3, <1>4, <1>5, <1>6 DEF CallStep

\* The listen thread takes a reply off the connection before it unlinks its receipt.
LEMMA ReceiptsListen ==
    ASSUME TypeOK, ReceiptInv, "id" \notin overlapped', ovsdb_listen \/ listen_exit
    PROVE  ReceiptInv'
<1>0. /\ WireIds \subseteq Nat /\ msg.rid \in Nat /\ id \in Nat
      /\ \A a \in Actor : HeldId(a) \in Nat
  BY WireIdsType
<1>1. CASE CallStep
  BY <1>1, ReceiptsCall
<1>2. ASSUME UNCHANGED <<pc, rid, call, lrid>>
      PROVE  \A a \in Actor : Still(a)
  BY <1>2 DEF Still, HeldId, Generating, Unsent, AboutToSend
<1>3. CASE listen
  <2> DEFINE m == Head(inbox)
  <2>1. /\ inbox # <<>> /\ inbox' = Tail(inbox)
        /\ UNCHANGED <<pc, rid, call, lrid, id, receipts, sent>>
        /\ ~Answering
        /\ Answering' => m.kind = "reply" /\ msg' = m
    BY <1>3, DispatchKinds
       DEF listen, BackToListen, Answering, clientVars, callVars, apiVars
  <2>2. /\ UsedOnce' /\ WireIds' \subseteq WireIds
        /\ m.kind = "reply" => m.rid \in WireIds /\ m.rid \notin WireIds'
    BY <2>1, WireReceive DEF ReceiptInv
  <2>. HIDE DEF m
  <2>3. \A a \in Actor : Still(a)
    BY <1>2, <2>1
  <2>4. IdsIssued'
    BY <1>0, <2>1, <2>2, <2>3 DEF ReceiptInv, IdsIssued, Still
  <2>5. IdsApart'
    BY <2>1, <2>2, <2>3 DEF ReceiptInv, IdsApart, Still
  <2>6. RegisteredFirst'
    BY <2>1, <2>2, <2>3 DEF ReceiptInv, RegisteredFirst, Registered, Still
  <2>. QED  BY <2>2, <2>4, <2>5, <2>6 DEF ReceiptInv
<1>4. CASE receipt_unlink_store
  <2>1. /\ UNCHANGED <<pc, rid, call, lrid, id, sent, inbox>>
        /\ Answering /\ ~Answering'
    BY <1>4 DEF receipt_unlink_store, BackToListen, Answering, clientVars,
                callVars, wireVars
  <2>2. PICK i \in Found(msg.rid) :
            receipts' = IF i = 0 THEN receipts
                        ELSE SubSeq(receipts, 1, i - 1)
                               \o SubSeq(receipts, i + 1, Len(receipts))
    BY <1>4 DEF receipt_unlink_store
  <2>3. i # 0 => i \in 1 .. Len(receipts) /\ receipts[i].rid = msg.rid
    BY <1>0, <2>2, FoundNode DEF Matches
  <2>4. \A n : Registered(n) /\ n # msg.rid => Registered(n)'
    <3>1. CASE i = 0
      BY <2>2, <3>1 DEF Registered
    <3>2. CASE i # 0
      BY <2>2, <2>3, <3>2, NodeTaken
    <3>. QED  BY <3>1, <3>2
  <2>5. UsedOnce' /\ WireIds' = WireIds
    BY <2>1, WireIdle DEF ReceiptInv
  <2>6. \A a \in Actor : Still(a)
    BY <1>2, <2>1
  <2>7. IdsIssued' /\ IdsApart'
    BY <2>1, <2>5, <2>6 DEF ReceiptInv, IdsIssued, IdsApart, Still
  <2>8. RegisteredFirst'
    <3>1. \A n \in WireIds : n # msg.rid
      BY <2>1 DEF ReceiptInv, IdsApart
    <3>2. \A a \in Actor : AboutToSend(a) => HeldId(a) # msg.rid
      BY <2>1 DEF ReceiptInv, IdsApart, AboutToSend, Unsent
    <3>. QED  BY <2>4, <2>5, <2>6, <3>1, <3>2
              DEF ReceiptInv, RegisteredFirst, Still
  <2>. QED  BY <2>5, <2>7, <2>8 DEF ReceiptInv
<1>5. CASE listen_exit
  <2>1. /\ UNCHANGED <<pc, rid, call, lrid, id, receipts, msg>> /\ ~Answering'
        /\ sent' = <<>> /\ inbox' = <<>>
    BY <1>5 DEF listen_exit, GoOn, Answering, clientVars, callVars, apiVars
  <2>2. Len(sent') = 0 /\ Len(inbox') = 0
    BY <2>1, EmptySeq
  <2>3. SentIds' = {} /\ ReplyIds' = {}
    BY <2>2 DEF SentIds, ReplyIds
  <2>4. UsedOnce' /\ WireIds' \subseteq WireIds
    BY <2>2, <2>3 DEF UsedOnce, WireIds
  <2>5. \A n : Registered(n) => Registered(n)'
    BY <2>1 DEF Registered
  <2>. QED  BY <1>2, <2>1, <2>4, <2>5, ReceiptsKept DEF Still, SameAnswer
<1>6. CASE \/ write_callback \/ receipt_unlink \/ complete_find
           \/ complete_remove \/ complete_load \/ complete_clear
           \/ complete_callback \/ signal_test \/ signal_wake
  <2>1. /\ UNCHANGED <<sent, inbox, id, rid, call, lrid, receipts>>
        /\ Answering' => Answering /\ msg' = msg
    BY <1>6 DEF write_callback, receipt_unlink, complete_find,
                complete_remove, complete_load, complete_clear,
                complete_callback, signal_test, signal_wake, GoOn,
                BackToListen, Answering, clientVars, callVars, apiVars, wireVars
  <2>2. \A r \in Request : pc'[r] \in {pc[r], "woken"}
    BY <1>6 DEF TypeOK, write_callback, receipt_unlink, complete_find,
                complete_remove, complete_load, complete_clear,
                complete_callback, signal_test, signal_wake, Goto, clientVars
  <2>3. UsedOnce' /\ WireIds' = WireIds
    BY <2>1, WireIdle DEF ReceiptInv
  <2>4. \A n : Registered(n) => Registered(n)'
    BY <2>1 DEF Registered
  <2>5. \A a \in Actor : /\ HeldId(a)' = HeldId(a)
                         /\ Unsent(a)' => Unsent(a)
                         /\ Generating(a)' => Generating(a)
                         /\ AboutToSend(a)' => AboutToSend(a)
    BY <2>1, <2>2 DEF Actor, HeldId, Unsent, Generating, AboutToSend
  <2>. QED  BY <2>1, <2>3, <2>4, <2>5, ReceiptsKept DEF SameAnswer
<1>. QED  BY <1>1, <1>3, <1>4, <1>5, <1>6 DEF ovsdb_listen, CallStep

\* The server moves an id from the requests to the replies.
LEMMA ReceiptsDatabase ==
    ASSUME TypeOK, ReceiptInv, db_execute \/ agent
    PROVE  ReceiptInv'
<1>0. UNCHANGED <<pc, rid, call, lrid, id, receipts, lpc, msg>>
  BY DEF db_execute, agent, agent_feedback, clientVars, listenVars, callVars, apiVars
<1>00. /\ \A a \in Actor : Still(a)
       /\ \A n : Registered(n) => Registered(n)'
       /\ SameAnswer
  BY <1>0 DEF Still, HeldId, Generating, Unsent, AboutToSend, Registered, SameAnswer
<1>1. CASE db_execute
  <2>1. sent # <<>> /\ sent' = Tail(sent) /\ Head(sent) \in DbRequest
    BY <1>1, Dequeued DEF db_execute, TypeOK
  <2>2. Head(sent).rid \in Nat /\ Len(inserted) + 1 \in Nat /\ NoUuid \in Nat
    BY <2>1, RequestFields, LenProperties DEF TypeOK, NoUuid
  <2>3. PICK m \in DbMessage : /\ inbox' = Append(inbox, m)
                               /\ m.kind = "reply" /\ m.rid = Head(sent).rid
    <3> DEFINE n == Head(sent).rid
               Answers == {Reply(n, Len(inserted) + 1), Reply(n, NoUuid), Done(n)}
    <3>1. \A m \in Answers : m \in DbMessage /\ m.kind = "reply" /\ m.rid = n
      <4>1. \A u : Reply(n, u).kind = "reply" /\ Reply(n, u).rid = n
        BY DEF Reply
      <4>2. Done(n).kind = "reply" /\ Done(n).rid = n
        BY DEF Done
      <4>3. \A m \in Answers : m \in DbMessage
        BY <2>2, MessageTypes
      <4>. QED  BY <4>1, <4>2, <4>3, Zenon
    <3>2. \E m \in Answers : inbox' = Append(inbox, m)
      BY <1>1 DEF db_execute
    <3>. QED  BY <3>1, <3>2
  <2>4. UsedOnce' /\ WireIds' = WireIds
    BY <2>1, <2>3, WireExecute DEF ReceiptInv
  <2>. QED  BY <1>0, <1>00, <2>4, ReceiptsKept DEF Still
<1>2. CASE agent
  <2>1. PICK u \in 1 .. Len(inserted), s \in Verdicts : agent_feedback(u, s)
    BY <1>2 DEF agent
  <2> DEFINE us == [i \in 1 .. Len(dbMonitors) |-> Update(dbMonitors[i], u, s)]
  <2>2. u \in Nat /\ s \in {"SUCCESS", "FAILED"} /\ dbMonitors \in Seq(Nat)
    BY VerdictsAssumption, LenProperties DEF TypeOK
  <2>3. us \in Seq(DbMessage)
    BY <2>2, UpdatesType
  <2>4. \A i \in 1 .. Len(us) : us[i].kind = "update"
    <3>1. Len(dbMonitors) \in Nat /\ Len(us) = Len(dbMonitors)
      BY <2>2, <2>3, LenProperties
    <3>. QED  BY <3>1 DEF Update
  <2>5. sent' = sent /\ inbox' = inbox \o us
    BY <2>1 DEF agent_feedback
  <2>. HIDE DEF us
  <2>6. UsedOnce' /\ WireIds' = WireIds
    BY <2>3, <2>4, <2>5, WireUpdate DEF ReceiptInv
  <2>. QED  BY <1>0, <1>00, <2>6, ReceiptsKept DEF Still
<1>. QED  BY <1>1, <1>2

\* Every id stays used once, and registered while it is on the connection.
LEMMA ReceiptsNext ==
    ASSUME TypeOK, "id" \notin overlapped => ReceiptInv, [Next]_vars
    PROVE  "id" \notin overlapped' => ReceiptInv'
<1> SUFFICES ASSUME "id" \notin overlapped' PROVE ReceiptInv'
  OBVIOUS
<1>0. ReceiptInv
  BY OverlapGrows
<1>1. CASE other_insert \/ idle \/ UNCHANGED vars
  <2>1. UNCHANGED <<pc, rid, call, lrid, id, receipts, lpc, msg, sent, inbox>>
    BY <1>1 DEF other_insert, idle, vars, clientVars, listenVars, callVars,
                apiVars, wireVars
  <2>2. UsedOnce' /\ WireIds' = WireIds
    BY <1>0, <2>1, WireIdle DEF ReceiptInv
  <2>3. /\ \A a \in Actor : Still(a)
        /\ \A n : Registered(n) => Registered(n)'
        /\ SameAnswer
    BY <2>1 DEF Still, HeldId, Generating, Unsent, AboutToSend, Registered,
                SameAnswer
  <2>. QED  BY <1>0, <2>1, <2>2, <2>3, ReceiptsKept DEF Still
<1>. QED  BY <1>0, <1>1, ReceiptsClient, ReceiptsListen, ReceiptsDatabase DEF Next

\* No id has been used at first.
LEMMA ReceiptsInit == Init => ReceiptInv
<1> SUFFICES ASSUME Init PROVE ReceiptInv
  OBVIOUS
<1>1. Len(sent) = 0 /\ Len(inbox) = 0
  BY EmptySeq DEF Init
<1>2. SentIds = {} /\ ReplyIds = {}
  BY <1>1 DEF SentIds, ReplyIds
<1>3. /\ \A a \in Actor : ~Unsent(a) /\ ~Generating(a) /\ ~AboutToSend(a)
      /\ ~Answering
  BY DEF Init, Actor, Unsent, Generating, AboutToSend, Answering
<1>. QED  BY <1>1, <1>2, <1>3
          DEF ReceiptInv, UsedOnce, IdsIssued, IdsApart, RegisteredFirst, WireIds

\* As long as no two threads have met in id_generate, an id is used once: it is
\* still to be sent, by one thread, or in one request, or in one reply, or being
\* answered; and its receipt has been added to the list before it is sent.
THEOREM IdsUsedOnce == Spec => []("id" \notin overlapped => ReceiptInv)
<1>1. Init => ("id" \notin overlapped => ReceiptInv)
  BY ReceiptsInit
<1>2. TypeOK /\ ("id" \notin overlapped => ReceiptInv) /\ [Next]_vars
        => ("id" \notin overlapped => ReceiptInv)'
  BY ReceiptsNext
<1>. QED  BY <1>1, <1>2, TypeCorrect, PTL DEF Spec

\* As long as no two threads have met in id_generate or in the receipt list, a
\* request that can still be answered has its receipt in the list: for inserts,
\* monitors and deletes of client threads and the listen thread on one
\* connection, with failed writes, rejected inserts and a closed connection.
THEOREM ReceiptCorrect == Spec => []ReceiptBeforeReply
<1>1. ("id" \notin overlapped => ReceiptInv) => ReceiptBeforeReply
  <2> SUFFICES ASSUME ReceiptInv PROVE ReceiptBeforeReply
    BY DEF ReceiptBeforeReply
  <2>1. \A n : Registered(n) => n \in {receipts[i].rid : i \in 1 .. Len(receipts)}
    BY DEF Registered
  <2>2. \A i \in 1 .. Len(sent) : sent[i].rid \in WireIds
    BY DEF WireIds, SentIds
  <2>3. \A i \in 1 .. Len(inbox) : inbox[i].kind = "reply" => inbox[i].rid \in WireIds
    BY DEF WireIds, ReplyIds
  <2>. QED  BY <2>1, <2>2, <2>3 DEF ReceiptInv, RegisteredFirst, ReceiptBeforeReply
<1>. QED  BY <1>1, IdsUsedOnce, PTL
=============================================================================
