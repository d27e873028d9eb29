---------------------------- MODULE Rows_proofs ----------------------------
(***************************************************************************)
(* Whose row is whose: every uuid the library takes from a reply, keeps in *)
(* the table, matches with a Feedback or puts into a delete comes from a   *)
(* row of its own.  For every table size, number of requests and threads,  *)
(* and set of faults.                                                      *)
(***************************************************************************)
EXTENDS Connection_proofs

----------------------------------------------------------------------------
(* The elements of a queue *)

Elements(s) == {s[i] : i \in 1 .. Len(s)}

\* What is in a queue after an append.
LEMMA ElementsQueued ==
    ASSUME NEW S, NEW s \in Seq(S), NEW e \in S
    PROVE  \A x \in Elements(Append(s, e)) : x \in Elements(s) \/ x = e
BY Queued DEF Elements

\* What is in it after its head was taken.
LEMMA ElementsDequeued ==
    ASSUME NEW S, NEW s \in Seq(S), s # <<>>
    PROVE  Head(s) \in Elements(s) /\ Elements(Tail(s)) \subseteq Elements(s)
<1>1. /\ Len(s) \in Nat \ {0} /\ Head(s) = s[1]
      /\ Len(Tail(s)) = Len(s) - 1
      /\ \A i \in 1 .. Len(Tail(s)) : Tail(s)[i] = s[i + 1]
  BY Dequeued
<1>2. \A i \in 1 .. Len(Tail(s)) : i + 1 \in 1 .. Len(s)
  BY <1>1
<1>. QED  BY <1>1, <1>2 DEF Elements

\* What is in two queues joined.
LEMMA ElementsJoined ==
    ASSUME NEW S, NEW s \in Seq(S), NEW t \in Seq(S)
    PROVE  \A x \in Elements(s \o t) : x \in Elements(s) \/ x \in Elements(t)
<1>1. /\ Len(s) \in Nat /\ Len(t) \in Nat
      /\ Len(s \o t) = Len(s) + Len(t)
      /\ \A i \in 1 .. Len(s) + Len(t) :
             (s \o t)[i] = IF i <= Len(s) THEN s[i] ELSE t[i - Len(s)]
  BY ConcatProperties, LenProperties
<1>2. ASSUME NEW i \in 1 .. Len(s \o t)
      PROVE  (s \o t)[i] \in Elements(s) \/ (s \o t)[i] \in Elements(t)
  <2>1. CASE i <= Len(s)
    BY <1>1, <2>1 DEF Elements
  <2>2. CASE ~ (i <= Len(s))
    <3>1. i - Len(s) \in 1 .. Len(t) /\ (s \o t)[i] = t[i - Len(s)]
      BY <1>1, <2>2
    <3>. QED  BY <3>1 DEF Elements
  <2>. QED  BY <2>1, <2>2
<1>. QED  BY <1>2 DEF Elements

\* Nothing is in an empty queue.
LEMMA ElementsEmpty == Elements(<<>>) = {}
BY EmptySeq DEF Elements

----------------------------------------------------------------------------
(* What a step does to each part of the state *)

\* A request's id, once generated, stays; rows keep their uuid and verdicts
\* are never taken back.
HasId == \A r \in Request : pc[r] = "ready" <=> rid[r] = 0

Grows ==
    /\ \A u \in 1 .. Len(inserted) :
         u \in 1 .. Len(inserted') /\ inserted'[u] = inserted[u]
    /\ \A r \in Request : rid[r] # 0 => rid'[r] = rid[r]
    /\ verdicts \subseteq verdicts'

\* A row comes from another component, or from an insert at the head of the connection.
LEMMA InsertedChanges ==
    ASSUME TypeOK, [Next]_vars
    PROVE  \/ inserted' = inserted
           \/ inserted' = Append(inserted, OtherComponent) /\ sent' = sent
           \/ /\ sent # <<>> /\ Head(sent).op = "insert"
              /\ inserted' = Append(inserted, Head(sent).arg)
              /\ sent' = Tail(sent)
<1>1. CASE db_execute \/ other_insert \/ listen_exit
  BY <1>1 DEF db_execute, other_insert, listen_exit, wireVars
<1>2. CASE \E r \in Request : client(r)
  BY <1>2 DEF client, proceed, interact, id_generate, set_blocked,
              insert_transaction, evict_transaction, remove_load, remove_clear,
              evict_clear, delete_clear, store_transaction, write_register,
              write_link, write_sent, write_failed, wait_lock, wait_woken,
              wait_spurious, wait_return, wait_timeout, cleanup, dbVars
<1>3. CASE ovsdb_listen
  BY <1>3 DEF ovsdb_listen, listen, write_callback, call_number,
              call_id_generate, call_register, call_link,
              send_monitor_feedback_request, receipt_unlink,
              receipt_unlink_store, complete_find, complete_remove,
              complete_load, complete_clear, complete_callback,
              delete_gateway_config, delete_feedback, delete_row, signal_test,
              signal_wake, dbVars
<1>4. CASE agent \/ idle \/ UNCHANGED vars
  BY <1>4 DEF agent, agent_feedback, idle, vars, dbVars
<1>. QED  BY <1>1, <1>2, <1>3, <1>4 DEF Next

\* Rows, ids and verdicts are never taken back.
LEMMA StepGrows ==
    ASSUME TypeOK, HasId, [Next]_vars
    PROVE  Grows /\ HasId'
<1>1. \A u \in 1 .. Len(inserted) :
         u \in 1 .. Len(inserted') /\ inserted'[u] = inserted[u]
  <2>1. \A x \in Request \cup {OtherComponent} : inserted' = Append(inserted, x) =>
          \A u \in 1 .. Len(inserted) :
             u \in 1 .. Len(inserted') /\ inserted'[u] = inserted[u]
    BY Queued DEF TypeOK
  <2>2. sent # <<>> => Head(sent) \in DbRequest
    BY Dequeued DEF TypeOK
  <2>3. sent # <<>> /\ Head(sent).op = "insert" => Head(sent).arg \in Request
    BY <2>2, RequestFields
  <2>. QED  BY <2>1, <2>3, InsertedChanges
<1>2. CASE \E r \in Request : client(r)
  <2>1. PICK r \in Request : client(r)
    BY <1>2
  <2>2. CASE interact(r)
    <3>1. /\ pc[r] = "ready" /\ pc'[r] # "ready" /\ rid'[r] # 0
          /\ \A s \in Request \ {r} : pc'[s] = pc[s] /\ rid'[s] = rid[s]
          /\ verdicts' = verdicts
      BY <2>2 DEF interact, Goto, TypeOK, dbVars
    <3>. QED  BY <1>1, <3>1 DEF Grows, HasId
  <2>3. CASE ~interact(r)
    <3>1. /\ rid' = rid /\ verdicts' = verdicts
          /\ pc[r] # "ready" /\ pc'[r] # "ready"
          /\ \A s \in Request \ {r} : pc'[s] = pc[s]
      BY <2>1, <2>3
         DEF client, proceed, id_generate, set_blocked, insert_transaction,
             evict_transaction, remove_load, remove_clear, evict_clear,
             delete_clear, store_transaction, write_register, write_link,
             write_sent, write_failed, wait_lock, wait_woken, wait_spurious,
             wait_return, wait_timeout, cleanup, dbVars, TypeOK, Goto
    <3>. QED  BY <1>1, <3>1 DEF Grows, HasId
  <2>. QED  BY <2>2, <2>3
<1>3. CASE ovsdb_listen \/ listen_exit \/ db_execute \/ other_insert \/ agent
           \/ idle \/ UNCHANGED vars
  <2>1. /\ rid' = rid
        /\ \A s \in Request : pc'[s] = pc[s] \/ (pc[s] = "wait" /\ pc'[s] = "woken")
    <3>1. CASE signal_wake
      BY <3>1 DEF signal_wake, Goto, TypeOK
    <3>2. CASE ~signal_wake
      BY <1>3, <3>2
         DEF ovsdb_listen, listen, write_callback, call_number,
             call_id_generate, call_register, call_link,
             send_monitor_feedback_request, receipt_unlink,
             receipt_unlink_store, complete_find, complete_remove,
             complete_load, complete_clear, complete_callback,
             delete_gateway_config, delete_feedback, delete_row, signal_test,
             listen_exit, db_execute, other_insert, agent, agent_feedback,
             idle, vars, clientVars
    <3>. QED  BY <3>1, <3>2
  <2>2. verdicts \subseteq verdicts'
    BY <1>3 DEF ovsdb_listen, listen, write_callback, call_number,
                call_id_generate, call_register, call_link,
                send_monitor_feedback_request, receipt_unlink,
                receipt_unlink_store, complete_find, complete_remove,
                complete_load, complete_clear, complete_callback,
                delete_gateway_config, delete_feedback, delete_row,
                signal_test, signal_wake, listen_exit, db_execute,
                other_insert, agent, agent_feedback, idle, vars, dbVars
  <2>. QED  BY <1>1, <2>1, <2>2 DEF Grows, HasId
<1>. QED  BY <1>2, <1>3 DEF Next

\* A request is sent by a client thread that has generated its id, by the
\* listen thread for the row of the Feedback it completes, or asks for the
\* monitor.
LEMMA SentChanges ==
    ASSUME TypeOK, [Next]_vars
    PROVE  \/ sent' = sent
           \/ sent' = <<>>
           \/ sent # <<>> /\ sent' = Tail(sent)
           \/ \E r \in Request : /\ pc[r] = "write"
                                 /\ sent' = Append(sent, [op |-> "insert",
                                                rid |-> rid[r], arg |-> r])
           \/ sent' = Append(sent, [op |-> "monitor", rid |-> lrid, arg |-> uid])
           \/ \E op \in {"deleteGw", "deleteFb"} :
                /\ lpc \in {"deleteGw", "deleteFb"}
                /\ sent' = Append(sent, [op |-> op, rid |-> lrid, arg |-> msg.uuid])
<1>1. CASE \E r \in Request : write_sent(r)
  BY <1>1 DEF write_sent
<1>2. CASE delete_gateway_config \/ delete_feedback
  BY <1>2 DEF delete_gateway_config, delete_feedback, delete_row
<1>3. CASE send_monitor_feedback_request
  BY <1>3 DEF send_monitor_feedback_request
<1>4. CASE listen_exit \/ db_execute
  BY <1>4 DEF listen_exit, db_execute
<1>5. CASE \E r \in Request : client(r) /\ ~write_sent(r)
  BY <1>5 DEF client, proceed, interact, id_generate, set_blocked,
              insert_transaction, evict_transaction, remove_load, remove_clear,
              evict_clear, delete_clear, store_transaction, write_register,
              write_link, write_failed, wait_lock, wait_woken, wait_spurious,
              wait_return, wait_timeout, cleanup, wireVars
<1>6. CASE \/ listen \/ write_callback \/ call_number \/ call_id_generate
           \/ call_register \/ call_link \/ receipt_unlink
           \/ receipt_unlink_store \/ complete_find \/ complete_remove
           \/ complete_load \/ complete_clear \/ complete_callback
           \/ signal_test \/ signal_wake \/ other_insert \/ agent \/ idle
           \/ UNCHANGED vars
  BY <1>6 DEF listen, write_callback, call_number, call_id_generate,
              call_register, call_link, receipt_unlink, receipt_unlink_store,
              complete_find, complete_remove, complete_load, complete_clear,
              complete_callback, signal_test, signal_wake, other_insert, agent,
              agent_feedback, idle, vars, wireVars
<1>. QED  BY <1>1, <1>2, <1>3, <1>4, <1>5, <1>6 DEF Next, ovsdb_listen

\* A message is the server's answer to a request, or tells of a new verdict.
LEMMA InboxChanges ==
    ASSUME TypeOK, [Next]_vars
    PROVE  \/ inbox' = inbox
           \/ inbox' = <<>>
           \/ inbox # <<>> /\ inbox' = Tail(inbox)
           \/ /\ sent # <<>> /\ Head(sent).op = "insert"
              /\ inserted' = Append(inserted, Head(sent).arg)
              /\ inbox' = Append(inbox, Reply(Head(sent).rid, Len(inserted) + 1))
           \/ /\ sent # <<>>
              /\ \/ inbox' = Append(inbox, Reply(Head(sent).rid, NoUuid))
                 \/ inbox' = Append(inbox, Done(Head(sent).rid))
           \/ \E u \in 1 .. Len(inserted), s \in Verdicts :
                /\ [uuid |-> u, status |-> s] \in verdicts'
                /\ inbox' = inbox \o [i \in 1 .. Len(dbMonitors) |->
                                         Update(dbMonitors[i], u, s)]
<1>1. CASE db_execute
  BY <1>1 DEF db_execute
<1>2. CASE agent
  BY <1>2 DEF agent, agent_feedback
<1>3. CASE listen \/ listen_exit
  BY <1>3 DEF listen, listen_exit
<1>4. CASE \E r \in Request : client(r)
  BY <1>4 DEF client, proceed, interact, id_generate, set_blocked,
              insert_transaction, evict_transaction, remove_load, remove_clear,
              evict_clear, delete_clear, store_transaction, write_register,
              write_link, write_sent, write_failed, wait_lock, wait_woken,
              wait_spurious, wait_return, wait_timeout, cleanup, wireVars
<1>5. CASE \/ write_callback \/ CallStep \/ receipt_unlink
           \/ receipt_unlink_store \/ complete_find \/ complete_remove
           \/ complete_load \/ complete_clear \/ complete_callback
           \/ signal_test \/ signal_wake \/ other_insert \/ idle
           \/ UNCHANGED vars
  BY <1>5 DEF write_callback, CallStep, call_number, call_id_generate,
              call_register, call_link, send_monitor_feedback_request,
              receipt_unlink, receipt_unlink_store, complete_find,
              complete_remove, complete_load, complete_clear,
              complete_callback, delete_gateway_config, delete_feedback,
              delete_row, signal_test, signal_wake, other_insert, idle, vars,
              wireVars
<1>. QED  BY <1>1, <1>2, <1>3, <1>4, <1>5 DEF Next, ovsdb_listen, CallStep

\* An entry of the table is new, or an old one, or an old one with the uuid of
\* a receipt.
LEMMA TableChanges ==
    ASSUME TypeOK, [Next]_vars, NEW k \in Slot
    PROVE  \/ table'[k] = table[k]
           \/ table'[k] = NoTransaction
           \/ \E r \in Request :
                /\ pc[r] = "store" /\ k = hash_code(rid[r])
                /\ table'[k] = create_transaction(rid[r], mode[r].callback, r)
           \/ /\ lpc = "update" /\ k = hash_code(msg.rid)
              /\ table[k] # NoTransaction
              /\ table'[k] = [table[k] EXCEPT !.uuid = msg.uuid]
<1>0. /\ table \in Table
      /\ \A r \in Request : rid[r] \in Nat /\ mode[r].callback \in BOOLEAN
      /\ msg.rid \in Nat
  BY DEF TypeOK, DbMessage
<1>1. CASE \E r \in Request : store_transaction(r)
  <2>1. PICK r \in Request : store_transaction(r)
    BY <1>1
  <2>2. hash_code(rid[r]) \in Slot
    BY <1>0, HashCodeType
  <2>. QED  BY <1>0, <2>1, <2>2 DEF store_transaction, create_transaction,
                insert_transaction_table, Table
<1>2. CASE \E r \in Request : remove_clear(r)
  <2>1. PICK r \in Request : remove_clear(r)
    BY <1>2
  <2>2. hash_code(rid[r]) \in Slot
    BY <1>0, HashCodeType
  <2>. QED  BY <1>0, <2>1, <2>2 DEF remove_clear, slot_cleared, Table
<1>3. CASE write_callback
  <2>1. hash_code(msg.rid) \in Slot
    BY <1>0, HashCodeType
  <2>. QED  BY <1>0, <1>3, <2>1 DEF write_callback, get_transaction,
                update_transaction_uuid, Table
<1>4. CASE complete_clear
  BY <1>0, <1>4 DEF complete_clear, slot_cleared, Table, TypeOK
<1>5. CASE \E r \in Request :
             client(r) /\ ~store_transaction(r) /\ ~remove_clear(r)
  BY <1>5 DEF client, proceed, interact, id_generate, set_blocked,
              insert_transaction, evict_transaction, remove_load, evict_clear,
              delete_clear, write_register, write_link, write_sent,
              write_failed, wait_lock, wait_woken, wait_spurious, wait_return,
              wait_timeout, cleanup, apiVars
<1>6. CASE \/ listen \/ CallStep \/ receipt_unlink \/ receipt_unlink_store
           \/ complete_find \/ complete_remove \/ complete_load
           \/ complete_callback \/ signal_test \/ signal_wake \/ listen_exit
           \/ db_execute \/ other_insert \/ agent \/ idle \/ UNCHANGED vars
  BY <1>6 DEF listen, CallStep, call_number, call_id_generate, call_register,
              call_link, send_monitor_feedback_request, receipt_unlink,
              receipt_unlink_store, complete_find, complete_remove,
              complete_load, complete_callback, delete_gateway_config,
              delete_feedback, delete_row, signal_test, signal_wake,
              listen_exit, db_execute, other_insert, agent, agent_feedback,
              idle, vars, apiVars
<1>. QED  BY <1>1, <1>2, <1>3, <1>4, <1>5, <1>6 DEF Next, ovsdb_listen, CallStep

----------------------------------------------------------------------------
(* Provenance.  A row is the component's own when it holds one of its      *)
(* configurations; a reply names the row of the request it answers, an     *)
(* update a verdict of the agent, and the table and the deletes name own   *)
(* rows only.                                                              *)

Own(u) == u \in 1 .. Len(inserted) /\ inserted[u] \in Request

RowOf(n, u) == Own(u) /\ rid[inserted[u]] = n /\ n # 0

Genuine(m) ==
    /\ m.kind = "reply" /\ m.uuid # NoUuid => RowOf(m.rid, m.uuid)
    /\ m.kind = "update" => [uuid |-> m.uuid, status |-> m.status] \in verdicts

RequestsGenuine ==
    \A q \in Elements(sent) :
        /\ q.op = "insert" => q.rid = rid[q.arg] /\ q.rid # 0
        /\ q.op \in {"deleteGw", "deleteFb"} => Own(q.arg)

MessagesGenuine == \A m \in Elements(inbox) : Genuine(m)

\* complete_transaction, after it has found the uuid.
Completing == {"remove", "load", "clear", "callback"}

HandledGenuine ==
    /\ Genuine(msg)
    /\ lpc = "update" => msg.kind = "reply"
    /\ lpc \in {"find"} \cup Completing => msg.kind = "update"
    /\ lpc \in Completing \cup {"deleteGw", "deleteFb"} => Own(msg.uuid)

VerdictsOnRows == \A v \in verdicts : v.uuid \in 1 .. Len(inserted)

TableOwn ==
    \A k \in Slot : table[k] # NoTransaction /\ table[k].uuid # NoUuid
        => Own(table[k].uuid)

Provenance ==
    /\ HasId
    /\ RequestsGenuine
    /\ MessagesGenuine
    /\ HandledGenuine
    /\ VerdictsOnRows
    /\ TableOwn

\* What was genuine stays so.
LEMMA StillGenuine ==
    ASSUME Grows
    PROVE  /\ \A u : Own(u) => Own(u)' /\ inserted'[u] = inserted[u]
           /\ \A n, u : RowOf(n, u) => RowOf(n, u)'
           /\ \A m : Genuine(m) => Genuine(m)'
<1>1. \A u : Own(u) => Own(u)' /\ inserted'[u] = inserted[u]
  BY DEF Grows, Own
<1>2. \A n, u : RowOf(n, u) => RowOf(n, u)'
  BY <1>1 DEF Grows, RowOf, Own
<1>3. \A m : Genuine(m) => Genuine(m)'
  BY <1>2 DEF Genuine, Grows
<1>. QED  BY <1>1, <1>2, <1>3

\* Inserts carry the id of their request, and only own rows are deleted.
LEMMA RequestsStayGenuine ==
    ASSUME TypeOK, Provenance, [Next]_vars
    PROVE  RequestsGenuine'
<1> DEFINE Good(q) == /\ q.op = "insert" => q.rid = rid[q.arg] /\ q.rid # 0
                      /\ q.op \in {"deleteGw", "deleteFb"} => Own(q.arg)
<1>0. Grows /\ HasId' /\ sent \in Seq(DbRequest)
  BY StepGrows DEF Provenance, TypeOK
<1>1. \A q \in Elements(sent) : Good(q)'
  <2>1. \A q \in Elements(sent) : q \in DbRequest
    BY <1>0, ElementOfSeq DEF Elements
  <2>2. SUFFICES ASSUME NEW q \in Elements(sent) PROVE Good(q)'
    OBVIOUS
  <2>3. Good(q) /\ (q.op = "insert" => q.arg \in Request)
    BY <2>1, <2>2, RequestFields DEF Provenance, RequestsGenuine
  <2>4. q.op = "insert" => rid'[q.arg] = rid[q.arg]
    BY <1>0, <2>3 DEF Grows
  <2>. QED  BY <1>0, <2>3, <2>4, StillGenuine
<1>2. CASE sent' = sent \/ sent' = <<>> \/ (sent # <<>> /\ sent' = Tail(sent))
  <2>1. Elements(sent') \subseteq Elements(sent)
    BY <1>0, <1>2, ElementsEmpty, ElementsDequeued
  <2>2. \A q \in Elements(sent') : Good(q)'
    BY <1>1, <2>1
  <2>. QED  BY <2>2 DEF RequestsGenuine, Elements
<1>3. ASSUME NEW q \in DbRequest, sent' = Append(sent, q), Good(q)'
      PROVE  RequestsGenuine'
  <2>1. \A x \in Elements(sent') : x \in Elements(sent) \/ x = q
    BY <1>0, <1>3, ElementsQueued
  <2>2. \A x \in Elements(sent') : Good(x)'
    BY <1>1, <1>3, <2>1
  <2>. QED  BY <2>2 DEF RequestsGenuine, Elements
<1>4. ASSUME NEW r \in Request, pc[r] = "write",
             sent' = Append(sent, [op |-> "insert", rid |-> rid[r], arg |-> r])
      PROVE  RequestsGenuine'
  <2>1. rid[r] \in Nat /\ rid[r] # 0 /\ rid'[r] = rid[r]
    BY <1>0, <1>4 DEF Provenance, HasId, Grows, TypeOK
  <2>2. PICK q \in DbRequest : q = [op |-> "insert", rid |-> rid[r], arg |-> r]
    BY <2>1, RequestTypes
  <2>3. Good(q)'
    BY <2>1, <2>2
  <2>. QED  BY <1>3, <1>4, <2>2, <2>3
<1>5. CASE sent' = Append(sent, [op |-> "monitor", rid |-> lrid, arg |-> uid])
  <2>1. lrid \in Nat /\ uid \in Nat
    BY DEF TypeOK
  <2>2. PICK q \in DbRequest :
            q = [op |-> "monitor", rid |-> lrid, arg |-> uid]
    BY <2>1, RequestTypes
  <2>3. Good(q)'
    BY <2>2
  <2>. QED  BY <1>3, <1>5, <2>2, <2>3
<1>6. ASSUME NEW op \in {"deleteGw", "deleteFb"},
             lpc \in {"deleteGw", "deleteFb"},
             sent' = Append(sent, [op |-> op, rid |-> lrid, arg |-> msg.uuid])
      PROVE  RequestsGenuine'
  <2>1. lrid \in Nat /\ msg.uuid \in Nat
    BY DEF TypeOK, DbMessage
  <2>2. PICK q \in DbRequest : q = [op |-> op, rid |-> lrid, arg |-> msg.uuid]
    BY <2>1, RequestTypes
  <2>3. Own(msg.uuid)
    BY <1>6 DEF Provenance, HandledGenuine
  <2>4. \A u : u = msg.uuid => Own(u)'
    BY <1>0, <2>3, StillGenuine
  <2>5. Good(q)'
    BY <2>2, <2>4
  <2>. QED  BY <1>3, <1>6, <2>2, <2>5
<1>. QED  BY <1>2, <1>4, <1>5, <1>6, SentChanges

\* The agent answers rows that exist.
LEMMA VerdictsStayOnRows ==
    ASSUME TypeOK, Provenance, [Next]_vars
    PROVE  VerdictsOnRows'
<1>0. Grows
  BY StepGrows DEF Provenance
<1>1. CASE agent
  <2>1. PICK u \in 1 .. Len(inserted), s \in Verdicts : agent_feedback(u, s)
    BY <1>1 DEF agent
  <2>. QED  BY <1>0, <2>1 DEF agent_feedback, Provenance, VerdictsOnRows, Grows
<1>2. CASE ~agent
  <2>1. verdicts' = verdicts
    <3>1. CASE \E r \in Request : client(r)
      BY <3>1 DEF client, proceed, interact, id_generate, set_blocked,
                  insert_transaction, evict_transaction, remove_load,
                  remove_clear, evict_clear, delete_clear, store_transaction,
                  write_register, write_link, write_sent, write_failed,
                  wait_lock, wait_woken, wait_spurious, wait_return,
                  wait_timeout, cleanup, dbVars
    <3>2. CASE ~ \E r \in Request : client(r)
      BY <1>2, <3>2 DEF Next, ovsdb_listen, listen, write_callback,
                        call_number, call_id_generate, call_register,
                        call_link, send_monitor_feedback_request,
                        receipt_unlink, receipt_unlink_store, complete_find,
                        complete_remove, complete_load, complete_clear,
                        complete_callback, delete_gateway_config,
                        delete_feedback, delete_row, signal_test, signal_wake,
                        listen_exit, db_execute, other_insert, idle, vars,
                        dbVars
    <3>. QED  BY <3>1, <3>2
  <2>. QED  BY <1>0, <2>1 DEF Provenance, VerdictsOnRows, Grows
<1>. QED  BY <1>1, <1>2

\* Replies carry the uuid of the row of their request, updates a verdict given.
LEMMA MessagesStayGenuine ==
    ASSUME TypeOK, Provenance, [Next]_vars
    PROVE  MessagesGenuine'
<1>0. Grows /\ HasId' /\ inbox \in Seq(DbMessage)
  BY StepGrows DEF Provenance, TypeOK
<1>1. \A m \in Elements(inbox) : Genuine(m)'
  BY <1>0, StillGenuine DEF Provenance, MessagesGenuine
<1>2. CASE inbox' = inbox \/ inbox' = <<>> \/ (inbox # <<>> /\ inbox' = Tail(inbox))
  <2>1. Elements(inbox') \subseteq Elements(inbox)
    BY <1>0, <1>2, ElementsEmpty, ElementsDequeued
  <2>2. \A m \in Elements(inbox') : Genuine(m)'
    BY <1>1, <2>1
  <2>. QED  BY <2>2 DEF MessagesGenuine, Elements
<1>3. ASSUME NEW m \in DbMessage, inbox' = Append(inbox, m), Genuine(m)'
      PROVE  MessagesGenuine'
  <2>1. \A x \in Elements(inbox') : x \in Elements(inbox) \/ x = m
    BY <1>0, <1>3, ElementsQueued
  <2>2. \A x \in Elements(inbox') : Genuine(x)'
    BY <1>1, <1>3, <2>1
  <2>. QED  BY <2>2 DEF MessagesGenuine, Elements
<1>4. ASSUME sent # <<>>
      PROVE  /\ Head(sent) \in DbRequest /\ Head(sent).rid \in Nat
             /\ Head(sent) \in Elements(sent)
             /\ Head(sent).op = "insert" => Head(sent).arg \in Request
  BY <1>4, Dequeued, ElementsDequeued, RequestFields DEF TypeOK
<1>5. ASSUME sent # <<>>, Head(sent).op = "insert",
             inserted' = Append(inserted, Head(sent).arg),
             inbox' = Append(inbox, Reply(Head(sent).rid, Len(inserted) + 1))
      PROVE  MessagesGenuine'
  <2>1. PICK q : /\ q = Head(sent) /\ q.rid = rid[q.arg] /\ q.rid # 0
                 /\ q.arg \in Request /\ q.rid \in Nat
    BY <1>4, <1>5 DEF Provenance, RequestsGenuine
  <2>2. PICK u \in Nat : /\ u = Len(inserted) + 1
                         /\ u \in 1 .. Len(inserted') /\ inserted'[u] = q.arg
    <3>1. /\ inserted \in Seq(Request \cup {OtherComponent})
          /\ inserted' = Append(inserted, q.arg)
      BY <1>5, <2>1 DEF TypeOK
    <3>2. /\ Len(inserted) \in Nat /\ Len(inserted') = Len(inserted) + 1
          /\ inserted'[Len(inserted) + 1] = q.arg
      BY <2>1, <3>1, Queued
    <3>. QED  BY <3>2
  <2>3. PICK m \in DbMessage : m = Reply(q.rid, u)
    BY <2>1, <2>2, MessageTypes
  <2>4. m.kind = "reply" /\ m.rid = q.rid /\ m.uuid = u
    BY <2>3 DEF Reply
  <2>5. rid'[q.arg] = q.rid
    BY <1>0, <2>1 DEF Grows
  <2>6. Genuine(m)'
    BY <2>1, <2>2, <2>4, <2>5 DEF Genuine, RowOf, Own
  <2>. QED  BY <1>3, <1>5, <2>1, <2>2, <2>3, <2>6
<1>6. ASSUME sent # <<>>,
             \/ inbox' = Append(inbox, Reply(Head(sent).rid, NoUuid))
             \/ inbox' = Append(inbox, Done(Head(sent).rid))
      PROVE  MessagesGenuine'
  <2>1. /\ Reply(Head(sent).rid, NoUuid) \in DbMessage
        /\ Done(Head(sent).rid) \in DbMessage
    BY <1>4, <1>6, MessageTypes DEF NoUuid
  <2>2. \A m : /\ m = Reply(Head(sent).rid, NoUuid) => Genuine(m)'
               /\ m = Done(Head(sent).rid) => Genuine(m)'
    BY DEF Genuine, Reply, Done, NoUuid
  <2>. QED  BY <1>3, <1>6, <2>1, <2>2
<1>7. ASSUME NEW u \in 1 .. Len(inserted), NEW s \in Verdicts,
             [uuid |-> u, status |-> s] \in verdicts',
             inbox' = inbox \o [i \in 1 .. Len(dbMonitors) |->
                                   Update(dbMonitors[i], u, s)]
      PROVE  MessagesGenuine'
  <2> DEFINE us == [i \in 1 .. Len(dbMonitors) |-> Update(dbMonitors[i], u, s)]
  <2>1. u \in Nat /\ s \in {"SUCCESS", "FAILED"} /\ dbMonitors \in Seq(Nat)
    BY VerdictsAssumption, LenProperties DEF TypeOK
  <2>2. us \in Seq(DbMessage)
    BY <2>1, UpdatesType
  <2>3. \A x \in Elements(us) : x.kind = "update" /\ x.uuid = u /\ x.status = s
    <3>1. Len(dbMonitors) \in Nat /\ Len(us) = Len(dbMonitors)
      BY <2>1, <2>2, LenProperties
    <3>. QED  BY <3>1 DEF Update, Elements
  <2>. HIDE DEF us
  <2>4. \A x \in Elements(us) : Genuine(x)'
    BY <1>7, <2>3 DEF Genuine
  <2>5. \A x \in Elements(inbox') : x \in Elements(inbox) \/ x \in Elements(us)
    BY <1>0, <1>7, <2>2, ElementsJoined DEF us
  <2>6. \A x \in Elements(inbox') : Genuine(x)'
    BY <1>1, <2>4, <2>5
  <2>. QED  BY <2>6 DEF MessagesGenuine, Elements
<1>. QED  BY <1>2, <1>5, <1>6, <1>7, InboxChanges

\* The table takes a uuid only from the reply to an insert.
LEMMA TableStaysOwn ==
    ASSUME TypeOK, Provenance, [Next]_vars
    PROVE  TableOwn'
<1>0. Grows
  BY StepGrows DEF Provenance
<1> SUFFICES ASSUME NEW k \in Slot, table'[k] # NoTransaction,
                    table'[k].uuid # NoUuid
             PROVE  table'[k].uuid \in 1 .. Len(inserted')
                      /\ inserted'[table'[k].uuid] \in Request
  BY DEF TableOwn, Own
<1>1. CASE table'[k] = table[k]
  BY <1>0, <1>1, StillGenuine DEF Provenance, TableOwn, Own
<1>2. CASE \E r \in Request : table'[k] = create_transaction(rid[r], mode[r].callback, r)
  BY <1>2 DEF create_transaction
<1>3. CASE /\ lpc = "update" /\ table[k] # NoTransaction
           /\ table'[k] = [table[k] EXCEPT !.uuid = msg.uuid]
  <2>1. table[k] \in Transaction
    BY <1>3 DEF TypeOK, Table
  <2>2. table'[k].uuid = msg.uuid
    BY <1>3, <2>1 DEF Transaction
  <2>3. Own(msg.uuid)
    BY <1>3, <2>2 DEF Provenance, HandledGenuine, Genuine, RowOf
  <2>. QED  BY <1>0, <2>2, <2>3, StillGenuine DEF Own
<1>. QED  BY <1>1, <1>2, <1>3, TableChanges

\* The listen thread handles genuine messages, and completes only a Feedback
\* whose uuid it found in the table.
LEMMA HandledStaysGenuine ==
    ASSUME TypeOK, Provenance, [Next]_vars
    PROVE  HandledGenuine'
<1>0. Grows
  BY StepGrows DEF Provenance
<1>1. \A m : Genuine(m) => Genuine(m)'
  BY <1>0, StillGenuine
<1>2. \A u : Own(u) => Own(u)'
  BY <1>0, StillGenuine
<1>3. ASSUME msg' = msg,
             lpc' = "update" => lpc = "update",
             lpc' = "find" => lpc = "find",
             lpc' \in Completing => lpc \in Completing,
             lpc' \in {"deleteGw", "deleteFb"}
               => lpc \in {"callback", "deleteGw", "deleteFb"}
      PROVE  HandledGenuine'
  <2>1. Genuine(msg) /\ \A m : m = msg => Genuine(m)'
    BY <1>1 DEF Provenance, HandledGenuine
  <2>2. Genuine(msg)'
    BY <1>3, <2>1 DEF Genuine
  <2>3. Own(msg.uuid) => Own(msg.uuid)'
    BY <1>2, <1>3 DEF Own
  <2>. QED  BY <1>3, <2>2, <2>3 DEF Provenance, HandledGenuine, Completing
<1>4. ASSUME lpc' = "listen", msg' = NoMessage
      PROVE  HandledGenuine'
  <2>1. msg'.kind = "reply" /\ msg'.uuid = NoUuid
    BY <1>4 DEF NoMessage, Done
  <2>. QED  BY <1>4, <2>1 DEF HandledGenuine, Genuine, Completing
<1>5. CASE listen
  <2>1. Head(inbox) \in Elements(inbox)
    BY <1>5, ElementsDequeued DEF listen, TypeOK
  <2>2. Genuine(Head(inbox)) /\ \A m : m = Head(inbox) => Genuine(m)'
    BY <1>1, <2>1 DEF Provenance, MessagesGenuine
  <2>3. CASE lpc' = "listen" /\ msg' = NoMessage
    BY <1>4, <2>3
  <2>4. CASE /\ \E node : lpc' = listen_dispatch(Head(inbox), node)
             /\ msg' = Head(inbox)
    <3>1. Genuine(msg)'
      BY <2>2, <2>4 DEF Genuine
    <3>2. /\ lpc' \in {"update", "unlink", "find", "listen"}
          /\ lpc' = "update" => msg'.kind = "reply"
          /\ lpc' = "find" => msg'.kind = "update"
      BY <2>4, DispatchKinds
    <3>. QED  BY <3>1, <3>2 DEF HandledGenuine, Completing
  <2>. QED  BY <1>5, <2>3, <2>4 DEF listen, BackToListen
<1>6. CASE complete_find
  <2>1. CASE lpc' = "listen" /\ msg' = NoMessage
    BY <1>4, <2>1
  <2>2. CASE Matching(table, msg.uuid) # {} /\ lpc' = "remove" /\ msg' = msg
    <3>1. PICK k \in Slot : table[k] # NoTransaction /\ table[k].uuid = msg.uuid
      BY <2>2 DEF Matching
    <3>2. Genuine(msg) /\ msg.kind = "update"
      BY <1>6 DEF complete_find, Provenance, HandledGenuine
    <3>3. [uuid |-> msg.uuid, status |-> msg.status] \in verdicts
      BY <3>2 DEF Genuine
    <3>4. msg.uuid \in 1 .. Len(inserted)
      BY <3>3 DEF Provenance, VerdictsOnRows
    <3>5. msg.uuid # NoUuid
      BY <3>4 DEF NoUuid
    <3>6. Own(msg.uuid)
      BY <3>1, <3>5 DEF Provenance, TableOwn
    <3>7. Own(msg.uuid)'
      BY <1>2, <2>2, <3>6 DEF Own
    <3>8. Genuine(msg)'
      <4>1. \A m : m = msg => Genuine(m)'
        BY <1>1, <3>2
      <4>. QED  BY <2>2, <4>1 DEF Genuine
    <3>. QED  BY <2>2, <3>2, <3>7, <3>8 DEF HandledGenuine, Completing
  <2>. QED  BY <1>6, <2>1, <2>2 DEF complete_find, BackToListen
<1>7. CASE \E r \in Request : client(r)
  <2>1. lpc' = lpc /\ msg' = msg
    BY <1>7 DEF client, proceed, interact, id_generate, set_blocked,
                insert_transaction, evict_transaction, remove_load,
                remove_clear, evict_clear, delete_clear, store_transaction,
                write_register, write_link, write_sent, write_failed,
                wait_lock, wait_woken, wait_spurious, wait_return,
                wait_timeout, cleanup, listenVars
  <2>. QED  BY <1>3, <2>1
<1>8. CASE \/ write_callback \/ CallStep \/ receipt_unlink
           \/ receipt_unlink_store \/ complete_remove \/ complete_load
           \/ complete_clear \/ complete_callback
  <2>1. \/ lpc' = "listen" /\ msg' = NoMessage
        \/ /\ msg' = msg
           /\ \/ lpc' = lpc
              \/ lpc' \in {"unlink", "unlink_store", "monitor",
                           "monitor_request", "signal"}
              \/ lpc = "remove" /\ lpc' = "load"
              \/ lpc = "load" /\ lpc' = "clear"
              \/ lpc = "clear" /\ lpc' = "callback"
              \/ lpc = "callback" /\ lpc' = "deleteGw"
              \/ lpc = "deleteGw" /\ lpc' = "deleteFb"
    BY <1>8 DEF write_callback, CallStep, call_number, call_id_generate,
              call_register, call_link, send_monitor_feedback_request,
              receipt_unlink, receipt_unlink_store, complete_remove,
              complete_load, complete_clear, complete_callback,
              delete_gateway_config, delete_feedback, delete_row,
              GoOn, BackToListen
  <2>. QED  BY <1>3, <1>4, <2>1 DEF Completing
<1>9. CASE \/ signal_test \/ signal_wake \/ listen_exit \/ db_execute
           \/ other_insert \/ agent \/ idle \/ UNCHANGED vars
  <2>1. \/ lpc' = "listen" /\ msg' = NoMessage
        \/ msg' = msg /\ (lpc' = lpc \/ lpc' \in {"wake", "exited"})
    BY <1>9 DEF signal_test, signal_wake, listen_exit, db_execute, other_insert,
              agent, agent_feedback, idle, vars, GoOn, BackToListen, listenVars
  <2>. QED  BY <1>3, <1>4, <2>1 DEF Completing
<1>. QED  BY <1>5, <1>6, <1>7, <1>8, <1>9 DEF Next, ovsdb_listen, CallStep

\* Nothing is on the way at first.
LEMMA ProvenanceInit == Init => Provenance
<1> SUFFICES ASSUME Init PROVE Provenance
  OBVIOUS
<1>1. Elements(sent) = {} /\ Elements(inbox) = {}
  BY ElementsEmpty DEF Init
<1>2. msg.kind = "reply" /\ msg.uuid = NoUuid
  BY DEF Init, NoMessage, Done
<1>3. HandledGenuine
  BY <1>2 DEF Init, HandledGenuine, Genuine, Completing
<1>4. TableOwn
  BY DEF Init, TableOwn, init_transaction_table
<1>. QED  BY <1>1, <1>3, <1>4 DEF Init, Provenance, HasId, RequestsGenuine,
             MessagesGenuine, VerdictsOnRows

\* Every uuid keeps coming from where it claims to.
LEMMA ProvenanceNext ==
    ASSUME TypeOK, Provenance, [Next]_vars
    PROVE  Provenance'
<1>1. HasId'
  BY StepGrows DEF Provenance
<1>. QED  BY <1>1, RequestsStayGenuine, MessagesStayGenuine,
             HandledStaysGenuine, VerdictsStayOnRows, TableStaysOwn DEF Provenance

\* Requests, messages, the listen thread and the table name the rows they are
\* about.
THEOREM ProvenanceCorrect == Spec => []Provenance
<1>1. TypeOK /\ Provenance /\ [Next]_vars => Provenance'
  BY ProvenanceNext
<1>. QED  BY <1>1, ProvenanceInit, TypeCorrect, PTL DEF Spec

\* The monitor tells the component of every Feedback on the gateway, and slots
\* of the table may be shared, but no row of another component is ever deleted.
THEOREM OthersRowsCorrect == Spec => OthersRowsUntouched
<1>1. TypeOK /\ Provenance /\ [Next]_vars =>
        [\A u \in (gwRows \ gwRows') \cup (fbRows \ fbRows') :
             inserted[u] # OtherComponent]_vars
  <2> SUFFICES ASSUME TypeOK, Provenance, [Next]_vars,
                      NEW u \in (gwRows \ gwRows') \cup (fbRows \ fbRows')
               PROVE  inserted[u] # OtherComponent
    OBVIOUS
  <2>1. CASE db_execute
    <3>1. Head(sent).op \in {"deleteGw", "deleteFb"} /\ u = Head(sent).arg
      BY <2>1 DEF db_execute
    <3>2. Head(sent) \in Elements(sent)
      BY <2>1, ElementsDequeued DEF db_execute, TypeOK
    <3>3. Own(u)
      BY <3>1, <3>2 DEF Provenance, RequestsGenuine
    <3>. QED  BY <3>3 DEF Own, Request, OtherComponent
  <2>2. CASE ~db_execute
    <3>1. gwRows \subseteq gwRows' /\ fbRows \subseteq fbRows'
      <4>1. CASE \E r \in Request : client(r)
        BY <4>1 DEF client, proceed, interact, id_generate, set_blocked,
                    insert_transaction, evict_transaction, remove_load,
                    remove_clear, evict_clear, delete_clear, store_transaction,
                    write_register, write_link, write_sent, write_failed,
                    wait_lock, wait_woken, wait_spurious, wait_return,
                    wait_timeout, cleanup, dbVars
      <4>2. CASE ~ \E r \in Request : client(r)
        BY <2>2, <4>2 DEF Next, ovsdb_listen, listen, write_callback,
                          call_number, call_id_generate, call_register,
                          call_link, send_monitor_feedback_request,
                          receipt_unlink, receipt_unlink_store, complete_find,
                          complete_remove, complete_load, complete_clear,
                          complete_callback, delete_gateway_config,
                          delete_feedback, delete_row, signal_test,
                          signal_wake, listen_exit, other_insert, agent,
                          agent_feedback, idle, vars, dbVars
      <4>. QED  BY <4>1, <4>2
    <3>. QED  BY <3>1
  <2>. QED  BY <2>1, <2>2
<1>. QED  BY <1>1, TypeCorrect, ProvenanceCorrect, PTL DEF Spec, OthersRowsUntouched

----------------------------------------------------------------------------
(* Whose status.  With a slot for every request issued so far, a receipt   *)
(* finds the entry of its own request, and what complete_load finds in the *)
(* slot is still an entry of the request complete_find saw.                *)

TableKnowsRow ==
    \A k \in Slot : table[k] # NoTransaction /\ table[k].uuid # NoUuid
        => inserted[table[k].uuid] = table[k].config

CompletesOwn ==
    /\ lpc \in {"remove", "load"} => key = hash_code(rid[inserted[msg.uuid]])
                                     /\ rid[inserted[msg.uuid]] # 0
    /\ lpc \in {"clear", "callback"} =>
           entry = NoTransaction \/ entry.config = inserted[msg.uuid]

ToldOwn ==
    \A r \in Request : \A i \in 1 .. Len(delivered[r]) :
        \E v \in verdicts : /\ inserted[v.uuid] = r
                            /\ v.status = delivered[r][i]

StatusInv == NoSlotSharing => TableKnowsRow /\ CompletesOwn /\ ToldOwn

\* Ids are only added: what is not shared after a step was not before it.
LEMMA SharingStays ==
    ASSUME Grows, NoSlotSharing'
    PROVE  NoSlotSharing
<1>1. \A r, s \in Request : r # s /\ rid[r] # 0 /\ rid[s] # 0
        => rid'[r] = rid[r] /\ rid'[s] = rid[s]
  BY DEF Grows
<1>. QED  BY <1>1 DEF NoSlotSharing

\* The entry in the slot of a request's id is the entry of that request.
LEMMA OneInSlot ==
    ASSUME TypeOK, EntriesInPlace, HasId, NoSlotSharing,
           NEW r \in Request, rid[r] # 0,
           NEW k \in Slot, k = hash_code(rid[r]), table[k] # NoTransaction
    PROVE  table[k].config = r
<1>1. table[k].config \in Request
  BY DEF TypeOK, Table, Transaction
<1>2. /\ k = hash_code(rid[table[k].config])
      /\ pc[table[k].config] # "ready"
  BY DEF EntriesInPlace, EntryInPlace, PastStore
<1>3. rid[table[k].config] # 0
  BY <1>1, <1>2 DEF HasId
<1>. QED  BY <1>1, <1>2, <1>3 DEF NoSlotSharing

\* While no slot is shared, a late receipt updates its own entry.
LEMMA TableKeepsRow ==
    ASSUME TypeOK, EntriesInPlace, Provenance, NoSlotSharing, TableKnowsRow,
           [Next]_vars
    PROVE  TableKnowsRow'
<1>0. Grows
  BY StepGrows DEF Provenance
<1> SUFFICES ASSUME NEW k \in Slot, table'[k] # NoTransaction,
                    table'[k].uuid # NoUuid
             PROVE  inserted'[table'[k].uuid] = table'[k].config
  BY DEF TableKnowsRow
<1>1. CASE table'[k] = table[k]
  <2>1. Own(table[k].uuid) /\ inserted[table[k].uuid] = table[k].config
    BY <1>1 DEF Provenance, TableOwn, TableKnowsRow
  <2>. QED  BY <1>0, <1>1, <2>1, StillGenuine
<1>2. CASE \E r \in Request : table'[k] = create_transaction(rid[r], mode[r].callback, r)
  BY <1>2 DEF create_transaction
<1>3. CASE /\ lpc = "update" /\ k = hash_code(msg.rid) /\ table[k] # NoTransaction
           /\ table'[k] = [table[k] EXCEPT !.uuid = msg.uuid]
  <2>1. table[k] \in Transaction
    BY <1>3 DEF TypeOK, Table
  <2>2. table'[k].uuid = msg.uuid /\ table'[k].config = table[k].config
    BY <1>3, <2>1 DEF Transaction
  <2>3. Own(msg.uuid) /\ rid[inserted[msg.uuid]] = msg.rid /\ msg.rid # 0
    BY <1>3, <2>2 DEF Provenance, HandledGenuine, Genuine, RowOf
  <2>4. inserted[msg.uuid] \in Request
    BY <2>3 DEF Own
  <2>5. table[k].config = inserted[msg.uuid]
    BY <1>3, <2>3, <2>4, OneInSlot DEF Provenance
  <2>. QED  BY <1>0, <2>2, <2>3, <2>5, StillGenuine
<1>. QED  BY <1>1, <1>2, <1>3, TableChanges

\* While no slot is shared, the entry completed is the one the Feedback is for.
LEMMA CompletionStaysOwn ==
    ASSUME TypeOK, EntriesInPlace, Provenance, NoSlotSharing, TableKnowsRow,
           CompletesOwn, [Next]_vars
    PROVE  CompletesOwn'
<1>0. Grows
  BY StepGrows DEF Provenance
<1> USE DEF Completing
<1>1. CASE lpc' \notin Completing
  BY <1>1 DEF CompletesOwn
<1>2. CASE complete_find /\ lpc' = "remove"
  <2>1. /\ Matching(table, msg.uuid) # {} /\ msg' = msg /\ inserted' = inserted
        /\ rid' = rid /\ key' = find_transaction_key(table, msg.uuid)
    BY <1>2 DEF complete_find, BackToListen, dbVars, clientVars
  <2>2. table \in Table /\ msg.uuid \in Nat
    BY DEF TypeOK, DbMessage
  <2>3. key' \in Matching(table, msg.uuid)
    BY <2>1, <2>2, FindKey
  <2>4. key' \in Slot /\ table[key'] # NoTransaction /\ table[key'].uuid = msg.uuid
    BY <2>3 DEF Matching
  <2>5. msg.uuid # NoUuid
    <3>1. [uuid |-> msg.uuid, status |-> msg.status] \in verdicts
      BY <1>2 DEF complete_find, Provenance, HandledGenuine, Genuine
    <3>2. msg.uuid \in 1 .. Len(inserted)
      BY <3>1 DEF Provenance, VerdictsOnRows
    <3>. QED  BY <3>2 DEF NoUuid
  <2>6. inserted[msg.uuid] = table[key'].config
    BY <2>4, <2>5 DEF TableKnowsRow
  <2>7. /\ key' = hash_code(rid[table[key'].config])
        /\ pc[table[key'].config] # "ready"
    BY <2>4 DEF EntriesInPlace, EntryInPlace, PastStore
  <2>8. table[key'].config \in Request
    BY <2>2, <2>4 DEF Table, Transaction
  <2>. QED  BY <1>2, <2>1, <2>6, <2>7, <2>8 DEF CompletesOwn, Provenance, HasId
<1>3. CASE complete_load
  <2>1. /\ entry' = table[key] /\ lpc = "load" /\ lpc' = "clear"
        /\ msg' = msg /\ inserted' = inserted
    BY <1>3 DEF complete_load, dbVars
  <2>2. /\ key \in Slot /\ inserted[msg.uuid] \in Request
        /\ key = hash_code(rid[inserted[msg.uuid]])
        /\ rid[inserted[msg.uuid]] # 0
    BY <2>1 DEF TypeOK, CompletesOwn, Provenance, HandledGenuine, Own
  <2>3. table[key] # NoTransaction => table[key].config = inserted[msg.uuid]
    BY <2>1, <2>2, OneInSlot DEF Provenance
  <2>. QED  BY <2>1, <2>3 DEF CompletesOwn
<1>4. CASE /\ UNCHANGED <<msg, key, entry>> /\ lpc \in Completing
           /\ \/ lpc' = lpc
              \/ lpc = "remove" /\ lpc' = "load"
              \/ lpc = "clear" /\ lpc' = "callback"
  <2>1. Own(msg.uuid) /\ inserted'[msg.uuid] = inserted[msg.uuid]
    BY <1>0, <1>4, StillGenuine DEF Provenance, HandledGenuine
  <2>2. lpc \in {"remove", "load"}
          => rid'[inserted[msg.uuid]] = rid[inserted[msg.uuid]]
    BY <1>0, <2>1 DEF Grows, CompletesOwn, Own
  <2>. QED  BY <1>4, <2>1, <2>2 DEF CompletesOwn
<1>5. CASE \E r \in Request : client(r)
  <2>1. UNCHANGED <<lpc, msg, key, entry>>
    BY <1>5 DEF client, proceed, interact, id_generate, set_blocked,
                insert_transaction, evict_transaction, remove_load,
                remove_clear, evict_clear, delete_clear, store_transaction,
                write_register, write_link, write_sent, write_failed,
                wait_lock, wait_woken, wait_spurious, wait_return,
                wait_timeout, cleanup, listenVars
  <2>. QED  BY <1>1, <1>4, <2>1
<1>6. CASE db_execute \/ other_insert \/ agent \/ idle \/ UNCHANGED vars
  <2>1. UNCHANGED <<lpc, msg, key, entry>>
    BY <1>6 DEF db_execute, other_insert, agent, agent_feedback, idle, vars,
              listenVars
  <2>. QED  BY <1>1, <1>4, <2>1
<1>7. CASE \/ listen \/ write_callback \/ CallStep \/ receipt_unlink
           \/ receipt_unlink_store \/ complete_callback \/ signal_test
           \/ signal_wake \/ listen_exit
  <2>1. lpc' \notin Completing \/ (CallStep /\ lpc' = lpc)
    BY <1>7, DispatchKinds
       DEF listen, write_callback, CallStep, call_number, call_id_generate,
           call_register, call_link, send_monitor_feedback_request,
           receipt_unlink, receipt_unlink_store, complete_callback,
           delete_gateway_config, delete_feedback, delete_row, signal_test,
           signal_wake, listen_exit, GoOn, BackToListen
  <2>2. CallStep /\ lpc' = lpc => UNCHANGED <<msg, key, entry>>
    BY DEF CallStep, call_number, call_id_generate, call_register, call_link,
           send_monitor_feedback_request, delete_gateway_config,
           delete_feedback, delete_row, GoOn, BackToListen
  <2>. QED  BY <1>1, <1>4, <2>1, <2>2
<1>8. CASE complete_find \/ complete_remove \/ complete_clear
  <2>1. \/ lpc' = "listen"
        \/ complete_find /\ lpc' = "remove"
        \/ /\ UNCHANGED <<msg, key, entry>>
           /\ \/ lpc = "remove" /\ lpc' = "load"
              \/ lpc = "clear" /\ lpc' = "callback"
    BY <1>8 DEF complete_find, complete_remove, complete_clear, GoOn, BackToListen
  <2>. QED  BY <1>1, <1>2, <1>4, <2>1
<1>. QED  BY <1>3, <1>5, <1>6, <1>7, <1>8 DEF Next, ovsdb_listen, CallStep

\* So the status reported is one given to the own row.
LEMMA StatusesStayOwn ==
    ASSUME TypeInv, Provenance, CompletesOwn, ToldOwn, [Next]_vars
    PROVE  ToldOwn'
<1>0. TypeOK /\ Grows /\ VerdictsOnRows
  BY StepGrows DEF Provenance, TypeInv
<1> DEFINE Reported(r, s) == \E v \in verdicts : inserted[v.uuid] = r /\ v.status = s
<1>1. \A r, s : Reported(r, s) => Reported(r, s)'
  BY <1>0 DEF Grows, VerdictsOnRows
<1>2. CASE delivered' = delivered
  <2>1. \A r \in Request : \A i \in 1 .. Len(delivered[r]) :
            Reported(r, delivered[r][i])
    BY DEF ToldOwn
  <2>. HIDE DEF Reported
  <2>2. ASSUME NEW r \in Request, NEW i \in 1 .. Len(delivered'[r]),
               NEW z, z = delivered'[r][i]
        PROVE  Reported(r, z)'
    BY <1>1, <1>2, <2>1, <2>2
  <2>. QED  BY <2>2 DEF ToldOwn, Reported
<1>3. CASE complete_callback /\ entry.callback
  <2> DEFINE c == entry.config
  <2>1. /\ lpc = "callback"
        /\ delivered' = [delivered EXCEPT ![c] = Append(@, msg.status)]
    BY <1>3 DEF complete_callback
  <2>2. c = inserted[msg.uuid] /\ c \in Request
    BY <2>1 DEF CompletesOwn, Provenance, HandledGenuine, Own, TypeInv, Completing
  <2>3. [uuid |-> msg.uuid, status |-> msg.status] \in verdicts
    BY <2>1 DEF Provenance, HandledGenuine, Genuine, Completing
  <2>4. Reported(c, msg.status)
    BY <2>2, <2>3
  <2>5. PICK x, y : x = c /\ y = msg.status /\ Reported(x, y) /\ Reported(x, y)'
    BY <1>1, <2>4
  <2>6. /\ delivered[c] \in Seq({"SUCCESS", "FAILED"})
        /\ msg.status \in {"SUCCESS", "FAILED"}
        /\ delivered \in [Request -> Seq({"SUCCESS", "FAILED"})]
    BY <1>0, <2>2 DEF TypeOK, DbMessage
  <2>7. /\ Len(delivered[c]) \in Nat
        /\ Len(delivered'[c]) = Len(delivered[c]) + 1
        /\ \A i \in 1 .. Len(delivered[c]) : delivered'[c][i] = delivered[c][i]
        /\ delivered'[c][Len(delivered[c]) + 1] = msg.status
        /\ \A r \in Request \ {c} : delivered'[r] = delivered[r]
    BY <2>1, <2>2, <2>6, Queued
  <2>8. \A r \in Request : \A i \in 1 .. Len(delivered[r]) :
            Reported(r, delivered[r][i])
    BY DEF ToldOwn
  <2>. HIDE DEF c, Reported
  <2>9. ASSUME NEW r \in Request, NEW i \in 1 .. Len(delivered'[r]),
               NEW z, z = delivered'[r][i]
        PROVE  Reported(r, z)'
    <3>1. CASE r = c /\ i = Len(delivered[c]) + 1
      BY <2>5, <2>7, <2>9, <3>1
    <3>2. CASE ~ (r = c /\ i = Len(delivered[c]) + 1)
      <4>1. i \in 1 .. Len(delivered[r]) /\ z = delivered[r][i]
        BY <2>7, <2>9, <3>2
      <4>. QED  BY <1>1, <2>8, <4>1
    <3>. QED  BY <3>1, <3>2
  <2>. QED  BY <2>9 DEF ToldOwn, Reported
<1>4. CASE ~ (complete_callback /\ entry.callback)
  <2>1. delivered' = delivered
    <3> USE DEF history
    <3>1. CASE \E r \in Request : client(r)
      BY <3>1 DEF client, proceed, interact, id_generate, set_blocked,
                  insert_transaction, evict_transaction, remove_load,
                  remove_clear, evict_clear, delete_clear, store_transaction,
                  write_register, write_link, write_sent, write_failed,
                  wait_lock, wait_woken, wait_spurious, wait_return,
                  wait_timeout, cleanup
    <3>2. CASE ~ \E r \in Request : client(r)
      BY <1>4, <3>2 DEF Next, ovsdb_listen, listen, write_callback,
                        call_number, call_id_generate, call_register,
                        call_link, send_monitor_feedback_request,
                        receipt_unlink, receipt_unlink_store, complete_find,
                        complete_remove, complete_load, complete_clear,
                        complete_callback, delete_gateway_config,
                        delete_feedback, delete_row, signal_test, signal_wake,
                        listen_exit, db_execute, other_insert, agent,
                        agent_feedback, idle, vars
    <3>. QED  BY <3>1, <3>2
  <2>. QED  BY <1>2, <2>1
<1>. QED  BY <1>3, <1>4

\* A callback is told the status that the agent reported for the row of its own
\* configuration, as long as no two requests share a slot: neither a stale
\* receipt, nor a late answer, nor the row of another component, nor the gap
\* between finding and removing an entry puts a foreign status into it.
THEOREM StatusCorrect == Spec => []ToldOwnStatus
<1>1. Init => StatusInv
  <2> SUFFICES ASSUME Init PROVE TableKnowsRow /\ CompletesOwn /\ ToldOwn
    BY DEF StatusInv
  <2>1. \A r \in Request : Len(delivered[r]) = 0
    BY EmptySeq DEF Init
  <2>. QED  BY <2>1 DEF Init, TableKnowsRow, CompletesOwn, ToldOwn,
                        init_transaction_table
<1>2. TypeInv /\ EntriesInPlace /\ Provenance /\ StatusInv /\ [Next]_vars => StatusInv'
  <2> SUFFICES ASSUME TypeInv, EntriesInPlace, Provenance, StatusInv, [Next]_vars,
                      NoSlotSharing'
               PROVE  TableKnowsRow' /\ CompletesOwn' /\ ToldOwn'
    BY DEF StatusInv
  <2>1. TypeOK /\ NoSlotSharing
    BY StepGrows, SharingStays DEF Provenance, TypeInv
  <2>. QED  BY <2>1, TableKeepsRow, CompletionStaysOwn, StatusesStayOwn DEF StatusInv
<1>3. StatusInv => ToldOwnStatus
  BY DEF StatusInv, ToldOwn, ToldOwnStatus
<1>. QED  BY <1>1, <1>2, <1>3, TypeInvariant, EntriesStayInPlace,
             ProvenanceCorrect, PTL DEF Spec
=============================================================================
