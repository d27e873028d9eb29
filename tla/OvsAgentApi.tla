---------------------------- MODULE OvsAgentApi ----------------------------
(***************************************************************************)
(* One RDKB component that uses the OvsAgentApi library.  Client threads   *)
(* run ovs_agent_api_interact; the library's listen thread (ovsdb_listen)  *)
(* runs every callback.  The two sides share, without a lock, the          *)
(* transaction table, the id generator, the receipt list and the flag      *)
(* blocked, and meet in a condition variable.  OVSDB is a FIFO connection; *)
(* the OvsAgent process answers each Gateway_Config row with a Feedback    *)
(* row, at any later time.                                                 *)
(*                                                                         *)
(* A step is one access to state the two sides share: id_generate is a     *)
(* load and a store, receipt_list_add a walk and a link, the unlinking of  *)
(* a receipt a load and a store, and the removal of a transaction a test,  *)
(* a load and a store.  Every critical section of the mutex is a single    *)
(* step, so the mutex itself is not a variable.  malloc succeeds, and a    *)
(* socket write sends all or nothing.  What an overlap does to the nodes   *)
(* of the receipt list is the subject of ReceiptList; here the list loses  *)
(* the certainty that a node in it is found.                               *)
(***************************************************************************)
EXTENDS TransactionTable, Sequences, FiniteSets

CONSTANTS
    Threads,        \* bound: client threads inside ovs_agent_api_interact
    Modes,          \* the [block, callback] combinations clients use
    MaxOtherRows,   \* bound: Gateway_Config rows other components insert
    StartingId,     \* cid * OVS_STARTING_ID_MULTIPLIER
    Verdicts,       \* statuses the agent may report
    Faults,         \* which of "write", "reject" and "drop" may happen
    Meetings        \* bound: the windows in which two threads may meet

ASSUME ThreadsAssumption    == Threads \in Nat \ {0}
ASSUME ModesAssumption      == Modes \subseteq [block: BOOLEAN, callback: BOOLEAN]
ASSUME MaxOtherRowsAssumption == MaxOtherRows \in Nat
ASSUME StartingIdAssumption == StartingId \in Nat
ASSUME VerdictsAssumption   == Verdicts \subseteq {"SUCCESS", "FAILED"}
ASSUME FaultsAssumption     == Faults \subseteq {"write", "reject", "drop"}
ASSUME MeetingsAssumption   == Meetings \subseteq {"id", "list", "table"}

VARIABLES
    pc,              \* where the client thread serving a request is
    mode,            \* block mode and callback of a request
    rid,             \* its request id, 0 before id_generate
    status,          \* the local variable status of its call
    hand,            \* the entry its call took from the table, not yet freed
    table,           \* the transaction table
    id,              \* last value of id_generate
    blocked,         \* g_handle->blocked
    monitorFeedback, \* g_handle->monitorFeedback
    receipts,        \* receipt list, first node first: [rid, cb]
    monitors,        \* monitor update list: unique ids, oldest first
    lpc,             \* where the listen thread is
    msg,             \* the message it is handling
    key,             \* slot found by find_transaction_key
    entry,           \* transaction complete_transaction took from the table
    call,            \* where the listen thread is in a call of the DB layer
    lrid,            \* the id that call has generated
    uid,             \* the unique id of the monitor it asks for
    sent,            \* connection, component to OVSDB
    inbox,           \* connection, OVSDB to component
    inserted,        \* inserted[u] is the request whose row has uuid u
    gwRows,          \* uuids now in Gateway_Config
    fbRows,          \* uuids now in Feedback
    verdicts,        \* every Feedback ever inserted: [uuid, status]
    dbMonitors,      \* monitors the server keeps for this connection
    delivered,       \* history: statuses each request's callback received
    destroyed,       \* history: how often a request's transaction was freed
    overlapped       \* history: the windows in which two threads have met

callVars   == <<call, lrid, uid>>
clientVars == <<pc, mode, rid, status, hand>>
listenVars == <<lpc, msg, key, entry, callVars>>
apiVars    == <<table, id, blocked, monitorFeedback, receipts, monitors>>
dbVars     == <<inserted, gwRows, fbRows, verdicts, dbMonitors>>
wireVars   == <<sent, inbox>>
history    == <<delivered, destroyed, overlapped>>
vars == <<clientVars, listenVars, apiVars, dbVars, wireVars, history>>

----------------------------------------------------------------------------
(* Messages and program points *)

OtherComponent == 0     \* owner of a row this component did not insert

NoMode == [block |-> FALSE, callback |-> FALSE]

\* arg is the request whose configuration is inserted, the unique id of the
\* monitor, or the uuid in the condition of a delete.
DbRequest ==
    [op: {"insert"}, rid: Nat, arg: Request]
        \cup [op: {"monitor", "deleteGw", "deleteFb"}, rid: Nat, arg: Nat]

DbMessage == [kind: {"reply", "update"}, rid: Nat, uuid: Nat,
              status: {"SUCCESS", "FAILED"}]

Reply(n, uuid)        == [kind |-> "reply", rid |-> n, uuid |-> uuid,
                          status |-> IF uuid = NoUuid THEN "FAILED" ELSE "SUCCESS"]
Done(n)               == [kind |-> "reply", rid |-> n, uuid |-> NoUuid,
                          status |-> "SUCCESS"]
Update(n, uuid, s)    == [kind |-> "update", rid |-> n, uuid |-> uuid,
                          status |-> s]
NoMessage             == Done(0)

Receipt == [rid: Nat, cb: {"write", "dummy"}]

DummyReceipt(n) == [rid |-> n, cb |-> "dummy"]

\* "TIMED_OUT" stands for OVS_TIMED_WAIT_ERROR_STATUS as well: the code treats
\* the two alike.
Status == {"UNSET", "SUCCESS", "FAILED", "TIMED_OUT"}

ClientPoint == {"ready", "number", "block", "insert", "evict", "evict_load",
                "evict_clear", "store", "register", "link", "write", "lock",
                "wait", "woken", "cleanup", "delete_load", "delete_clear",
                "succeeded", "failed"}

\* "monitor" generates the unique id of ovsdb_monitor, "monitor_request" is the
\* rest of it; "deleteGw" and "deleteFb" are the two calls of ovsdb_delete.
ListenPoint == {"listen", "update", "monitor", "monitor_request", "unlink",
                "unlink_store", "find", "remove", "load", "clear", "callback",
                "deleteGw", "deleteFb", "signal", "wake", "exited"}

CallPoint == {"load", "store", "register", "link", "send"}

Active(r) == pc[r] \notin {"ready", "succeeded", "failed"}

Transacts(r) == mode[r].callback \/ mode[r].block

Goto(r, point) == pc' = [pc EXCEPT ![r] = point]

TypeOK ==
    /\ pc \in [Request -> ClientPoint]
    /\ mode \in [Request -> [block: BOOLEAN, callback: BOOLEAN]]
    /\ rid \in [Request -> Nat]
    /\ status \in [Request -> Status]
    /\ hand \in [Request -> Transaction \cup {NoTransaction}]
    /\ table \in Table
    /\ id \in Nat
    /\ blocked \in BOOLEAN
    /\ monitorFeedback \in BOOLEAN
    /\ receipts \in Seq(Receipt)
    /\ monitors \in Seq(Nat)
    /\ lpc \in ListenPoint
    /\ msg \in DbMessage
    /\ key \in Slot
    /\ entry \in Transaction \cup {NoTransaction}
    /\ call \in CallPoint
    /\ lrid \in Nat
    /\ uid \in Nat
    /\ sent \in Seq(DbRequest)
    /\ inbox \in Seq(DbMessage)
    /\ inserted \in Seq(Request \cup {OtherComponent})
    /\ gwRows \subseteq Nat
    /\ fbRows \subseteq Nat
    /\ verdicts \subseteq [uuid: Nat, status: {"SUCCESS", "FAILED"}]
    /\ dbMonitors \in Seq(Nat)
    /\ delivered \in [Request -> Seq({"SUCCESS", "FAILED"})]
    /\ destroyed \in [Request -> Nat]
    /\ overlapped \subseteq {"id", "list", "table"}

Init ==
    /\ pc = [r \in Request |-> "ready"]
    /\ mode = [r \in Request |-> NoMode]
    /\ rid = [r \in Request |-> 0]
    /\ status = [r \in Request |-> "UNSET"]
    /\ hand = [r \in Request |-> NoTransaction]
    /\ table = init_transaction_table
    /\ id = StartingId
    /\ blocked = FALSE
    /\ monitorFeedback = FALSE
    /\ receipts = <<>>
    /\ monitors = <<>>
    /\ lpc = "listen"
    /\ msg = NoMessage
    /\ key = 0
    /\ entry = NoTransaction
    /\ call = "load"
    /\ lrid = 0
    /\ uid = 0
    /\ sent = <<>>
    /\ inbox = <<>>
    /\ inserted = <<>>
    /\ gwRows = {}
    /\ fbRows = {}
    /\ verdicts = {}
    /\ dbMonitors = <<>>
    /\ delivered = [r \in Request |-> <<>>]
    /\ destroyed = [r \in Request |-> 0]
    /\ overlapped = {}

----------------------------------------------------------------------------
(* Windows.  id_generate, the receipt list and a slot of the table are read *)
(* and then written without a lock; who has read and not yet written is in *)
(* the window.  overlapped remembers where a thread has entered a window   *)
(* with another thread in it; nothing in the code looks at it.             *)

ListenThread == 0

Listening(inside) == IF inside THEN {ListenThread} ELSE {}

\* Between the load and the store of id_generate.
Numbering == {r \in Request : pc[r] = "number"} \cup Listening(call = "store")

\* Between reading a link of the receipt list and writing one.
Linking ==
    {r \in Request : pc[r] = "link"}
        \cup Listening(call = "link" \/ lpc = "unlink_store")

\* Between a test of slot k and the store into it.
InSlot(k) ==
    {r \in Request :
        /\ pc[r] \in {"evict", "evict_load", "evict_clear", "store",
                      "delete_load", "delete_clear"}
        /\ hash_code(rid[r]) = k}
      \cup Listening(lpc \in {"load", "clear"} /\ key = k)

Enter(window, others) ==
    \/ others = {} /\ UNCHANGED overlapped
    \/ /\ others # {}
       /\ window \in Meetings
       /\ overlapped' = overlapped \cup {window}

----------------------------------------------------------------------------
(* Parts of operations *)

\* ovsdb_socket_write: the descriptor is -1 once the listen thread has left.
socket_write_result(ok) ==
    IF ok THEN lpc # "exited" ELSE lpc = "exited" \/ "write" \in Faults

\* mon_list_remove finds its node only at the head of the list: the loop over
\* the rest of the list is left before its first round.
mon_list_remove(list, n) ==
    IF list # <<>> /\ Head(list) = n THEN Tail(list) ELSE list

\* destroy_transaction of the entry t.
destroy_transaction(t) ==
    destroyed' = IF t = NoTransaction THEN destroyed
                 ELSE [destroyed EXCEPT ![t.config] = @ + 1]

Matches(n) == {i \in 1 .. Len(receipts) : receipts[i].rid = n}

\* The nodes at which the search of receipt_list_process may stop, 0 being its
\* end.  It stops at the first match, unless an overlap has spoilt the links:
\* then it may miss a node that was added, or meet a later one first.
Found(n) ==
    IF "list" \in overlapped THEN Matches(n) \cup {0}
    ELSE IF Matches(n) = {} THEN {0}
    ELSE {i \in Matches(n) : \A j \in Matches(n) : i <= j}

----------------------------------------------------------------------------
(* A client thread: handle_transact_insert_request for request r *)

\* ovs_agent_api_interact, up to the load in id_generate.  Requests are numbered
\* in the order in which they are issued.
interact(r) ==
    /\ pc[r] = "ready"
    /\ \A s \in Request : s < r => pc[s] # "ready"
    /\ Cardinality({s \in Request : Active(s)}) < Threads
    /\ rid' = [rid EXCEPT ![r] = id + 1]
    /\ \E m \in Modes : mode' = [mode EXCEPT ![r] = m]
    /\ Goto(r, "number")
    /\ Enter("id", Numbering)
    /\ UNCHANGED <<status, hand, apiVars, listenVars, dbVars, wireVars,
                   delivered, destroyed>>

\* The store in id_generate, up to the test for a callback or block mode.
id_generate(r) ==
    /\ pc[r] = "number"
    /\ id' = rid[r]
    /\ Goto(r, IF Transacts(r) THEN "block" ELSE "register")
    /\ UNCHANGED <<mode, rid, status, hand, table, blocked, monitorFeedback,
                   receipts, monitors, listenVars, dbVars, wireVars, history>>

set_blocked(r) ==
    /\ pc[r] = "block"
    /\ blocked' = mode[r].block
    /\ Goto(r, "insert")
    /\ UNCHANGED <<mode, rid, status, hand, table, id, monitorFeedback,
                   receipts, monitors, listenVars, dbVars, wireVars, history>>

\* insert_transaction_table looks at the slot ...
insert_transaction(r) ==
    /\ pc[r] = "insert"
    /\ Goto(r, IF get_transaction(table, rid[r]) = NoTransaction
               THEN "store" ELSE "evict")
    /\ Enter("table", InSlot(hash_code(rid[r])))
    /\ UNCHANGED <<mode, rid, status, hand, apiVars, listenVars, dbVars,
                   wireVars, delivered, destroyed>>

\* ... takes out the entry it saw there, and fails if that has gone meanwhile
\* (blocked keeps its value): remove_transaction_table tests the slot again, ...
evict_transaction(r) ==
    /\ pc[r] = "evict"
    /\ Goto(r, IF get_transaction(table, rid[r]) = NoTransaction
               THEN "failed" ELSE "evict_load")
    /\ UNCHANGED <<mode, rid, status, hand, apiVars, listenVars, dbVars,
                   wireVars, history>>

\* ... loads the pointer, for insert_transaction as for delete_transaction, ...
remove_load(r) ==
    /\ pc[r] \in {"evict_load", "delete_load"}
    /\ hand' = [hand EXCEPT ![r] = get_transaction(table, rid[r])]
    /\ Goto(r, IF pc[r] = "evict_load" THEN "evict_clear" ELSE "delete_clear")
    /\ UNCHANGED <<mode, rid, status, apiVars, listenVars, dbVars, wireVars,
                   history>>

\* ... clears the slot, and the caller frees what was loaded.
remove_clear(r) ==
    /\ table' = slot_cleared(table, hash_code(rid[r]))
    /\ destroy_transaction(hand[r])
    /\ hand' = [hand EXCEPT ![r] = NoTransaction]
    /\ UNCHANGED <<mode, rid, status, id, blocked, monitorFeedback, receipts,
                   monitors, listenVars, dbVars, wireVars, delivered,
                   overlapped>>

evict_clear(r) ==
    /\ pc[r] = "evict_clear"
    /\ Goto(r, IF hand[r] = NoTransaction THEN "failed" ELSE "store")
    /\ remove_clear(r)

\* The new entry is put in its place.
store_transaction(r) ==
    /\ pc[r] = "store"
    /\ table' = insert_transaction_table(table,
                    create_transaction(rid[r], mode[r].callback, r))
    /\ Goto(r, "register")
    /\ UNCHANGED <<mode, rid, status, hand, id, blocked, monitorFeedback,
                   receipts, monitors, listenVars, dbVars, wireVars, history>>

\* ovsdb_write: the receipt goes into the list before the request is sent.
\* receipt_list_add walks to the end of the list ...
write_register(r) ==
    /\ pc[r] = "register"
    /\ Goto(r, "link")
    /\ Enter("list", Linking)
    /\ UNCHANGED <<mode, rid, status, hand, apiVars, listenVars, dbVars,
                   wireVars, delivered, destroyed>>

\* ... and links the new node there.
write_link(r) ==
    /\ pc[r] = "link"
    /\ receipts' = Append(receipts,
           [rid |-> rid[r], cb |-> IF Transacts(r) THEN "write" ELSE "dummy"])
    /\ Goto(r, "write")
    /\ UNCHANGED <<mode, rid, status, hand, table, id, blocked,
                   monitorFeedback, monitors, listenVars, dbVars, wireVars,
                   history>>

write_sent(r) ==
    /\ pc[r] = "write"
    /\ socket_write_result(TRUE)
    /\ sent' = Append(sent, [op |-> "insert", rid |-> rid[r], arg |-> r])
    /\ status' = [status EXCEPT ![r] = "SUCCESS"]
    /\ Goto(r, IF mode[r].block THEN "lock" ELSE "succeeded")
    /\ UNCHANGED <<mode, rid, hand, apiVars, listenVars, dbVars, inbox, history>>

\* Mutant: blocked keeps its value after a failed write.
write_failed_still_blocked(r) ==
    /\ pc[r] = "write"
    /\ socket_write_result(FALSE)
    /\ status' = [status EXCEPT ![r] = "FAILED"]
    /\ Goto(r, "cleanup")
    /\ UNCHANGED <<mode, rid, hand, apiVars, listenVars, dbVars, wireVars, history>>

write_failed(r) ==
    /\ pc[r] = "write"
    /\ socket_write_result(FALSE)
    /\ status' = [status EXCEPT ![r] = "FAILED"]
    /\ blocked' = FALSE
    /\ Goto(r, "cleanup")
    /\ UNCHANGED <<mode, rid, hand, table, id, monitorFeedback, receipts,
                   monitors, listenVars, dbVars, wireVars, history>>

\* wait_for_callback_completion, up to the first wait or past the whole loop.
wait_lock(r) ==
    /\ pc[r] = "lock"
    /\ status' = [status EXCEPT ![r] = "FAILED"]
    /\ Goto(r, IF blocked THEN "wait" ELSE "cleanup")
    /\ UNCHANGED <<mode, rid, hand, apiVars, listenVars, dbVars, wireVars, history>>

\* pthread_cond_timedwait returns 0: signalled, or a spurious wakeup.  Back
\* in the loop, the thread waits again if blocked is (again) set.
wait_return(r) ==
    /\ status' = [status EXCEPT ![r] = "SUCCESS"]
    /\ Goto(r, IF blocked THEN "wait" ELSE "cleanup")
    /\ UNCHANGED <<mode, rid, hand, apiVars, listenVars, dbVars, wireVars, history>>

wait_woken(r) == pc[r] = "woken" /\ wait_return(r)

wait_spurious(r) == pc[r] = "wait" /\ wait_return(r)

\* Mutant: a timeout leaves blocked set, and the loop waits again.
wait_timeout_again(r) ==
    /\ pc[r] = "wait"
    /\ status' = [status EXCEPT ![r] = "TIMED_OUT"]
    /\ Goto(r, IF blocked THEN "wait" ELSE "cleanup")
    /\ UNCHANGED <<mode, rid, hand, apiVars, listenVars, dbVars, wireVars, history>>

\* pthread_cond_timedwait returns ETIMEDOUT or another error.
wait_timeout(r) ==
    /\ pc[r] = "wait"
    /\ status' = [status EXCEPT ![r] = "TIMED_OUT"]
    /\ blocked' = FALSE
    /\ Goto(r, "cleanup")
    /\ UNCHANGED <<mode, rid, hand, table, id, monitorFeedback, receipts,
                   monitors, listenVars, dbVars, wireVars, history>>

\* Mutant: only a failure deletes the transaction, a timeout does not.
cleanup_unless_timed_out(r) ==
    /\ pc[r] = "cleanup"
    /\ \/ /\ status[r] # "FAILED"
          /\ Goto(r, IF status[r] = "SUCCESS" THEN "succeeded" ELSE "failed")
          /\ UNCHANGED overlapped
       \/ /\ status[r] = "FAILED"
          /\ get_transaction(table, rid[r]) = NoTransaction
          /\ Goto(r, "failed")
          /\ UNCHANGED overlapped
       \/ /\ status[r] = "FAILED"
          /\ get_transaction(table, rid[r]) # NoTransaction
          /\ Goto(r, "delete_load")
          /\ Enter("table", InSlot(hash_code(rid[r])))
    /\ UNCHANGED <<mode, rid, status, hand, apiVars, listenVars, dbVars,
                   wireVars, delivered, destroyed>>

\* The label cleanup: delete_transaction unless the status is success; it fails
\* where the slot is empty, and goes on to remove_load where it is not.
cleanup(r) ==
    /\ pc[r] = "cleanup"
    /\ \/ /\ status[r] = "SUCCESS"
          /\ Goto(r, "succeeded")
          /\ UNCHANGED overlapped
       \/ /\ status[r] # "SUCCESS"
          /\ get_transaction(table, rid[r]) = NoTransaction
          /\ Goto(r, "failed")
          /\ UNCHANGED overlapped
       \/ /\ status[r] # "SUCCESS"
          /\ get_transaction(table, rid[r]) # NoTransaction
          /\ Goto(r, "delete_load")
          /\ Enter("table", InSlot(hash_code(rid[r])))
    /\ UNCHANGED <<mode, rid, status, hand, apiVars, listenVars, dbVars,
                   wireVars, delivered, destroyed>>

delete_clear(r) ==
    /\ pc[r] = "delete_clear"
    /\ Goto(r, "failed")
    /\ remove_clear(r)

----------------------------------------------------------------------------
(* The listen thread *)

\* The handling of a message is over; its local variables are gone.
BackToListen ==
    /\ lpc' = "listen"
    /\ msg' = NoMessage
    /\ key' = 0
    /\ entry' = NoTransaction

\* The handling goes on elsewhere in the code, with the same local variables.
GoOn(point) == lpc' = point /\ UNCHANGED <<msg, key, entry>>

\* What ovsdb_parse_msg does with a message, node being where the search of the
\* receipt list stopped: a reply goes to the callback of its receipt, an update
\* of a known monitor to ovs_agent_api_monitor_feedback_callback; anything else
\* is dropped.  ovs_agent_api_write_callback and the dummy callback return at once
\* on a reply that is not to an insert, or to any reply.  The reply to a rejected
\* insert does not parse: its receipt stays and its callback is not called.
listen_dispatch(m, node) ==
    CASE m.kind = "reply" /\ m.status = "SUCCESS" /\ node # 0 ->
           IF receipts[node].cb = "write" /\ m.uuid # NoUuid
           THEN "update" ELSE "unlink"
      [] m.kind = "update" /\ (\E i \in 1 .. Len(monitors) : monitors[i] = m.rid) ->
           "find"
      [] OTHER -> "listen"

listen ==
    /\ lpc = "listen"
    /\ inbox # <<>>
    /\ inbox' = Tail(inbox)
    /\ \E node \in Found(Head(inbox).rid) :
         LET handler == listen_dispatch(Head(inbox), node)
         IN  IF handler = "listen"
             THEN BackToListen
             ELSE lpc' = handler /\ msg' = Head(inbox) /\ UNCHANGED <<key, entry>>
    /\ UNCHANGED <<clientVars, callVars, apiVars, dbVars, sent, history>>

\* Mutant: every receipt asks for another monitor of the Feedback table.
write_callback_always_monitors ==
    /\ lpc = "update"
    /\ IF get_transaction(table, msg.rid) = NoTransaction
       THEN GoOn("unlink") /\ UNCHANGED table
       ELSE /\ table' = update_transaction_uuid(table, msg.rid, msg.uuid)
            /\ GoOn("monitor")
    /\ UNCHANGED <<clientVars, callVars, id, blocked, monitorFeedback,
                   receipts, monitors, dbVars, wireVars, history>>

\* ovs_agent_api_write_callback: update_transaction, then the test of
\* monitorFeedback.  Only the listen thread writes uuids, and it writes this one
\* through the pointer it found in the slot; freed meanwhile by a client thread,
\* that entry is in nobody's table any more.
write_callback ==
    /\ lpc = "update"
    /\ IF get_transaction(table, msg.rid) = NoTransaction
       THEN GoOn("unlink") /\ UNCHANGED table
       ELSE /\ table' = update_transaction_uuid(table, msg.rid, msg.uuid)
            /\ GoOn(IF monitorFeedback THEN "unlink" ELSE "monitor")
    /\ UNCHANGED <<clientVars, callVars, id, blocked, monitorFeedback,
                   receipts, monitors, dbVars, wireVars, history>>

\* A call of ovsdb_monitor or ovsdb_delete.  id_generate loads ...
call_number ==
    /\ lpc \in {"monitor", "monitor_request", "deleteGw", "deleteFb"}
    /\ call = "load"
    /\ call' = "store"
    /\ lrid' = id + 1
    /\ Enter("id", Numbering)
    /\ UNCHANGED <<clientVars, lpc, msg, key, entry, uid, apiVars, dbVars,
                   wireVars, delivered, destroyed>>

\* ... and stores; ovsdb_monitor generates the unique id, then the request id.
call_id_generate ==
    /\ call = "store"
    /\ id' = lrid
    /\ \/ lpc = "monitor" /\ GoOn("monitor_request") /\ call' = "load" /\ uid' = lrid
       \/ lpc # "monitor" /\ GoOn(lpc) /\ call' = "register" /\ UNCHANGED uid
    /\ UNCHANGED <<clientVars, lrid, table, blocked, monitorFeedback, receipts,
                   monitors, dbVars, wireVars, history>>

\* receipt_list_add walks to the end of the list ...
call_register ==
    /\ call = "register"
    /\ call' = "link"
    /\ Enter("list", Linking)
    /\ UNCHANGED <<clientVars, lpc, msg, key, entry, lrid, uid, apiVars, dbVars,
                   wireVars, delivered, destroyed>>

\* ... and links the new node there.
call_link ==
    /\ call = "link"
    /\ call' = "send"
    /\ receipts' = Append(receipts, DummyReceipt(lrid))
    /\ UNCHANGED <<clientVars, lpc, msg, key, entry, lrid, uid, table, id,
                   blocked, monitorFeedback, monitors, dbVars, wireVars, history>>

EndCall == call' = "load" /\ lrid' = 0 /\ uid' = 0

\* The end of send_monitor_feedback_request: mon_list_add, the socket write, and
\* mon_list_remove if that fails.  The monitor list and monitorFeedback belong to
\* the listen thread.
send_monitor_feedback_request ==
    /\ lpc = "monitor_request"
    /\ call = "send"
    /\ LET added == Append(monitors, uid) IN
       \/ /\ socket_write_result(TRUE)
          /\ sent' = Append(sent, [op |-> "monitor", rid |-> lrid, arg |-> uid])
          /\ monitors' = added
          /\ monitorFeedback' = TRUE
       \/ /\ socket_write_result(FALSE)
          /\ monitors' = mon_list_remove(added, uid)
          /\ monitorFeedback' = FALSE
          /\ UNCHANGED sent
    /\ GoOn("unlink")
    /\ EndCall
    /\ UNCHANGED <<clientVars, table, id, blocked, receipts, inbox, dbVars,
                   history>>

\* receipt_list_process unlinks the node after its callback has returned: it
\* loads the link to the node's successor ...
receipt_unlink ==
    /\ lpc = "unlink"
    /\ GoOn("unlink_store")
    /\ Enter("list", Linking)
    /\ UNCHANGED <<clientVars, callVars, apiVars, dbVars, wireVars, delivered,
                   destroyed>>

\* Mutant: the list is cut up to the node, as if replies came in rid order.
receipt_unlink_store_older ==
    /\ lpc = "unlink_store"
    /\ \E i \in Found(msg.rid) :
         receipts' = SubSeq(receipts, i + 1, Len(receipts))
    /\ BackToListen
    /\ UNCHANGED <<clientVars, callVars, table, id, blocked,
                   monitorFeedback, monitors, dbVars, wireVars, history>>

\* ... and stores it in the node's predecessor.
receipt_unlink_store ==
    /\ lpc = "unlink_store"
    /\ \E i \in Found(msg.rid) :
         receipts' = IF i = 0 THEN receipts
                     ELSE SubSeq(receipts, 1, i - 1)
                            \o SubSeq(receipts, i + 1, Len(receipts))
    /\ BackToListen
    /\ UNCHANGED <<clientVars, callVars, table, id, blocked,
                   monitorFeedback, monitors, dbVars, wireVars, history>>

\* Mutant: a Feedback without a transaction is deleted all the same.
complete_find_or_delete ==
    /\ lpc = "find"
    /\ IF Matching(table, msg.uuid) = {}
       THEN GoOn("deleteGw")
       ELSE /\ lpc' = "remove"
            /\ key' = find_transaction_key(table, msg.uuid)
            /\ UNCHANGED <<msg, entry>>
    /\ UNCHANGED <<clientVars, callVars, apiVars, dbVars, wireVars, history>>

\* complete_transaction: look the uuid up ...
complete_find ==
    /\ lpc = "find"
    /\ IF Matching(table, msg.uuid) = {}
       THEN BackToListen
       ELSE /\ lpc' = "remove"
            /\ key' = find_transaction_key(table, msg.uuid)
            /\ UNCHANGED <<msg, entry>>
    /\ UNCHANGED <<clientVars, callVars, apiVars, dbVars, wireVars, history>>

\* ... take what the slot holds now: remove_transaction_table tests it, ...
complete_remove ==
    /\ lpc = "remove"
    /\ \/ /\ table[key] = NoTransaction
          /\ BackToListen
          /\ UNCHANGED overlapped
       \/ /\ table[key] # NoTransaction
          /\ GoOn("load")
          /\ Enter("table", InSlot(key))
    /\ UNCHANGED <<clientVars, callVars, apiVars, dbVars, wireVars, delivered,
                   destroyed>>

\* ... loads the pointer, ...
complete_load ==
    /\ lpc = "load"
    /\ lpc' = "clear"
    /\ entry' = table[key]
    /\ UNCHANGED <<clientVars, msg, key, callVars, apiVars, dbVars, wireVars,
                   history>>

\* Mutant: the slot keeps the entry that is completed.
complete_clear_keeps_entry ==
    /\ lpc = "clear"
    /\ IF entry = NoTransaction THEN BackToListen ELSE GoOn("callback")
    /\ UNCHANGED <<clientVars, callVars, apiVars, dbVars, wireVars, history>>

\* ... and clears the slot ...
complete_clear ==
    /\ lpc = "clear"
    /\ table' = slot_cleared(table, key)
    /\ IF entry = NoTransaction THEN BackToListen ELSE GoOn("callback")
    /\ UNCHANGED <<clientVars, callVars, id, blocked, monitorFeedback, receipts,
                   monitors, dbVars, wireVars, history>>

\* ... then call its callback and destroy it.
complete_callback ==
    /\ lpc = "callback"
    /\ delivered' = IF entry.callback
                    THEN [delivered EXCEPT ![entry.config] =
                                             Append(@, msg.status)]
                    ELSE delivered
    /\ destroy_transaction(entry)
    /\ entry' = NoTransaction
    /\ lpc' = "deleteGw"
    /\ UNCHANGED <<clientVars, msg, key, callVars, apiVars, dbVars, wireVars,
                   overlapped>>

\* The end of ovsdb_delete of the row of the feedback's uuid; a failed write ends
\* the callback.
delete_row(op, next) ==
    /\ lpc = op
    /\ call = "send"
    /\ \/ /\ socket_write_result(TRUE)
          /\ sent' = Append(sent, [op |-> op, rid |-> lrid, arg |-> msg.uuid])
          /\ GoOn(next)
       \/ /\ socket_write_result(FALSE)
          /\ BackToListen
          /\ UNCHANGED sent
    /\ EndCall
    /\ UNCHANGED <<clientVars, apiVars, inbox, dbVars, history>>

\* Mutant: the row in Gateway_Config is deleted, the one in Feedback is not.
delete_gateway_config_only == delete_row("deleteGw", "signal")

delete_gateway_config == delete_row("deleteGw", "deleteFb")

delete_feedback == delete_row("deleteFb", "signal")

\* signal_callback_completion reads blocked without the mutex ...
signal_test ==
    /\ lpc = "signal"
    /\ IF blocked THEN GoOn("wake") ELSE BackToListen
    /\ UNCHANGED <<clientVars, callVars, apiVars, dbVars, wireVars, history>>

\* Mutant: blocked is cleared and nobody is signalled.
signal_wake_silent ==
    /\ lpc = "wake"
    /\ blocked' = FALSE
    /\ BackToListen
    /\ UNCHANGED <<clientVars, callVars, table, id, monitorFeedback, receipts,
                   monitors, dbVars, wireVars, history>>

\* ... then clears it and signals under the mutex.
signal_wake ==
    /\ lpc = "wake"
    /\ blocked' = FALSE
    /\ IF \E r \in Request : pc[r] = "wait"
       THEN \E r \in Request : pc[r] = "wait" /\ Goto(r, "woken")
       ELSE UNCHANGED pc
    /\ BackToListen
    /\ UNCHANGED <<mode, rid, status, hand, callVars, table, id,
                   monitorFeedback, receipts, monitors, dbVars, wireVars,
                   history>>

\* The server closes the connection; ovsdb_listen leaves its loop and closes
\* the socket.
listen_exit ==
    /\ "drop" \in Faults
    /\ lpc = "listen"
    /\ GoOn("exited")
    /\ sent' = <<>>
    /\ inbox' = <<>>
    /\ dbMonitors' = <<>>
    /\ UNCHANGED <<clientVars, callVars, apiVars, inserted, gwRows, fbRows,
                   verdicts, history>>

----------------------------------------------------------------------------
(* OVSDB and the OvsAgent process *)

\* The server executes the next request of this connection and answers it.
db_execute ==
    /\ sent # <<>>
    /\ sent' = Tail(sent)
    /\ LET q == Head(sent) IN
       \/ /\ q.op = "insert"
          /\ inserted' = Append(inserted, q.arg)
          /\ gwRows' = gwRows \cup {Len(inserted) + 1}
          /\ inbox' = Append(inbox, Reply(q.rid, Len(inserted) + 1))
          /\ UNCHANGED <<fbRows, dbMonitors>>
       \/ /\ q.op = "insert"
          /\ "reject" \in Faults
          /\ inbox' = Append(inbox, Reply(q.rid, NoUuid))
          /\ UNCHANGED <<inserted, gwRows, fbRows, dbMonitors>>
       \/ /\ q.op = "monitor"
          /\ dbMonitors' = Append(dbMonitors, q.arg)
          /\ inbox' = Append(inbox, Done(q.rid))
          /\ UNCHANGED <<inserted, gwRows, fbRows>>
       \/ /\ q.op = "deleteGw"
          /\ gwRows' = gwRows \ {q.arg}
          /\ inbox' = Append(inbox, Done(q.rid))
          /\ UNCHANGED <<inserted, fbRows, dbMonitors>>
       \/ /\ q.op = "deleteFb"
          /\ fbRows' = fbRows \ {q.arg}
          /\ inbox' = Append(inbox, Done(q.rid))
          /\ UNCHANGED <<inserted, gwRows, dbMonitors>>
    /\ UNCHANGED <<clientVars, listenVars, apiVars, verdicts, history>>

\* Another component of the gateway inserts a row over its own connection.
other_insert ==
    /\ Cardinality({u \in 1 .. Len(inserted) : inserted[u] = OtherComponent})
         < MaxOtherRows
    /\ inserted' = Append(inserted, OtherComponent)
    /\ gwRows' = gwRows \cup {Len(inserted) + 1}
    /\ UNCHANGED <<clientVars, listenVars, apiVars, wireVars, fbRows, verdicts,
                   dbMonitors, history>>

\* gwconf_mon_cb of the OvsAgent: it has acted on row u and inserts its
\* Feedback; the server tells every monitor of the Feedback table.  Rows that
\* were in the table before a monitor request are not among its updates.
agent_feedback(u, s) ==
    /\ u \in gwRows
    /\ \A v \in verdicts : v.uuid # u
    /\ verdicts' = verdicts \cup {[uuid |-> u, status |-> s]}
    /\ fbRows' = fbRows \cup {u}
    /\ inbox' = inbox \o [i \in 1 .. Len(dbMonitors) |->
                             Update(dbMonitors[i], u, s)]
    /\ UNCHANGED <<clientVars, listenVars, apiVars, sent, inserted, gwRows,
                   dbMonitors, history>>

----------------------------------------------------------------------------

\* The steps of a call that only wait for the processor.
proceed(r) ==
    \/ id_generate(r)
    \/ set_blocked(r)
    \/ insert_transaction(r)
    \/ evict_transaction(r)
    \/ remove_load(r)
    \/ evict_clear(r)
    \/ store_transaction(r)
    \/ write_register(r)
    \/ write_link(r)
    \/ write_sent(r)
    \/ write_failed(r)
    \/ wait_lock(r)
    \/ wait_woken(r)
    \/ cleanup(r)
    \/ delete_clear(r)

client(r) == interact(r) \/ proceed(r) \/ wait_spurious(r) \/ wait_timeout(r)

ovsdb_listen ==
    \/ listen
    \/ write_callback
    \/ call_number
    \/ call_id_generate
    \/ call_register
    \/ call_link
    \/ send_monitor_feedback_request
    \/ receipt_unlink
    \/ receipt_unlink_store
    \/ complete_find
    \/ complete_remove
    \/ complete_load
    \/ complete_clear
    \/ complete_callback
    \/ delete_gateway_config
    \/ delete_feedback
    \/ signal_test
    \/ signal_wake

agent == \E u \in 1 .. Len(inserted), s \in Verdicts : agent_feedback(u, s)

\* Every request has returned and no message is left: the component is idle.
idle ==
    /\ \A r \in Request : pc[r] \in {"succeeded", "failed"}
    /\ lpc \in {"listen", "exited"}
    /\ sent = <<>>
    /\ inbox = <<>>
    /\ UNCHANGED vars

Next ==
    \/ \E r \in Request : client(r)
    \/ ovsdb_listen
    \/ listen_exit
    \/ db_execute
    \/ other_insert
    \/ agent
    \/ idle

Spec == Init /\ [][Next]_vars

\* The scheduler runs every thread that can run, a wait is bounded by its
\* timeout, and the server and the agent keep serving.  Nothing forces a client
\* to issue a request, a wakeup to be spurious or the connection to close.
Fairness ==
    /\ \A r \in Request : WF_vars(proceed(r)) /\ WF_vars(wait_timeout(r))
    /\ WF_vars(ovsdb_listen)
    /\ WF_vars(db_execute)
    /\ \A u \in 1 .. MaxRequests + MaxOtherRows :
         WF_vars(\E s \in Verdicts : agent_feedback(u, s))

FairSpec == Spec /\ Fairness

----------------------------------------------------------------------------
(* Properties *)

\* No two requests issued so far hash to the same slot of the table.
NoSlotSharing ==
    \A r, s \in Request :
        r # s /\ rid[r] # 0 /\ rid[s] # 0 => hash_code(rid[r]) # hash_code(rid[s])

\* A client asleep in wait_for_callback_completion still has blocked set, the
\* flag signal_callback_completion tests before it signals: the wakeup it is
\* waiting for is not lost (one client thread).
NoLostWakeup == \A r \in Request : pc[r] = "wait" => blocked

\* g_handle->blocked, "true if in a blocked state", is set only while some
\* call in block mode is between setting it and leaving its wait, whatever
\* path its own and the other threads' calls take.  One path is an exception:
\* a call whose insert_transaction fails, before it has a status, leaves
\* blocked as it set it.
BlockedOnlyDuringCall ==
    blocked => \E r \in Request :
                   /\ mode[r].block
                   /\ \/ pc[r] \in {"insert", "evict", "evict_load",
                                    "evict_clear", "store", "register", "link",
                                    "write", "lock", "wait"}
                      \/ pc[r] = "failed" /\ status[r] = "UNSET"

\* A callback gets the status that the agent reported for the row that holds
\* the callback's own configuration, across stale receipts, late answers and
\* other components' rows, as long as no two requests share a slot.
ToldOwnStatus ==
    NoSlotSharing =>
        \A r \in Request : \A i \in 1 .. Len(delivered[r]) :
            \E v \in verdicts : /\ inserted[v.uuid] = r
                                /\ v.status = delivered[r][i]

\* Once handle_transact_insert_request has returned false, the transaction of
\* its request is not in the table, even when it lost its slot to another.
FailedCallLeavesNoTransaction ==
    \A r \in Request : pc[r] = "failed" =>
        \A k \in Slot : table[k] # NoTransaction => table[k].config # r

\* As long as no two threads have met in id_generate or in the receipt list, a
\* request that is on its way to the server, or whose reply is on its way back,
\* is in the receipt list: ovsdb_write, ovsdb_monitor and ovsdb_delete register
\* before they write, and an answer removes no receipt but its own.  Nothing in
\* the code keeps the threads apart, one client thread and the listen thread
\* included; what they lose when they meet is shown in ReceiptList.
ReceiptBeforeReply ==
    overlapped \cap {"id", "list"} = {} =>
        LET registered == {receipts[i].rid : i \in 1 .. Len(receipts)} IN
        /\ \A i \in 1 .. Len(sent) : sent[i].rid \in registered
        /\ \A i \in 1 .. Len(inbox) :
             inbox[i].kind = "reply" => inbox[i].rid \in registered

\* ovs_agent_api_write_callback keeps one monitor of the Feedback table at a
\* time, in its own list and at the server, so a Feedback is processed once;
\* a monitor request whose write failed leaves no node behind.
OneFeedbackMonitor ==
    /\ Len(monitors) = IF monitorFeedback THEN 1 ELSE 0
    /\ Len(dbMonitors) <= 1

\* The monitor covers the whole Feedback table, but the component deletes only
\* rows that belong to its own requests.
OthersRowsUntouched ==
    [][\A u \in (gwRows \ gwRows') \cup (fbRows \ fbRows') :
           inserted[u] # OtherComponent]_vars

\* The life of a request's transaction as TransactionContract sees it: open while
\* it is in the table or complete_transaction has it, closed once it is freed.
\* An entry that is freed again, or that nobody holds and nobody has freed, has
\* no place in the contract.
InTable(r) == \E k \in Slot : table[k] # NoTransaction /\ table[k].config = r

\* store_transaction has put the entry of r into the table.
Stored(r) ==
    /\ Transacts(r)
    /\ \/ pc[r] \in {"register", "link", "write", "lock", "wait", "woken",
                     "cleanup", "delete_load", "delete_clear", "succeeded"}
       \/ pc[r] = "failed" /\ status[r] # "UNSET"

phaseOf(r) ==
    CASE destroyed[r] > 1                                     -> "freed again"
      [] destroyed[r] = 1                                     -> "closed"
      [] InTable(r) \/ (lpc = "callback" /\ entry.config = r) -> "open"
      [] ~Stored(r)                                           -> "none"
      [] OTHER                                                -> "lost"

Contract == INSTANCE TransactionContract
                WITH Outcome <- {"SUCCESS", "FAILED"},
                     phase   <- [r \in Request |-> phaseOf(r)],
                     told    <- delivered

\* Through insert, eviction, update, completion and delete, and with any two
\* requests in one slot, each transaction is opened once, freed once and
\* reported at most once, before it is freed: every step takes the manager along
\* a step of its contract, until two threads meet in one slot of the table,
\* between the test and the store of remove_transaction_table or of
\* insert_transaction_table.  When they do, one entry may be freed twice and
\* another overwritten, never to be freed (FreedOnce).
ImplementsContract ==
    Contract!Init
        /\ [][ "table" \notin overlapped' => [Contract!Next]_(Contract!vars) ]_vars

\* No call of ovs_agent_api_interact lasts forever: with the answer lost, the
\* connection closed or the wakeup missed, the timed wait ends it.
EveryCallReturns ==
    \A r \in Request : pc[r] # "ready" ~> pc[r] \in {"succeeded", "failed"}

\* A transaction that ovs_agent_api_monitor_feedback_callback has completed
\* leaves no rows: both deletes reach the server, unless the connection closes
\* (no write fails).
CompletedRowsDeleted ==
    \A u \in 1 .. MaxRequests + MaxOtherRows :
        (lpc = "deleteGw" /\ msg.uuid = u)
            ~> (u \notin gwRows \cup fbRows \/ lpc = "exited")

----------------------------------------------------------------------------
(* What the comments of the code promise, and the code does not keep *)

\* "If block mode is enabled, the client thread is blocked till the callback(s)
\* completes": a call in block mode that returns true has had its callback
\* called.
BlockedTillCallback ==
    \A r \in Request :
        pc[r] = "succeeded" /\ mode[r].block /\ mode[r].callback
            => delivered[r] # <<>>

\* "wait for both callbacks or timeout to occur": a call in block mode whose
\* callback has been called fails only through a timeout or an error of the wait.
WaitEndsByCallbackOrTimeout ==
    \A r \in Request :
        pc[r] = "failed" /\ delivered[r] # <<>> => status[r] # "FAILED"

\* "Removes the transaction ptr from the table ... Returns a ptr to the removed
\* transaction": what remove_transaction_table returns has left the table, so no
\* second caller gets it and frees it again.
FreedOnce == \A r \in Request : destroyed[r] <= 1

\* "Updates an existing transaction entry with provided UUID", rid being its
\* "unique identifier": a receipt updates the entry of its own request.
UpdatesOwnTransaction ==
    [][lpc = "update" /\ lpc' # "update" =>
           \A k \in Slot : table[k] # table'[k] => table[k].id = msg.rid]_vars

\* "If block mode is disabled ... the status and data is returned asyncronously
\* at a later time": the callback of an unblocked request is called, when
\* nothing fails and everyone keeps running.
StatusReturnedLater ==
    \A r \in Request :
        (pc[r] = "succeeded" /\ mode[r].callback /\ ~mode[r].block)
            ~> (delivered[r] # <<>>)
=============================================================================
