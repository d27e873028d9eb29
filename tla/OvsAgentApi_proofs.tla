------------------------ MODULE OvsAgentApi_proofs ------------------------
(***************************************************************************)
(* Theorems about OvsAgentApi for every table size, number of requests and *)
(* threads, and set of faults.                                             *)
(***************************************************************************)
EXTENDS OvsAgentApi, WellFoundedInduction, SequenceTheorems, TLAPS

----------------------------------------------------------------------------
(* The table *)

\* hash_code returns a slot of the table.
LEMMA HashCodeType ==
    ASSUME NEW n \in Nat
    PROVE  hash_code(n) \in Slot
BY TableSizeAssumption DEF hash_code, Slot

\* find_transaction_key returns a slot whose entry has the uuid.
LEMMA FindKey ==
    ASSUME NEW t \in Table, NEW u \in Nat, Matching(t, u) # {}
    PROVE  find_transaction_key(t, u) \in Matching(t, u)
<1> DEFINE S == Matching(t, u)
           R == OpToRel(<, Nat)
<1>1. S \subseteq Nat /\ S # {}
  BY TableSizeAssumption DEF Matching, Slot
<1>2. IsWellFoundedOn(R, Nat)
  BY NatLessThanWellFounded
<1>3. \A a, b \in Nat : ~ (<<a, b>> \in R) => b <= a
  BY DEF OpToRel
<1>4. \E k \in S : \A j \in S : ~ (<<j, k>> \in R)
  <2>. HIDE DEF S, R
  <2>. QED  BY <1>1, <1>2, WFMin
<1>5. \E k \in S : \A j \in S : k <= j
  <2>. HIDE DEF S, R
  <2>. QED  BY <1>1, <1>3, <1>4, Zenon
<1>. QED  BY <1>5 DEF find_transaction_key

\* An update of the entry in a slot leaves a table.
LEMMA UpdateType ==
    ASSUME NEW t \in Table, NEW n \in Nat, NEW u \in Nat,
           get_transaction(t, n) # NoTransaction
    PROVE  update_transaction_uuid(t, n, u) \in Table
BY HashCodeType DEF update_transaction_uuid, get_transaction, Table, Transaction

\* Clearing a slot leaves a table.
LEMMA RemoveType ==
    ASSUME NEW t \in Table, NEW k \in Slot
    PROVE  slot_cleared(t, k) \in Table
BY DEF slot_cleared, Table

\* Storing an entry leaves a table.
LEMMA InsertType ==
    ASSUME NEW t \in Table, NEW n \in Nat, NEW c \in BOOLEAN, NEW r \in Request
    PROVE  insert_transaction_table(t, create_transaction(n, c, r)) \in Table
BY HashCodeType
   DEF insert_transaction_table, create_transaction, Table, Transaction, NoUuid

----------------------------------------------------------------------------
(* Messages *)

\* The updates the server sends for one Feedback row are messages.
LEMMA UpdatesType ==
    ASSUME NEW ms \in Seq(Nat), NEW u \in Nat,
           NEW s \in {"SUCCESS", "FAILED"}
    PROVE  [i \in 1 .. Len(ms) |-> Update(ms[i], u, s)] \in Seq(DbMessage)
<1>1. Len(ms) \in Nat /\ \A i \in 1 .. Len(ms) : ms[i] \in Nat
  BY LenProperties, ElementOfSeq
<1>2. \A n \in Nat : Update(n, u, s) \in DbMessage
  BY DEF Update, DbMessage
<1>3. [i \in 1 .. Len(ms) |-> Update(ms[i], u, s)]
          \in [1 .. Len(ms) -> DbMessage]
  BY <1>1, <1>2, Zenon
<1>. QED  BY <1>1, <1>3, SeqDef

\* Replies are messages.
LEMMA MessageTypes ==
    ASSUME NEW n \in Nat, NEW u \in Nat
    PROVE  Reply(n, u) \in DbMessage /\ Done(n) \in DbMessage
BY DEF Reply, Done, DbMessage, NoUuid

\* What the library writes are requests.
LEMMA RequestTypes ==
    ASSUME NEW n \in Nat
    PROVE  /\ \A r \in Request :
                 [op |-> "insert", rid |-> n, arg |-> r] \in DbRequest
           /\ \A a \in Nat, op \in {"monitor", "deleteGw", "deleteFb"} :
                 [op |-> op, rid |-> n, arg |-> a] \in DbRequest
BY DEF DbRequest

\* What a request carries.
LEMMA RequestFields ==
    ASSUME NEW q \in DbRequest
    PROVE  /\ q.rid \in Nat
           /\ q.op = "insert" => q.arg \in Request
           /\ q.arg \in Nat
BY DEF DbRequest, Request

\* mon_list_remove leaves a list.
LEMMA MonitorRemoved ==
    ASSUME NEW list \in Seq(Nat), NEW n \in Nat
    PROVE  mon_list_remove(list, n) \in Seq(Nat)
BY HeadTailProperties DEF mon_list_remove

\* A list without one of its nodes is a list.
LEMMA NodeRemoved ==
    ASSUME NEW list \in Seq(Receipt), NEW i \in 1 .. Len(list)
    PROVE  SubSeq(list, 1, i - 1) \o SubSeq(list, i + 1, Len(list)) \in Seq(Receipt)
<1>1. Len(list) \in Nat
  BY LenProperties
<1>2. SubSeq(list, 1, i - 1) \in Seq(Receipt)
  BY <1>1, SubSeqProperties
<1>3. SubSeq(list, i + 1, Len(list)) \in Seq(Receipt)
  BY <1>1, SubSeqProperties
<1>. QED  BY <1>2, <1>3, ConcatProperties

\* The search of the receipt list stops at a node or at the end.
LEMMA FoundNode ==
    ASSUME NEW n \in Nat
    PROVE  Found(n) \subseteq Matches(n) \cup {0}
BY DEF Found

----------------------------------------------------------------------------
(* Type correctness.  complete_callback uses the entry that complete_load  *)
(* found in the table, so the invariant has to know it is there.           *)

TypeInv == TypeOK /\ (lpc = "callback" => entry # NoTransaction)

\* Types hold at first.
LEMMA TypeInit == Init => TypeInv
<1> SUFFICES ASSUME Init PROVE TypeInv
  OBVIOUS
<1> USE DEF Init
<1>1. table \in Table /\ key \in Slot /\ entry \in Transaction \cup {NoTransaction}
  BY TableSizeAssumption DEF init_transaction_table, Table, Slot
<1>2. /\ pc \in [Request -> ClientPoint]
      /\ mode \in [Request -> [block: BOOLEAN, callback: BOOLEAN]]
      /\ rid \in [Request -> Nat]
      /\ status \in [Request -> Status]
  BY DEF ClientPoint, NoMode, Status
<1>3. /\ id \in Nat
      /\ blocked \in BOOLEAN
      /\ monitorFeedback \in BOOLEAN
      /\ lpc \in ListenPoint
      /\ lpc # "callback"
      /\ call \in CallPoint /\ lrid \in Nat /\ uid \in Nat
      /\ hand \in [Request -> Transaction \cup {NoTransaction}]
      /\ destroyed \in [Request -> Nat]
      /\ overlapped \subseteq {"id", "list", "table"}
  BY StartingIdAssumption DEF ListenPoint, CallPoint
<1>4. msg \in DbMessage
  BY MessageTypes DEF NoMessage
<1>5. /\ monitors \in Seq(Nat)
      /\ receipts \in Seq(Receipt)
      /\ sent \in Seq(DbRequest)
      /\ inbox \in Seq(DbMessage)
      /\ inserted \in Seq(Request \cup {OtherComponent})
      /\ dbMonitors \in Seq(Nat)
      /\ delivered \in [Request -> Seq({"SUCCESS", "FAILED"})]
  BY EmptySeq
<1>6. /\ gwRows \subseteq Nat
      /\ fbRows \subseteq Nat
      /\ verdicts \subseteq [uuid: Nat, status: {"SUCCESS", "FAILED"}]
  OBVIOUS
<1>. QED  BY <1>1, <1>2, <1>3, <1>4, <1>5, <1>6 DEF TypeInv, TypeOK

\* Entering a window.
LEMMA EnterType ==
    ASSUME TypeOK, NEW w \in {"id", "list", "table"}, NEW others,
           Enter(w, others) \/ UNCHANGED overlapped
    PROVE  overlapped' \subseteq {"id", "list", "table"}
BY DEF TypeOK, Enter

\* Freeing an entry.
LEMMA DestroyType ==
    ASSUME TypeOK, NEW t \in Transaction \cup {NoTransaction},
           destroy_transaction(t)
    PROVE  destroyed' \in [Request -> Nat]
BY DEF TypeOK, destroy_transaction, Transaction

\* The store of remove_transaction_table, and what its callers free.
LEMMA RemoveClearType ==
    ASSUME TypeInv, NEW r \in Request, remove_clear(r)
    PROVE  /\ table' \in Table
           /\ destroyed' \in [Request -> Nat]
           /\ hand' \in [Request -> Transaction \cup {NoTransaction}]
<1> USE DEF TypeInv, TypeOK, remove_clear
<1>1. hash_code(rid[r]) \in Slot
  BY HashCodeType
<1>. QED  BY <1>1, RemoveType, DestroyType

\* A step of a client thread.
LEMMA TypeClient ==
    ASSUME TypeInv, NEW r \in Request, client(r)
    PROVE  TypeInv'
<1> USE DEF TypeInv, TypeOK, listenVars, callVars, dbVars, wireVars, apiVars,
            clientVars, history, Goto, ClientPoint, Status
<1>1. CASE interact(r)
  <2>1. overlapped' \subseteq {"id", "list", "table"}
    BY <1>1, EnterType DEF interact
  <2>. QED  BY <1>1, <2>1, ModesAssumption DEF interact
<1>2. CASE id_generate(r) \/ set_blocked(r)
  <2>1. CASE id_generate(r)
    BY <2>1 DEF id_generate
  <2>2. CASE set_blocked(r)
    BY <2>2 DEF set_blocked
  <2>. QED  BY <1>2, <2>1, <2>2
<1>3. CASE insert_transaction(r)
  <2>1. overlapped' \subseteq {"id", "list", "table"}
    BY <1>3, EnterType DEF insert_transaction
  <2>. QED  BY <1>3, <2>1 DEF insert_transaction
<1>4. CASE evict_transaction(r)
  BY <1>4 DEF evict_transaction
<1>5. CASE remove_load(r)
  <2>1. get_transaction(table, rid[r]) \in Transaction \cup {NoTransaction}
    BY HashCodeType DEF get_transaction, Table
  <2>. QED  BY <1>5, <2>1 DEF remove_load
<1>6. CASE evict_clear(r) \/ delete_clear(r)
  <2>1. remove_clear(r)
    BY <1>6 DEF evict_clear, delete_clear
  <2>2. /\ table' \in Table
        /\ destroyed' \in [Request -> Nat]
        /\ hand' \in [Request -> Transaction \cup {NoTransaction}]
    BY <2>1, RemoveClearType
  <2>3. pc' \in [Request -> ClientPoint]
    BY <1>6 DEF evict_clear, delete_clear
  <2>. QED  BY <2>1, <2>2, <2>3 DEF remove_clear
<1>7. CASE store_transaction(r)
  <2>1. insert_transaction_table(table,
            create_transaction(rid[r], mode[r].callback, r)) \in Table
    BY InsertType
  <2>. QED  BY <1>7, <2>1 DEF store_transaction
<1>8. CASE write_register(r)
  <2>1. overlapped' \subseteq {"id", "list", "table"}
    BY <1>8, EnterType DEF write_register
  <2>. QED  BY <1>8, <2>1 DEF write_register
<1>9. CASE write_link(r)
  <2>1. [rid |-> rid[r], cb |-> IF Transacts(r) THEN "write" ELSE "dummy"]
            \in Receipt
    BY DEF Receipt
  <2>2. receipts' \in Seq(Receipt)
    BY <1>9, <2>1, AppendProperties DEF write_link
  <2>. QED  BY <1>9, <2>2 DEF write_link
<1>10. CASE write_sent(r)
  <2>1. sent' \in Seq(DbRequest)
    BY <1>10, RequestTypes, AppendProperties DEF write_sent
  <2>. QED  BY <1>10, <2>1 DEF write_sent
<1>11. CASE write_failed(r) \/ wait_lock(r)
  BY <1>11 DEF write_failed, wait_lock
<1>12. CASE wait_woken(r) \/ wait_spurious(r)
  BY <1>12 DEF wait_woken, wait_spurious, wait_return
<1>13. CASE wait_timeout(r)
  BY <1>13 DEF wait_timeout
<1>14. CASE cleanup(r)
  <2>1. overlapped' \subseteq {"id", "list", "table"}
    BY <1>14, EnterType DEF cleanup
  <2>. QED  BY <1>14, <2>1 DEF cleanup
<1>. QED  BY <1>1, <1>2, <1>3, <1>4, <1>5, <1>6, <1>7, <1>8, <1>9, <1>10,
             <1>11, <1>12, <1>13, <1>14 DEF client, proceed

\* The calls of the DB layer the listen thread makes.
CallStep ==
    \/ call_number \/ call_id_generate \/ call_register \/ call_link
    \/ send_monitor_feedback_request \/ delete_gateway_config \/ delete_feedback

\* A step of the listen thread inside such a call.
LEMMA TypeCall ==
    ASSUME TypeInv, CallStep
    PROVE  TypeInv'
<1> USE DEF TypeInv, TypeOK, listenVars, callVars, dbVars, wireVars, apiVars,
            clientVars, history, ListenPoint, CallPoint, GoOn, EndCall
<1>0. /\ NoMessage \in DbMessage
      /\ 0 \in Slot
      /\ msg.uuid \in Nat
  BY MessageTypes, TableSizeAssumption DEF NoMessage, Slot, DbMessage
<1>1. CASE call_number
  <2>1. overlapped' \subseteq {"id", "list", "table"}
    BY <1>1, EnterType DEF call_number
  <2>. QED  BY <1>1, <2>1 DEF call_number
<1>2. CASE call_id_generate
  BY <1>2 DEF call_id_generate
<1>3. CASE call_register
  <2>1. overlapped' \subseteq {"id", "list", "table"}
    BY <1>3, EnterType DEF call_register
  <2>. QED  BY <1>3, <2>1 DEF call_register
<1>4. CASE call_link
  <2>1. DummyReceipt(lrid) \in Receipt
    BY DEF DummyReceipt, Receipt
  <2>2. receipts' \in Seq(Receipt)
    BY <1>4, <2>1, AppendProperties DEF call_link
  <2>. QED  BY <1>4, <2>2 DEF call_link
<1>5. CASE send_monitor_feedback_request
  <2>1. [op |-> "monitor", rid |-> lrid, arg |-> uid] \in DbRequest
    BY RequestTypes
  <2>2. Append(sent, [op |-> "monitor", rid |-> lrid, arg |-> uid])
            \in Seq(DbRequest)
    BY <2>1, AppendProperties
  <2>3. Append(monitors, uid) \in Seq(Nat)
    BY AppendProperties
  <2>4. mon_list_remove(Append(monitors, uid), uid) \in Seq(Nat)
    BY <2>3, MonitorRemoved
  <2>. QED  BY <1>5, <2>2, <2>3, <2>4 DEF send_monitor_feedback_request
<1>6. CASE delete_gateway_config \/ delete_feedback
  <2>1. PICK op \in {"deleteGw", "deleteFb"}, next \in {"deleteFb", "signal"} :
            delete_row(op, next)
    BY <1>6 DEF delete_gateway_config, delete_feedback
  <2>2. Append(sent, [op |-> op, rid |-> lrid, arg |-> msg.uuid])
            \in Seq(DbRequest)
    BY <1>0, RequestTypes, AppendProperties
  <2>3. sent' \in Seq(DbRequest)
    BY <2>1, <2>2 DEF delete_row
  <2>4. /\ lpc' \in ListenPoint /\ lpc' # "callback"
        /\ msg' \in DbMessage /\ key' \in Slot
        /\ entry' \in Transaction \cup {NoTransaction}
    BY <1>0, <2>1 DEF delete_row, BackToListen
  <2>. QED  BY <2>1, <2>3, <2>4 DEF delete_row
<1>. QED  BY <1>1, <1>2, <1>3, <1>4, <1>5, <1>6 DEF CallStep

\* A step of the listen thread.
LEMMA TypeListen ==
    ASSUME TypeInv, ovsdb_listen \/ listen_exit
    PROVE  TypeInv'
<1> USE DEF TypeInv, TypeOK, listenVars, callVars, dbVars, wireVars, apiVars,
            clientVars, history, ListenPoint, GoOn
<1>0. /\ NoMessage \in DbMessage
      /\ 0 \in Slot
      /\ msg.rid \in Nat /\ msg.uuid \in Nat
      /\ msg.status \in {"SUCCESS", "FAILED"}
  BY MessageTypes, TableSizeAssumption DEF NoMessage, Slot, DbMessage
<1>1. CASE listen
  <2>1. Head(inbox) \in DbMessage /\ Tail(inbox) \in Seq(DbMessage)
    BY <1>1, HeadTailProperties DEF listen
  <2>2. \A node : listen_dispatch(Head(inbox), node)
                      \in {"update", "unlink", "find", "listen"}
    BY DEF listen_dispatch
  <2>3. \/ lpc' = "listen" /\ msg' = NoMessage /\ key' = 0 /\ entry' = NoTransaction
        \/ /\ lpc' \in {"update", "unlink", "find"}
           /\ msg' = Head(inbox) /\ key' = key /\ entry' = entry
    BY <1>1, <2>2 DEF listen, BackToListen
  <2>4. /\ inbox' = Tail(inbox)
        /\ UNCHANGED <<clientVars, callVars, apiVars, dbVars, sent, history>>
    BY <1>1 DEF listen
  <2>. QED  BY <1>0, <2>1, <2>3, <2>4
<1>2. CASE write_callback
  <2>1. get_transaction(table, msg.rid) # NoTransaction
          => update_transaction_uuid(table, msg.rid, msg.uuid) \in Table
    BY <1>0, UpdateType
  <2>. QED  BY <1>2, <2>1 DEF write_callback
<1>3. CASE CallStep
  BY <1>3, TypeCall
<1>4. CASE receipt_unlink
  <2>1. overlapped' \subseteq {"id", "list", "table"}
    BY <1>4, EnterType DEF receipt_unlink
  <2>. QED  BY <1>4, <2>1 DEF receipt_unlink
<1>5. CASE receipt_unlink_store
  <2>1. PICK i \in Found(msg.rid) :
            receipts' = IF i = 0 THEN receipts
                        ELSE SubSeq(receipts, 1, i - 1)
                               \o SubSeq(receipts, i + 1, Len(receipts))
    BY <1>5 DEF receipt_unlink_store
  <2>2. i = 0 \/ i \in 1 .. Len(receipts)
    BY <1>0, <2>1, FoundNode DEF Matches
  <2>3. receipts' \in Seq(Receipt)
    BY <2>1, <2>2, NodeRemoved
  <2>. QED  BY <1>0, <1>5, <2>3 DEF receipt_unlink_store, BackToListen
<1>6. CASE complete_find
  <2>1. Matching(table, msg.uuid) # {}
          => find_transaction_key(table, msg.uuid) \in Slot
    BY <1>0, FindKey DEF Matching
  <2>. QED  BY <1>0, <1>6, <2>1 DEF complete_find, BackToListen
<1>7. CASE complete_remove \/ complete_load
  <2>1. overlapped' \subseteq {"id", "list", "table"}
    BY <1>7, EnterType DEF complete_remove, complete_load
  <2>2. table[key] \in Transaction \cup {NoTransaction}
    BY DEF Table
  <2>. QED  BY <1>0, <1>7, <2>1, <2>2
            DEF complete_remove, complete_load, BackToListen
<1>8. CASE complete_clear \/ complete_callback
  <2>1. CASE complete_clear
    <3>1. slot_cleared(table, key) \in Table
      BY RemoveType
    <3>. QED  BY <1>0, <2>1, <3>1 DEF complete_clear, BackToListen
  <2>2. CASE complete_callback
    <3>1. entry.config \in Request
      BY <2>2 DEF complete_callback, Transaction
    <3>2. delivered' \in [Request -> Seq({"SUCCESS", "FAILED"})]
      BY <1>0, <2>2, <3>1, AppendProperties DEF complete_callback
    <3>3. destroyed' \in [Request -> Nat]
      BY <2>2, DestroyType DEF complete_callback
    <3>. QED  BY <2>2, <3>2, <3>3 DEF complete_callback
  <2>. QED  BY <1>8, <2>1, <2>2
<1>9. CASE signal_test
  BY <1>0, <1>9 DEF signal_test, BackToListen
<1>10. CASE signal_wake
  BY <1>0, <1>10 DEF signal_wake, BackToListen, Goto, ClientPoint
<1>11. CASE listen_exit
  BY <1>11, EmptySeq DEF listen_exit
<1>. QED  BY <1>1, <1>2, <1>3, <1>4, <1>5, <1>6, <1>7, <1>8, <1>9, <1>10,
             <1>11 DEF ovsdb_listen, CallStep

\* A step of the server, another component or the agent.
LEMMA TypeDatabase ==
    ASSUME TypeInv, db_execute \/ other_insert \/ agent
    PROVE  TypeInv'
<1> USE DEF TypeInv, TypeOK, listenVars, callVars, dbVars, wireVars, apiVars,
            clientVars, history
<1>1. Len(inserted) \in Nat
  BY LenProperties
<1>0. gwRows \cup {Len(inserted) + 1} \subseteq Nat
  <2>1. Len(inserted) + 1 \in Nat
    BY <1>1
  <2>. QED  BY <2>1, Zenon
<1>2. CASE db_execute
  <2> DEFINE q == Head(sent)
  <2>1. q \in DbRequest /\ Tail(sent) \in Seq(DbRequest)
    BY <1>2, HeadTailProperties DEF db_execute
  <2>2. q.rid \in Nat /\ q.arg \in Nat /\ (q.op = "insert" => q.arg \in Request)
    BY <2>1, RequestFields
  <2>3. /\ Reply(q.rid, Len(inserted) + 1) \in DbMessage
        /\ Reply(q.rid, NoUuid) \in DbMessage
        /\ Done(q.rid) \in DbMessage
    BY <1>1, <2>2, MessageTypes DEF NoUuid
  <2>4. \A m \in DbMessage : Append(inbox, m) \in Seq(DbMessage)
    BY AppendProperties
  <2>5. /\ \A r \in Request : Append(inserted, r)
                                \in Seq(Request \cup {OtherComponent})
        /\ \A n \in Nat : Append(dbMonitors, n) \in Seq(Nat)
    BY AppendProperties
  <2>6. sent' \in Seq(DbRequest) /\ inbox' \in Seq(DbMessage)
    BY <1>2, <2>1, <2>3, <2>4 DEF db_execute
  <2>7. /\ inserted' \in Seq(Request \cup {OtherComponent})
        /\ dbMonitors' \in Seq(Nat)
    BY <1>2, <2>2, <2>5 DEF db_execute
  <2>8. gwRows' \subseteq Nat /\ fbRows' \subseteq Nat
    <3>1. /\ gwRows' \subseteq gwRows \cup {Len(inserted) + 1}
          /\ fbRows' \subseteq fbRows
      BY <1>2, Zenon DEF db_execute
    <3>. QED  BY <1>0, <3>1, Zenon
  <2>. QED  BY <1>2, <2>6, <2>7, <2>8 DEF db_execute
<1>3. CASE other_insert
  <2>1. Append(inserted, OtherComponent) \in Seq(Request \cup {OtherComponent})
    BY AppendProperties
  <2>2. /\ inserted' = Append(inserted, OtherComponent)
        /\ gwRows' = gwRows \cup {Len(inserted) + 1}
        /\ UNCHANGED <<clientVars, listenVars, apiVars, wireVars, fbRows,
                       verdicts, dbMonitors, history>>
    BY <1>3, Zenon DEF other_insert
  <2>3. inserted' \in Seq(Request \cup {OtherComponent}) /\ gwRows' \subseteq Nat
    BY <1>0, <2>1, <2>2, Zenon
  <2>. QED  BY <2>2, <2>3
<1>4. CASE agent
  <2>1. PICK u \in 1 .. Len(inserted), s \in Verdicts : agent_feedback(u, s)
    BY <1>4 DEF agent
  <2>2. u \in Nat /\ s \in {"SUCCESS", "FAILED"}
    BY <1>1, VerdictsAssumption
  <2>3. inbox' \in Seq(DbMessage)
    BY <2>1, <2>2, UpdatesType, ConcatProperties DEF agent_feedback
  <2>. QED  BY <2>1, <2>2, <2>3 DEF agent_feedback
<1>. QED  BY <1>2, <1>3, <1>4

\* Types are kept by every step.
LEMMA TypeNext ==
    ASSUME TypeInv, [Next]_vars
    PROVE  TypeInv'
<1>1. CASE UNCHANGED vars
  BY <1>1 DEF TypeInv, TypeOK, vars, listenVars, callVars, dbVars, wireVars,
              apiVars, clientVars, history
<1>2. CASE Next
  BY <1>1, <1>2, TypeClient, TypeListen, TypeDatabase DEF Next, idle
<1>. QED  BY <1>1, <1>2

\* Types, with the entry of a completion, hold in every reachable state.
LEMMA TypeInvariant == Spec => []TypeInv
BY TypeInit, TypeNext, PTL DEF Spec

\* Every variable keeps its type: the callback that completes a transaction
\* works on an entry that was in the table, and what the library sends and
\* receives is well formed.
THEOREM TypeCorrect == Spec => []TypeOK
<1>1. TypeInv => TypeOK
  BY DEF TypeInv
<1>. QED  BY <1>1, TypeInvariant, PTL

----------------------------------------------------------------------------
(* A failed call leaves no transaction.  The table deletes by slot, without *)
(* looking at the entry; what makes that enough is that an entry is never   *)
(* in a slot other than that of its own request, and that its request has   *)
(* stored it and not failed yet.                                            *)

PastStore == {"register", "link", "write", "lock", "wait", "woken", "cleanup",
              "delete_load", "delete_clear", "succeeded"}

EntryInPlace(t, k) ==
    /\ k = hash_code(t.id)
    /\ t.id = rid[t.config]
    /\ pc[t.config] \in PastStore

EntriesInPlace == \A k \in Slot : table[k] # NoTransaction => EntryInPlace(table[k], k)

\* An operation that empties slots and changes no client keeps entries in place.
LEMMA RemovalKeepsPlace ==
    ASSUME EntriesInPlace, UNCHANGED <<pc, rid>>,
           \A k \in Slot : table'[k] \in {table[k], NoTransaction}
    PROVE  EntriesInPlace'
BY DEF EntriesInPlace, EntryInPlace

\* A client thread stores, evicts and deletes by the slot of an id.
LEMMA PlaceClient ==
    ASSUME TypeOK, EntriesInPlace, NEW r \in Request, client(r)
    PROVE  EntriesInPlace'
<1> USE DEF EntriesInPlace, EntryInPlace, PastStore, Goto
<1>0. \A k \in Slot : table[k] # NoTransaction =>
          table[k].config \in Request /\ table[k].id \in Nat
  BY DEF TypeOK, Table, Transaction
<1>1. /\ table \in Table /\ rid \in [Request -> Nat]
      /\ pc \in [Request -> ClientPoint]
      /\ mode[r].callback \in BOOLEAN
      /\ hash_code(rid[r]) \in Slot
  BY HashCodeType DEF TypeOK
<1>2. CASE pc[r] \notin PastStore /\ table' = table
           /\ \A s \in Request \ {r} : pc'[s] = pc[s] /\ rid'[s] = rid[s]
  BY <1>0, <1>2
<1>3. CASE /\ table' = table /\ rid' = rid /\ pc'[r] \in PastStore
           /\ \A s \in Request \ {r} : pc'[s] = pc[s]
  BY <1>0, <1>3
<1>4. CASE interact(r) \/ set_blocked(r) \/ insert_transaction(r)
           \/ evict_transaction(r) \/ id_generate(r)
  <2>1. /\ pc[r] \notin PastStore /\ table' = table
        /\ \A s \in Request \ {r} : pc'[s] = pc[s] /\ rid'[s] = rid[s]
    BY <1>1, <1>4 DEF interact, set_blocked, insert_transaction,
                      evict_transaction, id_generate, apiVars
  <2>. QED  BY <1>2, <2>1
<1>5. CASE evict_clear(r)
  <2>1. \A k \in Slot : table'[k] \in {table[k], NoTransaction}
    BY <1>1, <1>5 DEF evict_clear, remove_clear, slot_cleared, Table
  <2>2. /\ pc[r] \notin PastStore /\ rid' = rid
        /\ \A s \in Request \ {r} : pc'[s] = pc[s]
    BY <1>1, <1>5 DEF evict_clear, remove_clear
  <2>. QED  BY <1>0, <2>1, <2>2
<1>6. CASE store_transaction(r)
  <2>1. /\ rid' = rid /\ pc'[r] = "register"
        /\ \A s \in Request \ {r} : pc'[s] = pc[s]
    BY <1>1, <1>6 DEF store_transaction
  <2>2. \A k \in Slot \ {hash_code(rid[r])} : table'[k] = table[k]
    BY <1>1, <1>6 DEF store_transaction, insert_transaction_table, Table,
                      create_transaction
  <2>3. table'[hash_code(rid[r])] = create_transaction(rid[r], mode[r].callback, r)
    BY <1>1, <1>6 DEF store_transaction, insert_transaction_table, Table,
                      create_transaction
  <2>4. EntryInPlace(table[hash_code(rid[r])], hash_code(rid[r]))'
    BY <2>1, <2>3 DEF create_transaction
  <2>. QED  BY <1>0, <1>1, <2>1, <2>2, <2>4
<1>7. CASE \/ write_register(r) \/ write_link(r) \/ write_sent(r)
           \/ write_failed(r) \/ wait_lock(r) \/ wait_woken(r)
           \/ wait_spurious(r) \/ wait_timeout(r)
  <2>1. /\ table' = table /\ rid' = rid /\ pc'[r] \in PastStore
        /\ \A s \in Request \ {r} : pc'[s] = pc[s]
    BY <1>1, <1>7 DEF write_register, write_link, write_sent, write_failed,
                      wait_lock, wait_woken, wait_spurious, wait_return,
                      wait_timeout, apiVars
  <2>. QED  BY <1>3, <2>1
<1>8. CASE remove_load(r)
  <2>1. /\ table' = table /\ rid' = rid
        /\ pc'[r] \in PastStore \/ pc[r] \notin PastStore
        /\ \A s \in Request \ {r} : pc'[s] = pc[s]
    BY <1>1, <1>8 DEF remove_load, apiVars
  <2>. QED  BY <1>2, <1>3, <2>1
<1>9. CASE cleanup(r)
  <2>1. table' = table /\ rid' = rid /\ \A s \in Request \ {r} : pc'[s] = pc[s]
    BY <1>1, <1>9 DEF cleanup, apiVars
  <2>2. CASE pc'[r] \in PastStore
    BY <1>3, <2>1, <2>2
  <2>3. CASE pc'[r] \notin PastStore
    <3>1. table[hash_code(rid[r])] = NoTransaction
      BY <1>1, <1>9, <2>3 DEF cleanup, get_transaction
    <3>2. \A k \in Slot : table[k] # NoTransaction => table[k].config # r
      BY <3>1
    <3>. QED  BY <1>0, <2>1, <3>2
  <2>. QED  BY <2>2, <2>3
<1>10. CASE delete_clear(r)
  <2>1. rid' = rid /\ \A s \in Request \ {r} : pc'[s] = pc[s]
    BY <1>1, <1>10 DEF delete_clear, remove_clear
  <2>2. /\ table'[hash_code(rid[r])] = NoTransaction
        /\ \A k \in Slot \ {hash_code(rid[r])} : table'[k] = table[k]
    BY <1>1, <1>10 DEF delete_clear, remove_clear, slot_cleared, Table
  <2>3. \A k \in Slot : table'[k] # NoTransaction => table'[k].config # r
    BY <2>2
  <2>. QED  BY <1>0, <1>1, <2>1, <2>2, <2>3
<1>. QED  BY <1>4, <1>5, <1>6, <1>7, <1>8, <1>9, <1>10 DEF client, proceed

\* The listen thread updates in place and removes.
LEMMA PlaceListen ==
    ASSUME TypeOK, EntriesInPlace, ovsdb_listen \/ listen_exit
    PROVE  EntriesInPlace'
<1>0. table \in Table /\ key \in Slot
  BY DEF TypeOK
<1>1. CASE write_callback
  <2>1. msg.rid \in Nat
    BY DEF TypeOK, DbMessage
  <2>2. pc' = pc /\ rid' = rid
    BY <1>1 DEF write_callback, clientVars
  <2>3. CASE get_transaction(table, msg.rid) = NoTransaction
    BY <1>1, <2>2, <2>3, RemovalKeepsPlace DEF write_callback
  <2>4. CASE get_transaction(table, msg.rid) # NoTransaction
    <3> DEFINE k == hash_code(msg.rid)
    <3>1. k \in Slot
      BY <2>1, HashCodeType
    <3>2. /\ table'[k] = [table[k] EXCEPT !.uuid = msg.uuid]
          /\ \A j \in Slot \ {k} : table'[j] = table[j]
      BY <1>0, <1>1, <2>4, <3>1 DEF write_callback, update_transaction_uuid, Table
    <3>3. table[k] \in Transaction
      BY <1>0, <2>4, <3>1 DEF get_transaction, Table
    <3>4. table'[k].id = table[k].id /\ table'[k].config = table[k].config
      BY <3>2, <3>3 DEF Transaction
    <3>. QED  BY <2>2, <2>4, <3>1, <3>2, <3>4
              DEF EntriesInPlace, EntryInPlace, get_transaction
  <2>. QED  BY <2>3, <2>4
<1>2. CASE complete_clear
  <2>1. \A k \in Slot : table'[k] \in {table[k], NoTransaction}
    BY <1>0, <1>2 DEF complete_clear, slot_cleared, Table
  <2>. QED  BY <1>2, <2>1, RemovalKeepsPlace DEF complete_clear, clientVars
<1>3. CASE signal_wake
  <2>1. /\ table' = table /\ rid' = rid
        /\ \A s \in Request : pc[s] \in PastStore => pc'[s] \in PastStore
    BY <1>3 DEF signal_wake, Goto, TypeOK, PastStore
  <2>2. \A k \in Slot : table[k] # NoTransaction => table[k].config \in Request
    BY DEF TypeOK, Table, Transaction
  <2>. QED  BY <2>1, <2>2 DEF EntriesInPlace, EntryInPlace
<1>4. CASE table' = table /\ pc' = pc /\ rid' = rid
  BY <1>4, RemovalKeepsPlace
<1>5. CASE \/ listen \/ CallStep \/ receipt_unlink \/ receipt_unlink_store
           \/ complete_find \/ complete_remove \/ complete_load
           \/ complete_callback \/ signal_test \/ listen_exit
  <2>1. table' = table /\ pc' = pc /\ rid' = rid
    BY <1>5 DEF listen, CallStep, call_number, call_id_generate,
                call_register, call_link, send_monitor_feedback_request,
                receipt_unlink, receipt_unlink_store, complete_find,
                complete_remove, complete_load, complete_callback,
                delete_gateway_config, delete_feedback, delete_row,
                signal_test, listen_exit, clientVars, apiVars
  <2>. QED  BY <1>4, <2>1
<1>. QED  BY <1>1, <1>2, <1>3, <1>5 DEF ovsdb_listen, CallStep

\* Entries stay where their ids put them, whoever acts.
LEMMA PlaceNext ==
    ASSUME TypeOK, EntriesInPlace, [Next]_vars
    PROVE  EntriesInPlace'
<1>1. CASE \/ db_execute \/ other_insert \/ agent \/ idle \/ UNCHANGED vars
  <2>1. table' = table /\ pc' = pc /\ rid' = rid
    BY <1>1 DEF db_execute, other_insert, agent, agent_feedback, idle, vars,
                clientVars, apiVars
  <2>. QED  BY <2>1, RemovalKeepsPlace
<1>. QED  BY <1>1, PlaceClient, PlaceListen DEF Next

\* The table is empty at first.
LEMMA PlaceInit == Init => EntriesInPlace
BY DEF Init, EntriesInPlace, init_transaction_table

\* Every entry of the table is in the slot of its id, has the id id_generate gave
\* its request, and that request is past insert_transaction and has not failed.
THEOREM EntriesStayInPlace == Spec => []EntriesInPlace
<1>1. TypeOK /\ EntriesInPlace /\ [Next]_vars => EntriesInPlace'
  BY PlaceNext
<1>. QED  BY <1>1, PlaceInit, TypeCorrect, PTL DEF Spec

\* handle_transact_insert_request, when it returns false, has deleted its
\* transaction, for every size of the table and however many requests share a
\* slot: delete_transaction clears by slot, and the slot is the right one.
THEOREM FailedCallCorrect == Spec => []FailedCallLeavesNoTransaction
<1>1. EntriesInPlace => FailedCallLeavesNoTransaction
  BY DEF EntriesInPlace, EntryInPlace, PastStore, FailedCallLeavesNoTransaction
<1>. QED  BY <1>1, EntriesStayInPlace, PTL
============================================================================
