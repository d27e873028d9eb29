-------------------------- MODULE Contract_proofs --------------------------
(***************************************************************************)
(* The transaction manager implements TransactionContract as long as no    *)
(* two threads meet in one slot of the table, for every table size, number *)
(* of requests and threads, and set of faults.                             *)
(***************************************************************************)
EXTENDS Waiting_proofs, Rows_proofs

----------------------------------------------------------------------------
(* The calls: only a call with a transaction comes to store one, and a     *)
(* call that has written its request has a status.                         *)

Transacting ==
    \A r \in Request :
        pc[r] \in {"block", "insert", "evict", "evict_load", "evict_clear",
                   "store"}
            => Transacts(r)

StatusSet ==
    \A r \in Request :
        pc[r] \in {"lock", "wait", "woken", "cleanup", "delete_load",
                   "delete_clear"}
            => status[r] # "UNSET"

CallInv == Transacting /\ StatusSet

\* Every client step keeps this, and only store_transaction stores.
LEMMA CallClient ==
    ASSUME TypeOK, CallInv, UnsetBeforeWrite, NEW r \in Request, client(r)
    PROVE  /\ CallInv'
           /\ \A s \in Request \ {r} : Stored(s)' <=> Stored(s)
           /\ ~store_transaction(r) => (Stored(r)' <=> Stored(r))
           /\ store_transaction(r) => Stored(r)' /\ ~Stored(r)
<1> USE DEF Goto
<1>0. /\ pc \in [Request -> ClientPoint]
      /\ mode \in [Request -> [block: BOOLEAN, callback: BOOLEAN]]
      /\ status \in [Request -> Status]
  BY DEF TypeOK
<1>1. \A s \in Request \ {r} :
          pc'[s] = pc[s] /\ mode'[s] = mode[s] /\ status'[s] = status[s]
  BY <1>0 DEF client, proceed, interact, id_generate, set_blocked,
              insert_transaction, evict_transaction, remove_load, remove_clear,
              evict_clear, delete_clear, store_transaction, write_register,
              write_link, write_sent, write_failed, wait_lock, wait_woken,
              wait_spurious, wait_return, wait_timeout, cleanup
<1>2. \A s \in Request \ {r} : Stored(s)' <=> Stored(s)
  BY <1>1 DEF Stored, Transacts
<1>3. CASE interact(r)
  <2>1. pc[r] = "ready" /\ pc'[r] = "number"
    BY <1>0, <1>3 DEF interact
  <2>2. ~Stored(r) /\ ~Stored(r)' /\ ~store_transaction(r)
    BY <2>1 DEF Stored, store_transaction
  <2>3. CallInv'
    BY <1>1, <2>1 DEF CallInv, Transacting, StatusSet, Transacts
  <2>. QED  BY <1>2, <2>2, <2>3
<1>4. CASE id_generate(r)
  <2>1. /\ pc[r] = "number" /\ mode' = mode
        /\ pc'[r] = IF Transacts(r) THEN "block" ELSE "register"
    BY <1>0, <1>4 DEF id_generate
  <2>2. ~Stored(r) /\ ~Stored(r)' /\ ~store_transaction(r)
    BY <2>1 DEF Stored, Transacts, store_transaction
  <2>3. CallInv'
    BY <1>1, <2>1 DEF CallInv, Transacting, StatusSet, Transacts
  <2>. QED  BY <1>2, <2>2, <2>3
<1>5. CASE store_transaction(r)
  <2>1. pc[r] = "store" /\ pc'[r] = "register" /\ mode' = mode /\ Transacts(r)
    BY <1>0, <1>5 DEF store_transaction, CallInv, Transacting
  <2>2. ~Stored(r) /\ Stored(r)'
    BY <2>1 DEF Stored, Transacts
  <2>3. CallInv'
    BY <1>1, <2>1 DEF CallInv, Transacting, StatusSet, Transacts
  <2>. QED  BY <1>2, <1>5, <2>2, <2>3
<1>6. CASE /\ ~interact(r) /\ ~id_generate(r) /\ ~store_transaction(r)
  <2> DEFINE Before == {"block", "insert", "evict", "evict_load",
                        "evict_clear"}
             Waiting == {"lock", "wait", "woken", "cleanup", "delete_load",
                         "delete_clear"}
             After == {"register", "link", "write", "succeeded"} \cup Waiting
  <2>1. mode' = mode
    BY <1>6 DEF client, proceed, set_blocked, insert_transaction,
              evict_transaction, remove_load, remove_clear, evict_clear,
              delete_clear, write_register, write_link, write_sent,
              write_failed, wait_lock, wait_woken, wait_spurious, wait_return,
              wait_timeout, cleanup
  <2>2. \/ /\ pc[r] \in Before
           /\ \/ pc'[r] \in Before \cup {"store"}
              \/ pc'[r] = "failed" /\ status'[r] = "UNSET"
        \/ /\ pc[r] \in After
           /\ \/ pc'[r] \in After
              \/ pc'[r] = "failed" /\ status'[r] # "UNSET"
           /\ pc'[r] \in Waiting => status'[r] # "UNSET"
    <3>1. CASE set_blocked(r) \/ insert_transaction(r)
      BY <1>0, <3>1 DEF set_blocked, insert_transaction
    <3>2. CASE evict_transaction(r) \/ evict_clear(r)
      <4>1. /\ pc[r] \in {"evict", "evict_clear"} /\ status' = status
            /\ pc'[r] \in {"evict_load", "failed", "store"}
        BY <1>0, <3>2 DEF evict_transaction, evict_clear, remove_clear
      <4>. QED  BY <4>1 DEF UnsetBeforeWrite
    <3>3. CASE \/ write_register(r) \/ write_link(r) \/ write_sent(r)
               \/ write_failed(r) \/ wait_lock(r) \/ wait_timeout(r)
      BY <1>0, <3>3 DEF write_register, write_link, write_sent, write_failed,
                        wait_lock, wait_timeout
    <3>4. CASE wait_woken(r) \/ wait_spurious(r)
      BY <1>0, <3>4 DEF wait_woken, wait_spurious, wait_return
    <3>5. CASE cleanup(r) \/ remove_load(r) \/ delete_clear(r)
      <4>1. /\ pc[r] \in {"cleanup", "evict_load", "delete_load", "delete_clear"}
            /\ status' = status
            /\ pc[r] = "evict_load" => pc'[r] = "evict_clear"
            /\ pc[r] # "evict_load"
                 => pc'[r] \in {"succeeded", "failed", "delete_load",
                                "delete_clear"}
        BY <1>0, <3>5 DEF cleanup, remove_load, delete_clear, remove_clear
      <4>. QED  BY <4>1 DEF CallInv, StatusSet
    <3>. QED  BY <1>6, <3>1, <3>2, <3>3, <3>4, <3>5 DEF client, proceed
  <2>3. Stored(r)' <=> Stored(r)
    BY <2>1, <2>2 DEF Stored, Transacts
  <2>4. CallInv'
    BY <1>1, <2>1, <2>2 DEF CallInv, Transacting, StatusSet, Transacts
  <2>. QED  BY <1>2, <1>6, <2>3, <2>4
<1>. QED  BY <1>3, <1>4, <1>5, <1>6

\* A step of no client moves a client at most from its sleep.
LEMMA OthersMove ==
    ASSUME TypeOK, [Next]_vars, ~ \E r \in Request : client(r)
    PROVE  /\ UNCHANGED <<mode, rid, status, hand>>
           /\ \A r \in Request :
                pc'[r] = pc[r] \/ (pc[r] = "wait" /\ pc'[r] = "woken")
<1>1. CASE signal_wake
  BY <1>1 DEF signal_wake, Goto, TypeOK
<1>2. CASE ~signal_wake
  BY <1>2 DEF Next, ovsdb_listen, listen, write_callback, call_number,
              call_id_generate, call_register, call_link,
              send_monitor_feedback_request, receipt_unlink,
              receipt_unlink_store, complete_find, complete_remove,
              complete_load, complete_clear, complete_callback,
              delete_gateway_config, delete_feedback, delete_row, signal_test,
              listen_exit, db_execute, other_insert, agent, agent_feedback,
              idle, vars, clientVars
<1>. QED  BY <1>1, <1>2

\* No other step stores a transaction.
LEMMA CallOthers ==
    ASSUME TypeOK, CallInv, [Next]_vars, ~ \E r \in Request : client(r)
    PROVE  CallInv' /\ \A r \in Request : Stored(r)' <=> Stored(r)
BY OthersMove DEF CallInv, Transacting, StatusSet, Stored, Transacts

----------------------------------------------------------------------------
(* Windows of the table.  Whoever is in a slot's window is alone there, so *)
(* what it has seen in the slot is still there when it acts on it.         *)

Inside(a) ==
    IF a = ListenThread THEN lpc \in {"load", "clear"}
    ELSE pc[a] \in {"evict", "evict_load", "evict_clear", "store",
                    "delete_load", "delete_clear"}

SlotOf(a) == IF a = ListenThread THEN key ELSE hash_code(rid[a])

\* The entry t is the one in slot k; its uuid may have changed.
InThere(t, k) ==
    /\ t # NoTransaction
    /\ table[k] # NoTransaction
    /\ table[k].config = t.config

Sees(a) ==
    IF a = ListenThread
    THEN /\ lpc = "load" => table[key] # NoTransaction
         /\ lpc = "clear" => InThere(entry, key)
    ELSE /\ pc[a] \in {"evict", "evict_load", "delete_load"}
              => table[SlotOf(a)] # NoTransaction
         /\ pc[a] \in {"evict_clear", "delete_clear"}
              => InThere(hand[a], SlotOf(a))
         /\ pc[a] = "store" => table[SlotOf(a)] = NoTransaction

AloneInSlot ==
    \A a, b \in Actor :
        Inside(a) /\ Inside(b) /\ SlotOf(a) = SlotOf(b) => a = b

Windows == AloneInSlot /\ \A a \in Actor : Sees(a)

\* a does not move inside its window.
Waits(a) ==
    IF a = ListenThread THEN UNCHANGED <<lpc, key, entry>>
    ELSE pc'[a] = pc[a] /\ rid'[a] = rid[a] /\ hand'[a] = hand[a]

\* Slot k keeps its entry, but for the uuid.
SameOwner(k) ==
    \/ table'[k] = table[k]
    \/ /\ table[k] # NoTransaction /\ table'[k] # NoTransaction
       /\ table'[k].config = table[k].config

\* A step of a that touches no slot but its own, which it enters only if nobody
\* is in it, leaves the others what they have seen.
LEMMA WindowsKept ==
    ASSUME Windows, NEW a \in Actor,
           \A b \in Actor : SlotOf(b) \in Slot,
           \A b \in Actor \ {a} : Inside(b)' => Waits(b),
           \A k \in Slot : SameOwner(k) \/ (Inside(a) /\ k = SlotOf(a)),
           Inside(a)' =>
               /\ SlotOf(a)' = SlotOf(a)
               /\ \/ Inside(a)
                  \/ \A b \in Actor : Inside(b) => SlotOf(b) # SlotOf(a),
           Sees(a)'
    PROVE  Windows'
<1>1. ASSUME NEW b \in Actor \ {a}, Inside(b)'
      PROVE  Inside(b) /\ SlotOf(b)' = SlotOf(b) /\ Sees(b)'
  <2>1. Inside(b) /\ SlotOf(b)' = SlotOf(b)
    BY <1>1 DEF Waits, Inside, SlotOf
  <2>2. SlotOf(b) \in Slot /\ SameOwner(SlotOf(b))
    BY <2>1 DEF Windows, AloneInSlot
  <2>3. Sees(b)
    BY DEF Windows
  <2>4. b = ListenThread => Sees(b)'
    BY <1>1, <2>2, <2>3 DEF Sees, InThere, SameOwner, Waits, SlotOf
  <2>5. b # ListenThread => Sees(b)'
    BY <1>1, <2>1, <2>2, <2>3 DEF Sees, InThere, SameOwner, Waits
  <2>. QED  BY <2>1, <2>4, <2>5, Zenon
<1>2. AloneInSlot'
  <2> SUFFICES ASSUME NEW b \in Actor, NEW c \in Actor, Inside(b)', Inside(c)',
                      SlotOf(b)' = SlotOf(c)'
               PROVE  b = c
    BY DEF AloneInSlot
  <2>1. CASE b # a /\ c # a
    BY <1>1, <2>1 DEF Windows, AloneInSlot
  <2>2. CASE b = a /\ c # a
    BY <1>1, <2>2 DEF Windows, AloneInSlot
  <2>3. CASE b # a /\ c = a
    BY <1>1, <2>3 DEF Windows, AloneInSlot
  <2>. QED  BY <2>1, <2>2, <2>3
<1>3. ASSUME NEW b \in Actor
      PROVE  Sees(b)'
  <2>1. CASE b = a
    BY <2>1
  <2>2. CASE b # a /\ Inside(b)'
    BY <1>1, <2>2
  <2>3. CASE ~Inside(b)'
    BY <2>3 DEF Inside, Sees
  <2>. QED  BY <2>1, <2>2, <2>3
<1>. QED  BY <1>2, <1>3 DEF Windows

\* Slots are slots of the table.
LEMMA SlotOfType ==
    ASSUME TypeOK
    PROVE  \A a \in Actor : SlotOf(a) \in Slot
<1>1. \A r \in Request : hash_code(rid[r]) \in Slot
  BY HashCodeType DEF TypeOK
<1>. QED  BY <1>1 DEF TypeOK, SlotOf, Actor

\* Whoever enters a slot without meeting another is alone in it.
LEMMA AloneEntering ==
    ASSUME NEW k, Enter("table", InSlot(k)), "table" \notin overlapped'
    PROVE  \A b \in Actor : Inside(b) => SlotOf(b) # k
<1>1. InSlot(k) = {}
  BY DEF Enter
<1>. QED  BY <1>1 DEF InSlot, Listening, Actor, Inside, SlotOf, ListenThread,
                      Request

\* A client thread.
LEMMA WindowsClient ==
    ASSUME TypeOK, Windows, NEW r \in Request, client(r),
           "table" \notin overlapped'
    PROVE  Windows'
<1> USE DEF Goto
<1> DEFINE k == hash_code(rid[r])
<1>0. /\ pc \in [Request -> ClientPoint]
      /\ hand \in [Request -> Transaction \cup {NoTransaction}]
      /\ table \in Table /\ k \in Slot
  BY HashCodeType DEF TypeOK
<1>1. /\ r \in Actor /\ r # ListenThread /\ SlotOf(r) = k
      /\ \A b \in Actor : SlotOf(b) \in Slot
  BY SlotOfType DEF Actor, Request, ListenThread, SlotOf
<1>2. \A b \in Actor \ {r} : Waits(b)
  <2>1. /\ UNCHANGED <<lpc, key, entry>>
        /\ \A s \in Request \ {r} :
             pc'[s] = pc[s] /\ rid'[s] = rid[s] /\ hand'[s] = hand[s]
    BY DEF TypeOK, client, proceed, interact, id_generate, set_blocked,
           insert_transaction, evict_transaction, remove_load, remove_clear,
           evict_clear, delete_clear, store_transaction, write_register,
           write_link, write_sent, write_failed, wait_lock, wait_woken,
           wait_spurious, wait_return, wait_timeout, cleanup, listenVars
  <2>. QED  BY <2>1 DEF Waits, Actor
<1>. HIDE DEF k
<1>3. ASSUME UNCHANGED <<table, rid>>,
             Inside(r)' => Inside(r) \/ \A b \in Actor : Inside(b) => SlotOf(b) # k,
             Sees(r)'
      PROVE  Windows'
  <2>1. SlotOf(r)' = SlotOf(r)
    BY <1>1, <1>3 DEF SlotOf
  <2>2. \A j \in Slot : SameOwner(j)
    BY <1>3 DEF SameOwner
  <2>. QED  BY <1>1, <1>2, <1>3, <2>1, <2>2, WindowsKept
<1>4. ASSUME Inside(r), rid' = rid,
             \A j \in Slot \ {k} : table'[j] = table[j],
             Sees(r)'
      PROVE  Windows'
  <2>1. SlotOf(r)' = SlotOf(r)
    BY <1>1, <1>4 DEF SlotOf
  <2>2. \A j \in Slot : SameOwner(j) \/ j = k
    BY <1>4 DEF SameOwner
  <2>. QED  BY <1>1, <1>2, <1>4, <2>1, <2>2, WindowsKept
<1>5. CASE insert_transaction(r)
  <2>1. /\ UNCHANGED <<table, rid>> /\ Enter("table", InSlot(k))
        /\ pc'[r] = IF table[k] = NoTransaction THEN "store" ELSE "evict"
    BY <1>0, <1>5 DEF insert_transaction, get_transaction, apiVars, k
  <2>2. SlotOf(r)' = k
    BY <1>1, <2>1 DEF SlotOf
  <2>3. Sees(r)'
    BY <1>1, <2>1, <2>2 DEF Sees
  <2>. QED  BY <1>3, <2>1, <2>3, AloneEntering
<1>6. CASE cleanup(r)
  <2>1. UNCHANGED <<table, rid>>
    BY <1>6 DEF cleanup, apiVars
  <2>2. SlotOf(r)' = k
    BY <1>1, <2>1 DEF SlotOf
  <2>3. CASE /\ pc'[r] = "delete_load" /\ table[k] # NoTransaction
             /\ Enter("table", InSlot(k))
    <3>1. Sees(r)'
      BY <1>1, <2>1, <2>2, <2>3 DEF Sees
    <3>. QED  BY <1>3, <2>1, <2>3, <3>1, AloneEntering
  <2>4. CASE pc'[r] \in {"succeeded", "failed"}
    <3>1. ~Inside(r)' /\ Sees(r)'
      BY <1>1, <2>4 DEF Sees, Inside
    <3>. QED  BY <1>3, <2>1, <3>1
  <2>. QED  BY <1>0, <1>6, <2>3, <2>4 DEF cleanup, get_transaction, k
<1>7. CASE evict_transaction(r) \/ remove_load(r)
  <2>1. /\ UNCHANGED <<table, rid>>
        /\ pc[r] \in {"evict", "evict_load", "delete_load"}
        /\ pc[r] = "evict" => pc'[r] \in {"failed", "evict_load"}
        /\ pc[r] # "evict"
             => /\ pc'[r] \in {"evict_clear", "delete_clear"}
                /\ hand'[r] = table[k]
    BY <1>0, <1>7 DEF evict_transaction, remove_load, get_transaction, apiVars, k
  <2>2. SlotOf(r)' = k /\ Inside(r) /\ table[k] # NoTransaction
    BY <1>1, <2>1 DEF SlotOf, Inside, Windows, Sees
  <2>3. Sees(r)'
    BY <1>1, <2>1, <2>2 DEF Sees, InThere
  <2>. QED  BY <1>3, <2>1, <2>2, <2>3
<1>8. CASE evict_clear(r) \/ delete_clear(r)
  <2>1. /\ rid' = rid /\ pc[r] \in {"evict_clear", "delete_clear"}
        /\ pc'[r] \in {"failed", "store"}
        /\ table' = slot_cleared(table, k)
    BY <1>0, <1>8 DEF evict_clear, delete_clear, remove_clear, k
  <2>2. /\ table'[k] = NoTransaction
        /\ \A j \in Slot \ {k} : table'[j] = table[j]
    BY <1>0, <2>1 DEF slot_cleared, Table
  <2>3. SlotOf(r)' = k /\ Inside(r)
    BY <1>1, <2>1 DEF SlotOf, Inside
  <2>4. Sees(r)'
    BY <1>1, <2>1, <2>2, <2>3 DEF Sees
  <2>. QED  BY <1>4, <2>1, <2>2, <2>3, <2>4
<1>9. CASE store_transaction(r)
  <2>1. /\ rid' = rid /\ pc[r] = "store" /\ pc'[r] = "register"
        /\ \A j \in Slot \ {k} : table'[j] = table[j]
    BY <1>0, <1>9 DEF store_transaction, insert_transaction_table,
                      create_transaction, Table, k
  <2>2. Inside(r) /\ Sees(r)'
    BY <1>1, <2>1 DEF Inside, Sees
  <2>. QED  BY <1>4, <2>1, <2>2
<1>10. CASE \/ id_generate(r) \/ set_blocked(r) \/ write_register(r)
            \/ write_link(r) \/ write_sent(r) \/ write_failed(r)
            \/ wait_lock(r) \/ wait_woken(r) \/ wait_spurious(r)
            \/ wait_timeout(r)
  <2>1. /\ UNCHANGED <<table, rid>>
        /\ pc'[r] \in {"block", "register", "insert", "link", "write", "lock",
                       "succeeded", "cleanup", "wait"}
    BY <1>0, <1>10 DEF id_generate, set_blocked, write_register, write_link,
              write_sent, write_failed, wait_lock, wait_woken, wait_spurious,
              wait_return, wait_timeout, apiVars
  <2>2. ~Inside(r)' /\ Sees(r)'
    BY <1>1, <2>1 DEF Inside, Sees
  <2>. QED  BY <1>3, <2>1, <2>2
<1>11. CASE interact(r)
  <2>1. table' = table /\ pc'[r] = "number"
    BY <1>0, <1>11 DEF interact, apiVars
  <2>2. ~Inside(r)' /\ Sees(r)'
    BY <1>1, <2>1 DEF Inside, Sees
  <2>3. \A j \in Slot : SameOwner(j)
    BY <2>1 DEF SameOwner
  <2>. QED  BY <1>1, <1>2, <2>2, <2>3, WindowsKept
<1>. QED  BY <1>5, <1>6, <1>7, <1>8, <1>9, <1>10, <1>11 DEF client, proceed

\* ovs_agent_api_write_callback changes the uuid of an entry, not its owner.
LEMMA UpdateKeepsOwners ==
    ASSUME TypeOK, write_callback
    PROVE  \A k \in Slot : SameOwner(k)
<1> DEFINE k == hash_code(msg.rid)
<1>1. CASE get_transaction(table, msg.rid) = NoTransaction
  BY <1>1 DEF write_callback, SameOwner
<1>2. CASE get_transaction(table, msg.rid) # NoTransaction
  <2>1. k \in Slot /\ table \in Table /\ msg.uuid \in Nat
    BY HashCodeType DEF TypeOK, DbMessage
  <2>2. /\ table'[k] = [table[k] EXCEPT !.uuid = msg.uuid]
        /\ \A j \in Slot \ {k} : table'[j] = table[j]
    BY <1>2, <2>1 DEF write_callback, update_transaction_uuid, Table
  <2>3. table[k] \in Transaction /\ table[k] # NoTransaction
    BY <1>2, <2>1 DEF get_transaction, Table
  <2>4. table'[k] \in Transaction /\ table'[k].config = table[k].config
    BY <2>1, <2>2, <2>3 DEF Transaction
  <2>5. table'[k] # NoTransaction
    BY <2>4, NoTransactionAssumption
  <2>. HIDE DEF k
  <2>. QED  BY <2>1, <2>2, <2>3, <2>4, <2>5 DEF SameOwner
<1>. QED  BY <1>1, <1>2

\* The listen thread, and everyone else.
LEMMA WindowsOthers ==
    ASSUME TypeOK, Windows, [Next]_vars, ~ \E r \in Request : client(r),
           "table" \notin overlapped'
    PROVE  Windows'
<1>0. /\ table \in Table /\ key \in Slot
      /\ ListenThread \in Actor /\ SlotOf(ListenThread) = key
      /\ \A b \in Actor : SlotOf(b) \in Slot
  BY SlotOfType DEF TypeOK, Actor, SlotOf
<1>1. \A b \in Actor \ {ListenThread} : Inside(b)' => Waits(b)
  BY OthersMove DEF Actor, Inside, Waits, ListenThread, Request
<1>2. CASE complete_remove /\ lpc' = "load"
  <2>1. /\ UNCHANGED <<table, key>> /\ table[key] # NoTransaction
        /\ Enter("table", InSlot(key))
    BY <1>2 DEF complete_remove, GoOn, BackToListen, apiVars
  <2>2. Sees(ListenThread)' /\ SlotOf(ListenThread)' = SlotOf(ListenThread)
    BY <1>2, <2>1 DEF Sees, SlotOf
  <2>3. \A k \in Slot : SameOwner(k)
    BY <2>1 DEF SameOwner
  <2>4. \A b \in Actor : Inside(b) => SlotOf(b) # SlotOf(ListenThread)
    BY <1>0, <2>1, AloneEntering
  <2>. QED  BY <1>0, <1>1, <2>2, <2>3, <2>4, WindowsKept
<1>3. CASE complete_load
  <2>1. /\ UNCHANGED <<table, key>> /\ lpc = "load" /\ lpc' = "clear"
        /\ entry' = table[key]
    BY <1>3 DEF complete_load, apiVars
  <2>2. /\ Inside(ListenThread) /\ table[key] # NoTransaction
        /\ SlotOf(ListenThread)' = SlotOf(ListenThread)
    BY <1>0, <2>1 DEF Inside, SlotOf, Windows, Sees
  <2>3. Sees(ListenThread)'
    BY <2>1, <2>2 DEF Sees, InThere
  <2>4. \A k \in Slot : SameOwner(k)
    BY <2>1 DEF SameOwner
  <2>. QED  BY <1>0, <1>1, <2>2, <2>3, <2>4, WindowsKept
<1>4. CASE complete_clear
  <2>1. /\ lpc = "clear" /\ lpc' \in {"callback", "listen"}
        /\ \A k \in Slot \ {key} : table'[k] = table[k]
    BY <1>0, <1>4 DEF complete_clear, slot_cleared, GoOn, BackToListen, Table
  <2>2. Inside(ListenThread) /\ ~Inside(ListenThread)' /\ Sees(ListenThread)'
    BY <2>1 DEF Inside, Sees
  <2>3. \A k \in Slot : SameOwner(k) \/ k = SlotOf(ListenThread)
    BY <1>0, <2>1 DEF SameOwner
  <2>. QED  BY <1>0, <1>1, <2>2, <2>3, WindowsKept
<1>5. ASSUME \A k \in Slot : SameOwner(k),
             lpc' \notin {"load", "clear"} \/ UNCHANGED <<lpc, key, entry>>
      PROVE  Windows'
  <2>1. CASE lpc' \notin {"load", "clear"}
    <3>1. ~Inside(ListenThread)' /\ Sees(ListenThread)'
      BY <2>1 DEF Inside, Sees
    <3>. QED  BY <1>0, <1>1, <1>5, <3>1, WindowsKept
  <2>2. CASE UNCHANGED <<lpc, key, entry>>
    <3>1. /\ Inside(ListenThread)' <=> Inside(ListenThread)
          /\ SlotOf(ListenThread)' = SlotOf(ListenThread)
      BY <2>2 DEF Inside, SlotOf
    <3>2. Sees(ListenThread)'
      BY <1>0, <1>5, <2>2 DEF Windows, Sees, InThere, SameOwner
    <3>. QED  BY <1>0, <1>1, <1>5, <3>1, <3>2, WindowsKept
  <2>. QED  BY <1>5, <2>1, <2>2
<1>6. CASE write_callback
  <2>1. lpc' \notin {"load", "clear"}
    BY <1>6 DEF write_callback, GoOn
  <2>. QED  BY <1>5, <1>6, <2>1, UpdateKeepsOwners
<1>7. CASE /\ ~write_callback /\ ~complete_load /\ ~complete_clear
           /\ ~ (complete_remove /\ lpc' = "load")
  <2>1. table' = table
    BY <1>7 DEF Next, ovsdb_listen, listen, call_number,
              call_id_generate, call_register, call_link,
              send_monitor_feedback_request, receipt_unlink,
              receipt_unlink_store, complete_find, complete_remove,
              complete_callback, delete_gateway_config, delete_feedback,
              delete_row, signal_test, signal_wake, listen_exit, db_execute,
              other_insert, agent, agent_feedback, idle, vars, apiVars
  <2>2. lpc' \notin {"load", "clear"} \/ UNCHANGED <<lpc, key, entry>>
    <3>1. CASE listen
      <4>1. \A node : listen_dispatch(Head(inbox), node) \notin {"load", "clear"}
        BY DispatchKinds
      <4>. QED  BY <3>1, <4>1 DEF listen, BackToListen
    <3>2. CASE ovsdb_listen /\ ~listen
      BY <1>7, <3>2 DEF ovsdb_listen, call_number,
              call_id_generate, call_register, call_link,
              send_monitor_feedback_request, receipt_unlink,
              receipt_unlink_store, complete_find, complete_remove,
              complete_callback, delete_gateway_config, delete_feedback,
              delete_row, signal_test, signal_wake, GoOn, BackToListen
    <3>3. CASE ~ovsdb_listen
      BY <3>3 DEF Next, listen_exit, db_execute, other_insert, agent,
              agent_feedback, idle, vars, listenVars, GoOn
    <3>. QED  BY <3>1, <3>2, <3>3
  <2>3. \A k \in Slot : SameOwner(k)
    BY <2>1 DEF SameOwner
  <2>. QED  BY <1>5, <2>2, <2>3
<1>. QED  BY <1>2, <1>3, <1>4, <1>6, <1>7

----------------------------------------------------------------------------
(* The phase of a request.  A transaction is held while it is in the table *)
(* or in the hands of complete_transaction; it has been freed, and freed   *)
(* once, when its call has stored it and it is held no more.               *)

Held(r) == InTable(r) \/ (lpc = "callback" /\ entry.config = r)

HeldStored == \A r \in Request : Held(r) => Stored(r)

FreedWhenDropped ==
    \A r \in Request : destroyed[r] = IF Stored(r) /\ ~Held(r) THEN 1 ELSE 0

HeldOnce == lpc = "callback" => ~InTable(entry.config)

ToldWhenClosed == \A r \in Request : delivered[r] # <<>> => Stored(r) /\ ~Held(r)

HeldInv == HeldStored /\ FreedWhenDropped /\ HeldOnce /\ ToldWhenClosed

\* The guards of phaseOf exclude each other.
LEMMA PhaseValue ==
    ASSUME HeldStored, FreedWhenDropped, NEW r \in Request
    PROVE  /\ Held(r) => phaseOf(r) = "open"
           /\ ~Held(r) /\ ~Stored(r) => phaseOf(r) = "none"
           /\ ~Held(r) /\ Stored(r) => phaseOf(r) = "closed"
<1>1. Held(r) => Stored(r)
  BY DEF HeldStored
<1>2. /\ Stored(r) /\ ~Held(r) => destroyed[r] = 1
      /\ ~ (Stored(r) /\ ~Held(r)) => destroyed[r] = 0
  BY DEF FreedWhenDropped
<1>3. /\ destroyed[r] = 1 => ~ (destroyed[r] > 1)
      /\ destroyed[r] = 0 => ~ (destroyed[r] > 1) /\ destroyed[r] # 1
  OBVIOUS
<1>. QED  BY <1>1, <1>2, <1>3, Zenon DEF phaseOf, Held

----------------------------------------------------------------------------
(* Steps of the contract *)

\* The phases before and after a step, from what is held and stored.
LEMMA PhaseSteps ==
    ASSUME HeldStored, FreedWhenDropped, HeldStored', FreedWhenDropped'
    PROVE  \A r \in Request :
             /\ Held(r) => phaseOf(r) = "open"
             /\ ~Held(r) /\ ~Stored(r) => phaseOf(r) = "none"
             /\ Held(r)' => phaseOf(r)' = "open"
             /\ ~Held(r)' /\ Stored(r)' => phaseOf(r)' = "closed"
             /\ (Held(r)' <=> Held(r)) /\ (Stored(r)' <=> Stored(r))
                  => phaseOf(r)' = phaseOf(r)
<1> SUFFICES ASSUME NEW r \in Request
             PROVE  /\ Held(r) => phaseOf(r) = "open"
                    /\ ~Held(r) /\ ~Stored(r) => phaseOf(r) = "none"
                    /\ Held(r)' => phaseOf(r)' = "open"
                    /\ ~Held(r)' /\ Stored(r)' => phaseOf(r)' = "closed"
                    /\ (Held(r)' <=> Held(r)) /\ (Stored(r)' <=> Stored(r))
                         => phaseOf(r)' = phaseOf(r)
  OBVIOUS
<1>1. /\ Held(r) => phaseOf(r) = "open"
      /\ ~Held(r) /\ ~Stored(r) => phaseOf(r) = "none"
      /\ ~Held(r) /\ Stored(r) => phaseOf(r) = "closed"
  BY PhaseValue
<1>2. /\ Held(r)' => Stored(r)'
      /\ Stored(r)' /\ ~Held(r)' => destroyed'[r] = 1
      /\ ~ (Stored(r)' /\ ~Held(r)') => destroyed'[r] = 0
  BY DEF HeldStored, FreedWhenDropped
<1>3. /\ destroyed'[r] = 1 => ~ (destroyed'[r] > 1)
      /\ destroyed'[r] = 0 => ~ (destroyed'[r] > 1) /\ destroyed'[r] # 1
  OBVIOUS
<1>4. /\ Held(r)' => phaseOf(r)' = "open"
      /\ ~Held(r)' /\ ~Stored(r)' => phaseOf(r)' = "none"
      /\ ~Held(r)' /\ Stored(r)' => phaseOf(r)' = "closed"
  BY <1>2, <1>3, Zenon DEF phaseOf, Held
<1>. QED  BY <1>1, <1>4

\* What is held, stored, freed and told says everything about the contract.
LEMMA SamePhases ==
    ASSUME HeldInv, UNCHANGED <<delivered, destroyed>>,
           \A r \in Request : (Held(r)' <=> Held(r)) /\ (Stored(r)' <=> Stored(r)),
           HeldOnce'
    PROVE  HeldInv' /\ UNCHANGED Contract!vars
<1>1. HeldStored' /\ FreedWhenDropped' /\ ToldWhenClosed'
  BY DEF HeldInv, HeldStored, FreedWhenDropped, ToldWhenClosed
<1>2. \A r \in Request : phaseOf(r)' = phaseOf(r)
  BY <1>1, PhaseSteps DEF HeldInv
<1>3. [r \in Request |-> phaseOf(r)]' = [r \in Request |-> phaseOf(r)]
  BY <1>2
<1>. QED  BY <1>1, <1>3 DEF HeldInv, Contract!vars

\* A step that neither stores, nor drops, nor reports anything.
LEMMA QuietStep ==
    ASSUME HeldInv, UNCHANGED <<delivered, destroyed>>,
           \A r \in Request : /\ InTable(r)' <=> InTable(r)
                              /\ Stored(r)' <=> Stored(r),
           lpc' = "callback" <=> lpc = "callback",
           lpc = "callback" => entry' = entry /\ entry.config \in Request
    PROVE  HeldInv' /\ UNCHANGED Contract!vars
<1>1. \A r \in Request : Held(r)' <=> Held(r)
  BY DEF Held
<1>2. HeldOnce'
  BY DEF HeldInv, HeldOnce, InTable
<1>. QED  BY <1>1, <1>2, SamePhases

\* A slot is emptied.
LEMMA SlotEmptied ==
    ASSUME TypeOK, EntriesInPlace, NEW k \in Slot, table'[k] = NoTransaction,
           \A j \in Slot \ {k} : table'[j] = table[j]
    PROVE  \A r \in Request :
             InTable(r)' <=>
                 InTable(r) /\ ~ (table[k] # NoTransaction /\ table[k].config = r)
<1> TAKE r \in Request
<1>1. ASSUME InTable(r), ~ (table[k] # NoTransaction /\ table[k].config = r)
      PROVE  InTable(r)'
  BY <1>1 DEF InTable
<1>2. ASSUME InTable(r)'
      PROVE  InTable(r) /\ ~ (table[k] # NoTransaction /\ table[k].config = r)
  <2>1. PICK j \in Slot : table'[j] # NoTransaction /\ table'[j].config = r
    BY <1>2 DEF InTable
  <2>2. j # k /\ table[j] # NoTransaction /\ table[j].config = r
    BY <2>1
  <2>3. j = hash_code(rid[r])
    BY <2>2 DEF EntriesInPlace, EntryInPlace
  <2>4. table[k] # NoTransaction /\ table[k].config = r => k = hash_code(rid[r])
    BY DEF EntriesInPlace, EntryInPlace
  <2>. QED  BY <2>2, <2>3, <2>4 DEF InTable
<1>. QED  BY <1>1, <1>2

\* A client thread empties a slot, after a failure or to take it over, and frees
\* what it has loaded: the transaction in the slot, whoever stored it, is
\* abandoned.
LEMMA AbandonStep ==
    ASSUME TypeInv, EntriesInPlace, Windows, HeldInv,
           NEW r \in Request, pc[r] \in {"evict_clear", "delete_clear"},
           remove_clear(r),
           \A s \in Request : Stored(s)' <=> Stored(s)
    PROVE  HeldInv' /\ [Contract!Next]_(Contract!vars)
<1> DEFINE k == hash_code(rid[r])
<1>0. /\ TypeOK /\ (lpc = "callback" => entry.config \in Request)
      /\ table \in Table /\ k \in Slot /\ destroyed \in [Request -> Nat]
  BY HashCodeType DEF TypeInv, TypeOK, Transaction
<1>1. /\ UNCHANGED <<lpc, entry, delivered>> /\ table' = slot_cleared(table, k)
      /\ destroy_transaction(hand[r])
  BY DEF remove_clear, listenVars
<1>2. table'[k] = NoTransaction /\ \A j \in Slot \ {k} : table'[j] = table[j]
  BY <1>0, <1>1 DEF slot_cleared, Table
<1>3. /\ hand[r] # NoTransaction /\ table[k] # NoTransaction
      /\ table[k].config = hand[r].config
  <2>1. r \in Actor /\ r # ListenThread /\ SlotOf(r) = k
    BY DEF Actor, Request, ListenThread, SlotOf
  <2>. QED  BY <2>1 DEF Windows, Sees, InThere
<1>. HIDE DEF k
<1>4. \A s \in Request :
         InTable(s)' <=>
             InTable(s) /\ ~ (table[k] # NoTransaction /\ table[k].config = s)
  BY <1>0, <1>2, SlotEmptied
<1>5. PICK c \in Request : c = table[k].config /\ InTable(c)
  BY <1>0, <1>3 DEF Table, Transaction, InTable
<1>6. destroyed' = [destroyed EXCEPT ![c] = @ + 1]
  BY <1>1, <1>3, <1>5 DEF destroy_transaction
<1>7. ~ (lpc = "callback" /\ entry.config = c)
  BY <1>5 DEF HeldInv, HeldOnce
<1>8. /\ Held(c) /\ ~Held(c)' /\ Stored(c)
      /\ \A s \in Request \ {c} : Held(s)' <=> Held(s)
  BY <1>1, <1>3, <1>4, <1>5, <1>7 DEF Held, HeldInv, HeldStored
<1>9. HeldStored'
  BY <1>8 DEF HeldInv, HeldStored
<1>10. FreedWhenDropped'
  <2>1. destroyed'[c] = 1 /\ \A s \in Request \ {c} : destroyed'[s] = destroyed[s]
    BY <1>0, <1>6, <1>8 DEF HeldInv, FreedWhenDropped
  <2>. QED  BY <1>8, <2>1 DEF HeldInv, FreedWhenDropped
<1>11. HeldOnce'
  BY <1>0, <1>1, <1>4 DEF HeldInv, HeldOnce, InTable
<1>12. ToldWhenClosed'
  BY <1>1, <1>8 DEF HeldInv, ToldWhenClosed
<1>13. /\ phaseOf(c) = "open" /\ phaseOf(c)' = "closed"
       /\ \A s \in Request \ {c} : phaseOf(s)' = phaseOf(s)
  BY <1>8, <1>9, <1>10, PhaseSteps DEF HeldInv
<1>14. Contract!Abandon(c)
  BY <1>1, <1>13 DEF Contract!Abandon
<1>. QED  BY <1>9, <1>10, <1>11, <1>12, <1>14 DEF HeldInv, Contract!Next

\* store_transaction opens the transaction of its request, in an empty slot.
LEMMA StoreStep ==
    ASSUME TypeInv, EntriesInPlace, CallInv, UnsetBeforeWrite, Windows, HeldInv,
           NEW r \in Request, store_transaction(r)
    PROVE  HeldInv' /\ [Contract!Next]_(Contract!vars)
<1> DEFINE k == hash_code(rid[r])
<1>0. TypeOK /\ (lpc = "callback" => entry.config \in Request)
  BY DEF TypeInv, TypeOK, Transaction
<1>1. k \in Slot /\ table \in Table /\ pc[r] = "store"
  BY HashCodeType DEF TypeInv, TypeOK, store_transaction
<1>2. /\ table'[k] # NoTransaction /\ table'[k].config = r
      /\ \A j \in Slot \ {k} : table'[j] = table[j]
      /\ UNCHANGED <<lpc, entry, delivered, destroyed>>
  <2>1. create_transaction(rid[r], mode[r].callback, r) \in Transaction
    BY <1>0 DEF create_transaction, Transaction, TypeOK, NoUuid
  <2>2. /\ table'[k] = create_transaction(rid[r], mode[r].callback, r)
        /\ \A j \in Slot \ {k} : table'[j] = table[j]
    BY <1>1 DEF store_transaction, insert_transaction_table, create_transaction,
                Table
  <2>. QED  BY <2>1, <2>2, NoTransactionAssumption
            DEF store_transaction, listenVars, history, create_transaction
<1>3. /\ Stored(r)' /\ ~Stored(r)
      /\ \A s \in Request \ {r} : Stored(s)' <=> Stored(s)
  BY <1>0, CallClient DEF client, proceed
<1>4. table[k] = NoTransaction
  <2>1. r \in Actor /\ r # ListenThread /\ SlotOf(r) = k
    BY DEF Actor, Request, ListenThread, SlotOf
  <2>. QED  BY <1>1, <2>1 DEF Windows, Sees
<1>. HIDE DEF k
<1>5. ~Held(r) /\ Held(r)'
  BY <1>1, <1>2, <1>3 DEF HeldInv, HeldStored, Held, InTable
<1>6. \A s \in Request \ {r} : InTable(s)' <=> InTable(s)
  BY <1>1, <1>2, <1>4 DEF InTable
<1>7. \A s \in Request \ {r} : Held(s)' <=> Held(s)
  BY <1>2, <1>6 DEF Held
<1>8. HeldStored' /\ FreedWhenDropped' /\ ToldWhenClosed'
  BY <1>2, <1>3, <1>5, <1>7
     DEF HeldInv, HeldStored, FreedWhenDropped, ToldWhenClosed
<1>9. HeldOnce'
  <2>1. lpc = "callback" => entry.config # r
    BY <1>3 DEF HeldInv, HeldStored, Held
  <2>. QED  BY <1>0, <1>2, <1>6, <2>1 DEF HeldInv, HeldOnce, InTable
<1>10. /\ phaseOf(r) = "none" /\ phaseOf(r)' = "open"
       /\ \A s \in Request \ {r} : phaseOf(s)' = phaseOf(s)
  BY <1>3, <1>5, <1>7, <1>8, PhaseSteps DEF HeldInv
<1>11. Contract!Open(r)
  BY <1>2, <1>10 DEF Contract!Open
<1>. QED  BY <1>8, <1>9, <1>11 DEF HeldInv, Contract!Next

\* complete_clear takes a transaction out of the table, and still holds it.
LEMMA TakeStep ==
    ASSUME TypeInv, EntriesInPlace, Windows, HeldInv, complete_clear,
           \A r \in Request : Stored(r)' <=> Stored(r)
    PROVE  HeldInv' /\ UNCHANGED Contract!vars
<1>1. /\ key \in Slot /\ table \in Table /\ lpc = "clear"
      /\ UNCHANGED <<delivered, destroyed>>
      /\ table' = [table EXCEPT ![key] = NoTransaction]
  BY DEF TypeInv, TypeOK, complete_clear, slot_cleared, history
<1>2. InThere(entry, key)
  BY <1>1 DEF Windows, Sees, Actor
<1>3. lpc' = "callback" /\ entry' = entry
  BY <1>2 DEF complete_clear, GoOn, InThere
<1>4. PICK c \in Request : c = table[key].config /\ c = entry.config /\ InTable(c)
  BY <1>1, <1>2 DEF Table, Transaction, InTable, InThere
<1>5. \A r \in Request : InTable(r)' <=> InTable(r) /\ r # c
  <2>1. table'[key] = NoTransaction /\ \A j \in Slot \ {key} : table'[j] = table[j]
    BY <1>1 DEF Table
  <2>. QED  BY <1>1, <1>2, <1>4, <2>1, SlotEmptied DEF TypeInv, InThere
<1>6. \A r \in Request : Held(r)' <=> Held(r)
  BY <1>1, <1>3, <1>4, <1>5 DEF Held
<1>7. HeldOnce'
  BY <1>3, <1>4, <1>5 DEF HeldOnce, InTable
<1>. QED  BY <1>1, <1>6, <1>7, SamePhases

\* complete_callback closes the transaction, with a report if it has a callback.
LEMMA CompleteStep ==
    ASSUME TypeInv, HeldInv, complete_callback
    PROVE  HeldInv' /\ [Contract!Next]_(Contract!vars)
<1> DEFINE s == msg.status
<1>1. /\ lpc = "callback" /\ lpc' = "deleteGw"
      /\ UNCHANGED <<clientVars, table>>
      /\ delivered \in [Request -> Seq({"SUCCESS", "FAILED"})]
      /\ destroyed \in [Request -> Nat]
      /\ s \in {"SUCCESS", "FAILED"}
  BY DEF TypeInv, TypeOK, complete_callback, apiVars, DbMessage
<1>2. PICK c \in Request : c = entry.config
  BY <1>1 DEF TypeInv, TypeOK, Transaction
<1>3. \A r \in Request : (InTable(r)' <=> InTable(r)) /\ (Stored(r)' <=> Stored(r))
  BY <1>1 DEF InTable, Stored, Transacts, clientVars
<1>4. /\ Held(c) /\ ~Held(c)' /\ Stored(c)
      /\ \A r \in Request \ {c} : Held(r)' <=> Held(r)
  BY <1>1, <1>2, <1>3 DEF Held, HeldInv, HeldOnce, HeldStored
<1>5. delivered[c] = <<>>
  BY <1>4 DEF HeldInv, ToldWhenClosed
<1>6. delivered' = IF entry.callback THEN [delivered EXCEPT ![c] = <<s>>] ELSE delivered
  <2>1. Append(delivered[c], s) = <<s>>
    BY <1>1, <1>5
  <2>. QED  BY <1>2, <2>1 DEF complete_callback
<1>. HIDE DEF s
<1>7. destroyed' = [destroyed EXCEPT ![c] = @ + 1]
  BY <1>1, <1>2 DEF TypeInv, complete_callback, destroy_transaction
<1>8. HeldStored'
  BY <1>3, <1>4 DEF HeldInv, HeldStored
<1>9. FreedWhenDropped'
  <2>1. destroyed'[c] = 1 /\ \A r \in Request \ {c} : destroyed'[r] = destroyed[r]
    BY <1>1, <1>4, <1>7 DEF HeldInv, FreedWhenDropped
  <2>. QED  BY <1>3, <1>4, <2>1 DEF HeldInv, FreedWhenDropped
<1>10. HeldOnce'
  BY <1>1 DEF HeldOnce
<1>11. ToldWhenClosed'
  BY <1>1, <1>3, <1>4, <1>6 DEF HeldInv, ToldWhenClosed
<1>12. /\ phaseOf(c) = "open" /\ phaseOf(c)' = "closed"
       /\ \A r \in Request \ {c} : phaseOf(r)' = phaseOf(r)
  BY <1>3, <1>4, <1>8, <1>9, PhaseSteps DEF HeldInv
<1>13. Contract!Complete(c, s) \/ Contract!Abandon(c)
  BY <1>6, <1>12 DEF Contract!Complete, Contract!Abandon
<1>14. Contract!Next
  BY <1>1, <1>13 DEF Contract!Next
<1>. QED  BY <1>8, <1>9, <1>10, <1>11, <1>14 DEF HeldInv

----------------------------------------------------------------------------
(* Every step of the component *)

\* A client thread.
LEMMA ContractClient ==
    ASSUME TypeInv, EntriesInPlace, CallInv, UnsetBeforeWrite, Windows, HeldInv,
           NEW r \in Request, client(r)
    PROVE  HeldInv' /\ [Contract!Next]_(Contract!vars)
<1>0. TypeOK /\ (lpc = "callback" => entry.config \in Request)
  BY DEF TypeInv, TypeOK, Transaction
<1>1. ~store_transaction(r) => \A s \in Request : Stored(s)' <=> Stored(s)
  BY <1>0, CallClient
<1>2. CASE store_transaction(r)
  BY <1>2, StoreStep
<1>3. CASE evict_clear(r) \/ delete_clear(r)
  <2>1. pc[r] \in {"evict_clear", "delete_clear"} /\ remove_clear(r)
    BY <1>3 DEF evict_clear, delete_clear
  <2>2. ~store_transaction(r)
    BY <2>1 DEF store_transaction
  <2>. QED  BY <1>1, <2>1, <2>2, AbandonStep
<1>4. CASE ~ (store_transaction(r) \/ evict_clear(r) \/ delete_clear(r))
  <2>1. UNCHANGED <<lpc, entry, delivered, destroyed, table>>
    BY <1>4 DEF client, proceed, interact, id_generate, set_blocked,
              insert_transaction, evict_transaction, remove_load,
              write_register, write_link, write_sent, write_failed,
              wait_lock, wait_woken, wait_spurious, wait_return, wait_timeout,
              cleanup, listenVars, apiVars, history
  <2>2. \A s \in Request : InTable(s)' <=> InTable(s)
    BY <2>1 DEF InTable
  <2>. QED  BY <1>0, <1>1, <1>4, <2>1, <2>2, QuietStep
<1>. QED  BY <1>2, <1>3, <1>4

\* Everyone else.
LEMMA ContractOthers ==
    ASSUME TypeInv, EntriesInPlace, CallInv, Windows, HeldInv, [Next]_vars,
           ~ \E r \in Request : client(r)
    PROVE  HeldInv' /\ [Contract!Next]_(Contract!vars)
<1>0. TypeOK /\ (lpc = "callback" => entry.config \in Request)
  BY DEF TypeInv, TypeOK, Transaction
<1>1. \A r \in Request : Stored(r)' <=> Stored(r)
  BY <1>0, CallOthers
<1>2. CASE complete_clear
  BY <1>1, <1>2, TakeStep
<1>3. CASE complete_callback
  BY <1>3, CompleteStep
<1>4. CASE ~complete_clear /\ ~complete_callback
  <2>1. /\ UNCHANGED <<delivered, destroyed>>
        /\ lpc' = "callback" <=> lpc = "callback"
        /\ lpc = "callback" => entry' = entry
    <3>1. CASE listen
      <4>1. \A node : listen_dispatch(Head(inbox), node) # "callback"
        BY DispatchKinds
      <4>. QED  BY <3>1, <4>1 DEF listen, BackToListen, history
    <3>2. CASE ovsdb_listen /\ ~listen
      BY <1>4, <3>2 DEF ovsdb_listen, write_callback, call_number,
              call_id_generate, call_register, call_link,
              send_monitor_feedback_request, receipt_unlink,
              receipt_unlink_store, complete_find, complete_remove,
              complete_load, delete_gateway_config, delete_feedback,
              delete_row, signal_test, signal_wake, BackToListen, GoOn, history
    <3>3. CASE ~ovsdb_listen
      BY <3>3 DEF Next, listen_exit, db_execute, other_insert, agent,
              agent_feedback, idle, vars, listenVars, GoOn, history
    <3>. QED  BY <3>1, <3>2, <3>3
  <2>2. \A r \in Request : InTable(r)' <=> InTable(r)
    <3>1. CASE write_callback
      BY <1>0, <3>1, UpdateKeepsOwners DEF SameOwner, InTable
    <3>2. CASE ~write_callback
      <4>1. table' = table
        BY <1>4, <3>2 DEF Next, ovsdb_listen, listen, call_number,
              call_id_generate, call_register, call_link,
              send_monitor_feedback_request, receipt_unlink,
              receipt_unlink_store, complete_find, complete_remove,
              complete_load, delete_gateway_config, delete_feedback,
              delete_row, signal_test, signal_wake, listen_exit, db_execute,
              other_insert, agent, agent_feedback, idle, vars, apiVars
      <4>. QED  BY <4>1 DEF InTable
    <3>. QED  BY <3>1, <3>2
  <2>. QED  BY <1>0, <1>1, <2>1, <2>2, QuietStep
<1>. QED  BY <1>2, <1>3, <1>4

\* The invariant of the refinement.
ManagerInv == CallInv /\ ("table" \notin overlapped => Windows /\ HeldInv)

\* Until two threads meet in a slot, every step of the core is a step of the
\* contract or leaves its state alone.
LEMMA ContractNext ==
    ASSUME TypeInv, EntriesInPlace, UnsetBeforeWrite, ManagerInv, [Next]_vars
    PROVE  /\ ManagerInv'
           /\ "table" \notin overlapped' => [Contract!Next]_(Contract!vars)
<1>1. TypeOK /\ CallInv'
  BY CallClient, CallOthers DEF TypeInv, ManagerInv
<1>2. ASSUME "table" \notin overlapped'
      PROVE  Windows' /\ HeldInv' /\ [Contract!Next]_(Contract!vars)
  <2>1. CallInv /\ Windows /\ HeldInv
    BY <1>2, OverlapGrows DEF ManagerInv
  <2>2. CASE \E r \in Request : client(r)
    BY <1>1, <1>2, <2>1, <2>2, WindowsClient, ContractClient
  <2>3. CASE ~ \E r \in Request : client(r)
    BY <1>1, <1>2, <2>1, <2>3, WindowsOthers, ContractOthers
  <2>. QED  BY <2>2, <2>3
<1>. QED  BY <1>1, <1>2 DEF ManagerInv

\* At first no transaction is open, as the contract wants it.
LEMMA ContractInit == Init => ManagerInv /\ Contract!Init
<1> SUFFICES ASSUME Init PROVE ManagerInv /\ Contract!Init
  OBVIOUS
<1>1. CallInv
  BY DEF Init, CallInv, Transacting, StatusSet
<1>2. Windows
  BY DEF Init, Windows, AloneInSlot, Inside, Sees, Actor
<1>3. \A r \in Request :
         ~Held(r) /\ ~Stored(r) /\ delivered[r] = <<>> /\ destroyed[r] = 0
  BY DEF Init, Held, Stored, InTable, init_transaction_table
<1>4. HeldInv
  BY <1>3 DEF HeldInv, HeldStored, FreedWhenDropped, HeldOnce, ToldWhenClosed,
              Init
<1>5. \A r \in Request : phaseOf(r) = "none"
  BY <1>3, <1>4, PhaseValue DEF HeldInv
<1>6. Contract!Init
  BY <1>5 DEF Contract!Init, Init
<1>. QED  BY <1>1, <1>2, <1>4, <1>6 DEF ManagerInv

\* The transaction manager implements its contract (ImplementsContract) until two
\* threads meet in one slot of the table: with any table size, any number of
\* client threads and any fault, a transaction is opened once, freed once, and
\* its callback called at most once and before it is freed.  The refinement needs
\* that whoever is between the test of a slot and the store into it is alone
\* there (Windows), that what is held was stored by its call and what is not was
\* freed once, and that complete_transaction holds nothing the table still has.
THEOREM ContractCorrect == Spec => ImplementsContract
<1>1. BlockedInv => UnsetBeforeWrite
  BY DEF BlockedInv
<1>2. TypeInv /\ EntriesInPlace /\ UnsetBeforeWrite /\ ManagerInv /\ [Next]_vars
        => /\ ManagerInv'
           /\ [ "table" \notin overlapped' => [Contract!Next]_(Contract!vars) ]_vars
  BY ContractNext
<1>. QED  BY <1>1, <1>2, ContractInit, TypeInvariant, EntriesStayInPlace,
             BlockedInvariant, PTL DEF Spec, ImplementsContract
=============================================================================
