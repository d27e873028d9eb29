--------------------------- MODULE Waiting_proofs ---------------------------
(***************************************************************************)
(* The flag blocked and the condition variable of OvsAgentApi, for every   *)
(* table size, number of requests and set of faults.                       *)
(***************************************************************************)
EXTENDS OvsAgentApi_proofs, FiniteSetTheorems

----------------------------------------------------------------------------
(* blocked, with any number of client threads.  Whoever leaves a call in   *)
(* block mode clears the flag or has found it clear, whichever call set it *)
(* last; only a failed insert_transaction, which is told from the other    *)
(* exits by its status, does neither.                                      *)

UnsetBeforeWrite ==
    \A r \in Request :
        pc[r] \in {"ready", "number", "block", "insert", "evict", "evict_load",
                   "evict_clear", "store", "register", "link", "write"}
            => status[r] = "UNSET"

InBlockedCall(r) ==
    /\ mode[r].block
    /\ \/ pc[r] \in {"insert", "evict", "evict_load", "evict_clear", "store",
                     "register", "link", "write", "lock", "wait"}
       \/ pc[r] = "failed" /\ status[r] = "UNSET"

BlockedInv == UnsetBeforeWrite /\ BlockedOnlyDuringCall

\* A step of a client thread keeps the two.
LEMMA BlockedClient ==
    ASSUME TypeOK, BlockedInv, NEW r \in Request, client(r)
    PROVE  BlockedInv'
<1> USE DEF Goto
<1>0. /\ pc \in [Request -> ClientPoint]
      /\ mode \in [Request -> [block: BOOLEAN, callback: BOOLEAN]]
      /\ status \in [Request -> Status]
  BY DEF TypeOK
<1>1. /\ pc[r] \notin {"succeeded", "failed"}
      /\ \A s \in Request \ {r} :
             pc'[s] = pc[s] /\ mode'[s] = mode[s] /\ status'[s] = status[s]
  BY <1>0 DEF client, proceed, interact, id_generate, set_blocked,
              insert_transaction, evict_transaction, remove_load, remove_clear,
              evict_clear, delete_clear, store_transaction, write_register,
              write_link, write_sent,
              write_failed, wait_lock, wait_woken, wait_spurious, wait_return,
              wait_timeout, cleanup
<1>2. pc'[r] \in {"ready", "number", "block", "insert", "evict", "evict_load",
                  "evict_clear", "store", "register", "link", "write"}
          => status'[r] = "UNSET"
  BY <1>0 DEF BlockedInv, UnsetBeforeWrite, client, proceed, interact,
              id_generate, set_blocked,
              insert_transaction, evict_transaction, remove_load, remove_clear,
              evict_clear, delete_clear, store_transaction, write_register,
              write_link, write_sent,
              write_failed, wait_lock, wait_woken, wait_spurious, wait_return,
              wait_timeout, cleanup
<1>3. UnsetBeforeWrite'
  BY <1>1, <1>2 DEF BlockedInv, UnsetBeforeWrite
<1>4. ASSUME blocked', blocked, InBlockedCall(r)
      PROVE  InBlockedCall(r)'
  <2>1. CASE \/ insert_transaction(r) \/ remove_load(r) \/ store_transaction(r)
             \/ write_register(r) \/ write_link(r)
    BY <1>0, <1>4, <2>1 DEF InBlockedCall, insert_transaction, remove_load,
                            store_transaction, write_register, write_link
  <2>2. CASE evict_transaction(r) \/ evict_clear(r)
    BY <1>0, <1>4, <2>2 DEF InBlockedCall, evict_transaction, evict_clear,
                            remove_clear, BlockedInv, UnsetBeforeWrite
  <2>3. CASE write_sent(r) \/ wait_lock(r) \/ wait_spurious(r)
    BY <1>0, <1>4, <2>3 DEF InBlockedCall, write_sent, wait_lock,
                            wait_spurious, wait_return
  <2>4. CASE write_failed(r) \/ wait_timeout(r)
    BY <1>4, <2>4 DEF write_failed, wait_timeout
  <2>5. CASE \/ interact(r) \/ id_generate(r) \/ set_blocked(r) \/ wait_woken(r)
             \/ cleanup(r) \/ delete_clear(r)
    BY <1>4, <2>5 DEF InBlockedCall, interact, id_generate, set_blocked,
                      wait_woken, cleanup, delete_clear
  <2>. QED  BY <2>1, <2>2, <2>3, <2>4, <2>5 DEF client, proceed
<1>5. ASSUME blocked', ~blocked
      PROVE  InBlockedCall(r)'
  <2>1. set_blocked(r)
    BY <1>5 DEF client, proceed, interact, id_generate, insert_transaction,
                evict_transaction, remove_load, remove_clear, evict_clear,
                delete_clear, store_transaction, write_register, write_link,
                write_sent,
                write_failed, wait_lock, wait_woken, wait_spurious, wait_return,
                wait_timeout, cleanup, apiVars
  <2>. QED  BY <1>0, <1>5, <2>1 DEF set_blocked, InBlockedCall
<1>6. BlockedOnlyDuringCall'
  <2> SUFFICES ASSUME blocked' PROVE \E s \in Request : InBlockedCall(s)'
    BY DEF BlockedOnlyDuringCall, InBlockedCall
  <2>1. CASE ~blocked
    BY <1>5, <2>1
  <2>2. CASE blocked
    <3>1. PICK s \in Request : InBlockedCall(s)
      BY <2>2 DEF BlockedInv, BlockedOnlyDuringCall, InBlockedCall
    <3>2. CASE s = r
      BY <1>4, <2>2, <3>1, <3>2
    <3>3. CASE s # r
      BY <1>1, <3>1, <3>3 DEF InBlockedCall
    <3>. QED  BY <3>2, <3>3
  <2>. QED  BY <2>1, <2>2
<1>. QED  BY <1>3, <1>6 DEF BlockedInv

\* So does a step of anyone else: the listen thread only clears the flag.
LEMMA BlockedOthers ==
    ASSUME TypeOK, BlockedInv, [Next]_vars, ~ \E r \in Request : client(r)
    PROVE  BlockedInv'
<1>1. CASE signal_wake
  <2>1. /\ ~blocked' /\ status' = status
        /\ \A r \in Request : pc'[r] \in {pc[r], "woken"}
    BY <1>1 DEF signal_wake, Goto, TypeOK
  <2>. QED  BY <2>1 DEF BlockedInv, UnsetBeforeWrite, BlockedOnlyDuringCall
<1>2. CASE ~signal_wake
  <2>1. UNCHANGED <<blocked, clientVars>>
    BY <1>2 DEF Next, ovsdb_listen, listen, write_callback,
                call_number, call_id_generate, call_register, call_link,
                send_monitor_feedback_request, receipt_unlink,
                receipt_unlink_store, complete_find, complete_remove,
                complete_load, complete_clear, complete_callback, delete_gateway_config,
                delete_feedback, delete_row, signal_test, listen_exit,
                db_execute, other_insert, agent, agent_feedback, idle, vars,
                apiVars
  <2>. QED  BY <2>1 DEF BlockedInv, UnsetBeforeWrite, BlockedOnlyDuringCall,
                        clientVars
<1>. QED  BY <1>1, <1>2

\* The invariant about blocked holds in every reachable state.
LEMMA BlockedInvariant == Spec => []BlockedInv
<1>1. Init => BlockedInv
  BY DEF Init, BlockedInv, UnsetBeforeWrite, BlockedOnlyDuringCall
<1>2. TypeOK /\ BlockedInv /\ [Next]_vars => BlockedInv'
  BY BlockedClient, BlockedOthers
<1>. QED  BY <1>1, <1>2, TypeCorrect, PTL DEF Spec

\* With any number of client threads, whatever fails, times out or loses its
\* slot, blocked is set only while a call in block mode is under way, or
\* after one whose insert_transaction failed.
THEOREM BlockedCorrect == Spec => []BlockedOnlyDuringCall
<1>1. BlockedInv => BlockedOnlyDuringCall
  BY DEF BlockedInv
<1>. QED  BY <1>1, BlockedInvariant, PTL

----------------------------------------------------------------------------
(* The wakeup, with one client thread: a sleeper is then the only caller,  *)
(* so nobody else clears the flag and pthread_cond_signal cannot wake      *)
(* someone else.                                                           *)

OneCaller == \A r, s \in Request : Active(r) /\ Active(s) => r = s

WakeupInv == OneCaller /\ NoLostWakeup

\* The bound on the threads leaves room for a call only when there is none.
LEMMA NoCallUnderWay ==
    ASSUME Threads = 1, NEW r \in Request, interact(r)
    PROVE  \A s \in Request : ~Active(s)
<1> DEFINE A == {s \in Request : Active(s)}
<1>1. IsFiniteSet(A)
  <2>1. 1 \in Int /\ MaxRequests \in Int
    BY MaxRequestsAssumption
  <2>2. IsFiniteSet(Request)
    BY <2>1, FS_Interval DEF Request
  <2>. QED  BY <2>2, FS_Subset
<1>2. Cardinality(A) < 1
  BY DEF interact
<1>3. Cardinality(A) = 0
  BY <1>1, <1>2, FS_CardinalityType
<1>4. A = {}
  BY <1>1, <1>3, FS_EmptySet
<1>. QED  BY <1>4

\* A client thread sets blocked before it waits, and is alone.
LEMMA WakeupClient ==
    ASSUME Threads = 1, TypeOK, WakeupInv, NEW r \in Request, client(r)
    PROVE  WakeupInv'
<1> USE DEF Goto
<1>0. /\ pc \in [Request -> ClientPoint]
      /\ \A s \in Request \ {r} : pc'[s] = pc[s]
  BY DEF TypeOK, client, proceed, interact, id_generate, set_blocked,
              insert_transaction, evict_transaction, remove_load, remove_clear,
              evict_clear, delete_clear, store_transaction, write_register,
              write_link, write_sent,
         write_failed, wait_lock, wait_woken, wait_spurious, wait_return,
         wait_timeout, cleanup
<1>1. \A s \in Request \ {r} : ~Active(s)
  <2>1. CASE interact(r)
    BY <2>1, NoCallUnderWay
  <2>2. CASE ~interact(r)
    <3>1. Active(r)
      BY <2>2 DEF client, proceed, id_generate, set_blocked,
              insert_transaction, evict_transaction, remove_load, remove_clear,
              evict_clear, delete_clear, store_transaction, write_register,
              write_link, write_sent, write_failed, wait_lock, wait_woken,
                  wait_spurious, wait_timeout, cleanup, Active
    <3>. QED  BY <3>1 DEF WakeupInv, OneCaller
  <2>. QED  BY <2>1, <2>2
<1>2. OneCaller'
  BY <1>0, <1>1 DEF OneCaller, Active
<1>3. pc'[r] = "wait" => blocked'
  <2>1. CASE wait_lock(r) \/ wait_woken(r) \/ wait_spurious(r)
    <3>1. blocked' = blocked /\ pc'[r] = IF blocked THEN "wait" ELSE "cleanup"
      BY <1>0, <2>1 DEF wait_lock, wait_woken, wait_spurious, wait_return, apiVars
    <3>. QED  BY <3>1
  <2>2. CASE ~ (wait_lock(r) \/ wait_woken(r) \/ wait_spurious(r))
    <3>1. pc'[r] # "wait"
      BY <1>0, <2>2, ModesAssumption
         DEF client, proceed, interact, id_generate, set_blocked,
              insert_transaction, evict_transaction, remove_load, remove_clear,
              evict_clear, delete_clear, store_transaction, write_register,
              write_link, write_sent,
             write_failed, wait_timeout, cleanup
    <3>. QED  BY <3>1
  <2>. QED  BY <2>1, <2>2
<1>4. NoLostWakeup'
  BY <1>0, <1>1, <1>3 DEF NoLostWakeup, Active
<1>. QED  BY <1>2, <1>4 DEF WakeupInv

\* The listen thread clears blocked together with the wakeup.
LEMMA WakeupOthers ==
    ASSUME TypeOK, WakeupInv, [Next]_vars, ~ \E r \in Request : client(r)
    PROVE  WakeupInv'
<1>1. CASE signal_wake
  <2>1. CASE \E r \in Request : pc[r] = "wait"
    <3>1. PICK r \in Request : pc[r] = "wait" /\ pc' = [pc EXCEPT ![r] = "woken"]
      BY <1>1, <2>1 DEF signal_wake, Goto
    <3>2. \A s \in Request : pc[s] = "wait" => s = r
      BY <3>1 DEF WakeupInv, OneCaller, Active
    <3>. QED  BY <3>1, <3>2 DEF WakeupInv, OneCaller, NoLostWakeup, Active, TypeOK
  <2>2. CASE ~ \E r \in Request : pc[r] = "wait"
    BY <1>1, <2>2 DEF signal_wake, WakeupInv, OneCaller, NoLostWakeup, Active
  <2>. QED  BY <2>1, <2>2
<1>2. CASE ~signal_wake
  <2>1. pc' = pc /\ blocked' = blocked
    BY <1>2 DEF Next, ovsdb_listen, listen, write_callback,
                call_number, call_id_generate, call_register, call_link,
                send_monitor_feedback_request, receipt_unlink,
                receipt_unlink_store, complete_find, complete_remove,
                complete_load, complete_clear, complete_callback, delete_gateway_config,
                delete_feedback, delete_row, signal_test, listen_exit,
                db_execute, other_insert, agent, agent_feedback, idle, vars,
                apiVars, clientVars
  <2>. QED  BY <2>1 DEF WakeupInv, OneCaller, NoLostWakeup, Active
<1>. QED  BY <1>1, <1>2

\* A component that calls ovs_agent_api_interact from one thread never sleeps
\* in wait_for_callback_completion with blocked cleared: the test outside the
\* mutex in signal_callback_completion does not lose its wakeup.
THEOREM WakeupCorrect ==
    ASSUME Threads = 1
    PROVE  Spec => []NoLostWakeup
<1>1. Init => WakeupInv
  BY DEF Init, WakeupInv, OneCaller, NoLostWakeup, Active
<1>2. TypeOK /\ WakeupInv /\ [Next]_vars => WakeupInv'
  BY WakeupClient, WakeupOthers
<1>3. WakeupInv => NoLostWakeup
  BY DEF WakeupInv
<1>. QED  BY <1>1, <1>2, <1>3, TypeCorrect, PTL DEF Spec
=============================================================================
