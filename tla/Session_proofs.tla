--------------------------- MODULE Session_proofs ---------------------------
(***************************************************************************)
(* Safety of sessions for every bound, message length and buffer size: the *)
(* listen thread never outlives its session, what is released is released, *)
(* receipts of two sessions never mix, OvsAgentInit unwinds, and messages  *)
(* are dealt with in the order of the stream.                              *)
(***************************************************************************)
EXTENDS Session, SequenceTheorems, TLAPS

\* The types the argument needs.
Types ==
    /\ conns \in Nat /\ id \in Nat /\ inits \in Nat

\* What exists at each point of a call: the log goes with the handle, the
\* transaction table comes last and goes first.
Phases ==
    /\ pc \in {"none", "ovsdb_init", "mutex", "manager", "join", "release", "close"}
    /\ log <=> handle
    /\ pc # "none" => handle
    /\ manager => handle
    /\ handle /\ pc \in {"none", "join", "release"} => manager
    /\ pc \in {"ovsdb_init", "mutex", "manager", "close"} => ~manager

\* The listen thread and its descriptor come and go together; without a session
\* the connection is one that was left behind.
Threads ==
    /\ (fd # NoFd) <=> Listening
    /\ pc \in {"release", "close"} => lpc = "none"
    /\ fd # NoFd /\ fd \notin abandoned => handle /\ pc # "ovsdb_init"
    /\ lpc = "callback" => handle /\ pc \in {"none", "join"}

\* Receipts and monitors exist only between an initialisation and the join.
Lists ==
    /\ ~handle \/ pc \notin {"none", "join"} => receipts = {} /\ monitors = <<>>
    /\ \A r \in receipts : r.rid \in Nat /\ r.rid <= id /\ r.conn = conns
    /\ \A r, s \in receipts : r.rid = s.rid => r = s

\* How far OvsAgentInit is tells what the agent holds.
AgentPoints ==
    /\ main \in MainPoint
    /\ main = "component" => program = "component"
    /\ main \in {"log", "cosa"} => ~handle /\ ~bus /\ inits = 0
    /\ main \in {"api", "action", "monitor", "unwind", "running"} => bus
    /\ main \in {"action", "monitor", "running"} => handle /\ pc = "none"
    /\ program = "component" => main \in {"component", "killed"}
    /\ main = "exited" => ~handle /\ ~bus /\ (rdkLog => failed = "cosa")

SInv == Types /\ Phases /\ Threads /\ Lists /\ AgentPoints

\* The invariant holds before the program has done anything.
LEMMA InitSInv == Init => SInv
<1> SUFFICES ASSUME Init PROVE SInv
  OBVIOUS
<1>1. Types
  BY DEF Init, Types
<1>2. Phases
  BY DEF Init, Phases
<1>3. Threads
  BY DEF Init, Threads, Listening, NoFd
<1>4. Lists
  BY DEF Init, Lists
<1>5. AgentPoints
  BY ProgramsAssumption DEF Init, AgentPoints, MainPoint
<1> QED
  BY <1>1, <1>2, <1>3, <1>4, <1>5 DEF SInv

\* A component starts or ends a session, or makes a request.
LEMMA ComponentStep == ASSUME SInv, component PROVE SInv'
<1> USE DEF SInv, Types, Phases, Threads, Lists, AgentPoints, Listening, NoFd, Alive
<1> USE DEF MainPoint, agentVars, handleVars, listVars, parseVars, serverVars, boundVars
<1>1. CASE component_init
  BY <1>1 DEF component_init, ovs_agent_api_init, open_log, MayFail, Suffer, Fault
<1>2. CASE component_deinit
  BY <1>2 DEF component_deinit, ovs_agent_api_deinit
<1>3. CASE component_interact
  BY <1>3 DEF component_interact, Write, Suffer
<1> QED
  BY <1>1, <1>2, <1>3 DEF component

\* The steps of ovs_agent_api_init and ovs_agent_api_deinit after their first.
LEMMA LibraryStep == ASSUME SInv, library PROVE SInv'
<1> USE DEF SInv, Types, Phases, Threads, Lists, AgentPoints, Listening, NoFd, Alive
<1> USE DEF MainPoint, agentVars, handleVars, listVars, parseVars, serverVars, boundVars, lateVars, releaseVars
<1>1. CASE ovsdb_init
  <2>1. CASE fd # NoFd
    BY <1>1, <2>1 DEF ovsdb_init
  <2>2. CASE fd = NoFd
    <3> PICK f \in MayFail({"connect", "thread"}) :
          /\ IF f = "none" THEN pc' = "mutex" /\ UNCHANGED <<handle, log>> ELSE Fail
          /\ conns' = IF f = "connect" THEN conns ELSE conns + 1
          /\ fd' = socket_connect(f)
          /\ failed' = IF f = "none" THEN failed ELSE f
          /\ lpc' = IF f = "none" THEN "loop" ELSE lpc
          /\ UNCHANGED abandoned
      BY <1>1, <2>2 DEF ovsdb_init, Suffer
    <3>1. CASE f = "none"
      BY <1>1, <2>2, <3>1 DEF ovsdb_init, socket_connect
    <3>2. CASE f # "none"
      BY <1>1, <2>2, <3>2 DEF ovsdb_init, socket_connect, Fail
    <3> QED
      BY <3>1, <3>2
  <2> QED
    BY <2>1, <2>2
<1>2. CASE init_mutex
  <2>1. CASE pc' = "manager" /\ UNCHANGED <<handle, log, abandoned, failed>>
    BY <1>2, <2>1 DEF init_mutex
  <2>2. CASE FailLate
    BY <1>2, <2>2 DEF init_mutex, FailLate, Fail
  <2> QED
    BY <1>2, <2>1, <2>2 DEF init_mutex, Suffer
<1>3. CASE init_transaction_manager
  <2>1. CASE pc' = "none" /\ manager' /\ UNCHANGED <<handle, log, abandoned, failed>>
    BY <1>3, <2>1 DEF init_transaction_manager
  <2>2. CASE FailLate /\ ~manager'
    BY <1>3, <2>2 DEF init_transaction_manager, FailLate, Fail
  <2> QED
    BY <1>3, <2>1, <2>2 DEF init_transaction_manager, Suffer
<1>4. CASE ovsdb_deinit
  BY <1>4 DEF ovsdb_deinit, receipt_list_clear, mon_list_clear
<1>5. CASE deinit_transaction_manager
  BY <1>5 DEF deinit_transaction_manager
<1>6. CASE close_log
  BY <1>6 DEF close_log
<1> QED
  BY <1>1, <1>2, <1>3, <1>4, <1>5, <1>6 DEF library

\* The steps of OvsAgentInit.
LEMMA AgentStep == ASSUME SInv, agent PROVE SInv'
<1> USE DEF SInv, Types, Phases, Threads, Lists, AgentPoints, Listening, NoFd, Alive
<1> USE DEF MainPoint, agentVars, handleVars, listVars, parseVars, serverVars, boundVars, libraryVars
<1>1. CASE OvsAgentLogInit
  <2>1. rdkLog' \in BOOLEAN /\ (main' = "exited" => ~rdkLog')
    BY <1>1 DEF OvsAgentLogInit
  <2> QED
    BY <1>1, <2>1 DEF OvsAgentLogInit
<1>2. CASE Cosa_Init
  <2>1. \/ bus' /\ main' = "api"
        \/ ~bus' /\ main' = "exited" /\ failed' = "cosa"
    BY <1>2 DEF Cosa_Init, Suffer, MayFail
  <2> QED
    BY <1>2, <2>1 DEF Cosa_Init
<1>3. CASE agent_api_init
  BY <1>3 DEF agent_api_init, ovs_agent_api_init, open_log, MayFail, Suffer, Fault
<1>4. CASE api_returned
  <2>1. CASE handle
    BY <1>4, <2>1 DEF api_returned
  <2>2. CASE ~handle
    BY <1>4, <2>2 DEF api_returned, Shutdown
  <2> QED
    BY <2>1, <2>2
<1>5. CASE ovs_action_init
  BY <1>5 DEF ovs_action_init, Suffer
<1>6. CASE agent_interact
  BY <1>6 DEF agent_interact, Write, Suffer
<1>7. CASE agent_api_deinit
  BY <1>7 DEF agent_api_deinit, ovs_agent_api_deinit
<1>8. CASE OvsAgentInit_fails
  BY <1>8 DEF OvsAgentInit_fails, Shutdown
<1> QED
  BY <1>1, <1>2, <1>3, <1>4, <1>5, <1>6, <1>7, <1>8 DEF agent

\* The listen thread: a callback starts only with a receipt or a monitor, so within
\* a session.
LEMMA ListenerStep == ASSUME SInv, listener PROVE SInv'
<1> USE DEF SInv, Types, Phases, Threads, Lists, AgentPoints, Listening, NoFd, Alive
<1> USE DEF MainPoint, mainVars, listVars, parseVars, serverVars, boundVars
<1>1. CASE listen_loop
  BY <1>1 DEF listen_loop, Goto
<1>2. CASE listen_timeout
  BY <1>2 DEF listen_timeout, Goto
<1>3. CASE listen_recv
  BY <1>3 DEF listen_recv, Goto
<1>4. CASE listen_closed
  BY <1>4 DEF listen_closed, Goto, Suffer
<1>5. CASE listen_disconnect
  BY <1>5 DEF listen_disconnect, Goto
<1>6. CASE listen_exit
  BY <1>6 DEF listen_exit, Goto
<1>7. CASE parse_failed
  BY <1>7 DEF parse_failed, Goto
<1>8. CASE parse_reply
  BY <1>8 DEF parse_reply, Resume
<1>9. CASE parse_update
  BY <1>9 DEF parse_update, Resume
<1>10. CASE callback_sends
  BY <1>10 DEF callback_sends, Write, Suffer
<1>11. CASE callback_returns
  BY <1>11 DEF callback_returns, Resume
<1> QED
  BY <1>1, <1>2, <1>3, <1>4, <1>5, <1>6, <1>7, <1>8, <1>9, <1>10, <1>11 DEF listener

\* The server touches neither the session nor its lists.
LEMMA ServerStep == ASSUME SInv, server PROVE SInv'
<1> USE DEF SInv, Types, Phases, Threads, Lists, AgentPoints, Listening, NoFd, Alive
<1> USE DEF MainPoint, mainVars, listVars, parseVars, processVars
<1>1. CASE server_reply
  BY <1>1 DEF server_reply
<1>2. CASE server_update
  BY <1>2 DEF server_update, Suffer
<1>3. CASE server_close
  BY <1>3 DEF server_close, Suffer
<1> QED
  BY <1>1, <1>2, <1>3 DEF server

\* The invariant is inductive.
LEMMA NextSInv == SInv /\ [Next]_vars => SInv'
<1> SUFFICES ASSUME SInv, [Next]_vars PROVE SInv'
  OBVIOUS
<1>1. CASE UNCHANGED vars
  BY <1>1 DEF SInv, Types, Phases, Threads, Lists, AgentPoints, Listening, vars,
              agentVars, handleVars, listVars, parseVars, serverVars, boundVars
<1>2. CASE quiet
  BY <1>1, <1>2 DEF quiet
<1> QED
  BY <1>1, <1>2, ComponentStep, LibraryStep, AgentStep, ListenerStep, ServerStep
     DEF Next

----------------------------------------------------------------------------

\* The invariant above holds in every reachable state.
THEOREM SessionInvariant == Spec => []SInv
  BY InitSInv, NextSInv, PTL DEF Spec

\* The listen thread never runs without a handle and a log (ovsdb_deinit joins it
\* first), except on a connection a failed ovs_agent_api_init has left behind,
\* and never runs a callback without the transaction table and the bus.
THEOREM ListenerCorrect == Spec => []ListenerHasSession
<1>1. SInv => ListenerHasSession
  BY DEF SInv, Phases, Threads, AgentPoints, MainPoint, ListenerHasSession, Alive
<1> QED
  BY <1>1, SessionInvariant, PTL

\* Whenever no session is up, log, transaction table, receipts and monitors are
\* released, and so is the connection unless a late failure left it behind.
THEOREM ReleaseCorrect == Spec => []ReleasedWhenDown
<1>1. SInv => ReleasedWhenDown
  BY DEF SInv, Phases, Threads, Lists, ReleasedWhenDown
<1> QED
  BY <1>1, SessionInvariant, PTL

\* Although ovsdb_init resets the id generator, even on a connection it takes over,
\* pending receipts have different ids and belong to the present connection.
THEOREM ReceiptsCorrect == Spec => []ReceiptsOfThisSession
<1>1. SInv => ReceiptsOfThisSession
  BY DEF SInv, Lists, ReceiptsOfThisSession
<1> QED
  BY <1>1, SessionInvariant, PTL

\* When OvsAgentInit fails, whichever part it was, bus and session are closed, and
\* the logger too unless it was the bus that failed.
THEOREM UnwindCorrect == Spec => []UnwindComplete
<1>1. SInv => UnwindComplete
  BY DEF SInv, Threads, AgentPoints, UnwindComplete
<1> QED
  BY <1>1, SessionInvariant, PTL

----------------------------------------------------------------------------
(* Types *)

\* The initial values have their types.
LEMMA InitType == Init => TypeOK
<1> SUFFICES ASSUME Init PROVE TypeOK
  OBVIOUS
<1>1. reply \in Receipt
  BY DEF Init, NoReply, Receipt
<1>2. main \in MainPoint
  BY DEF Init, MainPoint
<1>3. /\ rdkLog \in BOOLEAN /\ bus \in BOOLEAN
      /\ handle \in BOOLEAN /\ log \in BOOLEAN /\ manager \in BOOLEAN
      /\ monitorFeedback \in BOOLEAN /\ g_terminate \in BOOLEAN
      /\ dbMonitor \in BOOLEAN /\ spoilt \in BOOLEAN
  BY Zenon DEF Init
<1>4. /\ receipts \subseteq Receipt /\ monitors \in Seq(Nat)
      /\ buffer \in Seq(Piece) /\ wire \in Seq(Piece)
  BY DEF Init
<1>5. todo \in Seq({"insert", "monitor", "delete"}) /\ requests \in Seq(Request)
  BY DEF Init
<1> QED
  BY <1>1, <1>2, <1>3, <1>4, <1>5 DEF Init, TypeOK

\* A failure that was counted and noted is one of the known ones.
LEMMA SufferType ==
    ASSUME TypeOK, NEW f \in Fault \cup {"none"}, Suffer(f)
    PROVE  faults' \in Nat /\ failed' \in Fault \cup {"none"}
  BY DEF TypeOK, Suffer

\* A fault that may happen is a known one.
LEMMA MayFailType ==
    ASSUME NEW kinds, NEW f \in MayFail(kinds)
    PROVE  f \in Fault \cup {"none"} /\ f \in kinds \cup {"none"}
  BY KindsAssumption DEF MayFail

\* A request, of either thread.
LEMMA WriteType ==
    ASSUME TypeOK, NEW kind \in {"insert", "monitor", "delete"},
           NEW f \in {"none", "send", "short", "killed"}, Write(kind, f)
    PROVE  /\ id' \in Nat /\ receipts' \subseteq Receipt /\ monitors' \in Seq(Nat)
           /\ requests' \in Seq(Request)
           /\ faults' \in Nat /\ failed' \in Fault \cup {"none"}
<1>1. id' \in Nat
  BY DEF TypeOK, Write
<1>2. receipts' \subseteq Receipt
  <2>1. receipts \subseteq Receipt /\ conns \in Nat
    BY DEF TypeOK
  <2>2. PICK cb \in {"write", "dummy"} :
          receipts' = receipts \cup {[rid |-> id', conn |-> conns, cb |-> cb]}
    BY DEF Write
  <2>3. [rid |-> id', conn |-> conns, cb |-> cb] \in Receipt
    BY <1>1, <2>1 DEF Receipt
  <2> QED
    BY <2>1, <2>2, <2>3
<1>3. monitors' \in Seq(Nat)
  BY DEF TypeOK, Write
<1>4. [rid |-> id', kind |-> kind, whole |-> f = "none"] \in Request
  BY <1>1 DEF Request
<1>5. requests' \in Seq(Request)
  BY <1>4 DEF TypeOK, Write
<1>6. faults' \in Nat /\ failed' \in Fault \cup {"none"}
  BY SufferType DEF Write, Fault
<1> QED
  BY <1>1, <1>2, <1>3, <1>5, <1>6

\* What a send may come to.
LEMMA ResultsType == socket_write_results \subseteq {"none", "send", "short", "killed"}
<1>1. MayFail({"send", "short"}) \subseteq {"none", "send", "short"}
  BY MayFailType
<1>2. \/ socket_write_results = {"send"}
      \/ socket_write_results = {"send", "killed"}
      \/ socket_write_results = MayFail({"send", "short"})
  BY Zenon DEF socket_write_results
<1> QED
  BY <1>1, <1>2

\* Types, for the first part of deinit.
LEMMA DeinitType ==
    ASSUME TypeOK, ovs_agent_api_deinit, UNCHANGED main
    PROVE  TypeOK'
<1> USE DEF listVars, parseVars, serverVars, boundVars
<1>1. /\ pc' = "join" /\ monitorFeedback' = FALSE /\ g_terminate' = TRUE
      /\ UNCHANGED <<program, main, rdkLog, bus, handle, log, manager, id, fd, lpc,
                     conns, requests, faults, abandoned, spoilt, failed>>
      /\ UNCHANGED <<listVars, parseVars, serverVars, boundVars>>
  BY Zenon DEF ovs_agent_api_deinit
<1>2. monitorFeedback' \in BOOLEAN /\ g_terminate' \in BOOLEAN
  BY <1>1, Zenon
<1> QED
  BY <1>1, <1>2 DEF TypeOK

\* Types, for the calls of a component.
LEMMA ComponentType == ASSUME TypeOK, component PROVE TypeOK'
<1> USE DEF agentVars, handleVars, listVars, parseVars, serverVars, boundVars
<1>1. CASE component_init
  <2>1. faults' \in Nat /\ failed' \in Fault \cup {"none"}
    BY <1>1, SufferType, MayFailType DEF component_init, ovs_agent_api_init
  <2>2. log' \in BOOLEAN /\ handle' \in BOOLEAN /\ monitorFeedback' \in BOOLEAN
    BY <1>1, Zenon DEF component_init, ovs_agent_api_init, open_log
  <2>3. pc' \in {"none", "ovsdb_init"}
    BY <1>1, Zenon DEF component_init, ovs_agent_api_init
  <2> QED
    BY <1>1, <2>1, <2>2, <2>3 DEF component_init, ovs_agent_api_init, TypeOK
<1>2. CASE component_deinit
  BY <1>2, DeinitType DEF component_deinit
<1>3. CASE component_interact
  <2>1. PICK f \in socket_write_results :
          Write("insert", f) /\ main' = IF f = "killed" THEN "killed" ELSE main
    BY <1>3 DEF component_interact
  <2>2. f \in {"none", "send", "short", "killed"}
    BY <2>1, ResultsType
  <2>3. /\ id' \in Nat /\ receipts' \subseteq Receipt /\ monitors' \in Seq(Nat)
        /\ requests' \in Seq(Request)
        /\ faults' \in Nat /\ failed' \in Fault \cup {"none"}
    BY <2>1, <2>2, WriteType
  <2>4. main' \in MainPoint
    BY <2>1 DEF TypeOK, MainPoint
  <2> QED
    BY <1>3, <2>3, <2>4 DEF component_interact, TypeOK
<1> QED
  BY <1>1, <1>2, <1>3 DEF component

\* Types, for the rest of init and deinit.
LEMMA LibraryType == ASSUME TypeOK, library PROVE TypeOK'
<1> USE DEF agentVars, handleVars, listVars, parseVars, serverVars, boundVars, lateVars, releaseVars
<1>1. CASE ovsdb_init
  <2>1. CASE fd # NoFd
    <3>1. /\ pc' = "mutex" /\ abandoned' = abandoned \ {fd} /\ id' = 0
          /\ UNCHANGED <<handle, log, fd, conns, open, requests, wire, dbMonitor,
                         msgs, dealt, spoilt, g_terminate, lpc, faults, failed>>
          /\ UNCHANGED <<program, agentVars, manager, monitorFeedback, listVars, buffer,
                         reply, todo, boundVars>>
      BY <1>1, <2>1, Zenon DEF ovsdb_init
    <3>2. id' \in Nat /\ abandoned' \subseteq Nat
      BY <3>1 DEF TypeOK
    <3>3. /\ fd' \in {NoFd, conns'} /\ open' \in {NoFd, conns'} /\ conns' \in Nat
          /\ {faults, inits, updates, msgs}' \subseteq Nat
      BY <3>1 DEF TypeOK
    <3>4. /\ receipts' \subseteq Receipt /\ monitors' \in Seq(Nat)
          /\ buffer' \in Seq(Piece) /\ wire' \in Seq(Piece)
          /\ reply' \in Receipt /\ todo' \in Seq({"insert", "monitor", "delete"})
          /\ requests' \in Seq(Request) /\ dealt' \in Seq(Nat)
      BY <3>1 DEF TypeOK
    <3>5. /\ rdkLog' \in BOOLEAN /\ bus' \in BOOLEAN
          /\ handle' \in BOOLEAN /\ log' \in BOOLEAN /\ manager' \in BOOLEAN
          /\ monitorFeedback' \in BOOLEAN /\ g_terminate' \in BOOLEAN
          /\ dbMonitor' \in BOOLEAN /\ spoilt' \in BOOLEAN
      BY <3>1, Zenon DEF TypeOK
    <3>6. /\ program' \in Programs /\ main' \in MainPoint
          /\ failed' \in Fault \cup {"none"}
          /\ lpc' \in {"none", "loop", "select", "parse", "callback", "close", "reset", "exited"}
      BY <3>1 DEF TypeOK
    <3> QED
      BY <3>1, <3>2, <3>3, <3>4, <3>5, <3>6 DEF TypeOK
  <2>2. CASE fd = NoFd
    <3>1. PICK f \in MayFail({"connect", "thread"}) :
          /\ Suffer(f)
          /\ IF f = "none" THEN pc' = "mutex" /\ UNCHANGED <<handle, log>> ELSE Fail
          /\ conns' = IF f = "connect" THEN conns ELSE conns + 1
          /\ fd' = socket_connect(f)
          /\ g_terminate' = (g_terminate /\ f = "connect")
          /\ lpc' = IF f = "none" THEN "loop" ELSE lpc
      BY <1>1, <2>2 DEF ovsdb_init
    <3>2. faults' \in Nat /\ failed' \in Fault \cup {"none"}
      BY <3>1, SufferType, MayFailType
    <3>3. g_terminate' \in BOOLEAN
      BY <3>1, Zenon
    <3>4. fd' \in {NoFd, conns'} /\ conns' \in Nat
      BY <3>1 DEF socket_connect, TypeOK
    <3>5. handle' \in BOOLEAN /\ log' \in BOOLEAN /\ pc' \in {"mutex", "none"}
      BY <3>1, Zenon DEF Fail, TypeOK
    <3>6. /\ open' = fd'
          /\ requests' = <<>> /\ wire' = <<>> /\ dbMonitor' = FALSE
          /\ msgs' = 0 /\ dealt' = <<>> /\ spoilt' = FALSE
          /\ id' = 0 /\ abandoned' = abandoned
          /\ UNCHANGED <<program, agentVars, manager, monitorFeedback, listVars, buffer,
                         reply, todo, boundVars>>
      BY <1>1, <2>2, Zenon DEF ovsdb_init
    <3>7. dbMonitor' \in BOOLEAN /\ spoilt' \in BOOLEAN
      BY <3>6, Zenon
    <3>8. /\ requests' \in Seq(Request) /\ wire' \in Seq(Piece) /\ dealt' \in Seq(Nat)
          /\ id' \in Nat /\ msgs' \in Nat
      BY <3>6
    <3>9. lpc' \in {"none", "loop", "select", "parse", "callback", "close", "reset", "exited"}
      BY <3>1 DEF TypeOK
    <3> QED
      BY <3>2, <3>3, <3>4, <3>5, <3>6, <3>7, <3>8, <3>9 DEF TypeOK
  <2> QED
    BY <2>1, <2>2
<1>2. CASE init_mutex
  <2>1. faults' \in Nat /\ failed' \in Fault \cup {"none"}
    BY <1>2, SufferType, MayFailType DEF init_mutex
  <2>2. /\ handle' \in BOOLEAN /\ log' \in BOOLEAN /\ pc' \in {"manager", "none"}
        /\ abandoned' \subseteq Nat
    BY <1>2 DEF init_mutex, FailLate, Fail, TypeOK
  <2> QED
    BY <1>2, <2>1, <2>2 DEF init_mutex, TypeOK
<1>3. CASE init_transaction_manager
  <2>1. faults' \in Nat /\ failed' \in Fault \cup {"none"}
    BY <1>3, SufferType, MayFailType DEF init_transaction_manager
  <2>2. manager' \in BOOLEAN
    BY <1>3, Zenon DEF init_transaction_manager
  <2>3. /\ handle' \in BOOLEAN /\ log' \in BOOLEAN /\ pc' = "none"
        /\ abandoned' \subseteq Nat
    BY <1>3 DEF init_transaction_manager, FailLate, Fail, TypeOK
  <2> QED
    BY <1>3, <2>1, <2>2, <2>3 DEF init_transaction_manager, TypeOK
<1>4. CASE ovsdb_deinit
  BY <1>4 DEF ovsdb_deinit, receipt_list_clear, mon_list_clear, TypeOK
<1>5. CASE deinit_transaction_manager
  <2>1. manager' \in BOOLEAN
    BY <1>5, Zenon DEF deinit_transaction_manager
  <2> QED
    BY <1>5, <2>1 DEF deinit_transaction_manager, TypeOK
<1>6. CASE close_log
  <2>1. log' \in BOOLEAN /\ handle' \in BOOLEAN
    BY <1>6, Zenon DEF close_log
  <2> QED
    BY <1>6, <2>1 DEF close_log, TypeOK
<1> QED
  BY <1>1, <1>2, <1>3, <1>4, <1>5, <1>6 DEF library

\* Types, for OvsAgentInit.
LEMMA AgentType == ASSUME TypeOK, agent PROVE TypeOK'
<1> USE DEF agentVars, handleVars, listVars, parseVars, serverVars, boundVars, libraryVars
<1>1. CASE OvsAgentLogInit
  <2>1. faults' \in Nat /\ failed' \in Fault \cup {"none"}
    BY <1>1, SufferType, MayFailType DEF OvsAgentLogInit
  <2>2. rdkLog' \in BOOLEAN
    BY <1>1, Zenon DEF OvsAgentLogInit
  <2> QED
    BY <1>1, <2>1, <2>2 DEF OvsAgentLogInit, MainPoint, TypeOK
<1>2. CASE Cosa_Init
  <2>1. faults' \in Nat /\ failed' \in Fault \cup {"none"}
    BY <1>2, SufferType, MayFailType DEF Cosa_Init
  <2>2. bus' \in BOOLEAN
    BY <1>2, Zenon DEF Cosa_Init
  <2> QED
    BY <1>2, <2>1, <2>2 DEF Cosa_Init, MainPoint, TypeOK
<1>3. CASE agent_api_init
  <2>1. faults' \in Nat /\ failed' \in Fault \cup {"none"}
    BY <1>3, SufferType, MayFailType DEF agent_api_init, ovs_agent_api_init
  <2>2. log' \in BOOLEAN /\ handle' \in BOOLEAN /\ monitorFeedback' \in BOOLEAN
    BY <1>3, Zenon DEF agent_api_init, ovs_agent_api_init, open_log
  <2>3. pc' \in {"none", "ovsdb_init"}
    BY <1>3, Zenon DEF agent_api_init, ovs_agent_api_init
  <2> QED
    BY <1>3, <2>1, <2>2, <2>3 DEF agent_api_init, ovs_agent_api_init, TypeOK
<1>4. CASE api_returned
  <2>1. /\ bus' \in BOOLEAN /\ rdkLog' \in BOOLEAN
        /\ main' \in {"action", "exited"}
    BY <1>4, Zenon DEF api_returned, Shutdown, TypeOK
  <2> QED
    BY <1>4, <2>1 DEF api_returned, MainPoint, TypeOK
<1>5. CASE ovs_action_init
  <2>1. faults' \in Nat /\ failed' \in Fault \cup {"none"}
    BY <1>5, SufferType, MayFailType DEF ovs_action_init
  <2> QED
    BY <1>5, <2>1 DEF ovs_action_init, MainPoint, TypeOK
<1>6. CASE agent_interact
  <2>1. PICK f \in socket_write_results :
          /\ Write("monitor", f)
          /\ main' = CASE f = "killed" -> "killed"
                       [] f = "send"   -> "unwind"
                       [] OTHER        -> "running"
    BY <1>6 DEF agent_interact
  <2>2. f \in {"none", "send", "short", "killed"}
    BY <2>1, ResultsType
  <2>3. /\ id' \in Nat /\ receipts' \subseteq Receipt /\ monitors' \in Seq(Nat)
        /\ requests' \in Seq(Request)
        /\ faults' \in Nat /\ failed' \in Fault \cup {"none"}
    BY <2>1, <2>2, WriteType
  <2>4. main' \in MainPoint
    BY <2>1, <2>2 DEF TypeOK, MainPoint
  <2> QED
    BY <1>6, <2>3, <2>4 DEF agent_interact, TypeOK
<1>7. CASE agent_api_deinit
  BY <1>7, DeinitType DEF agent_api_deinit
<1>8. CASE OvsAgentInit_fails
  <2>1. bus' \in BOOLEAN /\ rdkLog' \in BOOLEAN /\ main' = "exited"
    BY <1>8, Zenon DEF OvsAgentInit_fails, Shutdown
  <2> QED
    BY <1>8, <2>1 DEF OvsAgentInit_fails, MainPoint, TypeOK
<1> QED
  BY <1>1, <1>2, <1>3, <1>4, <1>5, <1>6, <1>7, <1>8 DEF agent

\* What is left of the buffer, and the numbers dealt with, after a message.
LEMMA DealtTypes ==
    ASSUME TypeOK, Len(buffer) >= MsgLen
    PROVE  /\ SubSeq(buffer, MsgLen + 1, Len(buffer)) \in Seq(Piece)
           /\ Append(dealt, buffer[1].msg.n) \in Seq(Nat)
<1>1. /\ buffer \in Seq(Piece) /\ dealt \in Seq(Nat)
      /\ MsgLen \in Nat \ {0} /\ Len(buffer) \in Nat
  BY LengthsAssumption DEF TypeOK
<1>2. \A i \in MsgLen + 1 .. Len(buffer) : buffer[i] \in Piece
  BY <1>1
<1>3. SubSeq(buffer, MsgLen + 1, Len(buffer)) \in Seq(Piece)
  BY <1>1, <1>2, SubSeqProperties
<1>4. buffer[1] \in Piece
  BY <1>1
<1>5. buffer[1].msg.n \in Nat
  BY <1>4 DEF Piece, Message
<1> QED
  BY <1>1, <1>3, <1>5

\* A message as the server cuts it into pieces.
LEMMA PiecesType ==
    ASSUME NEW m \in Message
    PROVE  /\ Pieces(m) \in Seq(Piece) /\ Len(Pieces(m)) = MsgLen
           /\ \A i \in 1 .. MsgLen : Pieces(m)[i] = [msg |-> m, part |-> i]
<1>1. MsgLen \in Nat
  BY LengthsAssumption
<1>2. \A i \in 1 .. MsgLen : [msg |-> m, part |-> i] \in Piece
  BY DEF Piece
<1>3. Pieces(m) \in [1 .. MsgLen -> Piece]
  BY <1>2 DEF Pieces
<1>4. Pieces(m) \in Seq(Piece) /\ Len(Pieces(m)) = MsgLen
  BY <1>1, <1>3
<1> QED
  BY <1>4 DEF Pieces

\* A message more on the wire.
LEMMA EmitType ==
    ASSUME TypeOK, NEW kind \in {"reply", "update", "malformed"}, NEW n \in Nat,
           Emit(kind, n)
    PROVE  msgs' \in Nat /\ wire' \in Seq(Piece)
<1>1. msgs' \in Nat /\ wire \in Seq(Piece)
  BY DEF Emit, TypeOK
<1>2. [n |-> msgs', kind |-> kind, rid |-> n] \in Message
  BY <1>1 DEF Message
<1>3. Pieces([n |-> msgs', kind |-> kind, rid |-> n]) \in Seq(Piece)
  BY <1>2, PiecesType
<1> QED
  BY <1>1, <1>3, ConcatProperties DEF Emit

\* What a callback may have to send.
LEMMA TodoTypes ==
    /\ <<>> \in Seq({"insert", "monitor", "delete"})
    /\ <<"monitor">> \in Seq({"insert", "monitor", "delete"})
    /\ <<"insert">> \in Seq({"insert", "monitor", "delete"})
    /\ <<"delete", "delete">> \in Seq({"insert", "monitor", "delete"})
  OBVIOUS

\* Types, for the listen thread.
LEMMA ListenerType == ASSUME TypeOK, listener PROVE TypeOK'
<1> USE DEF mainVars, listVars, parseVars, serverVars, boundVars
<1>1. CASE listen_loop
  BY <1>1 DEF listen_loop, Goto, TypeOK
<1>2. CASE listen_timeout
  BY <1>2 DEF listen_timeout, Goto, TypeOK
<1>3. CASE listen_recv
  <2>1. PICK n \in 1 .. BufLen :
          /\ n <= Len(wire)
          /\ buffer' = SubSeq(wire, 1, n)
          /\ wire' = SubSeq(wire, n + 1, Len(wire))
    BY <1>3 DEF listen_recv
  <2>2. wire \in Seq(Piece) /\ n \in Nat /\ Len(wire) \in Nat
    BY LengthsAssumption DEF TypeOK
  <2>3. buffer' \in Seq(Piece) /\ wire' \in Seq(Piece)
    BY <2>1, <2>2, SubSeqProperties
  <2>4. spoilt' \in BOOLEAN
    BY <1>3, Zenon DEF listen_recv
  <2> QED
    BY <1>3, <2>3, <2>4 DEF listen_recv, Goto, TypeOK
<1>4. CASE listen_closed
  <2>1. faults' \in Nat /\ failed' \in Fault \cup {"none"}
    BY <1>4, SufferType DEF listen_closed, Fault, TypeOK
  <2> QED
    BY <1>4, <2>1 DEF listen_closed, Goto, TypeOK
<1>5. CASE listen_disconnect
  <2>1. dbMonitor' \in BOOLEAN
    BY <1>5, Zenon DEF listen_disconnect
  <2> QED
    BY <1>5, <2>1 DEF listen_disconnect, Goto, TypeOK
<1>6. CASE listen_exit
  BY <1>6 DEF listen_exit, Goto, TypeOK
<1>7. CASE parse_failed
  BY <1>7 DEF parse_failed, Goto, TypeOK
<1>8. CASE parse_reply
  <2> DEFINE found == {r \in receipts : r.rid = buffer[1].msg.rid}
  <2>1. /\ dealt' = Append(dealt, buffer[1].msg.n)
        /\ buffer' = SubSeq(buffer, MsgLen + 1, Len(buffer))
        /\ \/ lpc' = Resume(buffer') /\ UNCHANGED <<reply, todo>>
           \/ /\ found # {}
              /\ reply' = CHOOSE r \in found : TRUE
              /\ todo' \in {<<"monitor">>, <<>>}
              /\ lpc' = "callback"
    BY <1>8 DEF parse_reply
  <2>2. Len(buffer) >= MsgLen
    BY <1>8 DEF parse_reply, Whole
  <2>3. buffer' \in Seq(Piece) /\ dealt' \in Seq(Nat)
    BY <2>1, <2>2, DealtTypes
  <2>4. reply' \in Receipt
    BY <2>1 DEF TypeOK
  <2>5. todo' \in Seq({"insert", "monitor", "delete"})
    BY <2>1, TodoTypes DEF TypeOK
  <2>6. lpc' \in {"loop", "parse", "callback"}
    BY <2>1 DEF Resume
  <2>7. UNCHANGED <<mainVars, main, monitorFeedback, listVars, boundVars, id,
                    g_terminate, conns, abandoned, serverVars, fd, requests, faults,
                    failed, spoilt>>
    BY <1>8, Zenon DEF parse_reply
  <2> QED
    BY <2>3, <2>4, <2>5, <2>6, <2>7 DEF TypeOK
<1>9. CASE parse_update
  <2>1. /\ dealt' = Append(dealt, buffer[1].msg.n)
        /\ buffer' = SubSeq(buffer, MsgLen + 1, Len(buffer))
        /\ \/ lpc' = Resume(buffer') /\ UNCHANGED todo
           \/ /\ todo' \in {<<"insert">>, <<>>, <<"delete", "delete">>}
              /\ lpc' = "callback"
    BY <1>9 DEF parse_update
  <2>2. Len(buffer) >= MsgLen
    BY <1>9 DEF parse_update, Whole
  <2>3. buffer' \in Seq(Piece) /\ dealt' \in Seq(Nat)
    BY <2>1, <2>2, DealtTypes
  <2>5. todo' \in Seq({"insert", "monitor", "delete"})
    BY <2>1, TodoTypes DEF TypeOK
  <2>6. lpc' \in {"loop", "parse", "callback"}
    BY <2>1 DEF Resume
  <2>7. UNCHANGED <<mainVars, main, monitorFeedback, listVars, boundVars, id,
                    g_terminate, conns, abandoned, serverVars, fd, requests, faults,
                    failed, spoilt, reply>>
    BY <1>9, Zenon DEF parse_update
  <2> QED
    BY <2>3, <2>5, <2>6, <2>7 DEF TypeOK
<1>10. CASE callback_sends
  <2>1. PICK f \in socket_write_results :
          /\ Write(Head(todo), f)
          /\ main' = IF f = "killed" THEN "killed" ELSE main
          /\ monitorFeedback' = IF Head(todo) = "monitor" THEN f # "send"
                                ELSE monitorFeedback
    BY <1>10 DEF callback_sends
  <2>2. f \in {"none", "send", "short", "killed"}
    BY <2>1, ResultsType
  <2>3. /\ Head(todo) \in {"insert", "monitor", "delete"}
        /\ todo' \in Seq({"insert", "monitor", "delete"})
    BY <1>10 DEF callback_sends, TypeOK
  <2>4. /\ id' \in Nat /\ receipts' \subseteq Receipt /\ monitors' \in Seq(Nat)
        /\ requests' \in Seq(Request)
        /\ faults' \in Nat /\ failed' \in Fault \cup {"none"}
    BY <2>1, <2>2, <2>3, WriteType
  <2>5. main' \in MainPoint
    BY <2>1 DEF TypeOK, MainPoint
  <2>6. monitorFeedback' \in BOOLEAN
    BY <2>1, Zenon DEF TypeOK
  <2> QED
    BY <1>10, <2>3, <2>4, <2>5, <2>6 DEF callback_sends, TypeOK
<1>11. CASE callback_returns
  <2>1. reply' \in Receipt
    BY <1>11 DEF callback_returns, NoReply, Receipt
  <2>2. lpc' \in {"loop", "parse"}
    BY <1>11 DEF callback_returns, Resume
  <2> QED
    BY <1>11, <2>1, <2>2 DEF callback_returns, TypeOK
<1> QED
  BY <1>1, <1>2, <1>3, <1>4, <1>5, <1>6, <1>7, <1>8, <1>9, <1>10, <1>11 DEF listener

\* The types of what belongs to the process, which the server leaves alone.
ProcessTypes ==
    /\ program \in Programs /\ main \in MainPoint
    /\ pc \in {"none", "ovsdb_init", "mutex", "manager", "join", "release", "close"}
    /\ rdkLog \in BOOLEAN /\ bus \in BOOLEAN
    /\ handle \in BOOLEAN /\ log \in BOOLEAN /\ manager \in BOOLEAN
    /\ monitorFeedback \in BOOLEAN /\ g_terminate \in BOOLEAN
    /\ id \in Nat /\ conns \in Nat /\ fd \in {NoFd, conns}
    /\ receipts \subseteq Receipt /\ monitors \in Seq(Nat)
    /\ lpc \in {"none", "loop", "select", "parse", "callback", "close", "reset", "exited"}
    /\ buffer \in Seq(Piece) /\ dealt \in Seq(Nat)
    /\ reply \in Receipt /\ todo \in Seq({"insert", "monitor", "delete"})
    /\ inits \in Nat /\ abandoned \subseteq Nat

\* The process keeps its types while the server acts.
LEMMA ProcessKept ==
    ASSUME TypeOK, UNCHANGED processVars
    PROVE  ProcessTypes' /\ conns' = conns
<1>1. ProcessTypes
  BY DEF TypeOK, ProcessTypes
<1>2. UNCHANGED <<program, pc, rdkLog, bus, handle, log, manager, main, monitorFeedback,
                  receipts, monitors, buffer, reply, todo, dealt, inits, id, fd,
                  g_terminate, lpc, conns, abandoned>>
  BY DEF processVars, mainVars, listVars, parseVars
<1> QED
  BY <1>1, <1>2 DEF ProcessTypes

\* The server numbers its messages.
LEMMA ServerType == ASSUME TypeOK, server PROVE TypeOK'
<1>0. /\ open \in {NoFd, conns} /\ requests \in Seq(Request) /\ wire \in Seq(Piece)
      /\ updates \in Nat /\ msgs \in Nat /\ faults \in Nat
      /\ dbMonitor \in BOOLEAN /\ spoilt \in BOOLEAN /\ failed \in Fault \cup {"none"}
  BY DEF TypeOK
<1> SUFFICES /\ open' \in {NoFd, conns} /\ requests' \in Seq(Request)
             /\ wire' \in Seq(Piece)
             /\ updates' \in Nat /\ msgs' \in Nat /\ faults' \in Nat
             /\ dbMonitor' \in BOOLEAN /\ spoilt' \in BOOLEAN
             /\ failed' \in Fault \cup {"none"}
  <2>1. UNCHANGED processVars
    BY Zenon DEF server, server_reply, server_update, server_close
  <2>2. ProcessTypes' /\ conns' = conns
    BY <2>1, ProcessKept
  <2> QED
    BY <2>2 DEF TypeOK, ProcessTypes
<1>1. CASE server_reply
  <2>1. Emit("reply", Head(requests).rid)
    BY <1>1 DEF server_reply
  <2>2. Head(requests).rid \in Nat /\ Tail(requests) \in Seq(Request)
    <3>1. requests \in Seq(Request) /\ requests # <<>>
      BY <1>1 DEF server_reply, TypeOK
    <3>2. Head(requests) \in Request /\ Tail(requests) \in Seq(Request)
      BY <3>1
    <3> QED
      BY <3>2 DEF Request
  <2>3. msgs' \in Nat /\ wire' \in Seq(Piece)
    BY <2>1, <2>2, EmitType
  <2>4. dbMonitor' \in BOOLEAN
    BY <1>1, Zenon DEF server_reply
  <2>5. requests' = Tail(requests)
    BY <1>1, Zenon DEF server_reply
  <2>6. UNCHANGED <<open, updates, faults, failed, spoilt>>
    BY <1>1, Zenon DEF server_reply
  <2> QED
    BY <1>0, <2>2, <2>3, <2>4, <2>5, <2>6
<1>2. CASE server_update
  <2>1. PICK f \in MayFail({"malformed"}) :
          /\ Suffer(f)
          /\ Emit(IF f = "none" THEN "update" ELSE "malformed", 0)
          /\ spoilt' = (spoilt \/ f # "none")
    BY <1>2 DEF server_update
  <2>2. faults' \in Nat /\ failed' \in Fault \cup {"none"}
    BY <2>1, SufferType, MayFailType
  <2>3. msgs' \in Nat /\ wire' \in Seq(Piece)
    BY <2>1, EmitType
  <2>4. spoilt' \in BOOLEAN
    BY <2>1, Zenon
  <2>5. updates' = updates + 1 /\ UNCHANGED <<open, requests, dbMonitor>>
    BY <1>2, Zenon DEF server_update
  <2> QED
    BY <1>0, <2>2, <2>3, <2>4, <2>5
<1>3. CASE server_close
  <2>1. faults' \in Nat /\ failed' \in Fault \cup {"none"}
    BY <1>3, SufferType DEF server_close, Fault, TypeOK
  <2>2. dbMonitor' \in BOOLEAN
    BY <1>3, Zenon DEF server_close
  <2>3. /\ open' = NoFd /\ requests' = <<>>
        /\ UNCHANGED <<wire, msgs, updates, spoilt>>
    BY <1>3, Zenon DEF server_close
  <2> QED
    BY <1>0, <2>1, <2>2, <2>3
<1> QED
  BY <1>1, <1>2, <1>3 DEF server

\* Every variable keeps its type: fd and open name no connection or the latest
\* one, whatever is parsed is made of pieces the server has sent, and every
\* receipt, request and message is well formed.
THEOREM SessionTypeCorrect == Spec => []TypeOK
<1>1. TypeOK /\ [Next]_vars => TypeOK'
  <2> SUFFICES ASSUME TypeOK, [Next]_vars PROVE TypeOK'
    OBVIOUS
  <2>1. CASE UNCHANGED vars
    BY <2>1 DEF TypeOK, vars, agentVars, handleVars, listVars, parseVars, serverVars,
                boundVars
  <2>2. CASE quiet
    BY <2>1, <2>2 DEF quiet
  <2> QED
    BY <2>1, <2>2, ComponentType, LibraryType, AgentType, ListenerType, ServerType
       DEF Next
<1> QED
  BY <1>1, InitType, PTL DEF Spec

----------------------------------------------------------------------------
(* The stream of messages.  Numbers and parts rise along the buffer and the  *)
(* wire, above everything dealt with; while nothing was cut or malformed,    *)
(* both consist of whole messages, so that every message is found whole at   *)
(* the front of the buffer.                                                  *)

\* What is left in the buffer belongs to the message in work.
BufferDone == lpc \notin {"parse", "callback"} => buffer = <<>>

Before(p, q) == p.msg.n < q.msg.n \/ (p.msg.n = q.msg.n /\ p.part < q.part)

Rising(s) == \A i, j \in 1 .. Len(s) : i < j => Before(s[i], s[j])

InOrder ==
    /\ Rising(buffer) /\ Rising(wire)
    /\ \A i \in 1 .. Len(buffer), j \in 1 .. Len(wire) : Before(buffer[i], wire[j])
    /\ \A i, j \in 1 .. Len(dealt) : i < j => dealt[i] < dealt[j]

Numbered ==
    /\ \A d \in 1 .. Len(dealt) :
         /\ dealt[d] <= msgs
         /\ \A i \in 1 .. Len(buffer) : dealt[d] < buffer[i].msg.n
         /\ \A i \in 1 .. Len(wire) : dealt[d] < wire[i].msg.n
    /\ \A i \in 1 .. Len(buffer) : buffer[i].msg.n <= msgs
    /\ \A i \in 1 .. Len(wire) : wire[i].msg.n <= msgs

\* Every piece of s stands among all the pieces of its message.
Aligned(s) ==
    \A i \in 1 .. Len(s) :
        /\ s[i].msg.kind # "malformed"
        /\ s[i].part <= i /\ i - s[i].part + MsgLen <= Len(s)
        /\ \A q \in 1 .. MsgLen : s[i - s[i].part + q] = [msg |-> s[i].msg, part |-> q]

NoneLost ==
    \A n \in 1 .. msgs : \/ \E i \in 1 .. Len(dealt) : dealt[i] = n
                         \/ \A p \in 1 .. MsgLen : Coming(n, p)

Unspoilt == ~spoilt /\ open # NoFd => Aligned(buffer) /\ Aligned(wire) /\ NoneLost

StreamInv == BufferDone /\ InOrder /\ Numbered /\ Unspoilt

\* Nothing is sent or received before the first connection.
LEMMA InitStream == Init => StreamInv
<1> SUFFICES ASSUME Init PROVE StreamInv
  OBVIOUS
<1>1. buffer = <<>> /\ wire = <<>> /\ dealt = <<>> /\ open = NoFd
  BY DEF Init
<1> QED
  BY <1>1 DEF StreamInv, BufferDone, InOrder, Numbered, Unspoilt, Rising

\* The end of a sequence of pieces.
LEMMA Suffix ==
    ASSUME NEW s \in Seq(Piece), NEW k \in 0 .. Len(s)
    PROVE  /\ SubSeq(s, k + 1, Len(s)) \in Seq(Piece)
           /\ Len(SubSeq(s, k + 1, Len(s))) = Len(s) - k
           /\ \A i \in 1 .. Len(s) - k : SubSeq(s, k + 1, Len(s))[i] = s[k + i]
<1>1. Len(s) \in Nat /\ k \in Nat /\ \A i \in k + 1 .. Len(s) : s[i] \in Piece
  OBVIOUS
<1>2. /\ SubSeq(s, k + 1, Len(s)) \in Seq(Piece)
      /\ Len(SubSeq(s, k + 1, Len(s))) = IF k + 1 <= Len(s) THEN Len(s) - (k + 1) + 1 ELSE 0
      /\ \A i \in 1 .. Len(s) - (k + 1) + 1 :
            SubSeq(s, k + 1, Len(s))[i] = s[k + 1 + i - 1]
  BY <1>1, SubSeqProperties
<1>3. \A i \in 1 .. Len(s) - k : i \in 1 .. Len(s) - (k + 1) + 1 /\ k + 1 + i - 1 = k + i
  BY <1>1
<1> QED
  BY <1>1, <1>2, <1>3

\* Its beginning.
LEMMA Prefix ==
    ASSUME NEW s \in Seq(Piece), NEW k \in 0 .. Len(s)
    PROVE  /\ SubSeq(s, 1, k) \in Seq(Piece)
           /\ Len(SubSeq(s, 1, k)) = k
           /\ \A i \in 1 .. k : SubSeq(s, 1, k)[i] = s[i]
<1>1. Len(s) \in Nat /\ k \in Nat /\ \A i \in 1 .. k : s[i] \in Piece
  OBVIOUS
<1>2. /\ SubSeq(s, 1, k) \in Seq(Piece)
      /\ Len(SubSeq(s, 1, k)) = IF 1 <= k THEN k - 1 + 1 ELSE 0
      /\ \A i \in 1 .. k - 1 + 1 : SubSeq(s, 1, k)[i] = s[1 + i - 1]
  BY <1>1, SubSeqProperties
<1>3. \A i \in 1 .. k : i \in 1 .. k - 1 + 1 /\ 1 + i - 1 = i
  BY <1>1
<1> QED
  BY <1>1, <1>2, <1>3

\* The fields of a piece.
LEMMA PieceFields ==
    ASSUME NEW s \in Seq(Piece), NEW i \in 1 .. Len(s)
    PROVE  /\ s[i] \in Piece /\ s[i].msg \in Message /\ s[i].msg.n \in Nat
           /\ s[i].part \in 1 .. MsgLen /\ s[i].part \in Nat
<1>1. s[i] \in Piece
  OBVIOUS
<1> QED
  BY <1>1, LengthsAssumption DEF Piece, Message

\* Arithmetic of positions: piece q of the message whose piece p stands at h.
LEMMA Shift ==
    ASSUME NEW len \in Nat, NEW h \in 1 .. len, NEW p \in 1 .. MsgLen,
           NEW q \in 1 .. MsgLen, p <= h, h - p + MsgLen <= len, NEW k \in Nat
    PROVE  h - p + q \in 1 .. len /\ k + (h - p + q) = (k + h) - p + q
<1>1. MsgLen \in Nat
  BY LengthsAssumption
<1>2. h \in Int /\ p \in Int /\ q \in Int /\ 1 <= q /\ q <= MsgLen
  BY <1>1
<1> QED
  BY <1>1, <1>2

\* A sequence of whole messages that is cut behind the last piece of one falls
\* into two sequences of whole messages.
LEMMA AlignedSplit ==
    ASSUME NEW s \in Seq(Piece), Aligned(s), NEW k \in 0 .. Len(s),
           k > 0 => s[k].part = MsgLen
    PROVE  Aligned(SubSeq(s, 1, k)) /\ Aligned(SubSeq(s, k + 1, Len(s)))
<1> DEFINE a == SubSeq(s, 1, k)
           b == SubSeq(s, k + 1, Len(s))
<1>1. Len(a) = k /\ \A i \in 1 .. k : a[i] = s[i]
  BY Prefix
<1>2. Len(b) = Len(s) - k /\ \A i \in 1 .. Len(s) - k : b[i] = s[k + i]
  BY Suffix
<1>3. Len(s) \in Nat /\ k \in Nat /\ MsgLen \in Nat \ {0}
  BY LengthsAssumption
<1>4. \A i \in 1 .. Len(s) : s[i].part \in 1 .. MsgLen
  BY PieceFields
<1>5. \A i \in 1 .. Len(s) : \A q \in 1 .. MsgLen :
          s[i - s[i].part + q].part = q
  <2> TAKE i \in 1 .. Len(s)
  <2> TAKE q \in 1 .. MsgLen
  <2>1. s[i - s[i].part + q] = [msg |-> s[i].msg, part |-> q]
    BY DEF Aligned
  <2> QED
    BY <2>1
<1> HIDE DEF a, b
<1>6. ASSUME NEW i \in 1 .. k
      PROVE  i - s[i].part + MsgLen <= k
  <2>1. i \in 1 .. Len(s) /\ s[i].part \in 1 .. MsgLen /\ s[i].part <= i
    BY <1>3, <1>4 DEF Aligned
  <2> PICK p : p = s[i].part
    OBVIOUS
  <2>2. SUFFICES ASSUME i - p + MsgLen > k PROVE FALSE
    BY <2>1, <1>3
  <2>3. k - (i - p) \in 1 .. MsgLen - 1 /\ i - p + (k - (i - p)) = k
    BY <2>1, <2>2, <1>3
  <2>4. s[k].part = k - (i - p)
    <3>1. PICK q \in 1 .. MsgLen : q = k - (i - p) /\ i - p + q = k
      BY <2>1, <2>3, <1>3
    <3>2. s[i - p + q].part = q
      BY <2>1, <1>5
    <3> QED
      BY <3>1, <3>2
  <2> QED
    BY <2>3, <2>4, <1>3
<1>7. ASSUME NEW i \in 1 .. Len(s), i > k
      PROVE  s[i].part <= i - k
  <2>1. s[i].part \in 1 .. MsgLen /\ s[i].part <= i
    BY <1>3, <1>4 DEF Aligned
  <2> PICK p : p = s[i].part
    OBVIOUS
  <2>2. SUFFICES ASSUME p > i - k PROVE FALSE
    BY <2>1, <1>3
  <2>3. k - (i - p) \in 1 .. MsgLen - 1 /\ i - p + (k - (i - p)) = k /\ k > 0
    BY <2>1, <2>2, <1>3, <1>7
  <2>4. s[k].part = k - (i - p)
    <3>1. PICK q \in 1 .. MsgLen : q = k - (i - p) /\ i - p + q = k
      BY <2>1, <2>3, <1>3
    <3>2. s[i - p + q].part = q
      BY <2>1, <1>5
    <3> QED
      BY <3>1, <3>2
  <2> QED
    BY <2>3, <2>4, <1>3
<1>8. Aligned(a)
  <2> SUFFICES ASSUME NEW i \in 1 .. Len(a)
      PROVE  /\ a[i].msg.kind # "malformed"
             /\ a[i].part <= i /\ i - a[i].part + MsgLen <= Len(a)
             /\ \A q \in 1 .. MsgLen : a[i - a[i].part + q] = [msg |-> a[i].msg, part |-> q]
    BY DEF Aligned
  <2>1. i \in 1 .. k /\ i \in 1 .. Len(s) /\ a[i] = s[i]
    BY <1>1, <1>3
  <2>2. /\ s[i].msg.kind # "malformed" /\ s[i].part <= i
        /\ \A q \in 1 .. MsgLen : s[i - s[i].part + q] = [msg |-> s[i].msg, part |-> q]
    BY <2>1 DEF Aligned
  <2>3. i - s[i].part + MsgLen <= k
    BY <2>1, <1>6
  <2>4. ASSUME NEW q \in 1 .. MsgLen
        PROVE  i - s[i].part + q \in 1 .. k
    <3>1. PICK p \in 1 .. MsgLen : p = s[i].part
      BY <2>1, <1>4
    <3>2. i \in Nat /\ p <= i /\ i - p + MsgLen <= k
      BY <2>1, <2>2, <2>3, <3>1
    <3>3. i - p + q \in 1 .. k
      BY <3>2, <1>3, LengthsAssumption
    <3> QED
      BY <3>1, <3>3
  <2>5. \A q \in 1 .. MsgLen : a[i - s[i].part + q] = s[i - s[i].part + q]
    BY <2>4, <1>1
  <2> QED
    BY <1>1, <2>1, <2>2, <2>3, <2>5
<1>9. Aligned(b)
  <2> SUFFICES ASSUME NEW i \in 1 .. Len(b)
      PROVE  /\ b[i].msg.kind # "malformed"
             /\ b[i].part <= i /\ i - b[i].part + MsgLen <= Len(b)
             /\ \A q \in 1 .. MsgLen : b[i - b[i].part + q] = [msg |-> b[i].msg, part |-> q]
    BY DEF Aligned
  <2> PICK h : h = k + i
    OBVIOUS
  <2>1. h \in 1 .. Len(s) /\ h > k /\ b[i] = s[h] /\ i = h - k /\ i \in Nat
    BY <1>2, <1>3
  <2>2. /\ s[h].msg.kind # "malformed" /\ s[h].part <= h
        /\ h - s[h].part + MsgLen <= Len(s)
        /\ \A q \in 1 .. MsgLen : s[h - s[h].part + q] = [msg |-> s[h].msg, part |-> q]
    BY <2>1 DEF Aligned
  <2>3. s[h].part <= i /\ s[h].part \in 1 .. MsgLen
    BY <2>1, <1>4, <1>7
  <2>4. i - s[h].part + MsgLen <= Len(b)
    BY <2>1, <2>2, <2>3, <1>2, <1>3
  <2>5. ASSUME NEW q \in 1 .. MsgLen
        PROVE  b[i - s[h].part + q] = s[h - s[h].part + q]
    <3>0. PICK p \in 1 .. MsgLen : p = s[h].part /\ p <= i /\ i - p + MsgLen <= Len(s) - k
      BY <2>3, <2>4, <1>2
    <3>1. i - p + q \in 1 .. Len(s) - k /\ k + (i - p + q) = h - p + q
      <4>1. /\ Len(s) - k \in Nat /\ i \in 1 .. Len(s) - k /\ p \in 1 .. MsgLen
            /\ p <= i /\ i - p + MsgLen <= Len(s) - k
        BY <2>1, <3>0, <1>2, <1>3
      <4>2. i - p + q \in 1 .. Len(s) - k /\ k + (i - p + q) = (k + i) - p + q
        BY <4>1, <1>3, Shift
      <4> QED
        BY <4>2
    <3>2. b[i - p + q] = s[k + (i - p + q)]
      BY <3>1, <1>2
    <3> QED
      BY <3>0, <3>1, <3>2
  <2>6. b[i] = s[h]
    BY <2>1
  <2>7. ASSUME NEW q \in 1 .. MsgLen
        PROVE  b[i - b[i].part + q] = [msg |-> b[i].msg, part |-> q]
    <3>1. s[h - s[h].part + q] = [msg |-> s[h].msg, part |-> q]
      BY <2>2
    <3> QED
      BY <2>5, <2>6, <3>1, Zenon
  <2>8. /\ b[i].msg.kind # "malformed" /\ b[i].part <= i
        /\ i - b[i].part + MsgLen <= Len(b)
    BY <2>2, <2>3, <2>4, <2>6, Zenon
  <2> QED
    BY <2>7, <2>8
<1> QED
  BY <1>8, <1>9 DEF a, b

\* What stands where when pieces are added.
LEMMA ConcatPieces ==
    ASSUME NEW s \in Seq(Piece), NEW t \in Seq(Piece)
    PROVE  /\ s \o t \in Seq(Piece) /\ Len(s \o t) = Len(s) + Len(t)
           /\ \A i \in 1 .. Len(s) : (s \o t)[i] = s[i]
           /\ \A i \in 1 .. Len(t) : (s \o t)[Len(s) + i] = t[i]
<1> DEFINE u == s \o t
<1>1. /\ u \in Seq(Piece) /\ Len(u) = Len(s) + Len(t)
      /\ \A i \in 1 .. Len(s) + Len(t) : u[i] = IF i <= Len(s) THEN s[i] ELSE t[i - Len(s)]
  BY ConcatProperties
<1>2. Len(s) \in Nat /\ Len(t) \in Nat
  OBVIOUS
<1> HIDE DEF u
<1>3. \A i \in 1 .. Len(s) : u[i] = s[i]
  BY <1>1, <1>2
<1>4. \A i \in 1 .. Len(t) : u[Len(s) + i] = t[i]
  <2> TAKE i \in 1 .. Len(t)
  <2>1. Len(s) + i \in 1 .. Len(s) + Len(t) /\ ~(Len(s) + i <= Len(s)) /\ Len(s) + i - Len(s) = i
    BY <1>2
  <2> QED
    BY <2>1, <1>1
<1> QED
  BY <1>1, <1>3, <1>4 DEF u

\* Two sequences of whole messages make one.
LEMMA AlignedConcat ==
    ASSUME NEW s \in Seq(Piece), NEW t \in Seq(Piece), Aligned(s), Aligned(t)
    PROVE  Aligned(s \o t)
<1> DEFINE u == s \o t
<1>1. /\ Len(u) = Len(s) + Len(t)
      /\ \A i \in 1 .. Len(s) : u[i] = s[i]
      /\ \A i \in 1 .. Len(t) : u[Len(s) + i] = t[i]
  BY ConcatPieces
<1>2. Len(s) \in Nat /\ Len(t) \in Nat /\ MsgLen \in Nat \ {0}
  BY LengthsAssumption
<1> HIDE DEF u
<1>5. SUFFICES ASSUME NEW i \in 1 .. Len(u)
      PROVE  /\ u[i].msg.kind # "malformed"
             /\ u[i].part <= i /\ i - u[i].part + MsgLen <= Len(u)
             /\ \A q \in 1 .. MsgLen : u[i - u[i].part + q] = [msg |-> u[i].msg, part |-> q]
  BY DEF Aligned, u
<1>6. CASE i <= Len(s)
  <2>1. i \in 1 .. Len(s) /\ u[i] = s[i] /\ s[i].part \in 1 .. MsgLen
    BY <1>6, <1>1, <1>2, PieceFields
  <2>2. /\ s[i].msg.kind # "malformed" /\ s[i].part <= i
        /\ i - s[i].part + MsgLen <= Len(s)
        /\ \A q \in 1 .. MsgLen : s[i - s[i].part + q] = [msg |-> s[i].msg, part |-> q]
    BY <2>1 DEF Aligned
  <2>3. /\ \A q \in 1 .. MsgLen : i - s[i].part + q \in 1 .. Len(s)
        /\ i - s[i].part + MsgLen <= Len(u)
    BY <2>1, <2>2, <1>1, <1>2
  <2>4. \A q \in 1 .. MsgLen : u[i - s[i].part + q] = s[i - s[i].part + q]
    BY <2>3, <1>1
  <2> QED
    BY <2>1, <2>2, <2>3, <2>4
<1>7. CASE ~(i <= Len(s))
  <2> PICK h : h = i - Len(s)
    OBVIOUS
  <2>1. h \in 1 .. Len(t) /\ i = Len(s) + h
    BY <1>7, <1>1, <1>2
  <2>2. u[i] = t[h] /\ t[h].part \in 1 .. MsgLen
    BY <2>1, <1>1, PieceFields
  <2>3. /\ t[h].msg.kind # "malformed" /\ t[h].part <= h
        /\ h - t[h].part + MsgLen <= Len(t)
        /\ \A q \in 1 .. MsgLen : t[h - t[h].part + q] = [msg |-> t[h].msg, part |-> q]
    BY <2>1 DEF Aligned
  <2>4. t[h].part <= i /\ i - t[h].part + MsgLen <= Len(u)
    <3> DEFINE p == t[h].part
    <3>1. p \in 1 .. MsgLen /\ p <= h /\ h - p + MsgLen <= Len(t)
      BY <2>2, <2>3
    <3>2. i = Len(s) + h /\ h \in 1 .. Len(t) /\ Len(u) = Len(s) + Len(t)
      BY <2>1, <1>1
    <3> HIDE DEF p
    <3>3. p <= i /\ i - p + MsgLen <= Len(u)
      BY <3>1, <3>2, <1>2, LengthsAssumption
    <3> QED
      BY <3>3 DEF p
  <2>5. ASSUME NEW q \in 1 .. MsgLen
        PROVE  u[i - t[h].part + q] = t[h - t[h].part + q]
    <3>0. PICK p \in 1 .. MsgLen : p = t[h].part /\ p <= h /\ h - p + MsgLen <= Len(t)
      BY <2>2, <2>3
    <3>1. h - p + q \in 1 .. Len(t) /\ i - p + q = Len(s) + (h - p + q)
      <4>1. /\ Len(t) \in Nat /\ h \in 1 .. Len(t) /\ p \in 1 .. MsgLen
            /\ p <= h /\ h - p + MsgLen <= Len(t)
        BY <2>1, <3>0, <1>2
      <4>2. h - p + q \in 1 .. Len(t) /\ Len(s) + (h - p + q) = (Len(s) + h) - p + q
        BY <4>1, <1>2, Shift
      <4> QED
        BY <4>2, <2>1
    <3>2. u[Len(s) + (h - p + q)] = t[h - p + q]
      BY <3>1, <1>1
    <3> QED
      BY <3>0, <3>1, <3>2
  <2>6. \A q \in 1 .. MsgLen : u[i - t[h].part + q] = [msg |-> t[h].msg, part |-> q]
    BY <2>3, <2>5
  <2> QED
    BY <2>2, <2>3, <2>4, <2>6
<1> QED
  BY <1>6, <1>7

\* One message is whole.
LEMMA AlignedPieces ==
    ASSUME NEW m \in Message, m.kind # "malformed"
    PROVE  Aligned(Pieces(m))
<1>1. /\ Len(Pieces(m)) = MsgLen /\ MsgLen \in Nat \ {0}
      /\ \A i \in 1 .. MsgLen : Pieces(m)[i] = [msg |-> m, part |-> i]
  BY PiecesType, LengthsAssumption
<1>2. \A i \in 1 .. MsgLen : Pieces(m)[i].msg = m /\ Pieces(m)[i].part = i
  BY <1>1
<1>3. \A i, q \in 1 .. MsgLen : i - i + q = q /\ i - i + MsgLen = MsgLen
  BY <1>1
<1> QED
  BY <1>1, <1>2, <1>3 DEF Aligned

\* The first message of a sequence of whole messages is found there.
LEMMA AlignedFirst ==
    ASSUME NEW s \in Seq(Piece), Aligned(s), s # <<>>
    PROVE  /\ Len(s) >= MsgLen /\ s[1].msg.kind # "malformed"
           /\ \A i \in 1 .. MsgLen : s[i] = [msg |-> s[1].msg, part |-> i]
<1>1. 1 \in 1 .. Len(s) /\ Len(s) \in Nat /\ MsgLen \in Nat \ {0}
  BY LengthsAssumption
<1>2. s[1].part = 1
  BY <1>1, PieceFields DEF Aligned
<1>3. \A q \in 1 .. MsgLen : 1 - 1 + q = q /\ 1 - 1 + MsgLen = MsgLen
  BY <1>1
<1> QED
  BY <1>1, <1>2, <1>3 DEF Aligned

\* Steps that do not touch the stream; the connection may close.
LEMMA SameStream ==
    ASSUME StreamInv, UNCHANGED <<buffer, wire, dealt, msgs, spoilt>>,
           open' \in {open, NoFd}, BufferDone'
    PROVE  StreamInv'
<1>1. InOrder'
  BY DEF StreamInv, InOrder, Rising
<1>2. Numbered'
  BY DEF StreamInv, Numbered
<1>3. Unspoilt'
  BY DEF StreamInv, Unspoilt, NoneLost, Coming, Aligned
<1> QED
  BY <1>1, <1>2, <1>3 DEF StreamInv

\* What is cut off the front of a rising sequence leaves a rising sequence.
LEMMA RisingSuffix ==
    ASSUME NEW s \in Seq(Piece), Rising(s), NEW k \in 0 .. Len(s)
    PROVE  Rising(SubSeq(s, k + 1, Len(s)))
<1> PICK t : t = SubSeq(s, k + 1, Len(s))
  OBVIOUS
<1>1. Len(t) = Len(s) - k /\ \A i \in 1 .. Len(s) - k : t[i] = s[k + i]
  BY Suffix
<1>2. \A i, j \in 1 .. Len(s) - k : /\ k + i \in 1 .. Len(s)
                                    /\ i < j => k + i < k + j
  OBVIOUS
<1>3. ASSUME NEW i \in 1 .. Len(t), NEW j \in 1 .. Len(t), i < j
      PROVE  Before(t[i], t[j])
  <2>1. i \in 1 .. Len(s) - k /\ j \in 1 .. Len(s) - k
    BY <1>1
  <2>2. Before(s[k + i], s[k + j])
    BY <2>1, <1>2, <1>3 DEF Rising
  <2> QED
    BY <2>1, <2>2, <1>1
<1>4. Rising(t)
  BY <1>3 DEF Rising
<1> QED
  BY <1>4

\* The server sends one message more, with the next number.
LEMMA EmitStream ==
    ASSUME TypeOK, StreamInv, NEW kind \in {"reply", "update", "malformed"}, NEW r \in Nat,
           Emit(kind, r), UNCHANGED <<buffer, dealt, lpc, open>>,
           ~spoilt' => ~spoilt /\ kind # "malformed"
    PROVE  StreamInv'
<1> PICK m : m = [n |-> msgs + 1, kind |-> kind, rid |-> r]
  OBVIOUS
<1> PICK t : t = Pieces(m)
  OBVIOUS
<1> PICK w : w = wire \o t
  OBVIOUS
<1>1. msgs' = msgs + 1 /\ wire' = w /\ msgs \in Nat
  BY DEF Emit, TypeOK
<1>2. /\ m \in Message /\ m.n = msgs + 1 /\ m.kind = kind
      /\ wire \in Seq(Piece) /\ buffer \in Seq(Piece) /\ dealt \in Seq(Nat)
  BY <1>1 DEF Message, TypeOK
<1>3. /\ t \in Seq(Piece) /\ Len(t) = MsgLen /\ MsgLen \in Nat \ {0}
      /\ \A i \in 1 .. MsgLen : t[i] = [msg |-> m, part |-> i]
  BY <1>2, PiecesType, LengthsAssumption
<1>4. /\ w \in Seq(Piece) /\ Len(w) = Len(wire) + MsgLen /\ Len(wire) \in Nat
      /\ \A i \in 1 .. Len(wire) : w[i] = wire[i]
      /\ \A i \in 1 .. MsgLen : w[Len(wire) + i] = t[i]
  <2>1. /\ wire \o t \in Seq(Piece) /\ Len(wire \o t) = Len(wire) + Len(t)
        /\ \A i \in 1 .. Len(wire) : (wire \o t)[i] = wire[i]
        /\ \A i \in 1 .. Len(t) : (wire \o t)[Len(wire) + i] = t[i]
    BY <1>2, <1>3, ConcatPieces
  <2>2. Len(wire) \in Nat
    BY <1>2
  <2> QED
    BY <2>1, <2>2, <1>3
<1>5. \A i \in 1 .. MsgLen : t[i].msg.n = msgs + 1 /\ t[i].part = i
  <2> TAKE i \in 1 .. MsgLen
  <2>1. t[i] = [msg |-> m, part |-> i]
    BY <1>3
  <2>2. t[i].msg = m /\ t[i].part = i
    BY <2>1
  <2> QED
    BY <2>2, <1>2
<1>6. \A i \in 1 .. Len(w) : \/ i \in 1 .. Len(wire) /\ w[i] = wire[i]
                             \/ \E j \in 1 .. MsgLen : i = Len(wire) + j /\ w[i] = t[j]
  <2> TAKE i \in 1 .. Len(w)
  <2>1. CASE i <= Len(wire)
    BY <2>1, <1>4
  <2>2. CASE ~(i <= Len(wire))
    <3>1. i - Len(wire) \in 1 .. MsgLen /\ i = Len(wire) + (i - Len(wire))
      BY <2>2, <1>3, <1>4
    <3> QED
      BY <3>1, <1>4
  <2> QED
    BY <2>1, <2>2
<1>7. /\ \A i \in 1 .. Len(wire) : wire[i].msg.n \in Nat /\ wire[i].msg.n <= msgs
      /\ \A i \in 1 .. Len(buffer) : buffer[i].msg.n \in Nat /\ buffer[i].msg.n <= msgs
      /\ \A i \in 1 .. Len(dealt) : dealt[i] \in Nat /\ dealt[i] <= msgs
  <2>1. /\ \A i \in 1 .. Len(wire) : wire[i].msg.n <= msgs
        /\ \A i \in 1 .. Len(buffer) : buffer[i].msg.n <= msgs
        /\ \A i \in 1 .. Len(dealt) : dealt[i] <= msgs
    BY DEF StreamInv, Numbered
  <2>2. \A i \in 1 .. Len(wire) : wire[i].msg.n \in Nat
    BY <1>2, PieceFields
  <2>3. \A i \in 1 .. Len(buffer) : buffer[i].msg.n \in Nat
    BY <1>2, PieceFields
  <2>4. \A i \in 1 .. Len(dealt) : dealt[i] \in Nat
    BY <1>2
  <2> QED
    BY <2>1, <2>2, <2>3, <2>4
<1>8. BufferDone'
  BY DEF StreamInv, BufferDone
<1>9. InOrder'
  <2>1. Rising(w)
    <3> SUFFICES ASSUME NEW i \in 1 .. Len(w), NEW j \in 1 .. Len(w), i < j
                 PROVE  Before(w[i], w[j])
      BY DEF Rising
    <3>1. CASE j \in 1 .. Len(wire) /\ w[j] = wire[j]
      <4>1. i \in 1 .. Len(wire) /\ w[i] = wire[i]
        BY <3>1, <1>4
      <4> QED
        BY <3>1, <4>1 DEF StreamInv, InOrder, Rising
    <3>2. CASE \E b \in 1 .. MsgLen : j = Len(wire) + b /\ w[j] = t[b]
      <4>1. PICK b \in 1 .. MsgLen : j = Len(wire) + b /\ w[j] = t[b]
        BY <3>2
      <4>2. CASE i \in 1 .. Len(wire) /\ w[i] = wire[i]
        <5>1. w[i].msg.n <= msgs /\ w[i].msg.n \in Nat /\ w[j].msg.n = msgs + 1
          BY <4>1, <4>2, <1>5, <1>7
        <5> DEFINE x == w[i].msg.n
                   y == w[j].msg.n
        <5>2. x < y
          <6> HIDE DEF x, y
          <6>1. x <= msgs /\ x \in Nat /\ y = msgs + 1
            BY <5>1 DEF x, y
          <6> QED
            BY <6>1, <1>1
        <5> QED
          BY <5>2 DEF Before
      <4>3. CASE \E a \in 1 .. MsgLen : i = Len(wire) + a /\ w[i] = t[a]
        <5>1. PICK a \in 1 .. MsgLen : i = Len(wire) + a /\ w[i] = t[a]
          BY <4>3
        <5>2. a < b
          BY <4>1, <5>1, <1>3, <1>4
        <5>3. t[a].msg.n = t[b].msg.n /\ t[a].part = a /\ t[b].part = b
          BY <1>5
        <5> QED
          BY <4>1, <5>1, <5>2, <5>3 DEF Before
      <4> QED
        BY <4>2, <4>3, <1>6
    <3> QED
      BY <3>1, <3>2, <1>6
  <2>2. \A i \in 1 .. Len(buffer), j \in 1 .. Len(w) : Before(buffer[i], w[j])
    <3> TAKE i \in 1 .. Len(buffer), j \in 1 .. Len(w)
    <3>1. CASE j \in 1 .. Len(wire) /\ w[j] = wire[j]
      BY <3>1 DEF StreamInv, InOrder
    <3>2. CASE \E b \in 1 .. MsgLen : j = Len(wire) + b /\ w[j] = t[b]
      <4>1. w[j].msg.n = msgs + 1 /\ buffer[i].msg.n <= msgs /\ buffer[i].msg.n \in Nat
        BY <3>2, <1>5, <1>7
      <4> DEFINE x == buffer[i].msg.n
                 y == w[j].msg.n
      <4>2. x < y
        <5> HIDE DEF x, y
        <5>1. x <= msgs /\ x \in Nat /\ y = msgs + 1
          BY <4>1 DEF x, y
        <5> QED
          BY <5>1, <1>1
      <4> QED
        BY <4>2 DEF Before
    <3> QED
      BY <3>1, <3>2, <1>6
  <2>3. Rising(wire)'
    BY <1>1, <2>1 DEF Rising
  <2>4. Rising(buffer)' /\ (\A i, j \in 1 .. Len(dealt) : i < j => dealt[i] < dealt[j])'
    BY DEF StreamInv, InOrder, Rising
  <2>5. \A i \in 1 .. Len(buffer'), j \in 1 .. Len(wire') : Before(buffer'[i], wire'[j])
    BY <1>1, <2>2
  <2> QED
    BY <2>3, <2>4, <2>5 DEF InOrder
<1>10. Numbered'
  <2>1. \A i \in 1 .. Len(w) : /\ w[i].msg.n <= msgs + 1
                               /\ \A d \in 1 .. Len(dealt) : dealt[d] < w[i].msg.n
    <3> TAKE i \in 1 .. Len(w)
    <3>1. CASE i \in 1 .. Len(wire) /\ w[i] = wire[i]
      <4>1. w[i].msg.n \in Nat /\ w[i].msg.n <= msgs
        BY <3>1, <1>7
      <4>2. \A d \in 1 .. Len(dealt) : dealt[d] < w[i].msg.n
        BY <3>1 DEF StreamInv, Numbered
      <4>3. w[i].msg.n <= msgs + 1
        BY <4>1, <1>1
      <4> QED
        BY <4>2, <4>3
    <3>2. CASE \E b \in 1 .. MsgLen : i = Len(wire) + b /\ w[i] = t[b]
      <4>1. w[i].msg.n = msgs + 1
        BY <3>2, <1>5
      <4> QED
        BY <4>1, <1>1, <1>7
    <3> QED
      BY <3>1, <3>2, <1>6
  <2>2. /\ \A i \in 1 .. Len(buffer) : buffer[i].msg.n <= msgs + 1
        /\ \A i \in 1 .. Len(dealt) : dealt[i] <= msgs + 1
    BY <1>1, <1>7
  <2> QED
    BY <1>1, <2>1, <2>2 DEF StreamInv, Numbered
<1>11. Unspoilt'
  <2> SUFFICES ASSUME ~spoilt', open' # NoFd
               PROVE  Aligned(buffer)' /\ Aligned(wire)' /\ NoneLost'
    BY DEF Unspoilt
  <2>1. Aligned(buffer) /\ Aligned(wire) /\ NoneLost /\ kind # "malformed"
    BY DEF StreamInv, Unspoilt
  <2>2. Aligned(w)
    BY <2>1, <1>2, <1>3, AlignedPieces, AlignedConcat
  <2>3. NoneLost'
    <3> SUFFICES ASSUME NEW n \in 1 .. msgs + 1
                 PROVE  \/ \E i \in 1 .. Len(dealt) : dealt[i] = n
                        \/ \A p \in 1 .. MsgLen :
                             \/ \E i \in 1 .. Len(buffer) : buffer[i].msg.n = n /\ buffer[i].part = p
                             \/ \E i \in 1 .. Len(w) : w[i].msg.n = n /\ w[i].part = p
      BY <1>1 DEF NoneLost, Coming
    <3>1. CASE n = msgs + 1
      <4> SUFFICES ASSUME NEW p \in 1 .. MsgLen
                   PROVE  \E i \in 1 .. Len(w) : w[i].msg.n = n /\ w[i].part = p
        OBVIOUS
      <4>1. Len(wire) + p \in 1 .. Len(w)
        BY <1>3, <1>4
      <4>2. w[Len(wire) + p].msg.n = n /\ w[Len(wire) + p].part = p
        BY <3>1, <1>4, <1>5
      <4> QED
        BY <4>1, <4>2
    <3>2. CASE n # msgs + 1
      <4>1. n \in 1 .. msgs
        BY <3>2, <1>1
      <4>2. \A i \in 1 .. Len(wire) : i \in 1 .. Len(w) /\ w[i] = wire[i]
        BY <1>3, <1>4
      <4>3. \/ \E i \in 1 .. Len(dealt) : dealt[i] = n
            \/ \A p \in 1 .. MsgLen : Coming(n, p)
        BY <2>1, <4>1 DEF NoneLost
      <4>4. ASSUME NEW p \in 1 .. MsgLen, Coming(n, p)
            PROVE  \/ \E i \in 1 .. Len(buffer) : buffer[i].msg.n = n /\ buffer[i].part = p
                   \/ \E i \in 1 .. Len(w) : w[i].msg.n = n /\ w[i].part = p
        BY <4>2, <4>4, Zenon DEF Coming
      <4> QED
        BY <4>3, <4>4, Zenon
    <3> QED
      BY <3>1, <3>2
  <2>4. Aligned(wire)'
    BY <1>1, <2>2 DEF Aligned
  <2>5. Aligned(buffer)'
    BY <2>1 DEF Aligned
  <2> QED
    BY <2>3, <2>4, <2>5
<1> QED
  BY <1>8, <1>9, <1>10, <1>11 DEF StreamInv

\* The listen thread takes what has arrived.
LEMMA RecvStream == ASSUME TypeOK, StreamInv, listen_recv PROVE StreamInv'
<1> USE DEF parseVars, serverVars
<1>1. PICK n \in 1 .. BufLen :
        /\ n <= Len(wire)
        /\ buffer' = SubSeq(wire, 1, n)
        /\ wire' = SubSeq(wire, n + 1, Len(wire))
        /\ spoilt' = (spoilt \/ wire[1].part # 1 \/ wire[n].part # MsgLen)
  BY DEF listen_recv
<1> PICK b : b = SubSeq(wire, 1, n)
  OBVIOUS
<1> PICK w : w = SubSeq(wire, n + 1, Len(wire))
  OBVIOUS
<1>2. /\ buffer = <<>> /\ lpc' = "parse"
      /\ UNCHANGED <<dealt, msgs, open>>
  BY DEF listen_recv, Goto, StreamInv, BufferDone
<1>3. /\ wire \in Seq(Piece) /\ Len(wire) \in Nat /\ n \in Nat /\ n \in 0 .. Len(wire) /\ n > 0
      /\ n \in 1 .. Len(wire)
  BY <1>1, LengthsAssumption DEF TypeOK
<1>4. Len(b) = n /\ \A i \in 1 .. n : b[i] = wire[i]
  BY <1>3, Prefix
<1>5. Len(w) = Len(wire) - n /\ \A i \in 1 .. Len(wire) - n : w[i] = wire[n + i]
  BY <1>3, Suffix
<1>6. /\ \A i \in 1 .. n : i \in 1 .. Len(wire)
      /\ \A i \in 1 .. Len(wire) - n : n + i \in 1 .. Len(wire)
      /\ \A i \in 1 .. n, j \in 1 .. Len(wire) - n : i < n + j
  BY <1>3
<1>7. BufferDone'
  BY <1>2 DEF BufferDone
<1>8. InOrder'
  <2>1. \A i, j \in 1 .. Len(wire) : i < j => Before(wire[i], wire[j])
    BY DEF StreamInv, InOrder, Rising
  <2>2. Rising(b)
    BY <2>1, <1>4, <1>6 DEF Rising
  <2>3. Rising(w)
    BY <1>3, RisingSuffix DEF StreamInv, InOrder
  <2>4. \A i \in 1 .. n, j \in 1 .. Len(wire) - n : Before(wire[i], wire[n + j])
    BY <2>1, <1>6
  <2>5. \A i \in 1 .. Len(b), j \in 1 .. Len(w) : Before(b[i], w[j])
    <3> TAKE i \in 1 .. Len(b), j \in 1 .. Len(w)
    <3>1. i \in 1 .. n /\ j \in 1 .. Len(wire) - n
      BY <1>4, <1>5, Zenon
    <3>2. b[i] = wire[i] /\ w[j] = wire[n + j]
      BY <3>1, <1>4, <1>5, Zenon
    <3> QED
      BY <2>4, <3>1, <3>2, Zenon
  <2> QED
    BY <1>1, <1>2, <2>2, <2>3, <2>5 DEF StreamInv, InOrder, Rising
<1>9. Numbered'
  <2>1. \A i \in 1 .. Len(wire) :
          wire[i].msg.n <= msgs /\ \A d \in 1 .. Len(dealt) : dealt[d] < wire[i].msg.n
    BY DEF StreamInv, Numbered
  <2>2. \A i \in 1 .. Len(b) :
          b[i].msg.n <= msgs /\ \A d \in 1 .. Len(dealt) : dealt[d] < b[i].msg.n
    BY <2>1, <1>4, <1>6
  <2>3. \A i \in 1 .. Len(w) :
          w[i].msg.n <= msgs /\ \A d \in 1 .. Len(dealt) : dealt[d] < w[i].msg.n
    BY <2>1, <1>5, <1>6
  <2> QED
    BY <1>1, <1>2, <2>2, <2>3 DEF StreamInv, Numbered
<1>10. Unspoilt'
  <2> SUFFICES ASSUME ~spoilt', open' # NoFd
               PROVE  Aligned(b) /\ Aligned(w) /\ NoneLost'
    BY <1>1 DEF Unspoilt, Aligned
  <2>1. ~spoilt /\ wire[n].part = MsgLen /\ open # NoFd
    BY <1>1, <1>2
  <2>2. Aligned(wire) /\ NoneLost
    BY <2>1 DEF StreamInv, Unspoilt
  <2>3. Aligned(b) /\ Aligned(w)
    BY <2>1, <2>2, <1>3, AlignedSplit
  <2>4. NoneLost'
    <3> DEFINE There(m, p) == \/ \E i \in 1 .. Len(b) : b[i].msg.n = m /\ b[i].part = p
                              \/ \E i \in 1 .. Len(w) : w[i].msg.n = m /\ w[i].part = p
    <3>0. SUFFICES ASSUME NEW m \in 1 .. msgs, ~ \E i \in 1 .. Len(dealt) : dealt[i] = m,
                        NEW p \in 1 .. MsgLen
                 PROVE  There(m, p)
      <4>1. ASSUME NEW m \in 1 .. msgs
            PROVE  \/ \E i \in 1 .. Len(dealt) : dealt[i] = m
                   \/ \A p \in 1 .. MsgLen : There(m, p)
        BY <3>0
      <4>2. msgs' = msgs /\ dealt' = dealt /\ buffer' = b /\ wire' = w
        BY <1>1, <1>2
      <4>3. \A m, p : Coming(m, p)' <=> There(m, p)
        BY <4>2 DEF Coming
      <4> QED
        BY <4>1, <4>2, <4>3 DEF NoneLost
    <3>1. Len(buffer) = 0
      BY <1>2
    <3>2. PICK i \in 1 .. Len(wire) : wire[i].msg.n = m /\ wire[i].part = p
      BY <2>2, <3>0, <3>1 DEF NoneLost, Coming
    <3>3. CASE i <= n
      BY <3>2, <3>3, <1>3, <1>4
    <3>4. CASE ~(i <= n)
      <4>1. i - n \in 1 .. Len(wire) - n /\ n + (i - n) = i
        BY <3>4, <1>3
      <4> QED
        BY <3>2, <4>1, <1>5
    <3> QED
      BY <3>3, <3>4
  <2> QED
    BY <2>3, <2>4
<1> QED
  BY <1>7, <1>8, <1>9, <1>10 DEF StreamInv

\* A message at the front of the buffer is dealt with and skipped.
LEMMA DealtStream ==
    ASSUME TypeOK, StreamInv, Whole,
           dealt' = Append(dealt, buffer[1].msg.n),
           buffer' = SubSeq(buffer, MsgLen + 1, Len(buffer)),
           BufferDone', UNCHANGED <<wire, msgs, open, spoilt>>
    PROVE  StreamInv'
<1> PICK b : b = SubSeq(buffer, MsgLen + 1, Len(buffer))
  OBVIOUS
<1> PICK m : m = buffer[1].msg.n
  OBVIOUS
<1> PICK d : d = Append(dealt, m)
  OBVIOUS
<1>1. dealt' = d /\ buffer' = b
  OBVIOUS
<1>2. /\ buffer \in Seq(Piece) /\ Len(buffer) \in Nat /\ MsgLen \in Nat \ {0}
      /\ MsgLen \in 0 .. Len(buffer) /\ 1 \in 1 .. Len(buffer) /\ MsgLen \in 1 .. Len(buffer)
      /\ wire \in Seq(Piece) /\ dealt \in Seq(Nat) /\ Len(dealt) \in Nat /\ msgs \in Nat
  BY LengthsAssumption DEF TypeOK, Whole
<1>3. m \in Nat
  BY <1>2, PieceFields
<1>4. /\ Len(b) = Len(buffer) - MsgLen
      /\ \A i \in 1 .. Len(buffer) - MsgLen : b[i] = buffer[MsgLen + i]
  BY <1>2, Suffix
<1>5. /\ Len(d) = Len(dealt) + 1 /\ d[Len(dealt) + 1] = m
      /\ \A i \in 1 .. Len(dealt) : d[i] = dealt[i]
  BY <1>2, <1>3
<1>6. \A i \in 1 .. Len(buffer) - MsgLen : MsgLen + i \in 1 .. Len(buffer) /\ MsgLen < MsgLen + i
  BY <1>2
<1>7. /\ \A i \in 1 .. Len(dealt) : dealt[i] < m
      /\ m <= msgs
  BY <1>2 DEF StreamInv, Numbered
<1>8. buffer[MsgLen].msg.n = m /\ buffer[MsgLen].part = MsgLen
  <2>1. buffer[MsgLen] = [msg |-> buffer[1].msg, part |-> MsgLen]
    BY <1>2 DEF Whole
  <2> QED
    BY <2>1
<1>9. ASSUME NEW q \in Piece, Before(buffer[MsgLen], q)
      PROVE  m < q.msg.n
  <2>1. q.part \in 1 .. MsgLen /\ q.msg.n \in Nat
    BY DEF Piece, Message
  <2> QED
    BY <2>1, <1>2, <1>3, <1>8, <1>9 DEF Before
<1>10. \A i \in 1 .. Len(b) : m < b[i].msg.n
  <2> TAKE i \in 1 .. Len(b)
  <2>1. b[i] = buffer[MsgLen + i] /\ MsgLen + i \in 1 .. Len(buffer) /\ MsgLen < MsgLen + i
    BY <1>4, <1>6
  <2>2. Before(buffer[MsgLen], b[i])
    BY <2>1, <1>2 DEF StreamInv, InOrder, Rising
  <2>3. b[i] \in Piece
    BY <2>1, <1>2
  <2> QED
    BY <2>2, <2>3, <1>9
<1>11. \A i \in 1 .. Len(wire) : m < wire[i].msg.n
  <2> TAKE i \in 1 .. Len(wire)
  <2>1. Before(buffer[MsgLen], wire[i])
    BY <1>2 DEF StreamInv, InOrder
  <2>2. wire[i] \in Piece
    BY <1>2
  <2> QED
    BY <2>1, <2>2, <1>9
<1>12. \A i \in 1 .. Len(d) : \/ i \in 1 .. Len(dealt) /\ d[i] = dealt[i]
                              \/ i = Len(dealt) + 1 /\ d[i] = m
  BY <1>2, <1>5
<1>13. InOrder'
  <2>1. Rising(b)
    BY <1>2, RisingSuffix DEF StreamInv, InOrder
  <2>2. \A i \in 1 .. Len(b), j \in 1 .. Len(wire) : Before(b[i], wire[j])
    BY <1>4, <1>6 DEF StreamInv, InOrder
  <2>3. \A i, j \in 1 .. Len(d) : i < j => d[i] < d[j]
    <3> SUFFICES ASSUME NEW i \in 1 .. Len(d), NEW j \in 1 .. Len(d), i < j
                 PROVE  d[i] < d[j]
      OBVIOUS
    <3>1. i \in 1 .. Len(dealt) /\ d[i] = dealt[i]
      BY <1>2, <1>5, <1>12
    <3>2. CASE j \in 1 .. Len(dealt) /\ d[j] = dealt[j]
      BY <3>1, <3>2 DEF StreamInv, InOrder
    <3>3. CASE d[j] = m
      BY <3>1, <3>3, <1>7
    <3> QED
      BY <3>2, <3>3, <1>12
  <2> QED
    BY <1>1, <2>1, <2>2, <2>3 DEF StreamInv, InOrder, Rising
<1>14. Numbered'
  <2>1. ASSUME NEW i \in 1 .. Len(d)
        PROVE  /\ d[i] <= msgs
               /\ \A j \in 1 .. Len(b) : d[i] < b[j].msg.n
               /\ \A j \in 1 .. Len(wire) : d[i] < wire[j].msg.n
    <3>1. CASE i \in 1 .. Len(dealt) /\ d[i] = dealt[i]
      BY <3>1, <1>4, <1>6 DEF StreamInv, Numbered
    <3>2. CASE d[i] = m
      BY <3>2, <1>7, <1>10, <1>11
    <3> QED
      BY <3>1, <3>2, <1>12
  <2>2. \A i \in 1 .. Len(b) : b[i].msg.n <= msgs
    BY <1>4, <1>6 DEF StreamInv, Numbered
  <2> QED
    BY <1>1, <2>1, <2>2 DEF StreamInv, Numbered
<1>15. Unspoilt'
  <2>0. Aligned(buffer)' <=> Aligned(b)
    BY <1>1 DEF Aligned
  <2>00. Aligned(wire)' <=> Aligned(wire)
    BY DEF Aligned
  <2> SUFFICES ASSUME ~spoilt, open # NoFd
               PROVE  Aligned(b) /\ Aligned(wire) /\ NoneLost'
    BY <2>0, <2>00 DEF Unspoilt
  <2>1. Aligned(buffer) /\ Aligned(wire) /\ NoneLost
    BY DEF StreamInv, Unspoilt
  <2>2. Aligned(b)
    BY <2>1, <1>2, <1>8, AlignedSplit
  <2>3. NoneLost'
    <3> DEFINE There(n, p) == \/ \E i \in 1 .. Len(b) : b[i].msg.n = n /\ b[i].part = p
                              \/ \E i \in 1 .. Len(wire) : wire[i].msg.n = n /\ wire[i].part = p
    <3>0. SUFFICES ASSUME NEW n \in 1 .. msgs, ~ \E i \in 1 .. Len(d) : d[i] = n,
                        NEW p \in 1 .. MsgLen
                 PROVE  There(n, p)
      <4>1. ASSUME NEW n \in 1 .. msgs
            PROVE  \/ \E i \in 1 .. Len(d) : d[i] = n
                   \/ \A p \in 1 .. MsgLen : There(n, p)
        BY <3>0
      <4>2. msgs' = msgs /\ wire' = wire
        OBVIOUS
      <4>3. \A n, p : Coming(n, p)' <=> There(n, p)
        BY <4>2, <1>1 DEF Coming
      <4> QED
        BY <4>1, <4>2, <4>3, <1>1 DEF NoneLost
    <3>1. n # m
      <4>1. Len(dealt) + 1 \in 1 .. Len(d) /\ d[Len(dealt) + 1] = m
        BY <1>2, <1>5
      <4> QED
        BY <3>0, <4>1
    <3>2. ~ \E i \in 1 .. Len(dealt) : dealt[i] = n
      <4>1. \A i \in 1 .. Len(dealt) : i \in 1 .. Len(d) /\ d[i] = dealt[i]
        BY <1>2, <1>5
      <4> QED
        BY <3>0, <4>1
    <3>3. Coming(n, p)
      BY <2>1, <3>2 DEF NoneLost
    <3>4. CASE \E i \in 1 .. Len(buffer) : buffer[i].msg.n = n /\ buffer[i].part = p
      <4>1. PICK i \in 1 .. Len(buffer) : buffer[i].msg.n = n /\ buffer[i].part = p
        BY <3>4
      <4>2. ~(i <= MsgLen)
        <5> SUFFICES ASSUME i <= MsgLen PROVE FALSE
          OBVIOUS
        <5>1. i \in 1 .. MsgLen
          BY <1>2
        <5>2. buffer[i] = [msg |-> buffer[1].msg, part |-> i]
          BY <5>1 DEF Whole
        <5> QED
          BY <4>1, <5>2, <3>1
      <4>3. i - MsgLen \in 1 .. Len(buffer) - MsgLen /\ MsgLen + (i - MsgLen) = i
        BY <4>2, <1>2
      <4> QED
        BY <4>1, <4>3, <1>4
    <3> QED
      BY <3>3, <3>4 DEF Coming
  <2> QED
    BY <2>1, <2>2, <2>3
<1> QED
  BY <1>13, <1>14, <1>15 DEF StreamInv

\* Every action, in the groups of Next.
LEMMA NextStream == ASSUME TypeOK, SInv, StreamInv, [Next]_vars PROVE StreamInv'
<1> USE DEF agentVars, handleVars, listVars, parseVars, serverVars, boundVars
<1> DEFINE Same == UNCHANGED <<buffer, wire, dealt, msgs, spoilt, open, lpc>>
<1>0. ASSUME Same PROVE StreamInv'
  BY <1>0, SameStream DEF StreamInv, BufferDone
<1>1. CASE UNCHANGED vars \/ quiet
  <2>1. Same
    BY <1>1 DEF vars, quiet
  <2> QED
    BY <2>1, <1>0
<1>2. CASE component
  <2>1. Same
    BY <1>2 DEF component, component_init, component_deinit, component_interact,
                ovs_agent_api_init, ovs_agent_api_deinit
  <2> QED
    BY <2>1, <1>0
<1>3. CASE agent
  <2>1. CASE agent_api_init \/ agent_api_deinit
    <3>1. Same
      BY <2>1 DEF agent_api_init, agent_api_deinit, ovs_agent_api_init, ovs_agent_api_deinit
    <3> QED
      BY <3>1, <1>0
  <2>2. CASE \/ OvsAgentLogInit \/ Cosa_Init \/ api_returned \/ ovs_action_init
             \/ agent_interact \/ OvsAgentInit_fails
    <3>1. Same
      BY <2>2 DEF OvsAgentLogInit, Cosa_Init, api_returned, ovs_action_init,
                  agent_interact, OvsAgentInit_fails, libraryVars
    <3> QED
      BY <3>1, <1>0
  <2> QED
    BY <1>3, <2>1, <2>2 DEF agent
<1>4. CASE library
  <2>1. CASE ovsdb_init
    <3>1. CASE fd # NoFd
      <4>1. Same
        BY <2>1, <3>1 DEF ovsdb_init
      <4> QED
        BY <4>1, <1>0
    <3>2. CASE fd = NoFd
      <4>1. buffer = <<>> /\ buffer' = <<>>
        BY <2>1, <3>2 DEF ovsdb_init, SInv, Threads, Listening, StreamInv, BufferDone
      <4>2. wire' = <<>> /\ dealt' = <<>> /\ msgs' = 0
        BY <2>1, <3>2 DEF ovsdb_init
      <4>3. Len(<<>>) = 0 /\ 1 .. 0 = {}
        OBVIOUS
      <4>4. BufferDone' /\ InOrder'
        BY <4>1, <4>2, <4>3 DEF BufferDone, InOrder, Rising
      <4>5. Numbered'
        BY <4>1, <4>2, <4>3 DEF Numbered
      <4>6. Unspoilt'
        BY <4>1, <4>2, <4>3 DEF Unspoilt, Aligned, NoneLost
      <4> QED
        BY <4>4, <4>5, <4>6 DEF StreamInv
    <3> QED
      BY <3>1, <3>2
  <2>2. CASE init_mutex \/ init_transaction_manager
    <3>1. Same
      BY <2>2 DEF init_mutex, init_transaction_manager, lateVars
    <3> QED
      BY <3>1, <1>0
  <2>3. CASE ovsdb_deinit
    <3>1. UNCHANGED <<buffer, wire, dealt, msgs, spoilt, open>>
      BY <2>3 DEF ovsdb_deinit
    <3>2. BufferDone'
      BY <2>3, <3>1 DEF ovsdb_deinit, StreamInv, BufferDone
    <3> QED
      BY <3>1, <3>2, SameStream
  <2>4. CASE deinit_transaction_manager \/ close_log
    <3>1. Same
      BY <2>4 DEF deinit_transaction_manager, close_log, releaseVars
    <3> QED
      BY <3>1, <1>0
  <2> QED
    BY <1>4, <2>1, <2>2, <2>3, <2>4 DEF library
<1>5. CASE listener
  <2>1. CASE listen_loop \/ listen_timeout \/ listen_closed \/ listen_exit
    <3>1. UNCHANGED <<buffer, wire, dealt, msgs, spoilt, open>>
      BY <2>1 DEF listen_loop, listen_timeout, listen_closed, listen_exit, Goto
    <3>2. BufferDone'
      BY <2>1, <3>1 DEF listen_loop, listen_timeout, listen_closed, listen_exit, Goto,
                        StreamInv, BufferDone
    <3> QED
      BY <3>1, <3>2, SameStream
  <2>2. CASE listen_recv
    BY <2>2, RecvStream
  <2>3. CASE listen_disconnect
    <3>1. UNCHANGED <<buffer, dealt, msgs>> /\ wire' = <<>> /\ open' = NoFd
      BY <2>3 DEF listen_disconnect, Goto
    <3>2. BufferDone' /\ buffer' = <<>>
      BY <2>3, <3>1 DEF listen_disconnect, Goto, StreamInv, BufferDone
    <3>3. Len(<<>>) = 0 /\ 1 .. 0 = {}
      OBVIOUS
    <3>4. InOrder'
      BY <3>1, <3>2, <3>3 DEF StreamInv, InOrder, Rising
    <3>5. Numbered'
      BY <3>1, <3>2, <3>3 DEF StreamInv, Numbered
    <3>6. Unspoilt'
      BY <3>1 DEF Unspoilt, NoFd
    <3> QED
      BY <3>2, <3>4, <3>5, <3>6 DEF StreamInv
  <2>4. CASE parse_failed
    <3>1. UNCHANGED <<wire, dealt, msgs, spoilt, open>> /\ buffer' = <<>>
      BY <2>4 DEF parse_failed, Goto
    <3>2. ~spoilt /\ open # NoFd => buffer = <<>>
      <4> SUFFICES ASSUME ~spoilt, open # NoFd, buffer # <<>> PROVE FALSE
        OBVIOUS
      <4>1. Aligned(buffer) /\ buffer \in Seq(Piece)
        BY DEF StreamInv, Unspoilt, TypeOK
      <4>2. Whole /\ buffer[1].msg.kind # "malformed"
        BY <4>1, AlignedFirst DEF Whole
      <4> QED
        BY <2>4, <4>2 DEF parse_failed
    <3>3. Len(<<>>) = 0 /\ 1 .. 0 = {}
      OBVIOUS
    <3>4. BufferDone' /\ InOrder'
      BY <3>1, <3>3 DEF StreamInv, BufferDone, InOrder, Rising
    <3>5. Numbered'
      BY <3>1, <3>3 DEF StreamInv, Numbered
    <3>6. CASE buffer = <<>>
      <4>1. UNCHANGED <<buffer, wire, dealt, msgs, spoilt, open>>
        BY <3>1, <3>6
      <4> QED
        BY <4>1, <3>4, SameStream
    <3>7. CASE buffer # <<>>
      <4>1. Unspoilt'
        BY <3>1, <3>2, <3>7 DEF Unspoilt
      <4> QED
        BY <3>4, <3>5, <4>1 DEF StreamInv
    <3> QED
      BY <3>6, <3>7
  <2>5. CASE parse_reply
    <3>1. /\ Whole /\ dealt' = Append(dealt, buffer[1].msg.n)
          /\ buffer' = SubSeq(buffer, MsgLen + 1, Len(buffer))
          /\ UNCHANGED <<wire, msgs, open, spoilt>>
      BY <2>5 DEF parse_reply
    <3>2. lpc' \in {Resume(buffer'), "callback"}
      BY <2>5 DEF parse_reply
    <3>3. BufferDone'
      BY <3>2 DEF BufferDone, Resume
    <3> QED
      BY <3>1, <3>3, DealtStream
  <2>6. CASE parse_update
    <3>1. /\ Whole /\ dealt' = Append(dealt, buffer[1].msg.n)
          /\ buffer' = SubSeq(buffer, MsgLen + 1, Len(buffer))
          /\ UNCHANGED <<wire, msgs, open, spoilt>>
      BY <2>6 DEF parse_update
    <3>2. lpc' \in {Resume(buffer'), "callback"}
      BY <2>6 DEF parse_update
    <3>3. BufferDone'
      BY <3>2 DEF BufferDone, Resume
    <3> QED
      BY <3>1, <3>3, DealtStream
  <2>7. CASE callback_sends
    <3>1. Same
      BY <2>7 DEF callback_sends
    <3> QED
      BY <3>1, <1>0
  <2>8. CASE callback_returns
    <3>1. UNCHANGED <<buffer, wire, dealt, msgs, spoilt, open>>
      BY <2>8 DEF callback_returns
    <3>2. BufferDone'
      BY <2>8, <3>1 DEF callback_returns, Resume, BufferDone
    <3> QED
      BY <3>1, <3>2, SameStream
  <2> QED
    BY <1>5, <2>1, <2>2, <2>3, <2>4, <2>5, <2>6, <2>7, <2>8 DEF listener
<1>6. CASE server
  <2>1. CASE server_reply
    <3>1. Emit("reply", Head(requests).rid) /\ UNCHANGED <<buffer, dealt, lpc, open, spoilt>>
      BY <2>1 DEF server_reply, processVars
    <3>2. requests \in Seq(Request) /\ requests # <<>>
      BY <2>1 DEF server_reply, TypeOK
    <3>3. Head(requests) \in Request
      BY <3>2
    <3>4. Head(requests).rid \in Nat
      BY <3>3 DEF Request
    <3> QED
      BY <3>1, <3>4, EmitStream
  <2>2. CASE server_update
    <3>1. PICK f \in MayFail({"malformed"}) :
            /\ Emit(IF f = "none" THEN "update" ELSE "malformed", 0)
            /\ spoilt' = (spoilt \/ f # "none")
      BY <2>2 DEF server_update
    <3>2. UNCHANGED <<buffer, dealt, lpc, open>>
      BY <2>2 DEF server_update, processVars
    <3>3. CASE f = "none"
      <4>1. Emit("update", 0) /\ (~spoilt' => ~spoilt)
        BY <3>1, <3>3
      <4> QED
        BY <4>1, <3>2, EmitStream
    <3>4. CASE f # "none"
      <4>1. Emit("malformed", 0) /\ spoilt'
        BY <3>1, <3>4
      <4> QED
        BY <4>1, <3>2, EmitStream
    <3> QED
      BY <3>3, <3>4
  <2>3. CASE server_close
    <3>1. /\ UNCHANGED <<buffer, wire, dealt, msgs, spoilt, lpc>> /\ open' = NoFd
      BY <2>3 DEF server_close, processVars
    <3>2. BufferDone'
      BY <3>1 DEF StreamInv, BufferDone
    <3> QED
      BY <3>1, <3>2, SameStream
  <2> QED
    BY <1>6, <2>1, <2>2, <2>3 DEF server
<1> QED
  BY <1>1, <1>2, <1>3, <1>4, <1>5, <1>6 DEF Next

\* However recv() cuts the stream and whatever fails, ovsdb_parse_msg deals with
\* the messages of a connection in the order they were sent and with none twice;
\* as long as each recv() ended with a message and none was malformed, it drops
\* none: for every message length and buffer size.
THEOREM OrderCorrect == Spec => []MessagesInOrder
<1>1. StreamInv => MessagesInOrder
  BY DEF StreamInv, InOrder, Unspoilt, NoneLost, MessagesInOrder
<1>2. StreamInv /\ TypeOK /\ SInv /\ [Next]_vars => StreamInv'
  BY NextStream
<1> QED
  BY <1>1, <1>2, InitStream, SessionInvariant, SessionTypeCorrect, PTL DEF Spec
=============================================================================
