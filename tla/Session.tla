------------------------------- MODULE Session ------------------------------
(***************************************************************************)
(* The life of one process that uses the library.  Its main thread starts  *)
(* and ends sessions (ovs_agent_api_init, ovs_agent_api_deinit), by itself *)
(* or as OvsAgentInit does; the listen thread of ovsdb_init lives on its   *)
(* own, cuts the byte stream of the connection into messages and runs the  *)
(* callbacks.  Any part of an initialisation may fail.  What a request     *)
(* and its callbacks mean is the subject of OvsAgentApi: here they only    *)
(* register receipts and monitors and write to the socket.                 *)
(***************************************************************************)
EXTENDS Naturals, Sequences, FiniteSets

CONSTANTS
    Programs,           \* "component", "agent"
    FaultKinds,         \* failures that may happen
    MaxFaults, MaxInits, MaxUpdates,    \* bounds
    MaxId,              \* bound: a component makes requests while id is below
    MsgLen, BufLen      \* pieces of a message, and of the receive buffer

\* "log" and "rdklog" are the two logs; "mutex", "condition" and "manager" come
\* after ovsdb_init; "send" is an error, "short" a part of the request;
\* "select" fails in the listen thread; "malformed" is a message without an id.
Fault == {"rdklog", "cosa", "action", "log", "connect", "thread", "mutex",
          "condition", "manager", "send", "short", "select", "close", "malformed"}

ASSUME ProgramsAssumption == Programs \subseteq {"component", "agent"}
ASSUME KindsAssumption    == FaultKinds \subseteq Fault
ASSUME LimitsAssumption   == {MaxFaults, MaxInits, MaxUpdates, MaxId} \subseteq Nat
ASSUME LengthsAssumption  == MsgLen \in Nat \ {0} /\ BufLen \in Nat \ {0}

VARIABLES
    program,
    main,            \* where the program is; a component just calls the library
    pc,              \* the call of the library in progress
    rdkLog, bus,     \* RDK logger and bus_handle of the agent
    handle, log, manager,   \* g_handle, g_logger, g_transaction_table
    monitorFeedback,
    id, fd, g_terminate,    \* of OvsDbApi.c; fd is a connection, or NoFd
    receipts,        \* [rid, conn, cb]
    monitors,        \* connections on which a monitor was registered
    lpc,             \* where the listen thread is
    buffer,          \* what it has still to parse
    reply, todo,     \* the receipt in work, requests its callback will send
    conns, open,     \* connections so far; the one the server has open
    requests, wire,  \* to the server; from the server, in pieces
    dbMonitor,       \* the server has a monitor for this connection
    faults, inits, updates, \* counted for the bounds
    abandoned,       \* history: connections left by a failed initialisation
    msgs, dealt,     \* history: messages of this connection, numbers dealt with
    spoilt,          \* history: a message was cut, or malformed
    failed           \* history: the last failure

agentVars  == <<main, rdkLog, bus>>
handleVars == <<handle, log, manager, monitorFeedback>>
listVars   == <<receipts, monitors>>
parseVars  == <<buffer, reply, todo, dealt>>
serverVars == <<open, wire, dbMonitor, msgs>>
boundVars  == <<inits, updates>>
vars == <<program, pc, agentVars, handleVars, listVars, parseVars, serverVars,
          boundVars, id, fd, g_terminate, lpc, conns, requests, faults, abandoned,
          spoilt, failed>>

NoFd == 0
NoReply == [rid |-> 0, conn |-> 0, cb |-> "dummy"]

Receipt == [rid: Nat, conn: Nat, cb: {"write", "dummy"}]
Request == [rid: Nat, kind: {"insert", "monitor", "delete"}, whole: BOOLEAN]
Message == [n: Nat, kind: {"reply", "update", "malformed"}, rid: Nat]
Piece   == [msg: Message, part: 1 .. MsgLen]

MainPoint == {"component", "log", "cosa", "api", "action", "monitor", "unwind",
              "running", "exited", "killed"}

TypeOK ==
    /\ program \in Programs /\ main \in MainPoint
    /\ pc \in {"none", "ovsdb_init", "mutex", "manager", "join", "release", "close"}
    /\ rdkLog \in BOOLEAN /\ bus \in BOOLEAN
    /\ handle \in BOOLEAN /\ log \in BOOLEAN /\ manager \in BOOLEAN
    /\ monitorFeedback \in BOOLEAN
    /\ id \in Nat /\ conns \in Nat
    /\ fd \in {NoFd, conns} /\ open \in {NoFd, conns} /\ g_terminate \in BOOLEAN
    /\ receipts \subseteq Receipt /\ monitors \in Seq(Nat)
    /\ lpc \in {"none", "loop", "select", "parse", "callback", "close", "reset", "exited"}
    /\ buffer \in Seq(Piece) /\ wire \in Seq(Piece)
    /\ reply \in Receipt /\ todo \in Seq({"insert", "monitor", "delete"})
    /\ requests \in Seq(Request)
    /\ dbMonitor \in BOOLEAN
    /\ {faults, inits, updates, msgs} \subseteq Nat
    /\ abandoned \subseteq Nat /\ dealt \in Seq(Nat)
    /\ spoilt \in BOOLEAN /\ failed \in Fault \cup {"none"}

Init ==
    /\ program \in Programs
    /\ main = IF program = "agent" THEN "log" ELSE "component"
    /\ pc = "none"
    /\ rdkLog = FALSE /\ bus = FALSE
    /\ handle = FALSE /\ log = FALSE /\ manager = FALSE /\ monitorFeedback = FALSE
    /\ id = 0 /\ fd = NoFd /\ g_terminate = FALSE
    /\ receipts = {} /\ monitors = <<>>
    /\ lpc = "none" /\ buffer = <<>> /\ reply = NoReply /\ todo = <<>>
    /\ conns = 0 /\ open = NoFd /\ requests = <<>> /\ wire = <<>>
    /\ dbMonitor = FALSE
    /\ faults = 0 /\ inits = 0 /\ updates = 0
    /\ abandoned = {} /\ msgs = 0 /\ dealt = <<>> /\ spoilt = FALSE
    /\ failed = "none"

Alive == main \notin {"exited", "killed"}

MayFail(kinds) ==
    {"none"} \cup IF faults < MaxFaults THEN kinds \cap FaultKinds ELSE {}

Suffer(f) ==
    /\ faults' = IF f = "none" THEN faults ELSE faults + 1
    /\ failed' = IF f = "none" THEN failed ELSE f

----------------------------------------------------------------------------
(* ovs_agent_api_init *)

open_log(f) == log' = (log \/ f # "log")

\* Up to ovsdb_init.  With a handle the call returns true at once.
ovs_agent_api_init ==
    /\ pc = "none" /\ ~handle
    /\ inits < MaxInits /\ inits' = inits + 1
    /\ \E f \in MayFail({"log"}) :
        /\ Suffer(f) /\ open_log(f)
        /\ handle' = log'
        /\ pc' = IF log' THEN "ovsdb_init" ELSE "none"
    /\ monitorFeedback' = FALSE
    /\ UNCHANGED <<program, rdkLog, bus, manager, listVars, parseVars, serverVars,
                   updates, id, fd, g_terminate, lpc, conns, requests, abandoned,
                   spoilt>>

\* What a failure of the initialisation undoes.
Fail == pc' = "none" /\ handle' = FALSE /\ log' = FALSE

\* Mutant: the result is not looked at.
socket_connect_unchecked(f) == conns + 1

\* ovsdb_sock_fd: connections are numbered.
socket_connect(f) == IF f = "none" THEN conns + 1 ELSE NoFd

\* The id generator is reset first.  A socket that is still open is used again.
\* With "thread" the connection is made and closed.
ovsdb_init ==
    /\ Alive /\ pc = "ovsdb_init"
    /\ id' = 0
    /\ IF fd # NoFd
       THEN /\ pc' = "mutex"
            /\ abandoned' = abandoned \ {fd}
            /\ UNCHANGED <<handle, log, fd, conns, open, requests, wire, dbMonitor,
                           msgs, dealt, spoilt, g_terminate, lpc, faults, failed>>
       ELSE \E f \in MayFail({"connect", "thread"}) :
            /\ Suffer(f)
            /\ IF f = "none" THEN pc' = "mutex" /\ UNCHANGED <<handle, log>> ELSE Fail
            /\ conns' = IF f = "connect" THEN conns ELSE conns + 1
            /\ fd' = socket_connect(f)
            /\ open' = fd'
            /\ requests' = <<>> /\ wire' = <<>> /\ dbMonitor' = FALSE
            /\ msgs' = 0 /\ dealt' = <<>> /\ spoilt' = FALSE
            /\ g_terminate' = (g_terminate /\ f = "connect")
            /\ lpc' = IF f = "none" THEN "loop" ELSE lpc
            /\ UNCHANGED abandoned
    /\ UNCHANGED <<program, agentVars, manager, monitorFeedback, listVars, buffer,
                   reply, todo, boundVars>>

lateVars == <<program, agentVars, monitorFeedback, listVars, parseVars, serverVars,
              boundVars, id, fd, g_terminate, lpc, conns, requests, spoilt>>

\* A failure after ovsdb_init leaves the connection and the listen thread behind
\* ("TODO: deinit database connection").
FailLate == Fail /\ abandoned' = abandoned \cup ({fd} \ {NoFd})

\* The mutex and the condition
init_mutex ==
    /\ Alive /\ pc = "mutex"
    /\ \E f \in MayFail({"mutex", "condition"}) :
        /\ Suffer(f)
        /\ IF f = "none" THEN pc' = "manager" /\ UNCHANGED <<handle, log, abandoned>>
           ELSE FailLate
    /\ UNCHANGED <<lateVars, manager>>

init_transaction_manager ==
    /\ Alive /\ pc = "manager"
    /\ \E f \in MayFail({"manager"}) :
        /\ Suffer(f)
        /\ manager' = (manager \/ f = "none")
        /\ IF f = "none" THEN pc' = "none" /\ UNCHANGED <<handle, log, abandoned>>
           ELSE FailLate
    /\ UNCHANGED lateVars

----------------------------------------------------------------------------
(* ovs_agent_api_deinit *)

\* With no handle the call returns true at once.  The cancel request for the
\* monitor is commented out.
ovs_agent_api_deinit ==
    /\ pc = "none" /\ handle
    /\ monitorFeedback' = FALSE
    /\ g_terminate' = TRUE
    /\ pc' = "join"
    /\ UNCHANGED <<program, rdkLog, bus, handle, log, manager, listVars, parseVars,
                   serverVars, boundVars, id, fd, lpc, conns, requests, faults,
                   abandoned, spoilt, failed>>

receipt_list_clear == receipts' = {}
mon_list_clear     == monitors' = <<>>

\* Mutant: the lists are cleared without waiting for the listen thread.
ovsdb_deinit_no_join ==
    /\ Alive /\ pc = "join"
    /\ pc' = "release"
    /\ receipt_list_clear /\ mon_list_clear
    /\ lpc' = IF lpc = "exited" THEN "none" ELSE lpc
    /\ UNCHANGED <<program, agentVars, handleVars, parseVars, serverVars, boundVars,
                   id, fd, g_terminate, conns, requests, faults, abandoned, spoilt,
                   failed>>

\* pthread_join, mon_list_clear, receipt_list_clear
ovsdb_deinit ==
    /\ Alive /\ pc = "join"
    /\ lpc = "exited" /\ lpc' = "none"
    /\ pc' = "release"
    /\ receipt_list_clear /\ mon_list_clear
    /\ UNCHANGED <<program, agentVars, handleVars, parseVars, serverVars, boundVars,
                   id, fd, g_terminate, conns, requests, faults, abandoned, spoilt,
                   failed>>

releaseVars == <<program, agentVars, monitorFeedback, listVars, parseVars,
                 serverVars, boundVars, id, fd, g_terminate, lpc, conns, requests,
                 faults, abandoned, spoilt, failed>>

\* Mutant: the transaction table is kept.
deinit_transaction_manager_keeps ==
    /\ Alive /\ pc = "release"
    /\ pc' = "close"
    /\ UNCHANGED <<releaseVars, handle, log, manager>>

deinit_transaction_manager ==
    /\ Alive /\ pc = "release"
    /\ manager' = FALSE
    /\ pc' = "close"
    /\ UNCHANGED <<releaseVars, handle, log>>

\* The log is closed, and the handle freed.
close_log ==
    /\ Alive /\ pc = "close"
    /\ log' = FALSE /\ handle' = FALSE
    /\ pc' = "none"
    /\ UNCHANGED <<releaseVars, manager>>

----------------------------------------------------------------------------
(* Requests, of either thread *)

\* What send() may do; the descriptor is closed once the listen thread is past
\* close().  Nothing in the library ignores SIGPIPE.
socket_write_results ==
    CASE fd = NoFd \/ lpc = "reset" -> {"send"}
      [] fd # NoFd /\ lpc # "reset" /\ open = NoFd -> {"send", "killed"}
      [] OTHER -> MayFail({"send", "short"})

\* ovsdb_write, ovsdb_monitor, ovsdb_delete: the receipt stays if the write fails;
\* a short write counts as success; mon_list_remove finds the head only.
Write(kind, f) ==
    /\ id' = IF kind = "monitor" THEN id + 2 ELSE id + 1
    /\ receipts' = receipts \cup
         {[rid |-> id', conn |-> conns,
           cb |-> IF kind = "insert" /\ program = "component" THEN "write" ELSE "dummy"]}
    /\ monitors' = IF kind = "monitor" /\ (f \notin {"send", "killed"} \/ monitors # <<>>)
                   THEN Append(monitors, conns) ELSE monitors
    /\ requests' = IF f \in {"send", "killed"} THEN requests
                   ELSE Append(requests, [rid |-> id', kind |-> kind,
                                          whole |-> f = "none"])
    /\ Suffer(IF f = "killed" THEN "send" ELSE f)

----------------------------------------------------------------------------
(* The main thread: a component *)

component_init   == main = "component" /\ ovs_agent_api_init /\ UNCHANGED main
component_deinit == main = "component" /\ ovs_agent_api_deinit /\ UNCHANGED main

\* ovs_agent_api_interact with the transact method
component_interact ==
    /\ main = "component" /\ pc = "none" /\ handle
    /\ id < MaxId
    /\ \E f \in socket_write_results :
        /\ Write("insert", f)
        /\ main' = IF f = "killed" THEN "killed" ELSE main
    /\ UNCHANGED <<program, pc, rdkLog, bus, handleVars, parseVars, serverVars,
                   boundVars, fd, g_terminate, lpc, conns, abandoned, spoilt>>

----------------------------------------------------------------------------
(* The main thread: OvsAgentInit *)

libraryVars == <<handleVars, listVars, parseVars, serverVars, boundVars, id, fd,
                 g_terminate, lpc, conns, requests, abandoned, spoilt>>

OvsAgentLogInit ==
    /\ main = "log"
    /\ \E f \in MayFail({"rdklog"}) :
        /\ Suffer(f)
        /\ rdkLog' = (f = "none")
        /\ main' = IF f = "none" THEN "cosa" ELSE "exited"
    /\ UNCHANGED <<program, pc, bus, libraryVars>>

\* A failure leaves the logger, the process exits all the same.
Cosa_Init ==
    /\ main = "cosa"
    /\ \E f \in MayFail({"cosa"}) :
        /\ Suffer(f)
        /\ bus' = (f = "none")
        /\ main' = IF f = "none" THEN "api" ELSE "exited"
    /\ UNCHANGED <<program, pc, rdkLog, libraryVars>>

agent_api_init == main = "api" /\ inits = 0 /\ ovs_agent_api_init /\ UNCHANGED main

\* Cosa_Shutdown and OvsAgentLogDeinit; main returns -1.
Shutdown == bus' = FALSE /\ rdkLog' = FALSE /\ main' = "exited"

\* The result of ovs_agent_api_init
api_returned ==
    /\ main = "api" /\ inits > 0 /\ pc = "none"
    /\ IF handle THEN main' = "action" /\ UNCHANGED <<bus, rdkLog>> ELSE Shutdown
    /\ UNCHANGED <<program, pc, libraryVars, faults, failed>>

\* Mutant: a failure of ovs_action_init leaves the session open.
ovs_action_init_leaves ==
    /\ main = "action" /\ pc = "none"
    /\ \E f \in MayFail({"action"}) :
        /\ Suffer(f)
        /\ IF f = "none" THEN main' = "monitor" /\ UNCHANGED <<bus, rdkLog>>
           ELSE Shutdown
    /\ UNCHANGED <<program, pc, libraryVars>>

ovs_action_init ==
    /\ main = "action" /\ pc = "none"
    /\ \E f \in MayFail({"action"}) :
        /\ Suffer(f)
        /\ main' = IF f = "none" THEN "monitor" ELSE "unwind"
    /\ UNCHANGED <<program, pc, rdkLog, bus, libraryVars>>

\* The monitor of Gateway_Config
agent_interact ==
    /\ main = "monitor" /\ pc = "none"
    /\ \E f \in socket_write_results :
        /\ Write("monitor", f)
        /\ main' = CASE f = "killed" -> "killed"
                     [] f = "send"   -> "unwind"
                     [] OTHER        -> "running"
    /\ UNCHANGED <<program, pc, rdkLog, bus, handleVars, parseVars, serverVars,
                   boundVars, fd, g_terminate, lpc, conns, abandoned, spoilt>>

agent_api_deinit == main = "unwind" /\ ovs_agent_api_deinit /\ UNCHANGED main

OvsAgentInit_fails ==
    /\ main = "unwind" /\ pc = "none" /\ ~handle
    /\ Shutdown
    /\ UNCHANGED <<program, pc, libraryVars, faults, failed>>

----------------------------------------------------------------------------
(* The listen thread *)

mainVars == <<program, pc, rdkLog, bus, handle, log, manager>>

Goto(point) ==
    /\ lpc' = point
    /\ UNCHANGED <<mainVars, main, monitorFeedback, listVars, boundVars, id,
                   g_terminate, conns, abandoned>>

listen_loop ==
    /\ Alive /\ lpc = "loop"
    /\ Goto(IF g_terminate THEN "close" ELSE "select")
    /\ UNCHANGED <<parseVars, serverVars, fd, requests, faults, failed, spoilt>>

\* Mutant: select waits without a timeout.
listen_timeout_never ==
    /\ Alive /\ lpc = "select"
    /\ wire = <<>> /\ open = fd
    /\ UNCHANGED vars

\* select() returns 0 after 100 ms without data.
listen_timeout ==
    /\ Alive /\ lpc = "select"
    /\ wire = <<>> /\ open = fd
    /\ Goto("loop")
    /\ UNCHANGED <<parseVars, serverVars, fd, requests, faults, failed, spoilt>>

\* recv() returns what has arrived, up to the size of the buffer.
listen_recv ==
    /\ Alive /\ lpc = "select"
    /\ \E n \in 1 .. BufLen :
        /\ n <= Len(wire)
        /\ buffer' = SubSeq(wire, 1, n)
        /\ wire' = SubSeq(wire, n + 1, Len(wire))
        /\ spoilt' = (spoilt \/ wire[1].part # 1 \/ wire[n].part # MsgLen)
    /\ Goto("parse")
    /\ UNCHANGED <<reply, todo, dealt, open, dbMonitor, msgs, fd, requests, faults,
                   failed>>

\* Mutant: recv() returning 0 is taken for a socket without data.
listen_closed_ignored ==
    /\ Alive /\ lpc = "select"
    /\ wire = <<>> /\ open # fd
    /\ Goto("loop")
    /\ UNCHANGED <<parseVars, serverVars, fd, requests, faults, failed, spoilt>>

\* recv() returns 0, or select() fails.
listen_closed ==
    /\ Alive /\ lpc = "select"
    /\ \/ wire = <<>> /\ open # fd /\ UNCHANGED <<faults, failed>>
       \/ "select" \in MayFail({"select"}) /\ Suffer("select")
    /\ Goto("close")
    /\ UNCHANGED <<parseVars, serverVars, fd, requests, spoilt>>

\* ovsdb_socket_disconnect, and then ovsdb_sock_fd = -1
listen_disconnect ==
    /\ Alive /\ lpc = "close"
    /\ open' = NoFd /\ wire' = <<>> /\ requests' = <<>> /\ dbMonitor' = FALSE
    /\ Goto("reset")
    /\ UNCHANGED <<parseVars, msgs, fd, faults, failed, spoilt>>

listen_exit ==
    /\ Alive /\ lpc = "reset"
    /\ fd' = NoFd
    /\ Goto("exited")
    /\ UNCHANGED <<parseVars, serverVars, requests, faults, failed, spoilt>>

\* json_loads finds a message at the front of the buffer.
Whole == /\ Len(buffer) >= MsgLen
         /\ \A i \in 1 .. MsgLen : buffer[i] = [msg |-> buffer[1].msg, part |-> i]

\* Where the loop of ovsdb_parse_msg goes on.
Resume(rest) == IF rest = <<>> THEN "loop" ELSE "parse"

\* A piece that does not parse, or has no id: the rest of the buffer is dropped.
parse_failed ==
    /\ Alive /\ lpc = "parse"
    /\ ~Whole \/ buffer[1].msg.kind = "malformed"
    /\ buffer' = <<>>
    /\ Goto("loop")
    /\ UNCHANGED <<reply, todo, dealt, serverVars, fd, requests, faults, failed, spoilt>>

\* Mutant: the message is handled but not skipped.
parse_reply_again ==
    /\ Alive /\ lpc = "parse"
    /\ Whole /\ buffer[1].msg.kind = "reply"
    /\ dealt' = Append(dealt, buffer[1].msg.n)
    /\ Len(dealt) < MaxId
    /\ Goto("parse")
    /\ UNCHANGED <<buffer, reply, todo, serverVars, fd, requests, faults, failed, spoilt>>

\* receipt_list_process: ovs_agent_api_write_callback sends the monitor request
\* unless one has been sent; a dummy receipt is only unlinked.
parse_reply ==
    /\ Alive /\ lpc = "parse"
    /\ Whole /\ buffer[1].msg.kind = "reply"
    /\ LET found == {r \in receipts : r.rid = buffer[1].msg.rid}
           rest  == SubSeq(buffer, MsgLen + 1, Len(buffer))
       IN  /\ dealt' = Append(dealt, buffer[1].msg.n)
           /\ buffer' = rest
           /\ IF found = {} THEN lpc' = Resume(rest) /\ UNCHANGED <<reply, todo>>
              ELSE /\ reply' = CHOOSE r \in found : TRUE
                   /\ todo' = IF reply'.cb = "write" /\ ~monitorFeedback
                              THEN <<"monitor">> ELSE <<>>
                   /\ lpc' = "callback"
    /\ UNCHANGED <<mainVars, main, monitorFeedback, listVars, boundVars, id,
                   g_terminate, conns, abandoned, serverVars, fd, requests, faults,
                   failed, spoilt>>

\* mon_list_process: gwconf_mon_cb of the agent inserts a Feedback; the feedback
\* callback of a component deletes two rows, or knows nothing of the uuid.
parse_update ==
    /\ Alive /\ lpc = "parse"
    /\ Whole /\ buffer[1].msg.kind = "update"
    /\ LET rest == SubSeq(buffer, MsgLen + 1, Len(buffer))
       IN  /\ dealt' = Append(dealt, buffer[1].msg.n)
           /\ buffer' = rest
           /\ IF monitors = <<>> THEN lpc' = Resume(rest) /\ UNCHANGED todo
              ELSE /\ lpc' = "callback"
                   /\ IF program = "agent" THEN todo' = <<"insert">>
                      ELSE todo' \in {<<>>, <<"delete", "delete">>}
    /\ UNCHANGED <<mainVars, main, monitorFeedback, listVars, boundVars, id,
                   g_terminate, conns, abandoned, serverVars, fd, requests, faults,
                   failed, spoilt, reply>>

callback_sends ==
    /\ Alive /\ lpc = "callback" /\ todo # <<>>
    /\ todo' = Tail(todo)
    /\ \E f \in socket_write_results :
        /\ Write(Head(todo), f)
        /\ main' = IF f = "killed" THEN "killed" ELSE main
        /\ monitorFeedback' = IF Head(todo) = "monitor" THEN f # "send"
                              ELSE monitorFeedback
    /\ UNCHANGED <<mainVars, lpc, buffer, reply, dealt, serverVars, boundVars, fd,
                   g_terminate, conns, abandoned, spoilt>>

\* The callback returns, its receipt is unlinked.
callback_returns ==
    /\ Alive /\ lpc = "callback" /\ todo = <<>>
    /\ receipts' = receipts \ {reply}
    /\ reply' = NoReply
    /\ lpc' = Resume(buffer)
    /\ UNCHANGED <<mainVars, main, monitorFeedback, monitors, boundVars, id,
                   g_terminate, conns, abandoned, buffer, todo, dealt, serverVars,
                   fd, requests, faults, failed, spoilt>>

----------------------------------------------------------------------------
(* The server, external *)

processVars == <<mainVars, main, monitorFeedback, listVars, parseVars, inits, id, fd,
                 g_terminate, lpc, conns, abandoned>>

Pieces(m) == [i \in 1 .. MsgLen |-> [msg |-> m, part |-> i]]

Emit(kind, n) ==
    /\ msgs' = msgs + 1
    /\ wire' = wire \o Pieces([n |-> msgs', kind |-> kind, rid |-> n])

server_reply ==
    /\ Alive /\ open # NoFd
    /\ requests # <<>> /\ Head(requests).whole
    /\ Emit("reply", Head(requests).rid)
    /\ dbMonitor' = (dbMonitor \/ Head(requests).kind = "monitor")
    /\ requests' = Tail(requests)
    /\ UNCHANGED <<processVars, open, updates, faults, failed, spoilt>>

server_update ==
    /\ Alive /\ open # NoFd /\ dbMonitor
    /\ updates < MaxUpdates /\ updates' = updates + 1
    /\ \E f \in MayFail({"malformed"}) :
        /\ Suffer(f)
        /\ Emit(IF f = "none" THEN "update" ELSE "malformed", 0)
        /\ spoilt' = (spoilt \/ f # "none")
    /\ UNCHANGED <<processVars, open, requests, dbMonitor>>

\* The server goes away, or finds another request where the rest of one should be.
server_close ==
    /\ Alive /\ open # NoFd
    /\ \/ "close" \in MayFail({"close"}) /\ Suffer("close")
       \/ Len(requests) > 1 /\ ~Head(requests).whole /\ UNCHANGED <<faults, failed>>
    /\ open' = NoFd /\ requests' = <<>> /\ dbMonitor' = FALSE
    /\ UNCHANGED <<processVars, wire, msgs, updates, spoilt>>

----------------------------------------------------------------------------

library ==
    \/ ovsdb_init \/ init_mutex \/ init_transaction_manager
    \/ ovsdb_deinit \/ deinit_transaction_manager \/ close_log

agent ==
    \/ OvsAgentLogInit \/ Cosa_Init \/ agent_api_init \/ api_returned
    \/ ovs_action_init \/ agent_interact \/ agent_api_deinit \/ OvsAgentInit_fails

listener ==
    \/ listen_loop \/ listen_timeout \/ listen_recv \/ listen_closed
    \/ listen_disconnect \/ listen_exit
    \/ parse_failed \/ parse_reply \/ parse_update
    \/ callback_sends \/ callback_returns

server == server_reply \/ server_update \/ server_close

component == component_init \/ component_deinit \/ component_interact

\* The process has ended, the agent sleeps in main, or a component does not call.
quiet ==
    /\ ~Alive \/ main = "running" \/ (main = "component" /\ pc = "none")
    /\ UNCHANGED vars

Next == component \/ library \/ agent \/ listener \/ server \/ quiet

Spec == Init /\ [][Next]_vars

\* Both threads are scheduled; whether a component calls the library, and when
\* the server acts, is up to them.
FairSpec == Spec /\ WF_vars(library) /\ WF_vars(agent) /\ WF_vars(listener)

----------------------------------------------------------------------------
(* Properties *)

Listening == lpc \notin {"none", "exited"}

\* The listen thread never outlives what it works with: while it runs there is a
\* handle and a log, and inside a callback a transaction table and, in the agent,
\* the message bus.  Only a connection that a failed initialisation has left
\* behind is without them, and no callback runs there.
ListenerHasSession ==
    /\ Listening /\ fd \notin abandoned => handle /\ log
    /\ lpc = "callback" /\ Alive => /\ handle /\ manager
                                    /\ program = "agent" => bus

\* When deinit has returned, or init has failed, everything is released, but for
\* the connection that a late failure of init leaves behind.
ReleasedWhenDown ==
    pc = "none" /\ ~handle =>
        /\ ~log /\ ~manager
        /\ receipts = {} /\ monitors = <<>>
        /\ fd # NoFd => fd \in abandoned

\* The id generator starts again with each session, and again when a connection
\* that was left behind is taken over: still no two pending receipts have one id,
\* and each waits for a reply of the connection it was sent on.
ReceiptsOfThisSession ==
    \A r \in receipts :
        /\ r.conn = conns
        /\ \A s \in receipts : r.rid = s.rid => r = s

\* Piece p of message n is in the buffer or still on the wire.
Coming(n, p) ==
    \/ \E i \in 1 .. Len(buffer) : buffer[i].msg.n = n /\ buffer[i].part = p
    \/ \E i \in 1 .. Len(wire) : wire[i].msg.n = n /\ wire[i].part = p

\* Messages are dealt with in order and once each; as long as none was cut by a
\* recv() or malformed, none is lost either: it has been dealt with, or all of it
\* is still to come.
MessagesInOrder ==
    /\ \A i, j \in 1 .. Len(dealt) : i < j => dealt[i] < dealt[j]
    /\ ~spoilt /\ open # NoFd =>
            \A n \in 1 .. msgs : \/ \E i \in 1 .. Len(dealt) : dealt[i] = n
                                \/ \A p \in 1 .. MsgLen : Coming(n, p)

\* OvsAgentInit undoes what it has done when a later part fails: the bus, the
\* session and the logger, but for the logger when there is no message bus.
UnwindComplete ==
    main = "exited" =>
        /\ ~bus /\ ~handle
        /\ rdkLog => failed = "cosa"
        /\ fd # NoFd => fd \in abandoned

\* ovs_agent_api_deinit returns: the listen thread notices g_terminate although
\* nothing arrives, or more and more does.
DeinitReturns == (pc = "join") ~> (pc = "none" \/ ~Alive)

\* A connection the server has closed is closed here too.
CloseNoticed == (fd # NoFd /\ open = NoFd) ~> (fd = NoFd \/ ~Alive)
=============================================================================
