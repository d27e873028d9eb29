# Specifications of rdk-OvsAgent

TLA+ modules for the OVS Agent of RDK-B: the library other components link to
talk to OVSDB (OvsAgentApi over OvsDbApi), and the daemon that acts on what they
write. Paths below are relative to `src/source/`.

## 1. The system

An RDKB component (bridge utilities, the mesh agent) links `libOvsAgentApi`. It
writes a row into the table `Gateway_Config` of ovsdb-server. The daemon
`OvsAgent`, a user of the same library, monitors that table, configures bridges
and ports, and writes the result into the table `Feedback`. The component
monitors `Feedback`, finds the transaction the row belongs to, calls the
callback the client passed, and deletes both rows.

| Component | State | Operations | Talks to |
|---|---|---|---|
| OvsAgentApi (`OvsAgentApi/OvsAgentApi.c`) | handle: `blocked`, `monitorFeedback`, mutex, condition | init, deinit, interact (transact, monitor), two callbacks, wait, signal | client threads; listen thread through callbacks |
| Transaction manager (`OvsAgentApi/transaction_manager.c`) | array of 5 slots of entries id, uuid, callback, config | insert, update, complete, delete | called from client threads and the listen thread, no lock |
| OVSDB abstraction (`OvsDbApi/OvsDbApi.c`) | socket, id counter, `g_terminate`, listen thread | init, deinit, write, monitor, monitor_cancel, delete, id_generate | receipt list, monitor list, parser, socket |
| Receipt list (`OvsDbApi/receipt_list.c`) | linked list of rid, callback, type | add, process, clear | no lock; client and listen threads |
| Monitor list (`OvsDbApi/mon_update_list.c`) | linked list of unique id, callback | add, process, remove, clear | same |
| Parser (`OvsDbApi/ovsdb_parser.c`, `json_parser/`) | none | JSON to and from requests, receipts, rows | receipt list, monitor list |
| Socket (`OvsDbApi/ovsdb_socket.c`) | descriptor | connect, listen (select + recv), write, disconnect | ovsdb-server |
| OvsAgent core (`OvsAgentCore/`) | which parts are started | init, deinit, `gwconf_mon_cb` | OvsAgentApi, OvsAction |
| OvsAction (`OvsAction/ovs_action.c`) | model number, one-wifi flag; the kernel's bridges, ports, flows | init, gateway_config: create bridge, VLAN or GRE, add or remove ports | shell commands |
| cosa_api, syscfg, log, emulator, tests, scripts | - | wrappers, formatting, stubs | - |

What is hard in it:

- Client threads and the listen thread share the table, the flag `blocked`, the
  id counter and the two lists; only `blocked` and the condition are (partly)
  under the mutex.
- A slot of the table is an id modulo 5: ids of different requests meet in it,
  and late receipts, timeouts and evictions act on whatever the slot holds.
- One flag and one condition serve all requests. A completion can come before
  the wait, after the timeout, or belong to another request.
- The Feedback table is monitored late, by the first receipt, and the monitor
  covers every component's rows.
- Writes fail, inserts are rejected, the server closes the connection.
- A session is built from parts any of which may fail, while the listen thread of
  an earlier part is already running; ids start again with each session.
- The stream is cut into receive buffers, not into messages.
- The daemon carries out a row with a sequence of commands whose results it mostly
  ignores, can die between two of them, and shares bridges with hostapd.

What makes each part correct: a callback gets the status of its own row, once;
every call returns; a failed call leaves nothing behind; the reply to a request
finds its receipt; rows of a completed transaction, and no others, are deleted;
the lists stay lists; start and stop leave nothing running; an action on a
gateway configuration reports success only when the bridge and port are as
configured.

## 2. Modules

| Module | What it is |
|---|---|
| `TransactionTable` | the table of transaction_manager.c as pure operators |
| `OvsAgentApi` | the core: client threads, listen thread, OVSDB, agent, and their properties |
| `TransactionContract` | what the transaction manager promises: opened once, closed once, reported at most once |
| `ReceiptList` | receipt_list.c and id_generate, one access to a shared pointer or to the counter per step |
| `Session` | init and deinit of library and daemon, the listen thread's life, sends and message framing |
| `NetworkState` | kernel and Open vSwitch: what the commands do to bridges, ports, links and flows |
| `OvsAction` | the agent on the rows of Gateway_Config: gwconf_mon_cb and ovs_action.c, crashes and restarts |
| `AgentContract` | what the agent promises: rows settled in order, answered at most once |
| `MCOvsAgentApi`, `MCReceiptList`, `MCSession`, `MCOvsAction` | constants for TLC |
| `OvsAgentApi_proofs` | theorems on types and table entries of the core |
| `Waiting_proofs` | `blocked` and the condition variable |
| `Connection_proofs` | monitor, ids and receipts on the connection |
| `Rows_proofs` | whose row a uuid names, and the statuses told (extends `Connection_proofs`) |
| `Contract_proofs` | the core implements `TransactionContract` (extends the two before) |
| `Session_proofs`, `OvsAction_proofs`, `ReceiptList_proofs` | theorems on the modules of those names |

`OvsAgentApi` is the composition of library, database and agent for the length of
one session: it takes from `Session` that the parts exist while it runs, and from
`OvsAction` (by `AgentContract`) that a row gets at most one Feedback. `OvsAction`
extends `NetworkState`; `ReceiptList` zooms into one of the core's sequences.

### OvsAgentApi

`Request` numbers the calls of `ovs_agent_api_interact` in a behaviour.

| Variables | In the code |
|---|---|
| `pc`, `mode`, `rid`, `status`, `hand` | the client thread inside handle_transact_insert_request: program point, arguments, locals; `hand` is the entry remove_transaction_table has loaded for it |
| `table`, `id`, `receipts`, `monitors` | g_transaction_table, the id counter, the two lists |
| `blocked`, `monitorFeedback` | members of g_handle |
| `lpc`, `msg`, `key`, `entry` | the listen thread: program point, the message it handles, locals of complete_transaction |
| `call`, `lrid`, `uid` | the listen thread inside ovsdb_monitor or ovsdb_delete: program point, the ids it has generated |
| `sent`, `inbox` | the connection, one FIFO for each direction |
| `gwRows`, `fbRows`, `inserted`, `verdicts`, `dbMonitors` | OVSDB: rows by uuid, whose configuration a row holds, every Feedback inserted, monitors of this connection |
| `delivered`, `destroyed`, `overlapped` | history: statuses each callback was called with, how often an entry was freed, windows in which two threads have met |

Actions carry the name of the function they belong to. A function is split where
another thread can act between two accesses to state both sides share:

- `id_generate` is a load (`interact`, `call_number`) and a store (`id_generate`,
  `call_id_generate`), for client threads and for the listen thread's monitor and
  delete requests alike;
- `receipt_list_add` is a walk to the end of the list (`write_register`,
  `call_register`) and a link (`write_link`, `call_link`), and the unlinking of a
  receipt a load (`receipt_unlink`) and a store (`receipt_unlink_store`);
- the socket write is a step of its own, after the link (`write_sent`,
  `write_failed`, `send_monitor_feedback_request`, `delete_row`);
- remove_transaction_table is a test, a load and a store of NULL, in all three of
  its callers: `evict_transaction`, `remove_load`, `evict_clear` for an eviction,
  `cleanup`, `remove_load`, `delete_clear` for a deletion, `complete_remove`,
  `complete_load`, `complete_clear` for a completion; and insert_transaction_table
  tests the slot (`insert_transaction`) before it stores (`store_transaction`).

What only one thread touches in between is part of the step: the monitor list and
`monitorFeedback` belong to the listen thread. A critical section of the mutex is
one step; it never waits inside except in `pthread_cond_timedwait`, so the mutex
is not a variable. A spurious wakeup is an action (`wait_spurious`), and so is
every timeout.

Whoever has read and not yet written is in a *window*: `Numbering` (the generator),
`Linking` (a link of the receipt list), `InSlot` (a slot of the table). A thread
that enters a window with another thread in it adds the window's name to
`overlapped`. Nothing in the code looks at it: it serves to say until when a
promise is kept that the code breaks once two threads meet. The constant
`Meetings` bounds which meetings a run explores; the theorems hold for all three.

`receipts` is the sequence of receipts that were added and not yet unlinked. After
a meeting in `Linking` the pointers may have lost some of them. The core then lets
every search (`Found`) miss a receipt or stop at a later one, in any way;
`ReceiptList` has the pointers themselves. The search of receipt_list_process for a
reply is one step: a receipt that is added meanwhile goes to the end and is not
the one looked for (`ReceiptList` checks this with searches and adds interleaved,
in `ExactWhenSerial`).

One access is merged: update_transaction finds the entry and writes the uuid
through the pointer in one step. If a client thread frees the entry in between the
code writes into freed memory. In the model that write reaches no entry; that
malloc may meanwhile have given the memory to a new entry is not modelled.

The reply to a rejected insert carries no uuid: insert_receipt_parser returns
NULL, the node stays in the list and the callback is not called
(`listen_dispatch`). Deletions reach a monitor as updates without `new` and are
ignored, so the model does not send them.

Not in the core: malloc failures and ownership of the configuration the client
passes. Partial sends, split messages, the monitor method of `interact` (the
agent's use), init and deinit are in `Session`.

### TransactionContract

`OvsAgentApi` implements it under the mapping `phaseOf`, `delivered`, until two
threads meet in one slot of the table. A transaction is open while it is in the
table or in the hands of complete_transaction, and closed once it was freed
(`destroyed`). Two phases have no place in the contract, so that no step of it can
reach them: "freed again", and "lost", of an entry that was stored, is held by
nobody and was never freed. Both happen once two threads have met: a completion
and a timeout that take one entry free it twice (`doc_freed_once`), and of two
threads that store into the same free slot the first one's entry is lost.

### ReceiptList

`adder` steps are id_generate, receipt_list_add and the send of each thread;
`listener` steps are receipt_list_process, one load or store of a shared pointer at
a time: `process` and `compare_head` at the head, `advance` and `scan` in the loop,
`callback_return`, `unlink_load` and `unlink_store` after the callback. The listen
thread issues requests itself, inside a callback and between replies. `malloc`
returns any free address of finitely many (`NodeAssumption`); a freed node keeps
its `next` until it is reused, so a thread with a stale pointer reads and writes
it. Loads of one statement that a compiler merges (the test of `msg_list` and the
walk's first node) are one step. `overlapped` records whether two threads have met
in one of the windows the core has too, `Numbering` and `Linking`. A search may
go on while others add: that is no meeting.

### Session

One process: `program` is a component, which calls init, deinit and interact as it
likes, or the agent, which goes through `OvsAgentInit`.

| Variables | In the code |
|---|---|
| `main`, `rdkLog`, `bus` | OvsAgentInit's position; RDK logger; bus_handle |
| `pc`, `handle`, `log`, `manager`, `monitorFeedback` | the library call in progress; g_handle, g_logger, g_transaction_table |
| `id`, `fd`, `g_terminate`, `receipts`, `monitors` | statics of OvsDbApi.c and the two lists; `fd` is the number of the connection |
| `lpc`, `buffer`, `reply`, `todo` | the listen thread: position, the unparsed part of recv_buffer, the receipt in work, what its callback will send |
| `open`, `requests`, `wire`, `dbMonitor` | the server's side; `wire` is the stream in pieces, `MsgLen` to a message |
| `abandoned`, `msgs`, `dealt`, `spoilt`, `failed` | history |

Each call is split at the points where the listen thread matters. Each part of an
initialisation may fail; the failures of mutex, condition and transaction manager
leave the connection and the thread behind ("TODO: deinit database connection"),
and the next init takes them over. `recv` returns any prefix of what has arrived,
so messages are cut anywhere; `ovsdb_parse_msg` drops the rest of a buffer that
does not parse. A send is whole, short (counts as success; the server closes at
the next request, which it cannot parse), an error, or, once the server has
closed, an error or SIGPIPE, which ends the process. Requests only register and
write here: what they mean is the core's subject.

### NetworkState and OvsAction

A state of the network is bridges of two kinds (OVS, Linux), the bridge each
interface is a port of, the links that exist, those that are up, and flows. The
commands are external; their effect is taken from how ovs_action.c uses them: a
command that cannot be carried out changes nothing, OVS records a port by name
whether or not the device exists, and `ip link del` leaves that record.

`pc` is the agent's position inside a row; a step of `OvsAction` is the group of
commands between two decisions of the code, and the daemon can crash between any
two steps. The next start ignores the rows that are already there
(`ovs_action_init`). `failed` collects what went wrong in the row: `lookup` and
`list` are popen failures, `address`, `mac` and `param` values that cannot be
read, `command` a command whose result the code ignores, `write` a Feedback that
is not sent, `update` an update that does not become calls of
ovs_action_gateway_config. The commands of one step fail together. `before` is the
network when the row was taken. hostapd creates br106 at any time; `remade`
remembers that it did so during the row.

`update_lost` is the loss of rows between the database and the agent: the update
was cut by recv and dropped (ovsdb_parser.c:248), a row before them in the same
update could not be parsed (ovsdb_parser.c:391), or gwconf_mon_cb got no
configuration (OvsAgent.c:34). Any number of rows is passed over without a
Feedback, and the agent goes on with those that come later.

Left out: addresses, netmasks, MTU and VLAN ids; the dummy bridges of the eth
switch, which are gone when the step ends; the name `vconfig add` makes out of
parent and VLAN id is taken to be the row's `if_name`.

`SuccessIsConfigured` and `SuccessHasFlows` speak about ports for which
`PortCanMove` holds. It excludes what the code does not look for: a port that is
in a bridge of the other kind (removeExistingInterfacePort looks among the bridges
of one kind only, so such a port stays where it is), a parent that has the name of
a bridge of the other kind, of a link or of the port itself, a `down` row for a port
in another bridge, a link that neither exists nor is made by the row.

For bridge rows the exceptions are these. A bridge whose name a link or a Linux
bridge has is not created, and the row is answered with SUCCESS. The deletion of a
Linux bridge is answered with SUCCESS and deletes nothing: the command is
`ovs-vsctl del-br`. br106 may be there after its deletion if hostapd has made it
again since the row was taken, and only then. Nothing is claimed of a bridge row
with the command `remove`: gateway_config.h:91 calls it the "bridge removal
command", ovs_createBridge tests only for `delete` and creates the bridge.

`SuccessHasFlows` speaks about port rows of every type. It claims nothing of bridge
rows: on the models with bridge flows such a row is never answered with SUCCESS,
because ovs_createBridge sets the flows of `parent_bridge`, which a bridge row
leaves empty (ovs_action.c:1036 and 576).

## 3. Runs

| Run | Instance | Shows |
|---|---|---|
| `api_single` | 1 client thread, 2 requests, 10 slots, a foreign row, all faults, meetings in id_generate | `TypeOK`, `NoLostWakeup`, `ToldOwnStatus`, `ReceiptBeforeReply`, `OneFeedbackMonitor`, `OthersRowsUntouched` |
| `api_shared` | 2 client threads, 2 requests, 1 slot, all modes, failing writes, meetings in the slot | `BlockedOnlyDuringCall`, `FailedCallLeavesNoTransaction`, `ImplementsContract` |
| `api_live` | 1 client thread, 2 requests, rejected inserts, closed connection, meetings in the receipt list, `FairSpec` | `EveryCallReturns`, `CompletedRowsDeleted` |
| `receipts` | 2 client threads with 1 request, listen thread with 2, 4 nodes | `TypeOK`, `ExactWhenSerial`, `ListenerNodesLive`, `NoNullFollowed`, `EveryWalkEnds` |
| `session` | component with up to 3 inits and the agent, 2 faults of any kind, requests while the id is below 2, 1 update, messages of 2 pieces, buffer of 3, `FairSpec` | `TypeOK`, `ListenerHasSession`, `ReleasedWhenDown`, `ReceiptsOfThisSession`, `MessagesInOrder`, `UnwindComplete`, `DeinitReturns`, `CloseNoticed` |
| `actions` | 2 rows out of 14, 2 networks, 3 models (one unknown), 1 fault or crash, `FairSpec` | `TypeOK`, `SuccessIsConfigured`, `SuccessHasFlows`, `OthersUndisturbed`, `NoticedFailuresReported`, `ImplementsAgentContract`, `RowsAnswered` |
| `doc_blocked_till_callback` | 2 requests | violated: `BlockedTillCallback` |
| `doc_wait_result` | 1 request | violated: `WaitEndsByCallbackOrTimeout` |
| `doc_update_own` | 3 requests, 2 slots | violated: `UpdatesOwnTransaction` |
| `doc_status_later` | 1 request, `FairSpec` | violated: `StatusReturnedLater` |
| `doc_receipt_race` | 1 client thread, 2 requests | violated: `RegisteredBeforeWrite` |
| `doc_freed_once` | 1 client thread, 1 request | violated: `FreedOnce` |

Bounds. Two requests are enough for every interaction between a request and a
late or stale answer to another; a third is needed only for a request that takes
the slot of one that timed out while ids of the monitor lie between
(`doc_update_own`). With ten slots each request has its own (the two
request ids differ by at most five: a monitor takes two ids, two deletes take two); one slot makes them all share. Both replace the 5 of the code, where a
sixth id would be needed for the same meeting. The starting id is the
component's multiple of 1000. `TIMED_OUT` covers both ETIMEDOUT and other errors
of the wait, which the code treats alike.

`session`: three initialisations are a failed one that leaves its connection, one
that takes it over and one on a new connection; two faults let a second part fail
on what the first has left. Two pieces to a message and a buffer of three are the
smallest in which a buffer ends inside a message and holds more than one.
`actions`: with two rows the second meets what the first, or a crash in it, has
left; the rows include each type and command, both switch ports, a bridge of each
kind and the two ports with flows of their own; the networks are a bare device and
one with a backhaul and with llan0 in another bridge. The models are the one with
the Puma7 switch, a Broadcom one and an unknown one.

`NoLostWakeup` is stated for one client thread: with two, the single flag
`blocked` is shared between calls, an unblocked call clears it under a sleeping
one, and the property does not hold. `BlockedOnlyDuringCall` needs no such bound.
`ToldOwnStatus` is stated while no two requests share a slot; the sharing case
is what `doc_update_own` shows.

`Meetings`. Each passing run of the core lets threads meet in one of the three
windows and finds another actor waiting outside the other two, which keeps it small
enough; `doc_freed_once` has meetings in the slot, the other four `doc` runs of the
core all three. A client and the listen thread
suffice for each meeting, and there is no scheduling in the code that would exclude
one. The properties that claim nothing after a meeting say so: `ReceiptBeforeReply`
(generator, list), `ImplementsContract` (table), `ExactWhenSerial` (generator, list
of `ReceiptList`). All others hold with every meeting, which the theorems show: two
equal ids, lost receipts and entries freed twice give no wrong status, delete no
foreign row, leave no transaction of a failed call and make no second monitor. The
agent of `api_single` reports only SUCCESS; that no other status is told than the
one reported is `StatusCorrect` for both.

Fairness (`api_live`, `doc_status_later`): every thread that can run does run,
the server executes requests, the agent answers rows, and a timed wait times
out. The operating system schedules the threads, `pthread_cond_timedwait` has a
deadline, and server and agent are separate processes that run on. No fairness
is put on issuing a request, on a spurious wakeup or on a closed connection.
For `CompletedRowsDeleted` no write fails (a failed delete is not retried, so
the row would stay). `ReceiptList` is checked for safety only; that its loops
end is the invariant `EveryWalkEnds`.

In `session` the calls of the library, OvsAgentInit and the listen thread are weakly
fair: two threads the system schedules, one of which wakes from select every 100
ms. The server and the calls a component makes are not fair. In `actions` the
agent is: its thread is scheduled and its commands return. Neither faults nor
crashes, rows nor hostapd are fair.

Deadlock is checked in every run. When all requests have returned and no message
is left, the action `idle` (or `quiet`) is the only step.

Definitions marked "Mutant" are slips a programmer could make in the operation
next to them: with one of them in its place, the property it is listed for in
`PROJECT.json` is violated. No specification uses them.

## 4. Disagreements with comments and documentation

- `OvsAgentApi/OvsAgentApi.c:60`: "wait for both callbacks or timeout to occur".
  When the Feedback is handled before the caller waits, the wait's status stays
  FAILED and the call returns false (`doc_wait_result`).
- `include/OvsDataTypes.h:96`: a blocked call is blocked "till the callback(s)
  completes". A late completion of another request ends it
  (`doc_blocked_till_callback`).
- `include/OvsDataTypes.h:97`: an unblocked request gets its status "at a later
  time". The first one may get none: its Feedback can precede the monitor, whose
  initial rows are ignored (`doc_status_later`).
- `OvsAgentApi/transaction_interface.h:68`: update_transaction updates the entry
  of the rid. It updates the entry of the slot (`doc_update_own`).
- `OvsDbApi/OvsDbApi.c:190`: adding the receipt before the write avoids "any race
  condition issues". The list itself races with the listen thread
  (`doc_receipt_race`).
- `OvsAgentApi/transaction_manager.c:248`: remove_transaction_table "Removes the
  transaction ptr from the table" and returns it. Two threads that are in it at once
  both return the same transaction, and both free it: a call that times out while it
  is completed (`doc_freed_once`).

Two more were met, and no run shows them. `OvsAction/ovs_action.c:1035`: "setup bridge
related flows at bridge creation": the flows are set up for `parent_bridge`, which a
bridge row leaves empty, so none is added and the row is answered with FAILED.
`include/gateway_config.h:91`: "Network bridge removal command": a bridge row with it
creates the bridge.

Observed while modelling and kept as exceptions in the properties: a late failure
of ovs_agent_api_init leaves connection and thread (`ReleasedWhenDown`); Cosa_Init's
failure leaves the RDK logger (`UnwindComplete`); a listing of ports or a GUI
address that fails is overwritten by a later status, and so is a failed listing
for a parent that has the name of the backhaul link, which counts as a new bridge
once the switch driver has taken the link away (`NoticedFailuresReported`); a call
in block mode whose insert_transaction fails (OvsAgentApi.c:435) returns with
`blocked` still set (`BlockedOnlyDuringCall`);
a failed second lookup in setupAndRestoreEthSwitchCmds leaves the other switch port
out of its bridge, with status FAILED (`OthersUndisturbed` is stated for SUCCESS);
an agent whose connection was closed, or which was down, never answers the rows of
that time, nor those of an update that was cut or could not be parsed
(`RowsAnswered`).

## 5. Proofs

`OvsAgentApi_proofs` holds for every `TableSize`, `MaxRequests`, `Threads`,
`Modes`, `MaxOtherRows`, `Faults`, `Verdicts` and `StartingId` that satisfy the named
assumptions of `TransactionTable` and `OvsAgentApi`.

Every safety invariant, action property and refinement that a passing run checks
is stated by a theorem; TLC alone has the liveness properties.

- `TypeCorrect`: `Spec => []TypeOK`. `TypeOK` is not inductive:
  complete_callback uses `entry` as a transaction, and a type cannot say that
  complete_load has put one there. `TypeInv` adds that `entry` is not NULL at
  the program point "callback". The lemmas `FindKey`, `UpdateType`, `RemoveType`
  and `InsertType` give the types of the table operations; `FindKey` says that
  find_transaction_key's choice exists (well-founded order on the slots).
- `EntriesStayInPlace`: every entry is in slot `hash_code` of its id, its id is
  the one its request got from id_generate, and that request is past
  insert_transaction and has not failed.
- `FailedCallCorrect`: `Spec => []FailedCallLeavesNoTransaction`, from
  `EntriesStayInPlace`. The deletion clears the slot of the call's id without
  looking at the entry. By the invariant the call's entry can be nowhere else, so
  after the deletion it is nowhere; that another request's entry may be deleted in
  its stead is allowed by the property and happens.

The same constants are free in the four modules that extend `OvsAgentApi_proofs`.

`Waiting_proofs`:

- `BlockedCorrect`: `Spec => []BlockedOnlyDuringCall`, any number of threads. The
  property alone is not inductive: which exit a failed call took is told by its
  status, so `BlockedInv` adds that no call has a status before its write
  (`UnsetBeforeWrite`). The argument: the step with which a blocked call leaves
  its wait either clears the flag or has found it clear, no matter who set it.
- `WakeupCorrect`: with `Threads = 1`, `Spec => []NoLostWakeup`. `WakeupInv` adds
  that only one call is under way (`OneCaller`), which is what the bound on the
  threads gives. The hypothesis is needed; see section 3.

`Connection_proofs`:

- `MonitorCorrect`: `Spec => []OneFeedbackMonitor`. `MonitorKept` ties
  `monitorFeedback` to the library's list, also when the write of the request
  fails and the node is taken off again; `MonitorAskedOnce` says that the request
  is on its way, or was executed, at most once.
- `IdsUsedOnce` and `ReceiptCorrect`: `Spec => []ReceiptBeforeReply`. A reply takes
  the receipt with its id, so a receipt is safe only if no id is used twice. Ids are
  used once until two threads meet in id_generate; `ReceiptInv`, which holds until
  then, says that ids on the wire, in both directions, are different (`UsedOnce`),
  generated (`IdsIssued`), different from those still to be sent or being answered
  (`IdsApart`), and added to the list before they are sent (`RegisteredFirst`).
  `IdsIssued` has the argument: a thread between the load and the store is alone
  there, and the number it has is behind every other. `ReceiptCorrect` needs the list
  window too: what was added is in the list only as long as nobody has read a link
  that another thread then changed. `doc_receipt_race` shows that the premise is
  needed.

`Rows_proofs`:

- `ProvenanceCorrect`: the uuid of every request, message and table entry, and the
  one the listen thread works with, belongs to the row it is taken for; rows,
  generated ids and verdicts are never taken back (`StepGrows`).
- `OthersRowsCorrect`: `Spec => OthersRowsUntouched`, an action property, from
  `Provenance`: a row is deleted only by a delete request, whose uuid was matched
  in the table, and the table has only uuids of the component's own rows. This
  holds with shared slots too.
- `StatusCorrect`: `Spec => []ToldOwnStatus`. While no slots are shared, an entry's
  uuid is that of its own configuration's row (`TableKnowsRow`), and
  complete_transaction, between finding a slot and removing its entry, still has
  the right one (`CompletesOwn`). Ids are only added, so states without sharing
  come from states without sharing, and the invariant may be conditional on it.

`Contract_proofs`: `ContractCorrect`, `Spec => ImplementsContract`, until two threads
meet in a slot. `Windows` says what it is worth that they have not: a thread between
the test of a slot and its store is alone there (`AloneInSlot`), so what it has seen
or loaded is what the slot still holds (`Sees`). `HeldInv`: what is held was stored by
its call; what was stored and is held no more was freed exactly once
(`FreedWhenDropped`), and what is held was not; complete_transaction holds nothing
the table still has; only a closed transaction was reported. A store maps to Open,
complete_callback to Complete, or to Abandon when there is no callback; the clearing
of a slot by an eviction or a deletion maps to Abandon, the rest to stuttering. There
is no step for an entry that is overwritten: with nobody else between test and store
it does not happen.

`Session_proofs` holds for every `MaxFaults`, `MaxInits`, `MaxId`, `MaxUpdates`,
`MsgLen`, `BufLen`, set of faults and program. The inductive invariant `SInv`
(`SessionInvariant`) has five parts: types of the counters (`Types`); what exists
at each point of a library call (`Phases`); the listen thread runs exactly while
there is a descriptor, and without a session that descriptor is an abandoned one
(`Threads`); receipts exist only between an initialisation and the join, with ids
up to `id` and of this connection (`Lists`); how far OvsAgentInit is tells what the
agent holds (`AgentPoints`). `Lists` is what makes the reset of the id generator
harmless: whenever ovsdb_init runs the lists are empty, also when it takes over a
connection. From `SInv` follow `ListenerCorrect`, `ReleaseCorrect`,
`ReceiptsCorrect` and `UnwindCorrect`, each `Spec => []P` for the property of the
run. `SessionTypeCorrect` is `Spec => []TypeOK`.

`OrderCorrect`: `Spec => []MessagesInOrder`. `StreamInv` looks at the pieces of
messages in the buffer and on the wire: they are in order, those of the buffer
before those of the wire, and all behind what was dealt with (`InOrder`,
`Numbered`); outside the parser the buffer is empty (`BufferDone`); and while no
message was cut or malformed every piece stands among all the pieces of its message
(`Aligned`), so that what ovsdb_parse_msg takes off is a whole message, and every
message was dealt with or is still to come as a whole (`NoneLost`).

`OvsAction_proofs` holds for all rows, models, faults and bounds, and every network
whose ports are in bridges that exist (`NetsAssumption`; `HostapdAssumption` says
that br106 is one of the names).

- `AgentImplementsContract`: `Spec => ImplementsAgentContract`. `RowInv` says that
  the row in work has been counted as handled (`handled # 0` at every point inside
  a row) and types the tables. `WorkStaysInRow` shows that none of the fourteen
  working steps leaves the row or touches the tables, `RowAnswered` that a Feedback
  adds exactly the row in work to the answered ones; `RowStep` then maps each step:
  an insert to Insert, the Feedback to Answer, a lost Feedback, a crash inside a
  row and a start to PassOver, all others to stuttering.
- `ActionTypeCorrect`: types, and no port outside a bridge that exists.
  `ActionTypeInv` adds what steps rely on from earlier ones: a row that comes to
  the steps on bridges names a parent, the eth switch works on one of its two
  ports, and the bridge to be restored is there.
- `NoticedCorrect`: `Spec => []NoticedFailuresReported`. `FailureInv` says for
  each kind of failure at which points it can have happened and what the status is
  by then: a failed lookup leads straight to the answer, a failed list stays
  FAILED unless the parent is new.
- `UndisturbedCorrect`: `Spec => []OthersUndisturbed`. `PortInv` compares the
  network with the one before the row, point by point: the only port that may be
  away is the other switch port, whose bridge is then in `restoreBridge`.
- `ConfiguredCorrect`: `Spec => []SuccessIsConfigured`. At the answer the property
  asks for the result of up to six steps, so `ConfigInv` (`GoodAt`) says for each
  point how far a row without a failed command has come: which rows get there
  (`ShapeAt`); until the bridge is configured only hostapd has added a bridge, and
  only the row and the eth switch have made links (`FrameAt`), so that nothing has
  taken the name of the bridge asked for in the meantime (`ParentIsFree`); the port
  has lost one obstacle after the other (`OnTheWay`); it is in its bridge
  (`Placed`), or has left it (`Gone`), and the steps on flows do not move it. There
  is one lemma for each action, from the exact effect of its commands
  (`AddBridgeExact` to `FlowsExact`). `HostapdGood` shows that br106 appearing
  between two steps disturbs none of this; what hostapd can undo, the deletion of
  br106, is told by `remade`.
- `FlowsCorrect`: `Spec => []SuccessHasFlows`. `FlowInv` follows the flows from the
  step that sets them up to the answer. It needs `ConfigInv`: `ovs-ofctl add-flow`
  only works on a bridge that is there, and whether a bridge counts as new is
  decided by a look at the network several commands after the row was taken
  (`BeforeFlows`); for VLAN and GRE rows too, whose links are made before it. `FlowsSet` says that each group of flows leaves the others alone.

`ReceiptList_proofs` holds for any set of threads, any finite set of nodes and any
budgets.
`ListenerNodesCorrect`: `Spec => []ListenerNodesLive`. The list races, nodes can be
lost and a thread can write through a pointer to a freed node, and yet the
listener's nodes are allocated, between any two of its loads. `ListInv`: live memory points to live nodes only
(`LinksLive`), to each from one place at most (`OneLink`), and to none that is
still to be linked (`PendingUnlinked`); when the listener frees a node, the one
pointer to it has been redirected (`Scanner`), so none is left dangling.
`ReceiptTypeCorrect`, the types, is a part of it. `NoNullCorrect`:
`Spec => []NoNullFollowed`. That an adder has a node to start from and to link to is
`Points`; that the listener has one to compare, to go on from and to free is
`Scanner`; and that msg_list, loaded again after its test, is not NULL is in
`Scanner` too: only the listen thread takes nodes off, so the head it found stays.

`WalksEndCorrect`: `Spec => []EveryWalkEnds`, for racing threads too. A ring could
close only if a thread linked its node behind a node that already leads to it.
`RingInv` excludes this with two witnesses. `Apart(B, O)`: around the new node of
each thread that has not linked yet there is a set `B[a]` that no pointer enters
from outside and no pointer leaves from allocated memory, and into which only `a`
and threads that began earlier (`O[a]`) hold a pointer; so what `a` writes to is
not behind its own node. `Ranked(r)`: pointers lead upwards in `r`, freed nodes
and what the listener is about to store included. Linking a node raises the
ranks in its `B[a]`, which nothing outside was compared with.

`SerialListCorrect`: `Spec => []ExactWhenSerial`. `SerialInv` holds as long as no
two threads have met in a window: one thread is in each (`OneBusy`), ids are
fresh and nobody else has them (`IdsFresh`, `IdsOnce`), the nodes of the chain are
those of the receipts waited for (`Registered`), every linked node but the first
stands behind another (`Connected`), and an adder or the listener is where it
thinks it is (`AdderAt`, `ListenerAt`). With the ranks of `RingInv` the linked nodes
are then one chain from the head: `ReachableIsLinked` turns the walk of
`Reachable` into the set of linked nodes. A search may be under way while nodes are
added: the node it looks for stays ahead of it (`Searched`). This is what entitles
`OvsAgentApi` to treat the receipt list as a sequence, and its search as one step,
while no two threads have met.

Both theorems speak of a walk, which the module defines as a recursive function.
The provers cannot apply the library's theorems on induction and recursive
definitions to it; `WalkExists` constructs the function from its initial pieces and
`WalkEquation` concludes that it satisfies its equation, and inductions over its
steps go by the least counterexample (`LeastNumber`). `WalkEnds` counts: a walk of
more steps than there are nodes would pass one twice, and the ranks forbid that.

`StreamInv`, `ListInv`, `RingInv`, `SerialInv`, `ConfigInv` and `FlowInv`, the ones
with the most parts, were checked with TLC on the instances of section 3 before
they were proved (`RingInv` with `B`, `O` and `r` as history variables), the last
two also with every row over nine names on 120 networks and two models.

Only model-checked: liveness (`EveryCallReturns`, `CompletedRowsDeleted`,
`DeinitReturns`, `CloseNoticed`, `RowsAnswered`). Fairness and ENABLED are outside
the prover.

## 6. Not modelled

- The conversion of columns between JSON and structures (`json_parser/`,
  table_parser.c): pure functions over text, without state.
- Ownership of memory: the configuration a client passes, JSON values that are
  never released, malloc failures.
- ovsdb_monitor_cancel and OvsAgentDeinit: no caller, or behind an endless loop.
- ovs_agent_api_get_config, ovs_action_feedback, the log's levels and formatting,
  the message bus and syscfg behind their wrappers, the emulator, tests, mocks,
  systemd units and scripts: no state the properties speak about. A restart by
  systemd is the step `ovs_action_init` after `crash`.
- Two client threads in `Session`: a component starts and ends its session from
  one thread.

## 7. Open

1. Abstract specification of the whole service (a request gets one verdict), with
   the core as its implementation where slots are not shared.
2. Who owns the configuration a client passes while another thread evicts its
   transaction: needs the memory of the table's entries in `OvsAgentApi`.
