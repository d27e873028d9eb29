---------------------------- MODULE ReceiptList ----------------------------
(***************************************************************************)
(* The receipt list of OvsDbApi/receipt_list.c and the id generator, one   *)
(* access to a shared pointer or to the counter per step.  OvsAgentApi     *)
(* takes the list as a sequence of receipts; here are the pointers.  The   *)
(* rid of a node does not change while the node is linked.                 *)
(*                                                                         *)
(* Client threads register receipts (ovsdb_write).  The listen thread      *)
(* looks up each reply and unlinks its node after the callback; it also    *)
(* registers receipts, from within a callback (ovsdb_monitor) and between  *)
(* two replies (ovsdb_delete).  There is no lock.                          *)
(*                                                                         *)
(* The heap: malloc returns any node that is not allocated.  A freed node  *)
(* keeps its next pointer until it is allocated again (the allocator       *)
(* overwrites only its first words), which is what a thread sees that      *)
(* still holds a pointer to it.                                            *)
(***************************************************************************)
EXTENDS Integers, Sequences, FiniteSets

CONSTANTS
    Threads,        \* client threads
    Listener,       \* the thread of ovsdb_listen
    Node,           \* bound: addresses malloc may return, finitely many
    Nil,            \* NULL
    Budget          \* bound: how many requests each thread issues

Actor == Threads \cup {Listener}

ASSUME ListenerAssumption == Listener \notin Threads
ASSUME NilAssumption      == Nil \notin Node
ASSUME NodeAssumption     == IsFiniteSet(Node)
ASSUME BudgetAssumption   == Budget \in [Actor -> Nat]

VARIABLES
    head,       \* msg_list
    next,       \* the member next of each node
    ridOf,      \* the member rid of each node
    live,       \* allocated nodes
    id,         \* the counter of id_generate
    pc,         \* where a thread is in id_generate, receipt_list_add or send
    rid,        \* its request id
    new,        \* new_node
    temp,       \* temp
    left,       \* requests it may still issue
    lpc,        \* where the listen thread is in receipt_list_process
    reply,      \* rid of the reply
    curr,       \* curr, or Nil as long as the node compared is the head
    found,      \* the node whose rid is compared, then the node found
    after,      \* found->next, loaded to be stored
    wire,       \* requests sent, in the order of their replies
    overlapped  \* history: a thread has entered a window with another in it

adderVars == <<pc, rid, new, temp, left>>
heapVars  == <<head, next, ridOf, live>>
scanVars  == <<lpc, reply, curr, found, after>>
vars == <<adderVars, heapVars, scanVars, id, wire, overlapped>>

AddPoint == {"idle", "store_id", "add", "first", "walk", "link", "send"}

ListPoint == {"listen", "head", "advance", "scan", "callback", "free", "unlink"}

TypeOK ==
    /\ head \in Node \cup {Nil}
    /\ next \in [Node -> Node \cup {Nil}]
    /\ ridOf \in [Node -> Nat]
    /\ live \subseteq Node
    /\ id \in Nat
    /\ pc \in [Actor -> AddPoint]
    /\ rid \in [Actor -> Nat]
    /\ new \in [Actor -> Node \cup {Nil}]
    /\ temp \in [Actor -> Node \cup {Nil}]
    /\ left \in [Actor -> Nat]
    /\ lpc \in ListPoint
    /\ reply \in Nat
    /\ {curr, found, after} \subseteq Node \cup {Nil}
    /\ wire \in Seq(Nat)
    /\ overlapped \in BOOLEAN

Init ==
    /\ head = Nil
    /\ next = [n \in Node |-> Nil]
    /\ ridOf = [n \in Node |-> 0]
    /\ live = {}
    /\ id = 0
    /\ pc = [a \in Actor |-> "idle"]
    /\ rid = [a \in Actor |-> 0]
    /\ new = [a \in Actor |-> Nil]
    /\ temp = [a \in Actor |-> Nil]
    /\ left = Budget
    /\ lpc = "listen"
    /\ reply = 0
    /\ curr = Nil
    /\ found = Nil
    /\ after = Nil
    /\ wire = <<>>
    /\ overlapped = FALSE

\* The windows of OvsAgentApi.  A thread is between the load and the store of
\* id_generate ...
Numbering(a) == pc[a] = "store_id"

\* ... or between its first look at a link of the list and writing one.
Linking(a) == \/ pc[a] \in {"first", "walk", "link"}
              \/ a = Listener /\ lpc = "unlink"

\* a enters the window Inside; nothing in the code looks at who is in it.
Enter(Inside(_), a) ==
    overlapped' = (overlapped \/ \E b \in Actor \ {a} : Inside(b))

Goto(a, point) == pc' = [pc EXCEPT ![a] = point]

----------------------------------------------------------------------------
(* id_generate and receipt_list_add, for thread a *)

\* ++id is a load and a store.  The listen thread calls it between two replies
\* or inside a callback.
id_load(a) ==
    /\ pc[a] = "idle"
    /\ a = Listener => lpc \in {"listen", "callback"}
    /\ left[a] > 0
    /\ left' = [left EXCEPT ![a] = @ - 1]
    /\ rid' = [rid EXCEPT ![a] = id]
    /\ Goto(a, "store_id")
    /\ Enter(Numbering, a)
    /\ UNCHANGED <<new, temp, heapVars, scanVars, id, wire>>

\* Mutant: the counter runs down, and the unsigned id wraps below zero.
id_store_down(a) ==
    /\ pc[a] = "store_id"
    /\ id' = rid[a] - 1
    /\ rid' = [rid EXCEPT ![a] = @ - 1]
    /\ Goto(a, "add")
    /\ UNCHANGED <<new, temp, left, heapVars, scanVars, wire, overlapped>>

id_store(a) ==
    /\ pc[a] = "store_id"
    /\ id' = rid[a] + 1
    /\ rid' = [rid EXCEPT ![a] = @ + 1]
    /\ Goto(a, "add")
    /\ UNCHANGED <<new, temp, left, heapVars, scanVars, wire, overlapped>>

\* Mutant: the member next of a new node is not cleared.
add_node_uncleared(a) ==
    /\ pc[a] = "add"
    /\ \E n \in Node \ live :
         /\ live' = live \cup {n}
         /\ ridOf' = [ridOf EXCEPT ![n] = rid[a]]
         /\ new' = [new EXCEPT ![a] = n]
    /\ temp' = [temp EXCEPT ![a] = head]
    /\ Goto(a, IF head = Nil THEN "first" ELSE "walk")
    /\ Enter(Linking, a)
    /\ UNCHANGED <<rid, left, head, next, scanVars, id, wire>>

\* Allocates and fills the node, and looks at msg_list.
add_node(a) ==
    /\ pc[a] = "add"
    /\ \E n \in Node \ live :
         /\ live' = live \cup {n}
         /\ next' = [next EXCEPT ![n] = Nil]
         /\ ridOf' = [ridOf EXCEPT ![n] = rid[a]]
         /\ new' = [new EXCEPT ![a] = n]
    /\ temp' = [temp EXCEPT ![a] = head]
    /\ Goto(a, IF head = Nil THEN "first" ELSE "walk")
    /\ Enter(Linking, a)
    /\ UNCHANGED <<rid, left, head, scanVars, id, wire>>

add_first(a) ==
    /\ pc[a] = "first"
    /\ head' = new[a]
    /\ Goto(a, "send")
    /\ UNCHANGED <<rid, new, temp, left, next, ridOf, live, scanVars, id, wire,
                   overlapped>>

\* Mutant: the new node is linked behind the head, and the rest is cut off.
add_walk_stops_at_head(a) ==
    /\ pc[a] = "walk"
    /\ Goto(a, "link")
    /\ UNCHANGED <<rid, new, temp, left, heapVars, scanVars, id, wire, overlapped>>

\* Mutant: the walk ends behind the last node instead of at it.
add_walk_past_end(a) ==
    /\ pc[a] = "walk"
    /\ temp' = [temp EXCEPT ![a] = next[@]]
    /\ IF next[temp[a]] = Nil THEN Goto(a, "link") ELSE UNCHANGED pc
    /\ UNCHANGED <<rid, new, left, heapVars, scanVars, id, wire, overlapped>>

add_walk(a) ==
    /\ pc[a] = "walk"
    /\ IF next[temp[a]] = Nil
       THEN Goto(a, "link") /\ UNCHANGED temp
       ELSE temp' = [temp EXCEPT ![a] = next[@]] /\ UNCHANGED pc
    /\ UNCHANGED <<rid, new, left, heapVars, scanVars, id, wire, overlapped>>

add_link(a) ==
    /\ pc[a] = "link"
    /\ next' = [next EXCEPT ![temp[a]] = new[a]]
    /\ Goto(a, "send")
    /\ UNCHANGED <<rid, new, temp, left, head, ridOf, live, scanVars, id, wire,
                   overlapped>>

\* ovsdb_socket_write; the server answers in order.
send(a) ==
    /\ pc[a] = "send"
    /\ wire' = Append(wire, rid[a])
    /\ Goto(a, "idle")
    /\ rid' = [rid EXCEPT ![a] = 0]
    /\ new' = [new EXCEPT ![a] = Nil]
    /\ temp' = [temp EXCEPT ![a] = Nil]
    /\ UNCHANGED <<left, heapVars, scanVars, id, overlapped>>

----------------------------------------------------------------------------
(* receipt_list_process *)

Return ==
    /\ lpc' = "listen"
    /\ reply' = 0
    /\ curr' = Nil
    /\ found' = Nil
    /\ after' = Nil

\* The reply to a request arrives; msg_list is loaded to be compared first.
process ==
    /\ lpc = "listen"
    /\ pc[Listener] = "idle"
    /\ wire # <<>>
    /\ wire' = Tail(wire)
    /\ IF head = Nil
       THEN Return
       ELSE /\ lpc' = "head"
            /\ reply' = Head(wire)
            /\ found' = head
            /\ UNCHANGED <<curr, after>>
    /\ UNCHANGED <<adderVars, heapVars, id, overlapped>>

\* The head is not the one: msg_list is loaded again.
compare_head ==
    /\ lpc = "head"
    /\ IF ridOf[found] = reply
       THEN lpc' = "callback" /\ UNCHANGED <<curr, found>>
       ELSE lpc' = "advance" /\ curr' = head /\ found' = Nil
    /\ UNCHANGED <<reply, after, adderVars, heapVars, id, wire, overlapped>>

\* next = curr->next.
advance ==
    /\ lpc = "advance"
    /\ found' = next[curr]
    /\ lpc' = "scan"
    /\ UNCHANGED <<reply, curr, after, adderVars, heapVars, id, wire, overlapped>>

\* The loop over the rest of the list; next is dead after curr = curr->next.
scan ==
    /\ lpc = "scan"
    /\ IF found = Nil
       THEN Return
       ELSE /\ IF ridOf[found] = reply
               THEN lpc' = "callback" /\ UNCHANGED <<curr, found>>
               ELSE lpc' = "advance" /\ curr' = next[curr] /\ found' = Nil
            /\ UNCHANGED <<reply, after>>
    /\ UNCHANGED <<adderVars, heapVars, id, wire, overlapped>>

\* The callback has returned: msg_list is loaded once more if the node was the
\* head, ...
callback_return ==
    /\ lpc = "callback"
    /\ pc[Listener] = "idle"
    /\ found' = IF curr = Nil THEN head ELSE found
    /\ lpc' = "free"
    /\ UNCHANGED <<reply, curr, after, adderVars, heapVars, id, wire, overlapped>>

\* ... the next pointer of the node is loaded ...
unlink_load ==
    /\ lpc = "free"
    /\ after' = next[found]
    /\ lpc' = "unlink"
    /\ Enter(Linking, Listener)
    /\ UNCHANGED <<reply, curr, found, adderVars, heapVars, id, wire>>

\* Mutant: the node at the head is freed without being unlinked.
unlink_store_keeps_head ==
    /\ lpc = "unlink"
    /\ next' = IF curr = Nil THEN next ELSE [next EXCEPT ![curr] = after]
    /\ live' = live \ {found}
    /\ ridOf' = [ridOf EXCEPT ![found] = 0]
    /\ Return
    /\ UNCHANGED <<adderVars, head, id, wire, overlapped>>

\* ... stored in msg_list or curr->next, and the node freed.
unlink_store ==
    /\ lpc = "unlink"
    /\ IF curr = Nil
       THEN head' = after /\ UNCHANGED next
       ELSE next' = [next EXCEPT ![curr] = after] /\ UNCHANGED head
    /\ live' = live \ {found}
    /\ ridOf' = [ridOf EXCEPT ![found] = 0]
    /\ Return
    /\ UNCHANGED <<adderVars, id, wire, overlapped>>

----------------------------------------------------------------------------

adder(a) == id_store(a) \/ add_node(a) \/ add_first(a) \/ add_walk(a)
                \/ add_link(a) \/ send(a)

listener == process \/ compare_head \/ advance \/ scan \/ callback_return
                \/ unlink_load \/ unlink_store

\* Every request has been issued and every reply looked up.
quiet ==
    /\ \A a \in Actor : pc[a] = "idle" /\ left[a] = 0
    /\ lpc = "listen"
    /\ wire = <<>>
    /\ UNCHANGED vars

Next == (\E a \in Actor : id_load(a) \/ adder(a)) \/ listener \/ quiet

Spec == Init /\ [][Next]_vars

----------------------------------------------------------------------------
(* Properties *)

\* The nodes that a walk from node n meets, one after the other.
Walk(n) ==
    LET w[i \in 0 .. Cardinality(Node)] ==
            IF i = 0 THEN n
            ELSE IF w[i - 1] = Nil THEN Nil ELSE next[w[i - 1]]
    IN  w

Reachable == {Walk(head)[i] : i \in 0 .. Cardinality(Node)} \ {Nil}

\* Every request on the wire is in the list, so that receipt_list_process finds
\* it when the reply comes.
ReplyFindsReceipt ==
    \A i \in 1 .. Len(wire) : \E n \in Reachable : ridOf[n] = wire[i]

\* As long as no two threads have met in the generator, or between a look at a
\* link of the list and the write of one, the list is the sequence OvsAgentApi
\* takes it for: every request on the wire has its receipt, a search never ends
\* without it, though receipts are added while it goes on, its own node is
\* unlinked after a callback that registered further requests, no two requests
\* share an id, and no node leaks.
ExactWhenSerial ==
    ~overlapped =>
        /\ ReplyFindsReceipt
        /\ lpc = "scan" => found # Nil
        /\ \A i, j \in 1 .. Len(wire) : wire[i] = wire[j] => i = j
        /\ lpc = "unlink" => ridOf[found] = reply
        /\ (\A a \in Actor : ~Linking(a)) => live = Reachable

\* receipt_list_process never holds a freed node, whatever the client threads
\* do to the list meanwhile: it is the only one to free any.
ListenerNodesLive == {curr, found, after} \subseteq live \cup {Nil}

\* No step follows a null pointer, whatever the threads do to each other's
\* lists: a walk and a link have a node to start from, the search a node to
\* compare or to go on from, and msg_list has not become NULL since
\* receipt_list_process tested it.
NoNullFollowed ==
    /\ \A a \in Actor : pc[a] \in {"walk", "link"} => temp[a] # Nil
    /\ lpc \in {"advance", "scan"} => curr # Nil
    /\ lpc \in {"head", "callback", "free", "unlink"} => found # Nil
    /\ lpc \in {"head", "callback"} /\ curr = Nil => head # Nil

\* The races lose receipts but never close the list to a ring: the loop of
\* receipt_list_add, even from a node that has been freed, and the one of
\* receipt_list_process come to an end.
EveryWalkEnds ==
    \A n \in {head} \cup {temp[a] : a \in Actor} :
        Walk(n)[Cardinality(Node)] = Nil

\* "Add to the receipt list before writing to socket to avoid any race
\* condition issues": what the comment in ovsdb_write relies on, with the
\* listen thread and one client thread.
RegisteredBeforeWrite == ReplyFindsReceipt
=============================================================================
