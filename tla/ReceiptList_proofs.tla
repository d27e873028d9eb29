-------------------------- MODULE ReceiptList_proofs -------------------------
(***************************************************************************)
(* The receipt list without a lock, for any number of client threads,      *)
(* nodes and requests.  receipt_list_process never uses freed memory: live *)
(* memory leads to live nodes only, and to each from one place at most, so *)
(* that freeing the node whose one pointer has been redirected leaves none *)
(* that dangles.  No race closes the list to a ring or makes a step follow *)
(* a null pointer.  And as long as no two threads have met in a window it  *)
(* is one chain, exactly the receipts that are waited for.                 *)
(***************************************************************************)
EXTENDS ReceiptList, FiniteSetTheorems, WellFoundedInduction, TLAPS

\* The node of a is allocated and not yet linked.
Pending(a) == pc[a] \in {"first", "walk", "link"}

\* A thread that links a node has one, and a place to link it.
Points ==
    /\ \A a \in Actor : Pending(a) => new[a] \in live
    /\ \A a \in Actor : pc[a] \in {"walk", "link"} => temp[a] \in Node

\* What live memory points to is live; temp[a], and a freed node, may not be.
LinksLive ==
    /\ head \in live \cup {Nil}
    /\ \A x \in live : next[x] \in live \cup {Nil}

\* At most one pointer in live memory leads to a node.
OneLink ==
    /\ \A x, y \in live : next[x] = next[y] /\ next[x] # Nil => x = y
    /\ \A x \in live : next[x] # Nil => next[x] # head

\* None leads to a node still to be linked, and each thread has its own.
PendingUnlinked ==
    \A a \in Actor : Pending(a) =>
        /\ head # new[a]
        /\ \A x \in live : next[x] # new[a]
        /\ \A b \in Actor : Pending(b) /\ new[b] = new[a] => a = b

\* A live node that is not to be linked, and to which at most x leads.
Held(n, x) ==
    /\ n \in live
    /\ \A a \in Actor : Pending(a) => new[a] # n
    /\ \A y \in live : next[y] = n => y = x

\* The nodes in the hands of receipt_list_process.
Scanner ==
    /\ lpc = "listen" => curr = Nil
    /\ lpc = "head" => curr = Nil /\ found \in live /\ head # Nil
    /\ lpc \in {"advance", "scan"} =>
         /\ curr # Nil
         /\ found # Nil => next[curr] # Nil
    /\ lpc # "listen" /\ curr # Nil =>
         /\ curr \in live /\ next[curr] # curr
         /\ \A a \in Actor : Pending(a) => new[a] # curr
         /\ found # Nil => /\ Held(found, curr)
                           /\ head # found /\ next[found] # found /\ found # curr
    /\ lpc \in {"callback", "free", "unlink"} => found \in live
    /\ lpc = "callback" /\ curr = Nil => head # Nil
    /\ lpc \in {"free", "unlink"} /\ curr = Nil => Held(found, Nil)
    /\ lpc = "unlink" /\ after # Nil =>
         Held(after, found) /\ head # after /\ after # found

ListInv == TypeOK /\ Points /\ LinksLive /\ OneLink /\ PendingUnlinked /\ Scanner

\* Nothing is allocated at first.
LEMMA InitList == Init => ListInv
<1> SUFFICES ASSUME Init PROVE ListInv
  OBVIOUS
<1>1. TypeOK
  <2>1. overlapped \in BOOLEAN
    BY Zenon DEF Init
  <2> QED
    BY <2>1, BudgetAssumption DEF Init, TypeOK, AddPoint, ListPoint
<1>2. Points /\ LinksLive /\ OneLink /\ PendingUnlinked
  BY DEF Init, Points, LinksLive, OneLink, PendingUnlinked, Pending
<1>3. Scanner
  BY DEF Init, Scanner
<1> QED
  BY <1>1, <1>2, <1>3 DEF ListInv

\* Types, for the steps of a thread that issues a request.
LEMMA AdderType ==
    ASSUME ListInv, NEW a \in Actor, id_load(a) \/ adder(a)
    PROVE  TypeOK'
<1> USE DEF adderVars, heapVars, scanVars, Goto, AddPoint
<1>1. CASE id_load(a)
  <2>1. overlapped' \in BOOLEAN
    BY <1>1, Zenon DEF id_load, Enter
  <2>2. left' \in [Actor -> Nat]
    BY <1>1 DEF id_load, ListInv, TypeOK
  <2> QED
    BY <1>1, <2>1, <2>2 DEF id_load, ListInv, TypeOK
<1>2. CASE id_store(a)
  BY <1>2 DEF id_store, ListInv, TypeOK
<1>3. CASE add_node(a)
  <2>1. overlapped' \in BOOLEAN
    BY <1>3, Zenon DEF add_node, Enter
  <2> QED
    BY <1>3, <2>1 DEF add_node, ListInv, TypeOK
<1>4. CASE add_first(a)
  BY <1>4 DEF add_first, ListInv, TypeOK
<1>5. CASE add_walk(a)
  <2>1. temp[a] \in Node
    BY <1>5 DEF add_walk, ListInv, Points
  <2> QED
    BY <1>5, <2>1 DEF add_walk, ListInv, TypeOK
<1>6. CASE add_link(a)
  BY <1>6 DEF add_link, ListInv, TypeOK
<1>7. CASE send(a)
  BY <1>7 DEF send, ListInv, TypeOK
<1> QED
  BY <1>1, <1>2, <1>3, <1>4, <1>5, <1>6, <1>7 DEF adder

\* Types, for receipt_list_process.
LEMMA ListenerTypes == ASSUME ListInv, listener PROVE TypeOK'
<1> USE DEF adderVars, heapVars, scanVars, Return, ListPoint
<1>1. CASE process
  <2>1. Head(wire) \in Nat /\ wire' \in Seq(Nat)
    BY <1>1 DEF process, ListInv, TypeOK
  <2> QED
    BY <1>1, <2>1 DEF process, ListInv, TypeOK
<1>2. CASE compare_head \/ advance \/ scan
  <2>1. lpc \in {"advance", "scan"} => curr \in Node
    BY DEF ListInv, TypeOK, Scanner
  <2> QED
    BY <1>2, <2>1 DEF compare_head, advance, scan, ListInv, TypeOK
<1>3. CASE callback_return
  BY <1>3 DEF callback_return, ListInv, TypeOK
<1>5. CASE unlink_load
  <2>1. overlapped' \in BOOLEAN
    BY <1>5, Zenon DEF unlink_load, Enter
  <2>2. found \in Node
    BY <1>5 DEF unlink_load, ListInv, TypeOK, Scanner
  <2> QED
    BY <1>5, <2>1, <2>2 DEF unlink_load, ListInv, TypeOK
<1>4. CASE unlink_store
  BY <1>4 DEF unlink_store, ListInv, TypeOK
<1> QED
  BY <1>1, <1>2, <1>3, <1>4, <1>5 DEF listener

Shape == Points /\ LinksLive /\ OneLink /\ PendingUnlinked /\ Scanner

\* A step that leaves the heap alone and gives no thread a node.
LEMMA SameHeap ==
    ASSUME ListInv, UNCHANGED heapVars, UNCHANGED scanVars,
           \A b \in Actor : Pending(b)' => Pending(b) /\ new'[b] = new[b],
           \A b \in Actor : pc'[b] \in {"walk", "link"} => temp'[b] \in Node
    PROVE  Shape'
<1> USE DEF heapVars, scanVars, ListInv
<1>1. Points'
  BY DEF Points
<1>2. LinksLive' /\ OneLink'
  BY DEF LinksLive, OneLink
<1>3. PendingUnlinked'
  BY DEF PendingUnlinked
<1>4. Scanner'
  BY DEF Scanner, Held
<1> QED
  BY <1>1, <1>2, <1>3, <1>4 DEF Shape

\* malloc gives a thread a node that nothing live points to.
LEMMA AddNodeShape ==
    ASSUME ListInv, NEW a \in Actor, add_node(a)
    PROVE  Shape'
<1> USE DEF scanVars, ListInv
<1>1. PICK n \in Node \ live :
         /\ live' = live \cup {n}
         /\ next' = [next EXCEPT ![n] = Nil]
         /\ new' = [new EXCEPT ![a] = n]
  BY DEF add_node
<1>2. /\ UNCHANGED scanVars /\ head' = head
      /\ temp' = [temp EXCEPT ![a] = head]
      /\ pc' = [pc EXCEPT ![a] = IF head = Nil THEN "first" ELSE "walk"]
      /\ ~Pending(a)
  BY DEF add_node, Goto, Pending
<1>3. /\ next'[n] = Nil /\ new'[a] = n /\ n # Nil
      /\ \A x \in live : next'[x] = next[x] /\ x # n
      /\ \A b \in Actor \ {a} : new'[b] = new[b] /\ (Pending(b)' <=> Pending(b))
                                /\ temp'[b] = temp[b] /\ pc'[b] = pc[b]
  BY <1>1, <1>2, NilAssumption DEF TypeOK, Pending
<1>4. /\ \A b \in Actor \ {a} : Pending(b) => new[b] \in live /\ new[b] # n
      /\ head # n /\ \A x \in live : next[x] # n
  BY <1>1, <1>3 DEF Points, LinksLive
<1>5. Points'
  <2>1. pc'[a] = "walk" => temp'[a] \in Node
    BY <1>2 DEF TypeOK
  <2>2. pc'[a] \in {"first", "walk"}
    BY <1>2 DEF TypeOK
  <2> QED
    BY <1>1, <1>3, <1>4, <2>1, <2>2 DEF Points
<1>6. LinksLive'
  BY <1>1, <1>2, <1>3 DEF LinksLive
<1>7. OneLink'
  BY <1>1, <1>2, <1>3 DEF OneLink
<1>8. PendingUnlinked'
  <2>1. ASSUME NEW b \in Actor, Pending(b)'
        PROVE  head # new'[b] /\ \A x \in live' : next'[x] # new'[b]
    <3>1. CASE b = a
      BY <3>1, <1>1, <1>3, <1>4, NilAssumption
    <3>2. CASE b # a
      <4>1. Pending(b) /\ new'[b] = new[b] /\ new[b] # Nil
        BY <2>1, <3>2, <1>3, <1>4, NilAssumption DEF TypeOK
      <4>2. head # new[b] /\ \A x \in live : next[x] # new[b]
        BY <4>1 DEF PendingUnlinked
      <4> QED
        BY <4>1, <4>2, <1>1, <1>3
    <3> QED
      BY <3>1, <3>2
  <2>2. ASSUME NEW b \in Actor, NEW c \in Actor, Pending(b)', Pending(c)', new'[b] = new'[c]
        PROVE  b = c
    <3>1. CASE b = a \/ c = a
      BY <2>2, <3>1, <1>3, <1>4
    <3>2. CASE b # a /\ c # a
      BY <2>2, <3>2, <1>3 DEF PendingUnlinked
    <3> QED
      BY <3>1, <3>2
  <2> QED
    BY <2>1, <2>2, <1>2 DEF PendingUnlinked
<1>9. Scanner'
  <2>1. ASSUME NEW m, NEW x, Held(m, x)
        PROVE  /\ \A b \in Actor : Pending(b)' => new'[b] # m
               /\ \A y \in live' : next'[y] = m => y = x
               /\ m \in live'
    <3>1. m \in live /\ m # n /\ m # Nil
      BY <2>1, <1>1, NilAssumption DEF Held, TypeOK
    <3>2. \A y \in live : next'[y] = m => y = x
      BY <2>1, <1>3 DEF Held
    <3>3. \A b \in Actor : Pending(b)' => new'[b] # m
      BY <2>1, <3>1, <1>3 DEF Held
    <3> QED
      BY <3>1, <3>2, <3>3, <1>1, <1>3
  <2>2. ASSUME NEW m \in live, \A b \in Actor : Pending(b) => new[b] # m
        PROVE  \A b \in Actor : Pending(b)' => new'[b] # m
    BY <2>2, <1>3
  <2>3. UNCHANGED <<lpc, curr, found, after, head>>
    BY <1>2
  <2>4. /\ lpc = "head" => curr = Nil /\ found \in live' /\ head # Nil
        /\ lpc \in {"advance", "scan"} =>
             curr # Nil /\ (found # Nil => next'[curr] # Nil)
    BY <1>1, <1>3 DEF Scanner
  <2>5. lpc # "listen" /\ curr # Nil =>
         /\ curr \in live' /\ next'[curr] # curr
         /\ \A b \in Actor : Pending(b)' => new'[b] # curr
    BY <2>2, <1>1, <1>3 DEF Scanner
  <2>6. lpc # "listen" /\ curr # Nil /\ found # Nil =>
         /\ Held(found, curr)
         /\ head # found /\ next'[found] # found /\ found # curr
    BY <1>3 DEF Scanner, Held
  <2>7. /\ lpc \in {"callback", "free", "unlink"} => found \in live'
        /\ lpc = "callback" /\ curr = Nil => head # Nil
        /\ lpc \in {"free", "unlink"} /\ curr = Nil => Held(found, Nil)
        /\ lpc = "unlink" /\ after # Nil => Held(after, found) /\ head # after /\ after # found
    BY <1>1 DEF Scanner
  <2>9. /\ Held(found, curr) => Held(found, curr)'
        /\ Held(found, Nil) => Held(found, Nil)'
        /\ Held(after, found) => Held(after, found)'
    <3>1. Held(found, curr) => Held(found, curr)'
      BY <2>1, <2>3 DEF Held
    <3>2. Held(found, Nil) => Held(found, Nil)'
      BY <2>1, <2>3 DEF Held
    <3>3. Held(after, found) => Held(after, found)'
      BY <2>1, <2>3 DEF Held
    <3> QED
      BY <3>1, <3>2, <3>3
  <2> QED
    BY <2>3, <2>4, <2>5, <2>6, <2>7, <2>9 DEF Scanner
<1> QED
  BY <1>5, <1>6, <1>7, <1>8, <1>9 DEF Shape

\* The first node of an empty list.
LEMMA AddFirstShape ==
    ASSUME ListInv, NEW a \in Actor, add_first(a)
    PROVE  Shape'
<1> USE DEF scanVars, ListInv
<1>1. /\ head' = new[a] /\ UNCHANGED <<new, temp, next, live>> /\ UNCHANGED scanVars
      /\ pc' = [pc EXCEPT ![a] = "send"] /\ Pending(a)
  BY DEF add_first, Goto, Pending
<1>2. /\ ~Pending(a)' /\ pc'[a] = "send"
      /\ \A b \in Actor \ {a} : (Pending(b)' <=> Pending(b)) /\ pc'[b] = pc[b]
  BY <1>1 DEF TypeOK, Pending
<1>3. new[a] \in live /\ new[a] # Nil /\ \A x \in live : next[x] # new[a]
  BY <1>1, NilAssumption DEF Points, PendingUnlinked, TypeOK
<1>4. Points'
  BY <1>1, <1>2 DEF Points
<1>5. LinksLive'
  BY <1>1, <1>3 DEF LinksLive
<1>6. OneLink'
  BY <1>1, <1>3 DEF OneLink
<1>7. PendingUnlinked'
  BY <1>1, <1>2 DEF PendingUnlinked
<1>8. Scanner'
  <2>1. /\ Held(found, curr) => Held(found, curr)' /\ found # new[a]
        /\ Held(found, Nil) => Held(found, Nil)'
        /\ Held(after, found) => Held(after, found)' /\ after # new[a]
    BY <1>1, <1>2 DEF Held
  <2> QED
    BY <2>1, <1>1, <1>2, <1>3 DEF Scanner
<1> QED
  BY <1>4, <1>5, <1>6, <1>7, <1>8 DEF Shape

\* The node is linked behind temp[a], wherever that is by now.
LEMMA AddLinkShape ==
    ASSUME ListInv, NEW a \in Actor, add_link(a)
    PROVE  Shape'
<1> USE DEF scanVars, ListInv
<1>1. /\ next' = [next EXCEPT ![temp[a]] = new[a]]
      /\ UNCHANGED <<new, temp, head, live>> /\ UNCHANGED scanVars
      /\ pc' = [pc EXCEPT ![a] = "send"] /\ Pending(a)
  BY DEF add_link, Goto, Pending
<1>2. /\ ~Pending(a)' /\ pc'[a] = "send"
      /\ \A b \in Actor \ {a} : (Pending(b)' <=> Pending(b)) /\ pc'[b] = pc[b]
  BY <1>1 DEF TypeOK, Pending
<1>3. /\ new[a] \in live /\ new[a] # Nil /\ \A x \in live : next[x] # new[a]
      /\ head # new[a]
  BY <1>1, NilAssumption DEF Points, PendingUnlinked, TypeOK
<1>4. \A x \in live : next'[x] = next[x] \/ (next'[x] = new[a] /\ x = temp[a])
  BY <1>1 DEF TypeOK
<1>5. Points'
  BY <1>1, <1>2 DEF Points
<1>6. LinksLive'
  BY <1>1, <1>3, <1>4 DEF LinksLive
<1>7. OneLink'
  BY <1>1, <1>3, <1>4 DEF OneLink
<1>8. PendingUnlinked'
  BY <1>1, <1>2, <1>4 DEF PendingUnlinked
<1>9. Scanner'
  <2>1. /\ Held(found, curr) => Held(found, curr)'
        /\ Held(found, Nil) => Held(found, Nil)'
        /\ Held(after, found) => Held(after, found)'
    BY <1>1, <1>2, <1>4 DEF Held
  <2>2. /\ lpc # "listen" /\ curr # Nil => curr # new[a]
        /\ lpc # "listen" /\ curr # Nil /\ found # Nil => found # new[a] /\ found \in live
    BY <1>1 DEF Scanner, Held
  <2> QED
    BY <2>1, <2>2, <1>1, <1>2, <1>3, <1>4 DEF Scanner
<1> QED
  BY <1>5, <1>6, <1>7, <1>8, <1>9 DEF Shape

\* A thread that issues a request.
LEMMA AdderShape ==
    ASSUME ListInv, NEW a \in Actor, id_load(a) \/ adder(a)
    PROVE  Shape'
<1> USE DEF adderVars, heapVars, scanVars, Goto
<1>1. CASE id_load(a)
  BY <1>1, SameHeap DEF id_load, Pending, ListInv, TypeOK, Points
<1>2. CASE id_store(a)
  BY <1>2, SameHeap DEF id_store, Pending, ListInv, TypeOK, Points
<1>3. CASE add_walk(a)
  <2>1. temp'[a] \in Node
    BY <1>3 DEF add_walk, ListInv, TypeOK, Points
  <2> QED
    BY <1>3, <2>1, SameHeap DEF add_walk, Pending, ListInv, TypeOK, Points
<1>4. CASE send(a)
  BY <1>4, SameHeap DEF send, Pending, ListInv, TypeOK, Points
<1> QED
  BY <1>1, <1>2, <1>3, <1>4, AddNodeShape, AddFirstShape, AddLinkShape DEF adder

\* The second node of two that follow each other is held, and leads elsewhere,
\* unless the first leads to itself.
LEMMA NextHeld ==
    ASSUME ListInv, NEW x \in live, next[x] # x, next[x] # Nil
    PROVE  /\ Held(next[x], x) /\ head # next[x]
           /\ next[next[x]] # next[x]
<1> USE DEF ListInv
<1>1. next[x] \in live
  BY DEF LinksLive
<1>2. \A y \in live : next[y] = next[x] => y = x
  BY DEF OneLink
<1>3. head # next[x]
  BY DEF OneLink
<1>4. \A a \in Actor : Pending(a) => new[a] # next[x]
  BY DEF PendingUnlinked
<1> QED
  BY <1>1, <1>2, <1>3, <1>4 DEF Held

\* Steps of the listen thread that only read.
LEMMA ReadShape ==
    ASSUME ListInv, UNCHANGED heapVars, UNCHANGED adderVars, Scanner'
    PROVE  Shape'
<1> USE DEF heapVars, adderVars, ListInv
<1>1. \A a \in Actor : Pending(a)' <=> Pending(a)
  BY DEF Pending
<1>2. Points' /\ LinksLive' /\ OneLink' /\ PendingUnlinked'
  BY <1>1 DEF Points, LinksLive, OneLink, PendingUnlinked
<1> QED
  BY <1>2 DEF Shape

\* msg_list is loaded, twice.
LEMMA ProcessShape == ASSUME ListInv, process \/ compare_head PROVE Shape'
<1> USE DEF heapVars, adderVars
<1>1. UNCHANGED heapVars /\ UNCHANGED adderVars
  BY DEF process, compare_head
<1>2. \A a \in Actor : Pending(a)' <=> Pending(a)
  BY <1>1 DEF Pending
<1>3. head # Nil =>
        /\ head \in live /\ next[head] # head
        /\ \A a \in Actor : Pending(a) => new[a] # head
  BY DEF ListInv, LinksLive, OneLink, PendingUnlinked
<1>4. Scanner'
  <2>1. CASE lpc' = "listen" /\ curr' = Nil
    BY <2>1 DEF Scanner
  <2>2. CASE /\ lpc' = "head" /\ head # Nil /\ found' = head
             /\ curr' = curr /\ curr = Nil
    BY <2>2, <1>1, <1>3 DEF Scanner
  <2>3. CASE /\ lpc = "head" /\ lpc' = "callback" /\ found' = found
             /\ curr' = curr /\ curr = Nil
    BY <2>3, <1>1 DEF ListInv, Scanner
  <2>4. CASE /\ lpc' = "advance" /\ head # Nil /\ curr' = head
             /\ found' = Nil
    BY <2>4, <1>1, <1>2, <1>3 DEF Scanner
  <2> QED
    BY <2>1, <2>2, <2>3, <2>4
       DEF process, compare_head, Return, ListInv, Scanner
<1> QED
  BY <1>1, <1>4, ReadShape

\* The successor of curr is loaded.
LEMMA AdvanceShape == ASSUME ListInv, advance PROVE Shape'
<1> USE DEF heapVars, adderVars
<1>1. /\ UNCHANGED heapVars /\ UNCHANGED adderVars
      /\ lpc = "advance" /\ lpc' = "scan" /\ curr' = curr
      /\ found' = next[curr]
  BY DEF advance
<1>2. \A a \in Actor : Pending(a)' <=> Pending(a)
  BY <1>1 DEF Pending
<1>3. /\ curr # Nil /\ curr \in live /\ next[curr] # curr
      /\ \A a \in Actor : Pending(a) => new[a] # curr
  BY <1>1 DEF ListInv, Scanner
<1>4. next[curr] # Nil => /\ Held(next[curr], curr) /\ head # next[curr]
                          /\ next[next[curr]] # next[curr]
  BY <1>3, NextHeld
<1>5. found' # Nil => Held(found, curr)'
  BY <1>1, <1>2, <1>4 DEF Held
<1>6. Scanner'
  BY <1>1, <1>2, <1>3, <1>4, <1>5 DEF Scanner
<1> QED
  BY <1>1, <1>6, ReadShape

\* One round of the loop.
LEMMA ScanShape == ASSUME ListInv, scan PROVE Shape'
<1> USE DEF heapVars, adderVars
<1>1. UNCHANGED heapVars /\ UNCHANGED adderVars /\ lpc = "scan"
  BY DEF scan
<1>2. \A a \in Actor : Pending(a)' <=> Pending(a)
  BY <1>1 DEF Pending
<1>3. Scanner'
  <2>1. CASE lpc' = "listen" /\ curr' = Nil
    BY <2>1 DEF Scanner
  <2>2. CASE lpc' = "callback" /\ found # Nil /\ found' = found /\ curr' = curr
    <3>1. /\ curr # Nil /\ curr \in live /\ next[curr] # curr
          /\ \A a \in Actor : Pending(a) => new[a] # curr
          /\ Held(found, curr) /\ head # found /\ next[found] # found /\ found # curr
      BY <1>1, <2>2 DEF ListInv, Scanner
    <3>2. Held(found, curr)' /\ found \in live
      BY <2>2, <3>1, <1>1, <1>2 DEF Held
    <3> QED
      BY <2>2, <3>1, <3>2, <1>1, <1>2 DEF Scanner
  <2>3. CASE /\ lpc' = "advance" /\ found # Nil
             /\ curr' = next[curr] /\ found' = Nil
    <3>1. curr \in live /\ next[curr] # curr /\ next[curr] # Nil
      BY <1>1, <2>3 DEF ListInv, Scanner
    <3> PICK c : c = next[curr]
      OBVIOUS
    <3>2. Held(c, curr) /\ next[c] # c /\ c # Nil /\ c \in live
      BY <3>1, NextHeld DEF Held
    <3>3. \A a \in Actor : Pending(a) => new[a] # c
      BY <3>2 DEF Held
    <3> QED
      BY <2>3, <3>2, <3>3, <1>1, <1>2 DEF Scanner
  <2> QED
    BY <1>1, <2>1, <2>2, <2>3 DEF scan, Return
<1> QED
  BY <1>1, <1>3, ReadShape

\* The node to be freed is settled, and what stands behind it is loaded.
LEMMA LoadShape ==
    ASSUME ListInv, callback_return \/ unlink_load
    PROVE  Shape'
<1> USE DEF heapVars, adderVars
<1>1. UNCHANGED heapVars /\ UNCHANGED adderVars /\ curr' = curr
  BY DEF callback_return, unlink_load
<1>2. \A a \in Actor : Pending(a)' <=> Pending(a)
  BY <1>1 DEF Pending
<1> PICK f : f = found'
  OBVIOUS
<1>3. /\ f \in live /\ f # Nil
      /\ curr = Nil => Held(f, Nil)
      /\ curr # Nil => f = found
  <2>1. CASE callback_return
    <3>1. CASE curr = Nil
      <4>1. f = head /\ head \in live /\ head # Nil
        BY <2>1, <3>1 DEF callback_return, ListInv, Scanner, LinksLive
      <4>2. /\ \A y \in live : next[y] # head
            /\ \A a \in Actor : Pending(a) => new[a] # head
        BY <4>1 DEF ListInv, OneLink, PendingUnlinked
      <4> QED
        BY <3>1, <4>1, <4>2 DEF Held
    <3>2. CASE curr # Nil
      BY <2>1, <3>2, NilAssumption DEF callback_return, ListInv, Scanner, TypeOK
    <3> QED
      BY <3>1, <3>2
  <2>2. CASE unlink_load
    BY <2>2, NilAssumption DEF unlink_load, ListInv, Scanner, TypeOK
  <2> QED
    BY <2>1, <2>2
<1>4. curr # Nil =>
        /\ curr \in live /\ next[curr] # curr
        /\ \A a \in Actor : Pending(a) => new[a] # curr
        /\ Held(f, curr) /\ head # f /\ next[f] # f /\ f # curr
  BY <1>3 DEF callback_return, unlink_load, ListInv, Scanner
<1>5. next[f] # f
  BY <1>3, <1>4, NilAssumption DEF Held, ListInv, TypeOK
<1>6. next[f] # Nil => Held(next[f], f) /\ head # next[f] /\ next[f] # f
  BY <1>3, <1>5, NextHeld
<1>7. /\ curr = Nil => Held(found, Nil)'
      /\ curr # Nil => Held(found, curr)'
      /\ next[f] # Nil => Held(next[f], f)'
  BY <1>1, <1>2, <1>3, <1>4, <1>6 DEF Held
<1>8. \/ lpc' = "free" /\ after' = after
      \/ lpc' = "unlink" /\ after' = next[f]
  BY DEF callback_return, unlink_load
<1>9. lpc' = "unlink" /\ after' # Nil =>
        Held(after, found)' /\ head' # after' /\ after' # found'
  <2>1. CASE after' = next[f]
    BY <2>1, <1>1, <1>6, <1>7 DEF Held
  <2> QED
    BY <2>1, <1>8
<1>10. Scanner'
  BY <1>1, <1>2, <1>3, <1>4, <1>7, <1>8, <1>9 DEF Scanner
<1> QED
  BY <1>1, <1>10, ReadShape

\* The one pointer to the node is redirected, or has been by another thread, and
\* the node is freed.
LEMMA StoreShape == ASSUME ListInv, unlink_store PROVE Shape'
<1> USE DEF adderVars
<1>1. /\ lpc = "unlink" /\ live' = live \ {found} /\ UNCHANGED adderVars
      /\ lpc' = "listen" /\ curr' = Nil
      /\ IF curr = Nil THEN head' = after /\ UNCHANGED next
         ELSE next' = [next EXCEPT ![curr] = after] /\ UNCHANGED head
  BY DEF unlink_store, Return
<1>2. \A a \in Actor : Pending(a)' <=> Pending(a)
  BY <1>1 DEF Pending
<1>3. /\ found \in live /\ found # Nil
      /\ after # Nil => Held(after, found) /\ head # after /\ after # found
  BY <1>1, NilAssumption DEF ListInv, Scanner, TypeOK
<1>4. Scanner'
  BY <1>1 DEF Scanner
<1>5. CASE curr = Nil
  <2>1. head' = after /\ next' = next /\ Held(found, Nil)
    BY <1>1, <1>5 DEF ListInv, Scanner
  <2>2. \A y \in live : next[y] # found
    BY <2>1, NilAssumption DEF Held, ListInv, TypeOK
  <2>3. Points'
    BY <2>1, <1>1, <1>2 DEF ListInv, Points, Held
  <2>4. LinksLive'
    BY <2>1, <2>2, <1>1, <1>3 DEF ListInv, LinksLive, Held
  <2>5. OneLink'
    BY <2>1, <1>1, <1>3 DEF ListInv, OneLink, Held
  <2>6. PendingUnlinked'
    <3>1. \A a \in Actor : Pending(a) => new[a] # after
      BY <1>3, NilAssumption DEF ListInv, Points, Held, TypeOK
    <3> QED
      BY <2>1, <3>1, <1>1, <1>2 DEF ListInv, PendingUnlinked
  <2> QED
    BY <2>3, <2>4, <2>5, <2>6, <1>4 DEF Shape
<1>6. CASE curr # Nil
  <2>1. /\ head' = head /\ next' = [next EXCEPT ![curr] = after]
        /\ Held(found, curr) /\ curr \in live /\ curr # found /\ head # found
    BY <1>1, <1>3, <1>6 DEF ListInv, Scanner
  <2>2. /\ next'[curr] = after
        /\ \A y \in live \ {curr} : next'[y] = next[y] /\ next[y] # found
    BY <2>1 DEF Held, ListInv, TypeOK
  <2>3. Points'
    BY <2>1, <1>1, <1>2 DEF ListInv, Points, Held
  <2>4. LinksLive'
    BY <2>1, <2>2, <1>1, <1>3 DEF ListInv, LinksLive, Held
  <2>5. OneLink'
    <3>1. \A y \in live' \ {curr} : next'[y] = after => after = Nil
      BY <2>2, <1>1, <1>3 DEF Held
    <3>2. \A x, y \in live' \ {curr} : next'[x] = next'[y] /\ next'[x] # Nil => x = y
      BY <2>2, <1>1 DEF ListInv, OneLink
    <3>3. \A x \in live' : next'[x] # Nil => next'[x] # head
      BY <2>2, <1>1, <1>3 DEF ListInv, OneLink
    <3> QED
      BY <3>1, <3>2, <3>3, <2>1, <2>2 DEF OneLink
  <2>6. PendingUnlinked'
    <3>1. \A a \in Actor : Pending(a) => new[a] # after
      BY <1>3, NilAssumption DEF ListInv, Points, Held, TypeOK
    <3> QED
      BY <2>1, <2>2, <3>1, <1>1, <1>2 DEF ListInv, PendingUnlinked
  <2> QED
    BY <2>3, <2>4, <2>5, <2>6, <1>4 DEF Shape
<1> QED
  BY <1>5, <1>6

\* The invariant is inductive.
LEMMA NextList == ListInv /\ [Next]_vars => ListInv'
<1> SUFFICES ASSUME ListInv, [Next]_vars PROVE ListInv'
  OBVIOUS
<1>1. CASE UNCHANGED vars \/ quiet
  <2>1. UNCHANGED vars
    BY <1>1 DEF quiet
  <2>2. TypeOK'
    BY <2>1 DEF ListInv, TypeOK, vars, adderVars, heapVars, scanVars
  <2>3. Shape'
    BY <2>1, SameHeap DEF vars, adderVars, heapVars, scanVars, Pending, ListInv, Points
  <2> QED
    BY <2>2, <2>3 DEF ListInv, Shape
<1>2. CASE \E a \in Actor : id_load(a) \/ adder(a)
  BY <1>2, AdderType, AdderShape DEF ListInv, Shape
<1>3. CASE listener
  BY <1>3, ListenerTypes, ProcessShape, AdvanceShape, ScanShape, LoadShape,
     StoreShape
     DEF listener, ListInv, Shape
<1> QED
  BY <1>1, <1>2, <1>3 DEF Next

----------------------------------------------------------------------------

\* The invariant holds in every reachable state.
LEMMA ListInvariant == Spec => []ListInv
  BY InitList, NextList, PTL DEF Spec

\* Every variable keeps its type, for any number of client threads, nodes and
\* requests.
THEOREM ReceiptTypeCorrect == Spec => []TypeOK
<1>1. ListInv => TypeOK
  BY DEF ListInv
<1> QED
  BY <1>1, ListInvariant, PTL

\* No step of receipt_list_add or of receipt_list_process follows a null pointer,
\* whatever the threads do to each other's lists.
THEOREM NoNullCorrect == Spec => []NoNullFollowed
<1>1. ListInv => NoNullFollowed
  <2> SUFFICES ASSUME ListInv PROVE NoNullFollowed
    OBVIOUS
  <2>1. \A a \in Actor : pc[a] \in {"walk", "link"} => temp[a] # Nil
    BY NilAssumption DEF ListInv, Points
  <2>2. lpc \in {"head", "callback", "free", "unlink"} => found # Nil
    BY NilAssumption DEF ListInv, Scanner, TypeOK
  <2> QED
    BY <2>1, <2>2 DEF ListInv, Scanner, NoNullFollowed
<1> QED
  BY <1>1, ListInvariant, PTL

----------------------------------------------------------------------------
(***************************************************************************)
(* No pointer closes a ring.  Nodes are ranked, and pointers lead upwards. *)
(* The one step that sets a pointer to a node with a past is the link of a *)
(* new node behind temp[a]: the threads that have linked behind the new    *)
(* node meanwhile must not have brought temp[a] there.  B[a] is what may   *)
(* lie behind the new node of a: at first what was not allocated, then     *)
(* also what others link to it.  No one enters B[a] who was not in it, and *)
(* temp[a] never does, because a thread goes into the B of another only    *)
(* when it is older, that is, when it looked at the head before the other. *)
(***************************************************************************)

\* The nodes that receipt_list_process holds are allocated, in every state.
HeldLive ==
    /\ {curr, found, after} \subseteq live \cup {Nil}
    /\ lpc # "unlink" => after = Nil

\* B[a] surrounds the new node of a, which is not linked yet: pointers neither
\* enter it nor, from allocated memory, leave it, and nobody has a pointer into
\* it but a and the threads in O[a], older than a.
Surrounds(a, B) ==
    /\ B[a] \subseteq Node
    /\ new[a] \in B[a]
    /\ pc[a] # "first" => temp[a] \notin B[a]
    /\ \A n \in Node : next[n] \in B[a] => n \in B[a]
    /\ \A n \in B[a] \cap live : next[n] # Nil => next[n] \in B[a]
    /\ head \notin B[a] /\ curr \notin B[a] /\ found \notin B[a] /\ after \notin B[a]

OlderThan(b, a, B, O) ==
    /\ new[b] \notin B[a]
    /\ pc[b] # "first" /\ temp[b] \in B[a] => b \in O[a]
    /\ b \in O[a] => a \notin O[b] /\ B[b] \ live \subseteq B[a]

Chain(a, b, c, O) == b \in O[a] /\ c \in O[b] => c \in O[a]

Apart(B, O) ==
    /\ \A a \in Actor : Pending(a) => Surrounds(a, B)
    /\ \A a, b \in Actor : Pending(a) /\ Pending(b) /\ a # b => OlderThan(b, a, B, O)
    /\ \A a, b, c \in Actor : Pending(a) /\ Pending(b) /\ Pending(c) => Chain(a, b, c, O)

\* Pointers lead upwards, and so does what receipt_list_process is going to
\* store.
Ranked(r) ==
    /\ r \in [Node -> Nat]
    /\ \A n \in Node : next[n] # Nil => r[n] < r[next[n]]
    /\ curr # Nil /\ found # Nil => r[curr] < r[found]
    /\ found # Nil /\ after # Nil => r[found] < r[after]

IsApart  == \E B, O : Apart(B, O)
IsRanked == \E r : Ranked(r)

RingInv == ListInv /\ HeldLive /\ IsApart /\ IsRanked

\* What receipt_list_process loads from a live node is live.
LEMMA LoadedLive ==
    ASSUME ListInv, NEW x \in live
    PROVE  x \in Node /\ x # Nil /\ next[x] \in live \cup {Nil}
  BY NilAssumption DEF ListInv, TypeOK, LinksLive

\* The nodes in its hands stay allocated.
LEMMA HeldLiveStep ==
    ASSUME ListInv, HeldLive, [Next]_vars
    PROVE  HeldLive'
<1>1. CASE UNCHANGED <<live, curr, found, after, lpc>>
  BY <1>1 DEF HeldLive
<1>2. ASSUME NEW a \in Actor, add_node(a) PROVE HeldLive'
  BY <1>2 DEF add_node, scanVars, HeldLive
<1>3. CASE process \/ compare_head
  <2>1. head \in live \cup {Nil}
    BY DEF ListInv, LinksLive
  <2> QED
    BY <1>3, <2>1 DEF process, compare_head, heapVars, HeldLive, Return
<1>4. CASE advance \/ scan
  <2>1. curr # Nil /\ curr \in live
    BY <1>4 DEF advance, scan, ListInv, Scanner
  <2>2. next[curr] \in live \cup {Nil}
    BY <2>1, LoadedLive
  <2> QED
    BY <1>4, <2>2 DEF advance, scan, heapVars, HeldLive, Return
<1>5. CASE callback_return \/ unlink_load
  <2>1. found' \in live
    BY <1>5 DEF callback_return, unlink_load, ListInv, Scanner, LinksLive
  <2>2. next[found'] \in live \cup {Nil}
    BY <2>1, LoadedLive
  <2> QED
    BY <1>5, <2>1, <2>2 DEF callback_return, unlink_load, heapVars, HeldLive
<1>6. CASE unlink_store
  BY <1>6 DEF unlink_store, Return, HeldLive
<1>7. ASSUME NEW a \in Actor,
             id_load(a) \/ id_store(a) \/ add_first(a) \/ add_walk(a) \/ add_link(a) \/ send(a)
      PROVE  HeldLive'
  BY <1>1, <1>7 DEF id_load, id_store, add_first, add_walk, add_link, send, heapVars, scanVars
<1>8. CASE UNCHANGED vars \/ quiet
  BY <1>1, <1>8 DEF quiet, vars, heapVars, scanVars
<1> QED
  BY <1>2, <1>3, <1>4, <1>5, <1>6, <1>7, <1>8 DEF Next, adder, listener

\* A step that gives no thread a node, and neither reads nor writes a pointer
\* into what surrounds a new node.
LEMMA ApartKept ==
    ASSUME ListInv, ListInv', NEW B, NEW O, Apart(B, O),
           \A a \in Actor : Pending(a)' =>
             /\ Pending(a) /\ new'[a] = new[a]
             /\ pc'[a] # "first" =>
                  pc[a] # "first" /\ temp'[a] \in {temp[a], next[temp[a]]}
             /\ head' \notin B[a] /\ curr' \notin B[a]
             /\ found' \notin B[a] /\ after' \notin B[a]
             /\ \A n \in Node : next'[n] # next[n] => n \notin B[a] /\ next'[n] \notin B[a]
             /\ B[a] \cap live' = B[a] \cap live
    PROVE  Apart(B, O)'
<1>1. ASSUME NEW a \in Actor, Pending(a)', NEW b \in Actor, Pending(b)', pc'[b] # "first",
             temp'[b] \in B[a]
      PROVE  pc[b] # "first" /\ temp[b] \in B[a]
  <2>1. temp[b] \in Node
    BY <1>1 DEF ListInv, Points, Pending
  <2>2. Surrounds(a, B)
    BY <1>1 DEF Apart
  <2> QED
    BY <1>1, <2>1, <2>2 DEF Surrounds
<1>2. ASSUME NEW a \in Actor, Pending(a)'
      PROVE  Surrounds(a, B)'
  <2>1. Surrounds(a, B)
    BY <1>2 DEF Apart
  <2>2. pc'[a] # "first" => temp'[a] \notin B[a]
    BY <1>1, <1>2, <2>1 DEF Surrounds
  <2>3. \A n \in Node : next'[n] \in B[a] => n \in B[a]
    BY <1>2, <2>1 DEF Surrounds
  <2>4. \A n \in B[a] \cap live' : next'[n] # Nil => next'[n] \in B[a]
    BY <1>2, <2>1 DEF Surrounds
  <2> QED
    BY <1>2, <2>1, <2>2, <2>3, <2>4 DEF Surrounds
<1>3. ASSUME NEW a \in Actor, NEW b \in Actor, Pending(a)', Pending(b)', a # b
      PROVE  OlderThan(b, a, B, O)'
  <2>1. OlderThan(b, a, B, O)
    BY <1>3 DEF Apart
  <2>2. B[b] \ live' = B[b] \ live
    BY <1>3
  <2> QED
    BY <1>1, <1>3, <2>1, <2>2 DEF OlderThan
<1>4. ASSUME NEW a \in Actor, NEW b \in Actor, NEW c \in Actor,
             Pending(a)', Pending(b)', Pending(c)'
      PROVE  Chain(a, b, c, O)'
  BY <1>4 DEF Apart, Chain
<1> QED
  BY <1>2, <1>3, <1>4, Zenon DEF Apart

\* malloc: nothing allocated leads to the node, nor to what else is free.
LEMMA AddNodeApart ==
    ASSUME ListInv, HeldLive, NEW B, NEW O, Apart(B, O), NEW d \in Actor, add_node(d)
    PROVE  IsApart'
<1> USE DEF ListInv
<1>1. PICK n \in Node \ live :
         /\ live' = live \cup {n}
         /\ next' = [next EXCEPT ![n] = Nil]
         /\ new' = [new EXCEPT ![d] = n]
  BY DEF add_node
<1>2. /\ UNCHANGED scanVars /\ head' = head
      /\ temp' = [temp EXCEPT ![d] = head]
      /\ pc' = [pc EXCEPT ![d] = IF head = Nil THEN "first" ELSE "walk"]
      /\ ~Pending(d)
  BY DEF add_node, Goto, Pending
<1>3. /\ next'[n] = Nil /\ new'[d] = n /\ n # Nil /\ temp'[d] = head
      /\ \A x \in Node \ {n} : next'[x] = next[x]
      /\ \A b \in Actor \ {d} : new'[b] = new[b] /\ (Pending(b)' <=> Pending(b))
                                /\ temp'[b] = temp[b] /\ pc'[b] = pc[b]
      /\ UNCHANGED <<curr, found, after>>
      /\ live \subseteq Node /\ Nil \notin Node
  BY <1>1, <1>2, NilAssumption DEF TypeOK, Pending, scanVars
<1> PICK C : C = [a \in Actor |-> IF a = d THEN Node \ live ELSE B[a] \ {n}]
  OBVIOUS
<1> PICK Q : Q = [a \in Actor |-> IF a = d THEN Actor \ {d} ELSE O[a] \ {d}]
  OBVIOUS
<1>4. /\ C[d] = Node \ live /\ Q[d] = Actor \ {d}
      /\ \A a \in Actor \ {d} : C[a] = B[a] \ {n} /\ Q[a] = O[a] \ {d}
  OBVIOUS
<1>5. ASSUME NEW a \in Actor, Pending(a)' PROVE Surrounds(a, C)'
  <2>1. CASE a = d
    <3>1. \A x \in Node : next'[x] \in C[d] => x \in C[d]
      BY <1>1, <1>3, <1>4 DEF LinksLive
    <3>2. \A x \in C[d] \cap live' : next'[x] = Nil
      BY <1>1, <1>3, <1>4
    <3>3. head \notin C[d] /\ curr \notin C[d] /\ found \notin C[d] /\ after \notin C[d]
      BY <1>3, <1>4 DEF LinksLive, HeldLive
    <3> QED
      BY <2>1, <3>1, <3>2, <3>3, <1>1, <1>2, <1>3, <1>4 DEF Surrounds
  <2>2. CASE a # d
    <3>1. Surrounds(a, B) /\ new[a] \in live
      BY <2>2, <1>3, <1>5 DEF Apart, Points
    <3>2. \A x \in Node : next'[x] \in C[a] => x \in C[a]
      BY <2>2, <3>1, <1>1, <1>3, <1>4 DEF Surrounds
    <3>3. \A x \in C[a] \cap live' : next'[x] # Nil => next'[x] \in C[a]
      BY <2>2, <3>1, <1>1, <1>3, <1>4 DEF Surrounds, LinksLive
    <3> QED
      BY <2>2, <3>1, <3>2, <3>3, <1>1, <1>2, <1>3, <1>4 DEF Surrounds
  <2> QED
    BY <2>1, <2>2
<1>6. ASSUME NEW a \in Actor, NEW b \in Actor, Pending(a)', Pending(b)', a # b
      PROVE  OlderThan(b, a, C, Q)'
  <2>1. CASE a = d
    <3>1. b # d /\ Pending(b) /\ new'[b] = new[b] /\ new[b] \in live /\ B[b] \subseteq Node
      BY <2>1, <1>3, <1>6 DEF Points, Apart, Surrounds
    <3> QED
      BY <2>1, <3>1, <1>1, <1>3, <1>4 DEF OlderThan
  <2>2. CASE b = d
    <3>1. Surrounds(a, B)
      BY <2>2, <1>3, <1>6 DEF Apart
    <3> QED
      BY <2>2, <3>1, <1>1, <1>3, <1>4, <1>6 DEF OlderThan, Surrounds
  <2>3. CASE a # d /\ b # d
    <3>1. OlderThan(b, a, B, O)
      BY <2>3, <1>3, <1>6 DEF Apart
    <3> QED
      BY <2>3, <3>1, <1>1, <1>3, <1>4 DEF OlderThan
  <2> QED
    BY <2>1, <2>2, <2>3
<1>7. ASSUME NEW a \in Actor, NEW b \in Actor, NEW c \in Actor,
             Pending(a)', Pending(b)', Pending(c)'
      PROVE  Chain(a, b, c, Q)'
  <2>1. CASE a = d
    BY <2>1, <1>4 DEF Chain
  <2>2. CASE a # d /\ (b = d \/ c = d)
    BY <2>2, <1>4 DEF Chain
  <2>3. CASE a # d /\ b # d /\ c # d
    <3>1. Chain(a, b, c, O)
      BY <2>3, <1>3, <1>7 DEF Apart
    <3> QED
      BY <2>3, <3>1, <1>4 DEF Chain
  <2> QED
    BY <2>1, <2>2, <2>3
<1>8. Apart(C, Q)'
  BY <1>5, <1>6, <1>7, Zenon DEF Apart
<1> QED
  BY <1>8 DEF IsApart

\* The node of d is linked behind temp[d]: what surrounds temp[d] grows by what
\* is allocated around the node.
LEMMA AddLinkApart ==
    ASSUME ListInv, NEW B, NEW O, Apart(B, O), NEW d \in Actor, add_link(d)
    PROVE  IsApart'
<1> USE DEF ListInv
<1>1. /\ next' = [next EXCEPT ![temp[d]] = new[d]]
      /\ UNCHANGED <<new, temp, head, live>> /\ UNCHANGED scanVars
      /\ pc' = [pc EXCEPT ![d] = "send"] /\ Pending(d) /\ pc[d] = "link"
  BY DEF add_link, Goto, Pending
<1>2. /\ ~Pending(d)' /\ \A b \in Actor : Pending(b)' => b # d /\ Pending(b) /\ pc'[b] = pc[b]
      /\ UNCHANGED <<curr, found, after>>
      /\ temp[d] \in Node /\ new[d] \in live /\ live \subseteq Node
      /\ next'[temp[d]] = new[d] /\ \A x \in Node \ {temp[d]} : next'[x] = next[x]
  BY <1>1 DEF TypeOK, Pending, scanVars, Points
<1>3. Surrounds(d, B)
  BY <1>1 DEF Apart
<1> PICK C : C = [a \in Actor |-> IF temp[d] \in B[a] THEN B[a] \cup (B[d] \cap live) ELSE B[a]]
  OBVIOUS
<1>4. \A a \in Actor : C[a] = IF temp[d] \in B[a] THEN B[a] \cup (B[d] \cap live) ELSE B[a]
  OBVIOUS
<1>5. ASSUME NEW a \in Actor, Pending(a)'
      PROVE  /\ Surrounds(a, B) /\ OlderThan(d, a, B, O) /\ OlderThan(a, d, B, O)
             /\ temp[d] \in B[a] => d \in O[a] /\ B[d] \ live \subseteq B[a] /\ a \notin O[d]
  <2>1. Surrounds(a, B) /\ OlderThan(d, a, B, O) /\ OlderThan(a, d, B, O)
    BY <1>1, <1>2, <1>5 DEF Apart
  <2>2. pc[d] # "first"
    BY <1>1
  <2> QED
    BY <2>1, <2>2 DEF OlderThan
<1>6. ASSUME NEW a \in Actor, Pending(a)' PROVE Surrounds(a, C)'
  <2>1. CASE temp[d] \notin B[a]
    <3>1. C[a] = B[a] /\ new[d] \notin B[a]
      BY <2>1, <1>4, <1>5, <1>6 DEF OlderThan
    <3>2. \A x \in Node : next'[x] \in C[a] => x \in C[a]
      BY <2>1, <3>1, <1>2, <1>5, <1>6 DEF Surrounds
    <3>3. \A x \in C[a] \cap live' : next'[x] # Nil => next'[x] \in C[a]
      BY <2>1, <3>1, <1>1, <1>2, <1>5, <1>6 DEF Surrounds
    <3> QED
      BY <3>1, <3>2, <3>3, <1>1, <1>2, <1>5, <1>6 DEF Surrounds
  <2>2. CASE temp[d] \in B[a]
    <3>1. /\ C[a] = B[a] \cup (B[d] \cap live) /\ B[d] \ live \subseteq B[a]
          /\ B[d] \subseteq C[a]
      BY <2>2, <1>4, <1>5, <1>6
    <3>2. \A x \in Node : next'[x] \in C[a] => x \in C[a]
      <4> SUFFICES ASSUME NEW x \in Node, next'[x] \in C[a] PROVE x \in C[a]
        OBVIOUS
      <4>1. CASE x = temp[d]
        BY <4>1, <2>2, <3>1
      <4>2. CASE x # temp[d]
        BY <4>2, <3>1, <1>2, <1>3, <1>5, <1>6 DEF Surrounds
      <4> QED
        BY <4>1, <4>2
    <3>3. \A x \in C[a] \cap live' : next'[x] # Nil => next'[x] \in C[a]
      <4> SUFFICES ASSUME NEW x \in C[a] \cap live', next'[x] # Nil PROVE next'[x] \in C[a]
        OBVIOUS
      <4>1. CASE x = temp[d]
        BY <4>1, <3>1, <1>2, <1>3 DEF Surrounds
      <4>2. CASE x # temp[d] /\ x \in B[a]
        BY <4>2, <3>1, <1>1, <1>2, <1>5, <1>6 DEF Surrounds
      <4>3. CASE x # temp[d] /\ x \in B[d]
        BY <4>3, <3>1, <1>1, <1>2, <1>3 DEF Surrounds
      <4> QED
        BY <4>1, <4>2, <4>3, <3>1
    <3>4. pc[a] # "first" => temp[a] \notin B[d]
      BY <2>2, <1>5, <1>6 DEF OlderThan
    <3>5. /\ C[a] \subseteq Node /\ new[a] \in C[a]
          /\ head \notin C[a] /\ curr \notin C[a] /\ found \notin C[a] /\ after \notin C[a]
          /\ pc[a] # "first" => temp[a] \notin C[a]
      BY <3>1, <3>4, <1>3, <1>5, <1>6 DEF Surrounds
    <3> QED
      BY <3>2, <3>3, <3>5, <1>1, <1>2, <1>6 DEF Surrounds
  <2> QED
    BY <2>1, <2>2
<1>7. ASSUME NEW a \in Actor, NEW b \in Actor, Pending(a)', Pending(b)', a # b
      PROVE  OlderThan(b, a, C, O)'
  <2>1. OlderThan(b, a, B, O) /\ OlderThan(b, d, B, O)
    BY <1>1, <1>2, <1>7 DEF Apart
  <2>2. Chain(a, d, b, O)
    BY <1>1, <1>2, <1>7 DEF Apart
  <2>3. pc'[b] = pc[b] /\ C[b] \ live = B[b] \ live /\ B[a] \subseteq C[a]
    BY <1>2, <1>4, <1>7
  <2>4. CASE temp[d] \notin B[a]
    <3>1. C[a] = B[a]
      BY <2>4, <1>4
    <3> QED
      BY <2>1, <2>3, <3>1, <1>1 DEF OlderThan
  <2>5. CASE temp[d] \in B[a]
    <3>1. d \in O[a] /\ C[a] = B[a] \cup (B[d] \cap live)
      BY <2>5, <1>4, <1>5, <1>7
    <3> QED
      BY <2>1, <2>2, <2>3, <3>1, <1>1 DEF OlderThan, Chain
  <2> QED
    BY <2>4, <2>5
<1>8. ASSUME NEW a \in Actor, NEW b \in Actor, NEW c \in Actor,
             Pending(a)', Pending(b)', Pending(c)'
      PROVE  Chain(a, b, c, O)'
  BY <1>2, <1>8 DEF Apart, Chain
<1>9. Apart(C, O)'
  BY <1>6, <1>7, <1>8, Zenon DEF Apart
<1> QED
  BY <1>9 DEF IsApart

\* The listen thread's next pointer is read from, and stored in, nodes outside.
LEMMA OutsideNext ==
    ASSUME ListInv, NEW B, NEW a \in Actor, Surrounds(a, B), NEW x \in Node, x \notin B[a]
    PROVE  next[x] \notin B[a]
  BY DEF Surrounds

\* Steps of a thread that issues a request, and does not link its node.
LEMMA AdderApart ==
    ASSUME ListInv, ListInv', HeldLive, NEW B, NEW O, Apart(B, O), NEW d \in Actor,
           id_load(d) \/ adder(d)
    PROVE  IsApart'
<1> USE DEF Pending
<1>1. \A a \in Actor : Pending(a) => Surrounds(a, B)
  BY DEF Apart
<1>2. CASE id_load(d) \/ id_store(d) \/ send(d) \/ add_walk(d)
  <2>1. UNCHANGED <<head, next, live, curr, found, after>>
    BY <1>2 DEF id_load, id_store, send, add_walk, heapVars, scanVars
  <2>2. \A a \in Actor : Pending(a)' =>
           /\ Pending(a) /\ new'[a] = new[a]
           /\ pc'[a] # "first" => pc[a] # "first" /\ temp'[a] \in {temp[a], next[temp[a]]}
    <3>1. \A a \in Actor : pc'[a] = pc[a] \/ a = d
      BY <1>2 DEF id_load, id_store, send, add_walk, Goto, ListInv, TypeOK
    <3>2. CASE add_walk(d)
      BY <3>2 DEF add_walk, Goto, ListInv, TypeOK
    <3>3. CASE id_load(d) \/ id_store(d) \/ send(d)
      BY <3>3 DEF id_load, id_store, send, Goto, ListInv, TypeOK
    <3> QED
      BY <1>2, <3>2, <3>3
  <2>3. \A a \in Actor : Pending(a)' =>
           /\ head' \notin B[a] /\ curr' \notin B[a]
           /\ found' \notin B[a] /\ after' \notin B[a]
    BY <1>1, <2>1, <2>2 DEF Surrounds
  <2>4. UNCHANGED <<next, live>>
    BY <2>1
  <2>5. Apart(B, O)'
    <3> HIDE DEF Pending
    <3> QED
      BY <2>2, <2>3, <2>4, ApartKept, Zenon
  <2> QED
    BY <2>5 DEF IsApart
<1>3. CASE add_first(d)
  <2>1. /\ UNCHANGED <<next, live, new, temp, curr, found, after>> /\ head' = new[d]
        /\ Pending(d)
        /\ \A a \in Actor : Pending(a)' => a # d /\ pc'[a] = pc[a]
    BY <1>3 DEF add_first, Goto, scanVars, ListInv, TypeOK
  <2>2. \A a \in Actor : Pending(a)' => head' \notin B[a]
    BY <2>1 DEF Apart, OlderThan
  <2>3. \A a \in Actor : Pending(a)' =>
           /\ Pending(a) /\ new'[a] = new[a]
           /\ pc'[a] # "first" => pc[a] # "first" /\ temp'[a] \in {temp[a], next[temp[a]]}
           /\ curr' \notin B[a] /\ found' \notin B[a] /\ after' \notin B[a]
    BY <1>1, <2>1 DEF Surrounds
  <2>4. UNCHANGED <<next, live>>
    BY <2>1
  <2>5. Apart(B, O)'
    <3> HIDE DEF Pending
    <3> QED
      BY <2>2, <2>3, <2>4, ApartKept, Zenon
  <2> QED
    BY <2>5 DEF IsApart
<1>4. CASE add_node(d)
  BY <1>4, AddNodeApart
<1>5. CASE add_link(d)
  BY <1>5, AddLinkApart
<1> QED
  BY <1>2, <1>3, <1>4, <1>5 DEF adder

\* Steps of receipt_list_process.
LEMMA ListenerApart ==
    ASSUME ListInv, ListInv', HeldLive, NEW B, NEW O, Apart(B, O), listener
    PROVE  IsApart'
<1>1. \A a \in Actor : Pending(a) => Surrounds(a, B)
  BY DEF Apart
<1>2. UNCHANGED <<pc, new, temp>>
  BY DEF listener, process, compare_head, advance, scan, callback_return,
         unlink_load, unlink_store, adderVars
<1>3. \A a \in Actor : Pending(a)' <=> Pending(a)
  BY <1>2 DEF Pending
<1>4. \A a \in Actor : Pending(a) => B[a] \subseteq Node /\ Nil \notin B[a]
  BY <1>1, NilAssumption DEF Surrounds
<1>5. CASE UNCHANGED <<head, next, live>> /\ \A a \in Actor : Pending(a) =>
                  curr' \notin B[a] /\ found' \notin B[a] /\ after' \notin B[a]
  <2>1. Apart(B, O)'
    BY <1>1, <1>2, <1>3, <1>5, ApartKept, Zenon DEF Surrounds
  <2> QED
    BY <2>1 DEF IsApart
<1>6. CASE process \/ compare_head
  <2>1. \A a \in Actor : Pending(a) => curr' \notin B[a] /\ found' \notin B[a] /\ after' \notin B[a]
    BY <1>1, <1>4, <1>6 DEF process, compare_head, Return, Surrounds
  <2> QED
    BY <1>5, <1>6, <2>1 DEF process, compare_head, heapVars
<1>7. CASE advance \/ scan
  <2>1. curr \in Node
    BY <1>7 DEF advance, scan, ListInv, Scanner, TypeOK
  <2>2. \A a \in Actor : Pending(a) => next[curr] \notin B[a]
    BY <1>1, <2>1, OutsideNext DEF Surrounds
  <2>3. \A a \in Actor : Pending(a) => curr' \notin B[a] /\ found' \notin B[a] /\ after' \notin B[a]
    BY <1>1, <1>4, <1>7, <2>2 DEF advance, scan, Return, Surrounds
  <2> QED
    BY <1>5, <1>7, <2>3 DEF advance, scan, heapVars
<1>8. CASE callback_return \/ unlink_load
  <2>1. found' \in {head, found} /\ after' \in {after, next[found]} /\ curr' = curr
    BY <1>8 DEF callback_return, unlink_load
  <2>2. unlink_load => found \in Node
    BY DEF unlink_load, ListInv, Scanner, TypeOK
  <2>3. \A a \in Actor : Pending(a) => (unlink_load => next[found] \notin B[a])
    BY <1>1, <2>2, OutsideNext DEF Surrounds
  <2>4. \A a \in Actor : Pending(a) => curr' \notin B[a] /\ found' \notin B[a] /\ after' \notin B[a]
    BY <1>1, <1>8, <2>1, <2>3 DEF callback_return, Surrounds
  <2> QED
    BY <1>5, <1>8, <2>4 DEF callback_return, unlink_load, heapVars
<1>9. CASE unlink_store
  <2>1. /\ curr' = Nil /\ found' = Nil /\ after' = Nil /\ live' = live \ {found}
        /\ head' \in {head, after}
        /\ \A x \in Node : next'[x] # next[x] => x = curr /\ next'[x] = after
    BY <1>9 DEF unlink_store, Return, ListInv, TypeOK
  <2>2. \A a \in Actor : Pending(a)' =>
           /\ head' \notin B[a] /\ curr' \notin B[a]
           /\ found' \notin B[a] /\ after' \notin B[a]
           /\ \A n \in Node : next'[n] # next[n] => n \notin B[a] /\ next'[n] \notin B[a]
           /\ B[a] \cap live' = B[a] \cap live
    BY <1>1, <1>3, <1>4, <2>1 DEF Surrounds
  <2>3. \A a \in Actor : Pending(a)' =>
           /\ Pending(a) /\ new'[a] = new[a]
           /\ pc'[a] # "first" => pc[a] # "first" /\ temp'[a] \in {temp[a], next[temp[a]]}
    BY <1>2, <1>3
  <2>4. Apart(B, O)'
    BY <2>2, <2>3, ApartKept, Zenon
  <2> QED
    BY <2>4 DEF IsApart
<1> QED
  BY <1>6, <1>7, <1>8, <1>9 DEF listener

\* A step that only loads pointers, or clears them.
LEMMA RankKept ==
    ASSUME ListInv, NEW r, Ranked(r),
           \A n \in Node : next'[n] # next[n] => next'[n] = Nil,
           UNCHANGED <<curr, found, after>>
    PROVE  IsRanked'
<1>1. Ranked(r)'
  BY DEF Ranked
<1> QED
  BY <1>1 DEF IsRanked

\* The nodes around the new one are lifted above the node it is linked to.
LEMMA AddLinkRanked ==
    ASSUME ListInv, NEW B, NEW O, Apart(B, O), NEW r, Ranked(r), NEW d \in Actor, add_link(d)
    PROVE  IsRanked'
<1>1. /\ next' = [next EXCEPT ![temp[d]] = new[d]]
      /\ UNCHANGED <<live, curr, found, after>> /\ Pending(d) /\ pc[d] # "first"
  BY DEF add_link, Pending, scanVars
<1>2. /\ temp[d] \in Node /\ new[d] \in live /\ live \subseteq Node
      /\ next'[temp[d]] = new[d] /\ \A x \in Node \ {temp[d]} : next'[x] = next[x]
      /\ \A x \in Node : next[x] \in Node \cup {Nil}
  BY <1>1, add_link(d) DEF add_link, ListInv, TypeOK, Points
<1>3. Surrounds(d, B)
  BY <1>1 DEF Apart
<1> DEFINE up == r[temp[d]] + 1
<1>4. r[temp[d]] \in Nat /\ up \in Nat /\ up > r[temp[d]]
  BY <1>2 DEF Ranked
<1> PICK s : s = [n \in Node |-> IF n \in B[d] /\ n \in live THEN r[n] + up ELSE r[n]]
  OBVIOUS
<1> HIDE DEF up
<1>5. /\ s \in [Node -> Nat]
      /\ \A n \in Node : s[n] \in Nat /\ r[n] \in Nat
      /\ \A n \in Node : n \in B[d] /\ n \in live => s[n] = r[n] + up
      /\ \A n \in Node : n \notin B[d] \/ n \notin live => s[n] = r[n]
  BY <1>4 DEF Ranked
<1>6. \A n \in Node : next'[n] # Nil => s[n] < s[next'[n]]
  <2> SUFFICES ASSUME NEW n \in Node, next'[n] # Nil PROVE s[n] < s[next'[n]]
    OBVIOUS
  <2>1. CASE n = temp[d]
    <3>1. n \notin B[d] /\ new[d] \in B[d] /\ new[d] \in Node /\ next'[n] = new[d]
      BY <2>1, <1>1, <1>2, <1>3 DEF Surrounds
    <3>2. s[n] = r[temp[d]] /\ s[next'[n]] = r[new[d]] + up /\ r[new[d]] \in Nat
      BY <2>1, <3>1, <1>2, <1>5
    <3> QED
      BY <3>2, <1>4
  <2>2. CASE n # temp[d]
    <3>1. next'[n] = next[n] /\ next[n] \in Node /\ r[n] < r[next[n]]
      BY <2>2, <1>2 DEF Ranked
    <3>2. CASE n \in B[d] /\ n \in live
      <4>1. next[n] \in B[d] /\ next[n] \in live
        BY <3>1, <3>2, <1>3 DEF Surrounds, ListInv, LinksLive
      <4>2. s[n] = r[n] + up /\ s[next[n]] = r[next[n]] + up
        BY <3>1, <3>2, <4>1, <1>5
      <4> QED
        BY <3>1, <4>2, <1>4, <1>5
    <3>3. CASE n \notin B[d] \/ n \notin live
      <4>1. s[n] = r[n] /\ (s[next[n]] = r[next[n]] \/ s[next[n]] = r[next[n]] + up)
        BY <3>1, <3>3, <1>5
      <4> QED
        BY <3>1, <4>1, <1>4, <1>5
    <3> QED
      BY <3>2, <3>3
  <2> QED
    BY <2>1, <2>2
<1>7. \A n \in {curr, found, after} : n \in Node => s[n] = r[n]
  BY <1>3, <1>5 DEF Surrounds
<1>8. {curr, found, after} \subseteq Node \cup {Nil}
  BY DEF ListInv, TypeOK
<1>9. /\ curr # Nil /\ found # Nil => s[curr] < s[found]
      /\ found # Nil /\ after # Nil => s[found] < s[after]
  BY <1>7, <1>8 DEF Ranked
<1>10. Ranked(s)'
  BY <1>1, <1>5, <1>6, <1>9 DEF Ranked
<1> QED
  BY <1>10 DEF IsRanked

\* Steps of a thread that issues a request.
LEMMA AdderRanked ==
    ASSUME ListInv, NEW B, NEW O, Apart(B, O), NEW r, Ranked(r), NEW d \in Actor,
           id_load(d) \/ adder(d)
    PROVE  IsRanked'
<1>1. CASE id_load(d) \/ id_store(d) \/ send(d) \/ add_walk(d) \/ add_first(d)
  <2>1. UNCHANGED <<next, curr, found, after>>
    BY <1>1 DEF id_load, id_store, send, add_walk, add_first, heapVars, scanVars
  <2> QED
    BY <2>1, RankKept
<1>2. CASE add_node(d)
  <2>1. UNCHANGED <<curr, found, after>>
    BY <1>2 DEF add_node, scanVars
  <2>2. \A n \in Node : next'[n] # next[n] => next'[n] = Nil
    BY <1>2 DEF add_node, ListInv, TypeOK
  <2> QED
    BY <2>1, <2>2, RankKept
<1> QED
  BY <1>1, <1>2, AddLinkRanked DEF adder

\* Steps of receipt_list_process: a node is replaced by the one behind it.
LEMMA ListenerRanked ==
    ASSUME ListInv, HeldLive, NEW r, Ranked(r), listener
    PROVE  IsRanked'
<1> SUFFICES Ranked(r)'
  BY DEF IsRanked
<1> USE DEF Ranked
<1>1. CASE process \/ compare_head
  <2>1. curr = Nil /\ after = Nil /\ next' = next /\ after' = after
    BY <1>1 DEF process, compare_head, ListInv, Scanner, HeldLive, Return, heapVars
  <2>2. curr' = Nil \/ found' = Nil
    BY <1>1, <2>1 DEF process, compare_head, Return
  <2> QED
    BY <2>1, <2>2
<1>2. CASE advance \/ scan
  <2>1. after = Nil /\ after' = Nil /\ next' = next /\ curr \in Node
    BY <1>2 DEF advance, scan, HeldLive, Return, heapVars, ListInv, Scanner, TypeOK
  <2>2. \/ curr' = Nil \/ found' = Nil
        \/ curr' = curr /\ found' \in {found, next[curr]}
    BY <1>2 DEF advance, scan, Return
  <2> QED
    BY <2>1, <2>2
<1>3. CASE callback_return \/ unlink_load
  <2>1. next' = next /\ curr' = curr /\ (curr # Nil => found' = found)
    BY <1>3 DEF callback_return, unlink_load, heapVars
  <2>2. \/ after' = Nil
        \/ found' = found /\ found \in Node /\ after' = next[found]
    BY <1>3 DEF callback_return, unlink_load, HeldLive, ListInv, Scanner, TypeOK
  <2> QED
    BY <2>1, <2>2
<1>4. CASE unlink_store
  <2>1. curr' = Nil /\ found' = Nil /\ after' = Nil
    BY <1>4 DEF unlink_store, Return
  <2>2. found \in Node /\ found # Nil
    BY <1>4, NilAssumption DEF unlink_store, ListInv, Scanner, TypeOK
  <2>3. curr # Nil /\ after # Nil => r[curr] < r[after]
    <3>1. curr # Nil /\ after # Nil => r[curr] \in Nat /\ r[found] \in Nat /\ r[after] \in Nat
      BY <2>2 DEF ListInv, TypeOK
    <3> QED
      BY <2>2, <3>1
  <2>4. \A n \in Node : next'[n] = next[n] \/ (n = curr /\ next'[n] = after /\ curr # Nil)
    BY <1>4, NilAssumption DEF unlink_store, ListInv, TypeOK
  <2> QED
    BY <2>1, <2>3, <2>4
<1> QED
  BY <1>1, <1>2, <1>3, <1>4 DEF listener

\* Nobody has a node at first, and all pointers are null.
LEMMA RingInit == Init => RingInv
<1> SUFFICES ASSUME Init PROVE RingInv
  OBVIOUS
<1>1. HeldLive
  BY DEF Init, HeldLive
<1>2. \A B, O : Apart(B, O)
  BY DEF Init, Apart, Pending
<1>3. Ranked([n \in Node |-> 0])
  BY DEF Init, Ranked
<1> QED
  BY <1>1, <1>2, <1>3, InitList DEF RingInv, IsApart, IsRanked

\* The ranks, and what surrounds the new nodes, are inductive.
LEMMA RingStep == RingInv /\ [Next]_vars => RingInv'
<1> SUFFICES ASSUME RingInv, [Next]_vars PROVE RingInv'
  OBVIOUS
<1>1. ListInv /\ ListInv' /\ HeldLive /\ HeldLive'
  BY NextList, HeldLiveStep DEF RingInv
<1>2. PICK B, O : Apart(B, O)
  BY DEF RingInv, IsApart
<1>3. PICK r : Ranked(r)
  BY DEF RingInv, IsRanked
<1>4. CASE \E a \in Actor : id_load(a) \/ adder(a)
  BY <1>1, <1>2, <1>3, <1>4, AdderApart, AdderRanked DEF RingInv
<1>5. CASE listener
  BY <1>1, <1>2, <1>3, <1>5, ListenerApart, ListenerRanked DEF RingInv
<1>6. CASE UNCHANGED vars \/ quiet
  <2>1. UNCHANGED <<pc, new, temp, head, next, live, curr, found, after>>
    BY <1>6 DEF quiet, vars, adderVars, heapVars, scanVars
  <2>2. \A a \in Actor : Pending(a) <=> Pending(a)'
    BY <2>1 DEF Pending
  <2>3. Apart(B, O)'
    BY <1>2, <2>1, <2>2 DEF Apart, Surrounds, OlderThan, Chain
  <2>4. Ranked(r)'
    BY <1>3, <2>1 DEF Ranked
  <2> QED
    BY <1>1, <2>3, <2>4 DEF RingInv, IsApart, IsRanked
<1> QED
  BY <1>4, <1>5, <1>6 DEF Next

\* The pointers are ranked in every reachable state.
LEMMA RingInvariant == Spec => []RingInv
  BY RingInit, RingStep, PTL DEF Spec

\* Without any lock, and with any number of client threads in receipt_list_add,
\* receipt_list_process holds and frees only allocated nodes, and the node it is
\* going to link in place of the one it frees is allocated too.
THEOREM ListenerNodesCorrect == Spec => []ListenerNodesLive
<1>1. RingInv => ListenerNodesLive
  BY DEF RingInv, HeldLive, ListenerNodesLive
<1> QED
  BY <1>1, RingInvariant, PTL

----------------------------------------------------------------------------
(* What Walk computes.  The library's induction theorems take a predicate as a
   parameter; here a least counterexample takes their place. *)

\* A set of numbers that is not empty has a least one.
LEMMA LeastNumber ==
    ASSUME NEW S \in SUBSET Nat, S # {}
    PROVE  \E k \in S : \A j \in S : k <= j
<1> DEFINE R == OpToRel(<, Nat)
<1>1. IsWellFoundedOn(R, Nat)
  BY NatLessThanWellFounded, Zenon
<1>2. \A a, b \in Nat : ~ (<<a, b>> \in R) => b <= a
  BY DEF OpToRel
<1>3. \E k \in S : \A j \in S : ~ (<<j, k>> \in R)
  <2> HIDE DEF R
  <2> QED  BY <1>1, WFMin
<1> QED
  <2> HIDE DEF R
  <2> QED  BY <1>2, <1>3, Zenon

\* A set that holds 0, and with each number below K its successor, holds all of
\* them up to K.
LEMMA UpTo ==
    ASSUME NEW S, NEW K \in Nat, 0 \in S,
           \A i \in 0 .. K : i < K /\ i \in S => i + 1 \in S
    PROVE  0 .. K \subseteq S
<1> SUFFICES ASSUME (0 .. K) \ S # {} PROVE FALSE
  OBVIOUS
<1> DEFINE D == (0 .. K) \ S
<1>1. D \in SUBSET Nat /\ D # {}
  OBVIOUS
<1>2. PICK k \in D : \A j \in D : k <= j
  <2> HIDE DEF D
  <2> QED  BY <1>1, LeastNumber
<1>3. k \in Nat /\ k # 0 /\ k <= K /\ k \notin S
  OBVIOUS
<1>4. k - 1 \in 0 .. K /\ k - 1 < K /\ k - 1 \notin D
  BY <1>2, <1>3
<1>5. k - 1 \in S
  BY <1>4
<1>6. (k - 1) + 1 \in S
  BY <1>4, <1>5
<1> QED
  BY <1>3, <1>6

\* w is the walk of at most k steps from n.
WalkOf(w, n, k) ==
    w = [i \in 0 .. k |-> IF i = 0 THEN n
                          ELSE IF w[i - 1] = Nil THEN Nil ELSE next[w[i - 1]]]

\* There is a walk of any length.
LEMMA WalkExists ==
    ASSUME NEW n, NEW K \in Nat
    PROVE  \E w : WalkOf(w, n, K)
<1> DEFINE S == {k \in 0 .. K : \E w : WalkOf(w, n, k)}
<1>1. 0 \in S
  <2>1. WalkOf([i \in 0 .. 0 |-> n], n, 0)
    BY DEF WalkOf
  <2> QED
    BY <2>1
<1>2. ASSUME NEW k \in 0 .. K, k < K, k \in S
      PROVE  k + 1 \in S
  <2>1. PICK w : WalkOf(w, n, k)
    BY <1>2
  <2> DEFINE last == IF w[k] = Nil THEN Nil ELSE next[w[k]]
  <2> DEFINE v == [i \in 0 .. k + 1 |-> IF i = k + 1 THEN last ELSE w[i]]
  <2>2. \A i \in 0 .. k : v[i] = w[i]
    OBVIOUS
  <2>3. \A i \in 0 .. k + 1 :
          v[i] = IF i = 0 THEN n ELSE IF v[i - 1] = Nil THEN Nil ELSE next[v[i - 1]]
    <3> SUFFICES ASSUME NEW i \in 0 .. k + 1
                 PROVE  v[i] = IF i = 0 THEN n ELSE IF v[i - 1] = Nil THEN Nil ELSE next[v[i - 1]]
      OBVIOUS
    <3>1. CASE i = k + 1
      <4>1. i # 0 /\ i - 1 = k /\ k \in 0 .. k /\ v[i] = last
        BY <3>1
      <4>2. v[i - 1] = w[k]
        BY <4>1, <2>2
      <4> QED
        BY <4>1, <4>2
    <3>2. CASE i # k + 1
      <4>1. i \in 0 .. k /\ (i # 0 => i - 1 \in 0 .. k)
        BY <3>2
      <4>2. v[i] = w[i] /\ (i # 0 => v[i - 1] = w[i - 1])
        BY <4>1, <2>2
      <4>3. w[i] = IF i = 0 THEN n ELSE IF w[i - 1] = Nil THEN Nil ELSE next[w[i - 1]]
        BY <2>1, <4>1 DEF WalkOf
      <4> QED
        BY <4>2, <4>3
    <3> QED
      BY <3>1, <3>2
  <2>4. v = [i \in 0 .. k + 1 |-> v[i]]
    OBVIOUS
  <2>5. WalkOf(v, n, k + 1)
    <3> HIDE DEF v
    <3> QED  BY <2>3, <2>4 DEF WalkOf
  <2> QED
    BY <2>5, <1>2
<1>3. 0 .. K \subseteq S
  <2> HIDE DEF S
  <2> QED  BY <1>1, <1>2, UpTo
<1> QED
  BY <1>3

\* Walk satisfies its defining equation.
LEMMA WalkEquation ==
    ASSUME NEW n
    PROVE  /\ Cardinality(Node) \in Nat
           /\ Walk(n)[0] = n
           /\ \A i \in 1 .. Cardinality(Node) :
                Walk(n)[i] = IF Walk(n)[i - 1] = Nil THEN Nil ELSE next[Walk(n)[i - 1]]
<1>1. Cardinality(Node) \in Nat
  BY NodeAssumption, FS_CardinalityType
<1>2. \E w : WalkOf(w, n, Cardinality(Node))
  BY <1>1, WalkExists
<1>3. Walk(n) = CHOOSE w : WalkOf(w, n, Cardinality(Node))
  BY DEF Walk, WalkOf
<1>4. WalkOf(Walk(n), n, Cardinality(Node))
  BY <1>2, <1>3
<1> QED
  BY <1>1, <1>4 DEF WalkOf

\* A walk passes nodes until it ends.
LEMMA WalkType ==
    ASSUME TypeOK, NEW n \in Node \cup {Nil}
    PROVE  \A i \in 0 .. Cardinality(Node) : Walk(n)[i] \in Node \cup {Nil}
<1> DEFINE N == Cardinality(Node)
           w == Walk(n)
           S == {i \in 0 .. N : w[i] \in Node \cup {Nil}}
<1>1. /\ N \in Nat /\ w[0] = n
      /\ \A i \in 1 .. N : w[i] = IF w[i - 1] = Nil THEN Nil ELSE next[w[i - 1]]
  BY WalkEquation
<1> HIDE DEF w, N
<1>2. 0 \in S
  BY <1>1
<1>3. ASSUME NEW i \in 0 .. N, i < N, i \in S PROVE i + 1 \in S
  <2>1. i + 1 \in 1 .. N /\ (i + 1) - 1 = i /\ i + 1 \in 0 .. N
    BY <1>1, <1>3
  <2>2. w[i + 1] = IF w[i] = Nil THEN Nil ELSE next[w[i]]
    BY <1>1, <2>1
  <2> QED
    BY <2>1, <2>2, <1>3 DEF TypeOK
<1>4. 0 .. N \subseteq S
  <2> HIDE DEF S
  <2> QED  BY <1>1, <1>2, <1>3, UpTo
<1> QED
  BY <1>4 DEF w, N

\* A walk that has ended does not go on.
LEMMA WalkStays ==
    ASSUME NEW n, NEW i \in 0 .. Cardinality(Node), Walk(n)[i] = Nil
    PROVE  Walk(n)[Cardinality(Node)] = Nil
<1> DEFINE N == Cardinality(Node)
           w == Walk(n)
           S == {k \in 0 .. N : k >= i => w[k] = Nil}
<1>1. N \in Nat /\ \A k \in 1 .. N : w[k] = IF w[k - 1] = Nil THEN Nil ELSE next[w[k - 1]]
  BY WalkEquation
<1>2. i \in 0 .. N /\ w[i] = Nil
  OBVIOUS
<1> HIDE DEF w, N
<1>3. 0 \in S
  BY <1>1, <1>2
<1>4. ASSUME NEW k \in 0 .. N, k < N, k \in S PROVE k + 1 \in S
  <2>1. k + 1 \in 1 .. N /\ (k + 1) - 1 = k /\ k + 1 \in 0 .. N
    BY <1>1, <1>4
  <2>2. w[k + 1] = IF w[k] = Nil THEN Nil ELSE next[w[k]]
    BY <1>1, <2>1
  <2>3. k + 1 >= i => w[k + 1] = Nil
    BY <1>2, <1>4, <2>2
  <2> QED
    BY <2>1, <2>3
<1>5. 0 .. N \subseteq S
  <2> HIDE DEF S
  <2> QED  BY <1>1, <1>3, <1>4, UpTo
<1> QED
  BY <1>1, <1>2, <1>5 DEF w, N

\* Where pointers lead upwards a walk meets no node twice, and ends after as
\* many steps as there are nodes.
LEMMA WalkEnds ==
    ASSUME TypeOK, NEW r, Ranked(r), NEW n \in Node \cup {Nil}
    PROVE  Walk(n)[Cardinality(Node)] = Nil
<1> SUFFICES ASSUME Walk(n)[Cardinality(Node)] # Nil PROVE FALSE
  OBVIOUS
<1> DEFINE N == Cardinality(Node)
           w == Walk(n)
<1>1. /\ N \in Nat
      /\ \A i \in 1 .. N : w[i] = IF w[i - 1] = Nil THEN Nil ELSE next[w[i - 1]]
  BY WalkEquation
<1>2. \A i \in 0 .. N : w[i] \in Node
  BY WalkType, WalkStays
<1>3. Nil \notin Node /\ r \in [Node -> Nat] /\ \A x \in Node : next[x] # Nil => r[x] < r[next[x]]
  BY NilAssumption DEF Ranked
<1>4. N = Cardinality(Node)
  OBVIOUS
<1> HIDE DEF w, N
<1>5. \A i \in 0 .. N : i < N => r[w[i]] < r[w[i + 1]]
  <2> SUFFICES ASSUME NEW i \in 0 .. N, i < N PROVE r[w[i]] < r[w[i + 1]]
    OBVIOUS
  <2>1. i + 1 \in 1 .. N /\ (i + 1) - 1 = i /\ i + 1 \in 0 .. N
    BY <1>1
  <2>2. w[i + 1] = next[w[i]] /\ w[i + 1] # Nil /\ w[i] \in Node
    BY <1>1, <1>2, <1>3, <2>1
  <2> QED
    BY <2>2, <1>3
<1>6. \A i \in 0 .. N : r[w[i]] \in Nat
  BY <1>2, <1>3
<1>7. ASSUME NEW i \in 0 .. N PROVE \A j \in 0 .. N : i < j => r[w[i]] < r[w[j]]
  <2> DEFINE S == {j \in 0 .. N : i < j => r[w[i]] < r[w[j]]}
  <2>1. 0 \in S
    BY <1>1
  <2>2. ASSUME NEW j \in 0 .. N, j < N, j \in S PROVE j + 1 \in S
    <3>1. j + 1 \in 0 .. N /\ r[w[j]] < r[w[j + 1]]
      BY <1>1, <1>5, <2>2
    <3>2. r[w[i]] \in Nat /\ r[w[j]] \in Nat /\ r[w[j + 1]] \in Nat
      BY <1>6, <1>7, <3>1
    <3>3. i < j + 1 => i = j \/ i < j
      BY <1>1
    <3>4. i < j + 1 => r[w[i]] < r[w[j + 1]]
      <4>1. CASE i = j
        BY <4>1, <3>1
      <4>2. CASE i < j
        BY <4>2, <2>2, <3>1, <3>2
      <4> QED
        BY <3>3, <4>1, <4>2
    <3> QED
      BY <3>1, <3>4
  <2>3. 0 .. N \subseteq S
    <3> HIDE DEF S
    <3> QED  BY <1>1, <2>1, <2>2, UpTo
  <2> QED
    BY <2>3
<1> DEFINE f == [i \in 0 .. N |-> w[i]]
<1>8. f \in [0 .. N -> Node]
  BY <1>2
<1>9. IsFiniteSet(0 .. N) /\ Cardinality(0 .. N) = N + 1
  BY <1>1, FS_Interval
<1>10. \E i, j \in 0 .. N : i # j /\ f[i] = f[j]
  <2>1. Cardinality(Node) < Cardinality(0 .. N)
    BY <1>1, <1>4, <1>9
  <2> HIDE DEF f
  <2> QED
    BY <1>8, <1>9, <2>1, NodeAssumption, FS_PigeonHole
<1>11. PICK i \in 0 .. N, j \in 0 .. N : i # j /\ w[i] = w[j]
  BY <1>10
<1>12. i < j \/ j < i
  BY <1>1, <1>11
<1>13. r[w[i]] < r[w[j]] \/ r[w[j]] < r[w[i]]
  BY <1>7, <1>12
<1> QED
  BY <1>6, <1>11, <1>13

\* The races of receipt_list_add and receipt_list_process never close the list
\* to a ring, for any number of threads and requests: from the head, and from
\* any node a thread is about to link to, freed or not, a walk comes to an end.
THEOREM WalksEndCorrect == Spec => []EveryWalkEnds
<1>1. RingInv => EveryWalkEnds
  <2> SUFFICES ASSUME RingInv, NEW n \in {head} \cup {temp[a] : a \in Actor}
               PROVE  Walk(n)[Cardinality(Node)] = Nil
    BY DEF EveryWalkEnds
  <2>1. PICK r : Ranked(r)
    BY DEF RingInv, IsRanked
  <2>2. TypeOK /\ n \in Node \cup {Nil}
    BY DEF RingInv, ListInv, TypeOK
  <2> QED
    BY <2>1, <2>2, WalkEnds
<1> QED
  BY <1>1, RingInvariant, PTL
----------------------------------------------------------------------------
(***************************************************************************)
(* The list as long as no two threads have met in a window: then it is one *)
(* chain from the head, through every allocated node but the one about to  *)
(* be linked, and an id is given out once.  Outside the windows threads    *)
(* may go about it at the same time: a search goes on while receipts are   *)
(* added.                                                                  *)
(***************************************************************************)

\* A thread has an id and has not yet sent its request.
Owner(a) == pc[a] \in {"add", "first", "walk", "link", "send"}

\* The nodes that have been linked.
Linked == {n \in live : \A a \in Actor : Pending(a) => new[a] # n}

\* The listen thread registers a request between two replies or in a callback.
Alone ==
    lpc \in {"head", "advance", "scan", "free", "unlink"} => pc[Listener] = "idle"

OneBusy ==
    \A a, b \in Actor :
        \/ Numbering(a) /\ Numbering(b)
        \/ Linking(a) /\ Linking(b)
        => a = b

\* An id on the wire, with a thread or in the reply being looked up is there
\* once, and the next one is new.
IdsFresh ==
    /\ \A a \in Actor : pc[a] = "store_id" => rid[a] = id
    /\ \A a \in Actor : Owner(a) => rid[a] <= id
    /\ lpc # "listen" => reply <= id
    /\ \A i \in 1 .. Len(wire) : wire[i] <= id

IdsOnce ==
    /\ \A a, b \in Actor : Owner(a) /\ Owner(b) /\ rid[a] = rid[b] => a = b
    /\ \A i, j \in 1 .. Len(wire) : wire[i] = wire[j] => i = j
    /\ \A a \in Actor : Owner(a) => \A i \in 1 .. Len(wire) : wire[i] # rid[a]
    /\ lpc # "listen" => /\ \A a \in Actor : Owner(a) => rid[a] # reply
                         /\ \A i \in 1 .. Len(wire) : wire[i] # reply

\* Every request that is or may be on the wire has a node in the list.
Known == {ridOf[n] : n \in Linked}

Registered ==
    /\ \A a \in Actor : Pending(a) => ridOf[new[a]] = rid[a]
    /\ \A a \in Actor : pc[a] = "send" => rid[a] \in Known
    /\ \A i \in 1 .. Len(wire) : wire[i] \in Known

\* Every linked node but the first stands behind another one.
Connected == \A n \in Linked : n # head => \E x \in Linked : next[x] = n

\* A thread in receipt_list_add is at a node of the list, at its end to link.
AdderAt ==
    \A a \in Actor :
        /\ pc[a] = "first" => head = Nil
        /\ pc[a] \in {"walk", "link"} => temp[a] \in Linked
        /\ pc[a] = "link" => next[temp[a]] = Nil

\* receipt_list_process is at a node of the list, and found the one it was
\* looking for.
ListenerAt ==
    /\ lpc = "head" => head = found
    /\ lpc = "scan" => next[curr] = found
    /\ lpc \in {"callback", "free", "unlink"} =>
         /\ ridOf[found] = reply
         /\ curr = Nil => head = found
         /\ curr # Nil => next[curr] = found
    /\ lpc = "unlink" => after = next[found]

Closed(S) == \A x \in S : next[x] # Nil => next[x] \in S

\* The pointers lead from node x to node n.
Ahead(x, n) == \A S \in SUBSET Node : x \in S /\ Closed(S) => n \in S

\* The receipt it is looking for lies ahead.
Searched ==
    /\ lpc = "head" => reply \in Known
    /\ lpc = "advance" =>
         \E n \in Linked : ridOf[n] = reply /\ n # curr /\ Ahead(curr, n)
    /\ lpc = "scan" =>
         /\ found # Nil
         /\ \E n \in Linked : ridOf[n] = reply /\ Ahead(found, n)

SerialInv ==
    /\ Alone
    /\ ~overlapped =>
         /\ OneBusy /\ IdsFresh /\ IdsOnce
         /\ Registered /\ Connected /\ AdderAt /\ ListenerAt /\ Searched

\* The list leads from linked nodes to linked nodes.
LEMMA LinkedNext ==
    ASSUME ListInv
    PROVE  /\ Linked \subseteq live /\ live \subseteq Node
           /\ head \in Linked \cup {Nil}
           /\ \A x \in live : next[x] \in Linked \cup {Nil}
  BY DEF ListInv, TypeOK, LinksLive, PendingUnlinked, Linked

\* What a thread that links knows of the others.
LEMMA Exclusive ==
    ASSUME ListInv, OneBusy, NEW a \in Actor, Linking(a)
    PROVE  /\ \A b \in Actor \ {a} : ~Linking(b) /\ ~Pending(b)
           /\ a # Listener => lpc # "unlink"
<1>1. \A b \in Actor \ {a} : ~Linking(b)
  BY DEF OneBusy
<1>2. Listener \in Actor
  BY DEF Actor
<1> QED
  BY <1>1, <1>2 DEF Linking, Pending

\* receipt_list_process returns from the callback before it goes on.
LEMMA AloneStep ==
    ASSUME ListInv, Alone, [Next]_vars
    PROVE  Alone'
<1>0. Listener \in Actor
  BY DEF Actor
<1>1. ASSUME NEW a \in Actor, id_load(a) \/ adder(a) PROVE Alone'
  <2>1. lpc' = lpc
    BY <1>1 DEF id_load, adder, id_store, add_node, add_first, add_walk, add_link, send, scanVars
  <2>2. a # Listener => pc'[Listener] = pc[Listener]
    BY <1>0, <1>1 DEF id_load, adder, id_store, add_node, add_first, add_walk, add_link, send,
                Goto, ListInv, TypeOK
  <2>3. a = Listener => lpc \notin {"head", "advance", "scan", "free", "unlink"}
    BY <1>1 DEF id_load, adder, id_store, add_node, add_first, add_walk, add_link, send, Alone
  <2> QED
    BY <2>1, <2>2, <2>3 DEF Alone
<1>2. CASE listener
  BY <1>2 DEF listener, process, compare_head, advance, scan, callback_return,
         unlink_load, unlink_store, Return,
         adderVars, Alone
<1>3. CASE UNCHANGED vars \/ quiet
  BY <1>3 DEF quiet, vars, adderVars, scanVars, Alone
<1> QED
  BY <1>1, <1>2, <1>3 DEF Next

\* Whoever enters finds nobody.
LEMMA BusyStep ==
    ASSUME ListInv, OneBusy, ~overlapped', [Next]_vars
    PROVE  OneBusy'
<1>0. Listener \in Actor
  BY DEF Actor
<1>1. ASSUME NEW a \in Actor, id_load(a) PROVE OneBusy'
  <2>1. \A b \in Actor \ {a} : ~Numbering(b)
    BY <1>1, Zenon DEF id_load, Enter
  <2>2. pc'[a] = "store_id" /\ \A b \in Actor \ {a} : pc'[b] = pc[b]
    BY <1>1 DEF id_load, Goto, ListInv, TypeOK
  <2>3. lpc' = lpc /\ pc[a] = "idle"
    BY <1>1 DEF id_load, scanVars
  <2> QED
    BY <2>1, <2>2, <2>3 DEF OneBusy, Numbering, Linking
<1>2. ASSUME NEW a \in Actor, add_node(a) PROVE OneBusy'
  <2>1. \A b \in Actor \ {a} : ~Linking(b)
    BY <1>2, Zenon DEF add_node, Enter
  <2>2. pc'[a] \in {"first", "walk"} /\ \A b \in Actor \ {a} : pc'[b] = pc[b]
    BY <1>2 DEF add_node, Goto, ListInv, TypeOK
  <2>3. lpc' = lpc
    BY <1>2 DEF add_node, scanVars
  <2> QED
    BY <2>1, <2>2, <2>3 DEF OneBusy, Numbering, Linking
<1>3. CASE unlink_load
  <2>1. \A b \in Actor \ {Listener} : ~Linking(b)
    BY <1>3, Zenon DEF unlink_load, Enter
  <2>2. pc' = pc
    BY <1>3 DEF unlink_load, adderVars
  <2> QED
    BY <2>1, <2>2 DEF OneBusy, Numbering, Linking
<1>4. CASE \A b \in Actor : (Numbering(b)' => Numbering(b)) /\ (Linking(b)' => Linking(b))
  BY <1>4, Zenon DEF OneBusy
<1>5. ASSUME NEW a \in Actor,
             id_store(a) \/ add_first(a) \/ add_walk(a) \/ add_link(a) \/ send(a)
      PROVE  OneBusy'
  <2>1. lpc' = lpc
    BY <1>5 DEF id_store, add_first, add_walk, add_link, send, scanVars
  <2>2. \A b \in Actor \ {a} : pc'[b] = pc[b]
    BY <1>5 DEF id_store, add_first, add_walk, add_link, send, Goto, ListInv, TypeOK
  <2>3. \/ pc'[a] \in {"add", "send", "idle"}
        \/ pc[a] = "walk" /\ pc'[a] \in {"walk", "link"}
    BY <1>5 DEF id_store, add_first, add_walk, add_link, send, Goto, ListInv, TypeOK
  <2> QED
    BY <1>4, <2>1, <2>2, <2>3 DEF Numbering, Linking
<1>6. CASE process \/ compare_head \/ advance \/ scan \/ callback_return \/ unlink_store
  <2>1. pc' = pc /\ lpc' # "unlink"
    BY <1>6 DEF process, compare_head, advance, scan, callback_return, unlink_store,
                adderVars, Return
  <2> QED
    BY <1>4, <2>1 DEF Numbering, Linking
<1>7. CASE UNCHANGED vars \/ quiet
  BY <1>4, <1>7 DEF quiet, vars, adderVars, scanVars, Numbering, Linking
<1> QED
  BY <1>1, <1>2, <1>3, <1>5, <1>6, <1>7 DEF Next, adder, listener

\* Threads that issue a request, and their ids.
LEMMA AdderIds ==
    ASSUME ListInv, OneBusy, IdsFresh, IdsOnce, ~overlapped', NEW a \in Actor,
           id_load(a) \/ adder(a)
    PROVE  IdsFresh' /\ IdsOnce'
<1> USE DEF Goto, scanVars
<1>0. /\ id \in Nat /\ reply \in Nat /\ wire \in Seq(Nat) /\ Len(wire) \in Nat
      /\ \A b \in Actor : rid[b] \in Nat
      /\ \A i \in 1 .. Len(wire) : wire[i] \in Nat
  BY DEF ListInv, TypeOK
<1>1. UNCHANGED <<lpc, reply>>
  BY DEF id_load, adder, id_store, add_node, add_first, add_walk, add_link, send
<1>2. \A b \in Actor \ {a} : pc'[b] = pc[b] /\ rid'[b] = rid[b]
  BY DEF id_load, adder, id_store, add_node, add_first, add_walk, add_link, send,
         ListInv, TypeOK
<1>3. CASE id_load(a)
  <2>1. pc'[a] = "store_id" /\ rid'[a] = id /\ UNCHANGED <<id, wire>>
    BY <1>3 DEF id_load, ListInv, TypeOK
  <2>2. IdsFresh'
    BY <1>0, <1>1, <1>2, <2>1 DEF IdsFresh, Owner
  <2>3. \A b \in Actor : Owner(b)' => Owner(b) /\ b # a /\ rid'[b] = rid[b]
    BY <1>2, <2>1 DEF Owner
  <2>4. IdsOnce'
    BY <1>1, <2>1, <2>3 DEF IdsOnce
  <2> QED
    BY <2>2, <2>4
<1>4. CASE id_store(a)
  <2>1. /\ pc'[a] = "add" /\ rid[a] = id /\ rid'[a] = id + 1 /\ id' = id + 1
        /\ wire' = wire /\ Numbering(a)
    BY <1>4 DEF id_store, ListInv, TypeOK, IdsFresh, Numbering
  <2>2. \A b \in Actor \ {a} : pc[b] # "store_id"
    BY <2>1 DEF OneBusy, Numbering
  <2>3. \A b \in Actor \ {a} : Owner(b) => rid[b] <= id
    BY DEF IdsFresh
  <2>4. IdsFresh'
    BY <1>0, <1>1, <1>2, <2>1, <2>2, <2>3 DEF IdsFresh, Owner
  <2>5. \A b \in Actor \ {a} : Owner(b)' => Owner(b) /\ rid'[b] = rid[b]
    BY <1>2 DEF Owner
  <2>6. \A b \in Actor \ {a} : Owner(b)' => rid'[b] # rid'[a]
    BY <1>0, <2>1, <2>3, <2>5
  <2>7. \A i \in 1 .. Len(wire) : wire[i] # rid'[a]
    BY <1>0, <2>1 DEF IdsFresh
  <2>8. lpc # "listen" => reply # rid'[a]
    BY <1>0, <2>1 DEF IdsFresh
  <2>9. IdsOnce'
    BY <1>1, <2>1, <2>5, <2>6, <2>7, <2>8 DEF IdsOnce
  <2> QED
    BY <2>4, <2>9
<1>5. CASE add_node(a) \/ add_first(a) \/ add_walk(a) \/ add_link(a)
  <2>1. UNCHANGED <<id, wire, rid>> /\ Owner(a) /\ pc'[a] # "store_id"
    BY <1>5 DEF add_node, add_first, add_walk, add_link, Owner, ListInv, TypeOK
  <2>2. \A b \in Actor : Owner(b)' => Owner(b)
    BY <1>2, <2>1 DEF Owner
  <2>3. IdsFresh'
    BY <1>1, <1>2, <2>1, <2>2 DEF IdsFresh
  <2>4. IdsOnce'
    BY <1>1, <2>1, <2>2 DEF IdsOnce
  <2> QED
    BY <2>3, <2>4
<1>6. CASE send(a)
  <2>1. /\ id' = id /\ wire' = Append(wire, rid[a]) /\ Owner(a) /\ pc'[a] = "idle"
    BY <1>6 DEF send, Owner, ListInv, TypeOK
  <2>2. /\ Len(wire') = Len(wire) + 1 /\ wire'[Len(wire) + 1] = rid[a]
        /\ \A i \in 1 .. Len(wire) : wire'[i] = wire[i]
        /\ \A i \in 1 .. Len(wire') : i \in 1 .. Len(wire) \/ i = Len(wire) + 1
    BY <1>0, <2>1
  <2>3. \A b \in Actor : Owner(b)' => Owner(b) /\ b # a /\ rid'[b] = rid[b]
    BY <1>2, <2>1 DEF Owner
  <2>4. IdsFresh'
    <3>1. \A i \in 1 .. Len(wire') : wire'[i] <= id
      BY <2>1, <2>2 DEF IdsFresh
    <3> QED
      BY <1>1, <1>2, <2>1, <2>3, <3>1 DEF IdsFresh
  <2>5. \A i, j \in 1 .. Len(wire') : wire'[i] = wire'[j] => i = j
    BY <2>1, <2>2 DEF IdsOnce
  <2>6. \A b \in Actor : Owner(b)' => \A i \in 1 .. Len(wire') : wire'[i] # rid'[b]
    BY <2>1, <2>2, <2>3 DEF IdsOnce
  <2>7. lpc # "listen" => \A i \in 1 .. Len(wire') : wire'[i] # reply
    BY <2>1, <2>2 DEF IdsOnce
  <2>8. IdsOnce'
    BY <1>1, <2>3, <2>5, <2>6, <2>7 DEF IdsOnce
  <2> QED
    BY <2>4, <2>8
<1> QED
  BY <1>3, <1>4, <1>5, <1>6 DEF adder

\* The id of a reply leaves the wire when it is looked up.
LEMMA ListenerIds ==
    ASSUME ListInv, IdsFresh, IdsOnce, listener
    PROVE  IdsFresh' /\ IdsOnce'
<1>0. UNCHANGED <<pc, rid, id>>
  BY DEF listener, process, compare_head, advance, scan, callback_return,
         unlink_load, unlink_store, adderVars
<1>1. \A b \in Actor : Owner(b)' <=> Owner(b)
  BY <1>0 DEF Owner
<1>2. CASE process
  <2>1. /\ wire \in Seq(Nat) /\ wire # <<>> /\ wire' = Tail(wire)
        /\ lpc' # "listen" => reply' = Head(wire)
    BY <1>2 DEF process, ListInv, TypeOK, Return
  <2>2. /\ Len(wire) \in Nat /\ Len(wire) > 0 /\ Len(wire') = Len(wire) - 1
        /\ Head(wire) = wire[1]
        /\ \A i \in 1 .. Len(wire') : wire'[i] = wire[i + 1] /\ i + 1 \in 1 .. Len(wire)
                                      /\ i + 1 # 1
        /\ 1 \in 1 .. Len(wire)
    BY <2>1
  <2>3. IdsFresh'
    BY <1>0, <1>1, <2>1, <2>2 DEF IdsFresh
  <2>4. \A i, j \in 1 .. Len(wire') : wire'[i] = wire'[j] => i = j
    <3> SUFFICES ASSUME NEW i \in 1 .. Len(wire'), NEW j \in 1 .. Len(wire'), wire'[i] = wire'[j]
                 PROVE  i = j
      OBVIOUS
    <3>1. wire[i + 1] = wire[j + 1] /\ i + 1 \in 1 .. Len(wire) /\ j + 1 \in 1 .. Len(wire)
      BY <2>2
    <3>2. i + 1 = j + 1
      BY <3>1 DEF IdsOnce
    <3> QED
      BY <3>2, <2>2
  <2>5. \A i \in 1 .. Len(wire') : wire'[i] # Head(wire)
    BY <2>2 DEF IdsOnce
  <2>6. \A b \in Actor : Owner(b)' => /\ rid'[b] # Head(wire)
                                      /\ \A i \in 1 .. Len(wire') : wire'[i] # rid'[b]
    BY <1>0, <1>1, <2>2 DEF IdsOnce
  <2>7. \A a, b \in Actor : Owner(a)' /\ Owner(b)' /\ rid'[a] = rid'[b] => a = b
    BY <1>0, <1>1 DEF IdsOnce
  <2>8. IdsOnce'
    BY <2>1, <2>4, <2>5, <2>6, <2>7 DEF IdsOnce
  <2> QED
    BY <2>3, <2>8
<1>3. CASE compare_head \/ advance \/ scan \/ callback_return \/ unlink_load
             \/ unlink_store
  <2>1. wire' = wire /\ lpc # "listen" /\ (lpc' # "listen" => reply' = reply)
    BY <1>3 DEF compare_head, advance, scan, callback_return, unlink_load,
                unlink_store, Return
  <2>2. IdsFresh'
    BY <1>0, <1>1, <2>1 DEF IdsFresh
  <2>3. IdsOnce'
    BY <1>0, <1>1, <2>1 DEF IdsOnce
  <2> QED
    BY <2>2, <2>3
<1> QED
  BY <1>2, <1>3 DEF listener

\* The list as a thread that registers a request, or receipt_list_process,
\* finds it.
ChainInv == Registered /\ Connected /\ AdderAt /\ ListenerAt /\ Searched

\* A step that leaves the heap alone and links no node.
LEMMA SameLinked ==
    ASSUME UNCHANGED heapVars,
           \A b \in Actor : (Pending(b)' <=> Pending(b)) /\ (Pending(b) => new'[b] = new[b])
    PROVE  /\ Linked' = Linked
           /\ Connected => Connected'
           /\ Known' = Known
           /\ \A x, n : Ahead(x, n)' <=> Ahead(x, n)
<1>1. Linked' = Linked
  BY DEF Linked, heapVars
<1> QED
  BY <1>1 DEF Connected, Known, Ahead, Closed, heapVars

\* Threads on their way to the list, through it, or back.
LEMMA WalkChain ==
    ASSUME ListInv, ChainInv, NEW a \in Actor,
           id_load(a) \/ id_store(a) \/ add_walk(a) \/ send(a)
    PROVE  ChainInv'
<1>0. UNCHANGED heapVars /\ UNCHANGED scanVars
  BY DEF id_load, id_store, add_walk, send
<1>1. \A b \in Actor \ {a} : pc'[b] = pc[b] /\ rid'[b] = rid[b] /\ temp'[b] = temp[b]
                             /\ new'[b] = new[b]
  BY DEF id_load, id_store, add_walk, send, Goto, ListInv, TypeOK
<1>2. \A b \in Actor : (Pending(b)' <=> Pending(b)) /\ (Pending(b) => new'[b] = new[b])
  <2>1. (Pending(a)' <=> Pending(a)) /\ (Pending(a) => new'[a] = new[a])
    BY DEF id_load, id_store, add_walk, send, Goto, ListInv, TypeOK, Pending
  <2> QED
    BY <2>1, <1>1 DEF Pending
<1>3. /\ Linked' = Linked /\ Connected' /\ Known' = Known
      /\ \A x, n : Ahead(x, n)' <=> Ahead(x, n)
  BY <1>0, <1>2, SameLinked DEF ChainInv
<1>4. UNCHANGED <<head, next, ridOf, lpc, curr, found, after, reply>>
  BY <1>0 DEF heapVars, scanVars
<1>5. ListenerAt' /\ Searched'
  BY <1>3, <1>4 DEF ChainInv, ListenerAt, Searched
<1>6. AdderAt'
  <2>1. \A b \in Actor \ {a} :
          /\ pc'[b] = "first" => head' = Nil
          /\ pc'[b] \in {"walk", "link"} => temp'[b] \in Linked'
          /\ pc'[b] = "link" => next'[temp'[b]] = Nil
    BY <1>1, <1>3, <1>4 DEF ChainInv, AdderAt
  <2>2. CASE add_walk(a)
    <3>1. /\ pc[a] = "walk" /\ temp[a] \in Linked
          /\ next[temp[a]] = Nil => pc'[a] = "link" /\ temp'[a] = temp[a]
          /\ next[temp[a]] # Nil => pc'[a] = "walk" /\ temp'[a] = next[temp[a]]
      BY <2>2 DEF add_walk, Goto, ListInv, TypeOK, ChainInv, AdderAt
    <3>2. next[temp[a]] \in Linked \cup {Nil}
      BY <3>1, LinkedNext
    <3> QED
      BY <2>1, <3>1, <3>2, <1>3, <1>4 DEF AdderAt
  <2>3. CASE id_load(a) \/ id_store(a) \/ send(a)
    <3>1. pc'[a] \notin {"first", "walk", "link"}
      BY <2>3 DEF id_load, id_store, send, Goto, ListInv, TypeOK
    <3> QED
      BY <2>1, <3>1 DEF AdderAt
  <2> QED
    BY <2>2, <2>3
<1>7. Registered'
  <2>1. \A b \in Actor : Pending(b)' => ridOf'[new'[b]] = rid'[b]
    <3>1. Pending(a) => rid'[a] = rid[a]
      BY DEF id_load, id_store, add_walk, send, Pending, ListInv, TypeOK
    <3>2. \A b \in Actor : Pending(b) => rid'[b] = rid[b]
      BY <3>1, <1>1
    <3> QED
      BY <3>2, <1>2, <1>4 DEF ChainInv, Registered
  <2>2. \A b \in Actor : pc'[b] = "send" => rid'[b] \in Known'
    <3>1. pc'[a] # "send"
      BY DEF id_load, id_store, add_walk, send, Goto, ListInv, TypeOK
    <3> QED
      BY <3>1, <1>1, <1>3 DEF ChainInv, Registered
  <2>3. \A i \in 1 .. Len(wire') : wire'[i] \in Known'
    <3>1. CASE wire' = wire
      BY <3>1, <1>3 DEF ChainInv, Registered
    <3>2. CASE send(a)
      <4>1. wire \in Seq(Nat) /\ wire' = Append(wire, rid[a]) /\ rid[a] \in Known'
            /\ rid[a] \in Nat
        BY <3>2, <1>3 DEF send, ListInv, TypeOK, ChainInv, Registered
      <4>2. \A i \in 1 .. Len(wire') : wire'[i] = rid[a] \/ (i \in 1 .. Len(wire) /\ wire'[i] = wire[i])
        BY <4>1
      <4> QED
        BY <4>1, <4>2, <1>3 DEF ChainInv, Registered
    <3> QED
      BY <3>1, <3>2 DEF id_load, id_store, add_walk
  <2> QED
    BY <2>1, <2>2, <2>3 DEF Registered
<1> QED
  BY <1>3, <1>5, <1>6, <1>7 DEF ChainInv

\* A new node, not yet linked.
LEMMA AddNodeChain ==
    ASSUME ListInv, HeldLive, ChainInv, NEW a \in Actor, add_node(a), ~overlapped'
    PROVE  ChainInv'
<1>1. PICK n \in Node \ live :
         /\ live' = live \cup {n}
         /\ next' = [next EXCEPT ![n] = Nil]
         /\ ridOf' = [ridOf EXCEPT ![n] = rid[a]]
         /\ new' = [new EXCEPT ![a] = n]
  BY DEF add_node
<1>2. /\ UNCHANGED <<head, wire, rid, lpc, reply, curr, found, after>>
      /\ temp' = [temp EXCEPT ![a] = head]
      /\ pc' = [pc EXCEPT ![a] = IF head = Nil THEN "first" ELSE "walk"]
      /\ ~Pending(a)
  BY DEF add_node, Goto, Pending, scanVars
<1>3. \A b \in Actor \ {a} : ~Pending(b)
  <2>1. \A b \in Actor \ {a} : ~Linking(b)
    BY Zenon DEF add_node, Enter
  <2> QED
    BY <2>1 DEF Linking, Pending
<1>4. /\ new'[a] = n /\ ridOf'[n] = rid[a] /\ temp'[a] = head
      /\ pc'[a] = IF head = Nil THEN "first" ELSE "walk"
      /\ \A b \in Actor \ {a} : pc'[b] = pc[b]
      /\ \A x \in live : next'[x] = next[x] /\ ridOf'[x] = ridOf[x] /\ x # n
  BY <1>1, <1>2 DEF ListInv, TypeOK
<1>5. Pending(a)' /\ \A b \in Actor \ {a} : ~Pending(b)'
  BY <1>3, <1>4 DEF Pending
<1>6. Linked = live /\ Linked' = live
  BY <1>1, <1>2, <1>3, <1>4, <1>5 DEF Linked
<1>7. Connected'
  BY <1>2, <1>4, <1>6 DEF ChainInv, Connected
<1>8. Known \subseteq Known'
  BY <1>4, <1>6 DEF Known
<1>9. Registered'
  <2>1. \A b \in Actor : Pending(b)' => ridOf'[new'[b]] = rid'[b]
    BY <1>2, <1>4, <1>5
  <2>2. \A b \in Actor : pc'[b] = "send" => rid'[b] \in Known'
    BY <1>2, <1>4, <1>8 DEF ChainInv, Registered
  <2>3. \A i \in 1 .. Len(wire') : wire'[i] \in Known'
    BY <1>2, <1>8 DEF ChainInv, Registered
  <2> QED
    BY <2>1, <2>2, <2>3 DEF Registered
<1>10. AdderAt'
  <2>1. \A b \in Actor \ {a} : pc'[b] \notin {"first", "walk", "link"}
    BY <1>5 DEF Pending
  <2>2. head \in Linked \cup {Nil}
    BY LinkedNext
  <2> QED
    BY <2>1, <2>2, <1>2, <1>4, <1>6 DEF AdderAt
<1>11. ListenerAt'
  <2>1. \A x \in {curr, found} : x # Nil => next'[x] = next[x] /\ ridOf'[x] = ridOf[x]
    BY <1>4 DEF HeldLive
  <2>2. lpc = "scan" => curr # Nil
    BY DEF ListInv, Scanner
  <2>3. lpc \in {"callback", "free", "unlink"} => found # Nil
    BY NilAssumption DEF ListInv, Scanner, TypeOK
  <2> QED
    BY <2>1, <2>2, <2>3, <1>2 DEF ChainInv, ListenerAt
<1>12. Searched'
  <2>1. ASSUME NEW x \in live, NEW m \in live, Ahead(x, m)
        PROVE  Ahead(x, m)'
    <3> SUFFICES ASSUME NEW S \in SUBSET Node, x \in S, Closed(S)'
                 PROVE  m \in S
      BY DEF Ahead
    <3>1. Closed(S \cap live)
      BY <1>4, NilAssumption DEF Closed, ListInv, TypeOK, LinksLive
    <3>2. S \cap live \in SUBSET Node /\ x \in S \cap live
      OBVIOUS
    <3> QED
      BY <2>1, <3>1, <3>2 DEF Ahead
  <2>2. /\ lpc = "advance" => curr \in live
        /\ lpc = "scan" /\ found # Nil => found \in live
    BY DEF ListInv, Scanner, HeldLive
  <2>3. lpc' = "head" => reply' \in Known'
    BY <1>2, <1>8 DEF ChainInv, Searched
  <2>4. CASE lpc = "advance"
    <3>1. PICK m \in Linked : ridOf[m] = reply /\ m # curr /\ Ahead(curr, m)
      BY <2>4 DEF ChainInv, Searched
    <3>2. m \in Linked' /\ ridOf'[m] = reply' /\ m # curr' /\ Ahead(curr, m)'
      BY <2>1, <2>2, <2>4, <3>1, <1>2, <1>4, <1>6
    <3> QED
      BY <2>4, <3>2, <1>2 DEF Searched, Ahead
  <2>5. CASE lpc = "scan"
    <3>1. /\ found # Nil
          /\ \E m \in Linked : ridOf[m] = reply /\ Ahead(found, m)
      BY <2>5 DEF ChainInv, Searched
    <3>2. PICK m \in Linked : ridOf[m] = reply /\ Ahead(found, m)
      BY <3>1
    <3>3. m \in Linked' /\ ridOf'[m] = reply' /\ Ahead(found, m)'
      BY <2>1, <2>2, <2>5, <3>1, <3>2, <1>2, <1>4, <1>6
    <3> QED
      BY <2>5, <3>1, <3>3, <1>2 DEF Searched, Ahead
  <2> QED
    BY <2>3, <2>4, <2>5, <1>2 DEF Searched
<1> QED
  BY <1>7, <1>9, <1>10, <1>11, <1>12 DEF ChainInv

\* The node becomes the first one, or the last.
LEMMA LinkChain ==
    ASSUME ListInv, HeldLive, Alone, OneBusy, ChainInv, NEW a \in Actor,
           add_first(a) \/ add_link(a)
    PROVE  ChainInv'
<1>1. /\ UNCHANGED <<new, temp, live, ridOf, wire, rid, lpc, reply, curr, found, after>>
      /\ pc' = [pc EXCEPT ![a] = "send"] /\ Pending(a) /\ Linking(a)
  BY DEF add_first, add_link, Goto, Pending, Linking, scanVars
<1>2. \A b \in Actor \ {a} : ~Pending(b)
  BY <1>1, Exclusive
<1>3. \A b \in Actor : ~Pending(b)' /\ (b # a => pc'[b] = pc[b])
  BY <1>1, <1>2 DEF Pending, ListInv, TypeOK
<1>4. new[a] \in live /\ new[a] # Nil /\ new[a] # head /\ \A x \in live : next[x] # new[a]
  BY <1>1, NilAssumption DEF ListInv, Points, PendingUnlinked, TypeOK
<1>5. Linked = live \ {new[a]} /\ Linked' = live
  BY <1>1, <1>2, <1>3 DEF Linked
<1>6. Registered'
  <2>1. Known \subseteq Known'
    BY <1>1, <1>5 DEF Known
  <2>2. rid[a] \in Known'
    BY <1>1, <1>4, <1>5 DEF Known, ChainInv, Registered
  <2>3. \A b \in Actor : pc'[b] = "send" => rid'[b] \in Known'
    BY <2>1, <2>2, <1>1, <1>3 DEF ChainInv, Registered
  <2>4. \A i \in 1 .. Len(wire') : wire'[i] \in Known'
    BY <2>1, <1>1 DEF ChainInv, Registered
  <2> QED
    BY <2>3, <2>4, <1>3 DEF Registered
<1>7. AdderAt'
  BY <1>3 DEF AdderAt, Pending
<1>10. ASSUME \A x \in Node : next[x] # Nil => next'[x] = next[x]
       PROVE  Searched'
  <2>1. \A x, n : Ahead(x, n) => Ahead(x, n)'
    <3> SUFFICES ASSUME NEW x, NEW n, Ahead(x, n),
                        NEW S \in SUBSET Node, x \in S, Closed(S)'
                 PROVE  n \in S
      BY DEF Ahead
    <3>1. Closed(S)
      BY <1>10 DEF Closed
    <3> QED
      BY <3>1 DEF Ahead
  <2>2. Linked \subseteq Linked' /\ Known \subseteq Known'
    BY <1>1, <1>5 DEF Known
  <2>3. CASE lpc = "advance"
    <3>1. PICK m \in Linked : ridOf[m] = reply /\ m # curr /\ Ahead(curr, m)
      BY <2>3 DEF ChainInv, Searched
    <3>2. m \in Linked' /\ ridOf'[m] = reply' /\ m # curr' /\ Ahead(curr, m)'
      BY <2>1, <2>2, <3>1, <1>1
    <3> QED
      BY <2>3, <3>2, <1>1 DEF Searched, Ahead
  <2>4. CASE lpc = "scan"
    <3>1. PICK m \in Linked : found # Nil /\ ridOf[m] = reply /\ Ahead(found, m)
      BY <2>4 DEF ChainInv, Searched
    <3>2. m \in Linked' /\ ridOf'[m] = reply' /\ Ahead(found, m)'
      BY <2>1, <2>2, <3>1, <1>1
    <3> QED
      BY <2>4, <3>1, <3>2, <1>1 DEF Searched, Ahead
  <2> QED
    BY <2>2, <2>3, <2>4, <1>1 DEF Searched, ChainInv
<1>8. CASE add_first(a)
  <2>1. head = Nil /\ head' = new[a] /\ next' = next
    BY <1>8 DEF add_first, ChainInv, AdderAt
  <2>2. Connected'
    <3>1. \A n \in Linked : \E x \in Linked : next[x] = n
      BY <2>1, LinkedNext, NilAssumption DEF ChainInv, Connected
    <3> QED
      BY <2>1, <3>1, <1>5 DEF Connected
  <2>3. lpc \in {"head", "callback", "free", "unlink"} => found # Nil
    BY NilAssumption DEF ListInv, Scanner, TypeOK
  <2>4. ListenerAt'
    BY <2>1, <2>3, <1>1 DEF ChainInv, ListenerAt
  <2>5. Searched'
    BY <2>1, <1>10
  <2> QED
    BY <2>2, <2>4, <2>5, <1>6, <1>7 DEF ChainInv
<1>9. CASE add_link(a)
  <2>1. /\ pc[a] = "link" /\ temp[a] \in Linked /\ next[temp[a]] = Nil
        /\ head' = head /\ next' = [next EXCEPT ![temp[a]] = new[a]]
    BY <1>9 DEF add_link, ChainInv, AdderAt
  <2>2. /\ temp[a] \in live /\ temp[a] \in Node /\ next'[temp[a]] = new[a]
        /\ \A x \in Node : next[x] # Nil => next'[x] = next[x]
        /\ Nil \notin Node /\ live \subseteq Node
    BY <2>1, <1>5, NilAssumption DEF ListInv, TypeOK
  <2>3. Connected'
    <3> SUFFICES ASSUME NEW n \in live, n # head PROVE \E x \in live : next'[x] = n
      BY <2>1, <1>5 DEF Connected
    <3>1. CASE n = new[a]
      BY <3>1, <2>2
    <3>2. CASE n # new[a]
      <4>1. PICK x \in Linked : next[x] = n
        BY <3>2, <1>5 DEF ChainInv, Connected
      <4>2. x \in live /\ x \in Node /\ n # Nil
        BY <1>5, <2>2
      <4> QED
        BY <4>1, <4>2, <2>2
    <3> QED
      BY <3>1, <3>2
  <2>4. lpc # "unlink"
    <3>1. lpc = "unlink" => a = Listener
      BY <1>1, Exclusive
    <3> QED
      BY <2>1, <3>1 DEF Alone
  <2>5. lpc \in {"scan", "callback", "free"} /\ curr # Nil => next'[curr] = found
    <3>1. lpc \in {"scan", "callback", "free"} => found # Nil
      BY NilAssumption DEF ListInv, Scanner, TypeOK, ChainInv, Searched
    <3>2. curr # Nil => curr \in Node
      BY DEF ListInv, TypeOK
    <3> QED
      BY <3>1, <3>2, <2>2 DEF ChainInv, ListenerAt
  <2>6. ListenerAt'
    BY <2>1, <2>4, <2>5, <1>1 DEF ChainInv, ListenerAt, ListInv, Scanner
  <2>7. Searched'
    BY <2>2, <1>10
  <2> QED
    BY <2>3, <2>6, <2>7, <1>6, <1>7 DEF ChainInv
<1> QED
  BY <1>8, <1>9

\* A list that leads through every linked node leads from its head to each.
LEMMA LinkedWithin ==
    ASSUME ListInv, IsRanked, Connected,
           NEW S \in SUBSET Node, Closed(S), head # Nil => head \in S
    PROVE  Linked \subseteq S
<1> SUFFICES ASSUME Linked \ S # {} PROVE FALSE
  OBVIOUS
<1>1. PICK r : Ranked(r)
  BY DEF IsRanked
<1>2. Linked \subseteq Node /\ Nil \notin Node /\ r \in [Node -> Nat]
  BY <1>1, LinkedNext, NilAssumption DEF Ranked
<1> DEFINE T == Linked \ S
           D == {r[n] : n \in T}
<1>3. D \in SUBSET Nat /\ D # {}
  BY <1>2
<1>4. PICK k \in D : \A j \in D : k <= j
  <2> HIDE DEF D
  <2> QED  BY <1>3, LeastNumber
<1>5. PICK n \in T : k = r[n]
  BY <1>4
<1>6. PICK x \in Linked : next[x] = n
  BY <1>2, <1>5 DEF Connected
<1>7. r[x] < r[n] /\ x \in Node /\ n \in Node /\ n # Nil
  BY <1>1, <1>2, <1>6 DEF Ranked
<1>8. x \notin T
  <2>1. x \in T => r[n] <= r[x]
    BY <1>4, <1>5
  <2>2. r[x] \in Nat /\ r[n] \in Nat
    BY <1>2, <1>7
  <2> QED
    BY <2>1, <2>2, <1>7
<1> QED
  BY <1>5, <1>6, <1>7, <1>8 DEF Closed

\* receipt_list_process on its way through the list.
LEMMA ReadChain ==
    ASSUME ListInv, HeldLive, IsRanked, ChainInv,
           \/ process \/ compare_head \/ advance \/ scan \/ callback_return
           \/ unlink_load
    PROVE  ChainInv'
<1>1. UNCHANGED heapVars /\ UNCHANGED <<pc, rid, new, temp>>
  BY DEF process, compare_head, advance, scan, callback_return, unlink_load,
         adderVars
<1>2. \A b \in Actor : (Pending(b)' <=> Pending(b)) /\ (Pending(b) => new'[b] = new[b])
  BY <1>1 DEF Pending
<1>3. /\ Linked' = Linked /\ Connected' /\ Known' = Known
      /\ \A x, n : Ahead(x, n)' <=> Ahead(x, n)
  BY <1>1, <1>2, SameLinked DEF ChainInv
<1>4. UNCHANGED <<head, next, ridOf>>
  BY <1>1 DEF heapVars
<1>5. AdderAt'
  BY <1>1, <1>3, <1>4 DEF ChainInv, AdderAt
<1>9. wire # <<>> => /\ Len(Tail(wire)) = Len(wire) - 1 /\ Head(wire) = wire[1]
                     /\ Len(wire) \in Nat \ {0}
                     /\ \A i \in 1 .. Len(Tail(wire)) :
                          Tail(wire)[i] = wire[i + 1] /\ i + 1 \in 1 .. Len(wire)
  BY DEF ListInv, TypeOK
<1>6. Registered'
  <2>1. \A i \in 1 .. Len(wire') : wire'[i] \in Known
    <3>1. CASE process
      BY <3>1, <1>9 DEF process, ChainInv, Registered
    <3>2. CASE ~process
      <4>1. wire' = wire
        BY <3>2 DEF compare_head, advance, scan, callback_return, unlink_load
      <4> QED
        BY <4>1 DEF ChainInv, Registered
    <3> QED
      BY <3>1, <3>2
  <2>2. \A b \in Actor : pc'[b] = "send" => rid'[b] \in Known'
    BY <1>1, <1>3 DEF ChainInv, Registered
  <2>3. \A b \in Actor : Pending(b)' => ridOf'[new'[b]] = rid'[b]
    BY <1>1, <1>2, <1>4 DEF ChainInv, Registered
  <2> QED
    BY <2>1, <2>2, <2>3, <1>3 DEF Registered
<1>7. CASE process
  <2>1. curr = Nil /\ lpc' \in {"listen", "head"}
    BY <1>7 DEF process, ListInv, Scanner, Return
  <2>2. ListenerAt'
    BY <1>7, <2>1, <1>4 DEF process, Return, ListenerAt
  <2>3. Head(wire) \in Known
    BY <1>7, <1>9 DEF process, ChainInv, Registered
  <2>4. Searched'
    BY <1>7, <2>1, <2>3, <1>3 DEF process, Return, Searched
  <2> QED
    BY <2>2, <2>4, <1>3, <1>5, <1>6 DEF ChainInv
<1>8. CASE compare_head
  <2>1. /\ lpc = "head" /\ head = found /\ head # Nil /\ curr = Nil
        /\ reply \in Known /\ head \in live /\ reply' = reply
    BY <1>8 DEF compare_head, ListInv, Scanner, ChainInv, ListenerAt, Searched
  <2>2. CASE ridOf[found] = reply
    <3>1. lpc' = "callback" /\ curr' = curr /\ found' = found
      BY <1>8, <2>2 DEF compare_head
    <3>2. ListenerAt' /\ Searched'
      BY <2>1, <2>2, <3>1, <1>4 DEF ListenerAt, Searched
    <3> QED
      BY <3>2, <1>3, <1>5, <1>6 DEF ChainInv
  <2>3. CASE ridOf[found] # reply
    <3>1. lpc' = "advance" /\ curr' = head /\ found' = Nil
      BY <1>8, <2>3 DEF compare_head
    <3>2. PICK n \in Linked : ridOf[n] = reply
      BY <2>1 DEF Known
    <3>3. Ahead(head, n)
      <4> SUFFICES ASSUME NEW S \in SUBSET Node, head \in S, Closed(S)
                   PROVE  n \in S
        BY DEF Ahead
      <4>1. Linked \subseteq S
        BY LinkedWithin DEF ChainInv
      <4> QED
        BY <4>1
    <3>4. n # head
      BY <2>1, <2>3, <3>2
    <3>5. n \in Linked' /\ ridOf'[n] = reply' /\ n # curr' /\ Ahead(head, n)'
      BY <2>1, <3>1, <3>2, <3>3, <3>4, <1>3, <1>4
    <3>6. Searched'
      BY <3>1, <3>5, <1>4 DEF Searched, Ahead
    <3>7. ListenerAt'
      BY <3>1 DEF ListenerAt
    <3> QED
      BY <3>6, <3>7, <1>3, <1>5, <1>6 DEF ChainInv
  <2> QED
    BY <2>2, <2>3
<1>10. CASE advance
  <2>1. /\ lpc = "advance" /\ lpc' = "scan" /\ found' = next[curr]
        /\ UNCHANGED <<curr, reply>> /\ curr # Nil /\ curr \in Node
    BY <1>10 DEF advance, ListInv, Scanner, TypeOK
  <2>2. PICK n \in Linked : ridOf[n] = reply /\ n # curr /\ Ahead(curr, n)
    BY <2>1 DEF ChainInv, Searched
  <2>3. next[curr] # Nil
    <3> SUFFICES ASSUME next[curr] = Nil PROVE FALSE
      OBVIOUS
    <3>1. Closed({curr}) /\ {curr} \in SUBSET Node
      BY <2>1 DEF Closed
    <3> QED
      BY <3>1, <2>2 DEF Ahead
  <2>4. Ahead(next[curr], n)
    <3> SUFFICES ASSUME NEW S \in SUBSET Node, next[curr] \in S, Closed(S)
                 PROVE  n \in S
      BY DEF Ahead
    <3>1. Closed(S \cup {curr}) /\ S \cup {curr} \in SUBSET Node
      BY <2>1 DEF Closed
    <3> QED
      BY <3>1, <2>2 DEF Ahead
  <2>5. n \in Linked' /\ ridOf'[n] = reply'
    BY <2>1, <2>2, <1>3, <1>4
  <2>6. Ahead(found, n)'
    BY <2>1, <2>4, <1>4 DEF Ahead, Closed
  <2>7. Searched'
    BY <2>1, <2>3, <2>5, <2>6 DEF Searched
  <2>8. ListenerAt'
    BY <2>1, <1>4 DEF ListenerAt
  <2> QED
    BY <2>7, <2>8, <1>3, <1>5, <1>6 DEF ChainInv
<1>11. CASE scan
  <2>1. /\ lpc = "scan" /\ next[curr] = found /\ found # Nil /\ curr # Nil
        /\ reply' = reply
    BY <1>11 DEF scan, ListInv, Scanner, ChainInv, ListenerAt, Searched
  <2>2. CASE ridOf[found] = reply
    <3>1. lpc' = "callback" /\ curr' = curr /\ found' = found
      BY <1>11, <2>1, <2>2 DEF scan
    <3>2. ListenerAt' /\ Searched'
      BY <2>1, <2>2, <3>1, <1>4 DEF ListenerAt, Searched
    <3> QED
      BY <3>2, <1>3, <1>5, <1>6 DEF ChainInv
  <2>3. CASE ridOf[found] # reply
    <3>1. lpc' = "advance" /\ curr' = found /\ found' = Nil
      BY <1>11, <2>1, <2>3 DEF scan
    <3>2. PICK n \in Linked : ridOf[n] = reply /\ Ahead(found, n)
      BY <2>1 DEF ChainInv, Searched
    <3>3. n \in Linked' /\ ridOf'[n] = reply' /\ n # curr' /\ Ahead(found, n)
      BY <2>1, <2>3, <3>1, <3>2, <1>3, <1>4
    <3>4. Ahead(curr, n)'
      BY <3>1, <3>3, <1>4 DEF Ahead, Closed
    <3>5. Searched'
      BY <3>1, <3>3, <3>4 DEF Searched
    <3>6. ListenerAt'
      BY <3>1 DEF ListenerAt
    <3> QED
      BY <3>5, <3>6, <1>3, <1>5, <1>6 DEF ChainInv
  <2> QED
    BY <2>2, <2>3
<1>12. CASE callback_return \/ unlink_load
  <2>1. ListenerAt'
    BY <1>12, <1>4 DEF callback_return, unlink_load, ChainInv, ListenerAt
  <2>2. Searched'
    BY <1>12 DEF callback_return, unlink_load, Searched
  <2> QED
    BY <2>1, <2>2, <1>3, <1>5, <1>6 DEF ChainInv
<1> QED
  BY <1>7, <1>8, <1>10, <1>11, <1>12

\* The node leaves the list, and the request it was for is not waited for.
LEMMA UnlinkChain ==
    ASSUME ListInv, HeldLive, Alone, OneBusy, IdsOnce, ChainInv, unlink_store
    PROVE  ChainInv'
<1>1. /\ lpc = "unlink" /\ lpc' = "listen" /\ live' = live \ {found}
      /\ ridOf' = [ridOf EXCEPT ![found] = 0]
      /\ UNCHANGED <<pc, rid, new, temp, wire>>
  BY DEF unlink_store, Return, adderVars
<1>2. \A b \in Actor : ~Pending(b) /\ ~Pending(b)'
  <2>1. Listener \in Actor /\ Linking(Listener) /\ pc[Listener] = "idle"
    BY <1>1 DEF Actor, Linking, Alone
  <2>2. \A b \in Actor : ~Pending(b)
    BY <2>1, Exclusive DEF Pending
  <2> QED
    BY <2>2, <1>1 DEF Pending
<1>3. Linked = live /\ Linked' = live \ {found}
  BY <1>1, <1>2 DEF Linked
<1>4. /\ found \in live /\ ridOf[found] = reply /\ after = next[found]
      /\ curr = Nil => head = found
      /\ curr # Nil => next[curr] = found /\ curr \in live /\ curr # found
      /\ live \subseteq Node /\ Nil \notin Node
  <2>1. found \in live /\ live \subseteq Node /\ Nil \notin Node
    BY <1>1, NilAssumption DEF ListInv, TypeOK, Scanner
  <2>2. curr # Nil => curr \in live /\ curr # found
    BY <1>1, <2>1 DEF ListInv, Scanner
  <2> QED
    BY <1>1, <2>1, <2>2 DEF ChainInv, ListenerAt
<1>5. Connected'
  <2> SUFFICES ASSUME NEW n \in live, n # found, n # head'
               PROVE  \E x \in live : x # found /\ next'[x] = n
    BY <1>3 DEF Connected
  <2>1. CASE curr = Nil
    <3>1. head' = after /\ next' = next
      BY <2>1 DEF unlink_store
    <3>2. PICK x \in live : next[x] = n
      BY <2>1, <1>3, <1>4 DEF ChainInv, Connected
    <3> QED
      BY <3>1, <3>2, <1>4
  <2>2. CASE curr # Nil
    <3>1. head' = head /\ next' = [next EXCEPT ![curr] = after]
      BY <2>2 DEF unlink_store
    <3>2. next'[curr] = after /\ \A x \in live \ {curr} : next'[x] = next[x]
      BY <2>2, <3>1, <1>4 DEF ListInv, TypeOK
    <3>3. PICK x \in live : next[x] = n
      BY <3>1, <1>3 DEF ChainInv, Connected
    <3>4. CASE x = found
      BY <2>2, <3>2, <3>3, <3>4, <1>4
    <3>5. CASE x # found
      BY <2>2, <3>2, <3>3, <3>5, <1>4
    <3> QED
      BY <3>4, <3>5
  <2> QED
    BY <2>1, <2>2
<1>6. \A v \in Known : v # reply => v \in Known'
  <2> SUFFICES ASSUME NEW n \in live, ridOf[n] # reply PROVE ridOf[n] \in Known'
    BY <1>3 DEF Known
  <2>1. n # found /\ n \in Node
    BY <1>4
  <2>2. ridOf'[n] = ridOf[n]
    BY <2>1, <1>1, <1>4 DEF ListInv, TypeOK
  <2> QED
    BY <2>1, <2>2, <1>3 DEF Known
<1>7. Registered'
  <2>1. \A b \in Actor : pc[b] = "send" => rid[b] \in Known /\ rid[b] # reply
    BY <1>1 DEF ChainInv, Registered, IdsOnce, Owner
  <2>2. \A i \in 1 .. Len(wire) : wire[i] \in Known /\ wire[i] # reply
    BY <1>1 DEF ChainInv, Registered, IdsOnce
  <2> QED
    BY <2>1, <2>2, <1>1, <1>2, <1>6 DEF Registered
<1>8. AdderAt'
  BY <1>2 DEF AdderAt, Pending
<1>9. ListenerAt' /\ Searched'
  BY <1>1 DEF ListenerAt, Searched
<1> QED
  BY <1>5, <1>7, <1>8, <1>9 DEF ChainInv

\* Nobody is in the list at first, and it is empty.
LEMMA SerialInit == Init => SerialInv
<1> SUFFICES ASSUME Init PROVE SerialInv
  OBVIOUS
<1>1. Alone /\ OneBusy
  BY DEF Init, Alone, OneBusy, Numbering, Linking
<1>2. Len(wire) = 0
  BY DEF Init
<1>3. IdsFresh /\ IdsOnce
  BY <1>2 DEF Init, IdsFresh, IdsOnce, Owner
<1>4. Registered /\ AdderAt /\ ListenerAt /\ Searched
  BY <1>2 DEF Init, Registered, AdderAt, ListenerAt, Searched, Pending
<1>5. Connected
  BY DEF Init, Connected, Linked
<1> QED
  BY <1>1, <1>3, <1>4, <1>5 DEF SerialInv

\* A list that one thread at a time has used stays one chain.
LEMMA SerialStep == RingInv /\ SerialInv /\ [Next]_vars => SerialInv'
<1> SUFFICES ASSUME RingInv, SerialInv, [Next]_vars PROVE SerialInv'
  OBVIOUS
<1>1. ListInv /\ HeldLive /\ IsRanked /\ Alone /\ Alone'
  BY AloneStep DEF RingInv, SerialInv
<1> SUFFICES ASSUME ~overlapped'
             PROVE  OneBusy' /\ IdsFresh' /\ IdsOnce' /\ ChainInv'
  BY <1>1 DEF SerialInv, ChainInv
<1>2. ~overlapped
  <2>1. ASSUME NEW a \in Actor, id_load(a) \/ add_node(a) PROVE ~overlapped
    BY <2>1, Zenon DEF id_load, add_node, Enter
  <2>2. CASE unlink_load
    BY <2>2, Zenon DEF unlink_load, Enter
  <2>3. CASE overlapped' = overlapped
    BY <2>3
  <2>4. ASSUME NEW a \in Actor,
               id_store(a) \/ add_first(a) \/ add_walk(a) \/ add_link(a) \/ send(a)
        PROVE  overlapped' = overlapped
    BY <2>4 DEF id_store, add_first, add_walk, add_link, send
  <2>5. process \/ compare_head \/ advance \/ scan \/ callback_return \/ unlink_store
          => overlapped' = overlapped
    BY DEF process, compare_head, advance, scan, callback_return, unlink_store
  <2>6. UNCHANGED vars \/ quiet => overlapped' = overlapped
    BY DEF quiet, vars
  <2> QED
    BY <2>1, <2>2, <2>3, <2>4, <2>5, <2>6 DEF Next, adder, listener
<1>3. OneBusy /\ IdsFresh /\ IdsOnce /\ ChainInv
  BY <1>2 DEF SerialInv, ChainInv
<1>4. OneBusy'
  BY <1>1, <1>3, BusyStep
<1>5. ASSUME NEW a \in Actor, id_load(a) \/ adder(a)
      PROVE  IdsFresh' /\ IdsOnce' /\ ChainInv'
  BY <1>1, <1>3, <1>5, AdderIds, WalkChain, AddNodeChain, LinkChain DEF adder
<1>6. CASE listener
  BY <1>1, <1>3, <1>4, <1>6, ListenerIds, ReadChain, UnlinkChain DEF listener
<1>7. CASE UNCHANGED vars \/ quiet
  <2>1. UNCHANGED <<pc, rid, new, temp, head, next, ridOf, live, lpc, reply, curr, found,
                    after, id, wire>>
    BY <1>7 DEF quiet, vars, adderVars, heapVars, scanVars
  <2>2. \A a \in Actor : (Pending(a)' <=> Pending(a)) /\ (Owner(a)' <=> Owner(a))
    BY <2>1 DEF Pending, Owner
  <2>3. IdsFresh' /\ IdsOnce'
    BY <2>1, <2>2, <1>3 DEF IdsFresh, IdsOnce
  <2>4. Linked' = Linked
    BY <2>1, <2>2 DEF Linked
  <2>5. Known' = Known
    BY <2>1, <2>4 DEF Known
  <2>6. ChainInv'
    BY <2>1, <2>2, <2>4, <2>5, <1>3 DEF ChainInv, Registered, Connected, AdderAt,
       ListenerAt, Searched, Ahead, Closed
  <2> QED
    BY <2>3, <2>6, <1>4
<1> QED
  BY <1>4, <1>5, <1>6, <1>7 DEF Next

\* The chain, and the ranks that it is walked along, in every reachable state.
LEMMA SerialInvariant == Spec => [](RingInv /\ SerialInv)
  BY RingInit, RingStep, SerialInit, SerialStep, PTL DEF Spec

\* A chain from the head through every linked node is what a walk meets.
LEMMA ReachableIsLinked ==
    ASSUME ListInv, IsRanked, Connected
    PROVE  Reachable = Linked
<1> DEFINE N == Cardinality(Node)
           w == Walk(head)
<1>1. PICK r : Ranked(r)
  BY DEF IsRanked
<1>2. /\ N \in Nat /\ w[0] = head /\ w[N] = Nil
      /\ \A i \in 1 .. N : w[i] = IF w[i - 1] = Nil THEN Nil ELSE next[w[i - 1]]
  BY <1>1, WalkEquation, WalkEnds DEF ListInv, TypeOK
<1>3. Reachable = {w[i] : i \in 0 .. N} \ {Nil}
  BY DEF Reachable
<1>4. /\ Linked \subseteq Node /\ Nil \notin Node /\ head \in Linked \cup {Nil}
      /\ \A x \in Linked : next[x] \in Linked \cup {Nil}
  BY LinkedNext, NilAssumption
<1> HIDE DEF w, N
<1>5. \A i \in 0 .. N : w[i] \in Linked \cup {Nil}
  <2> DEFINE S == {i \in 0 .. N : w[i] \in Linked \cup {Nil}}
  <2>1. 0 \in S
    BY <1>2, <1>4
  <2>2. ASSUME NEW i \in 0 .. N, i < N, i \in S PROVE i + 1 \in S
    <3>1. i + 1 \in 1 .. N /\ (i + 1) - 1 = i /\ i + 1 \in 0 .. N
      BY <1>2, <2>2
    <3>2. w[i + 1] = IF w[i] = Nil THEN Nil ELSE next[w[i]]
      BY <1>2, <3>1
    <3> QED
      BY <3>1, <3>2, <2>2, <1>4
  <2>3. 0 .. N \subseteq S
    <3> HIDE DEF S
    <3> QED  BY <1>2, <2>1, <2>2, UpTo
  <2> QED
    BY <2>3
<1>6. Linked \subseteq Reachable
  <2>1. Reachable \in SUBSET Node
    BY <1>3, <1>4, <1>5
  <2>2. head # Nil => head \in Reachable
    BY <1>2, <1>3
  <2>3. ASSUME NEW x \in Reachable, next[x] # Nil
        PROVE  next[x] \in Reachable
    <3>1. PICK i \in 0 .. N : w[i] = x
      BY <1>3
    <3>2. i # N /\ x # Nil
      BY <3>1, <1>2, <1>3
    <3>3. i + 1 \in 1 .. N /\ (i + 1) - 1 = i /\ i + 1 \in 0 .. N
      BY <3>2, <1>2
    <3>4. w[i + 1] = next[x]
      BY <3>1, <3>2, <3>3, <1>2
    <3> QED
      BY <2>3, <3>3, <3>4, <1>3
  <2> QED
    BY <2>1, <2>2, <2>3, LinkedWithin DEF Closed
<1> QED
  BY <1>3, <1>5, <1>6

\* As long as no two threads have met in id_generate, or between a look at a link
\* of the list and the write of one, the list is the sequence of receipts for
\* which the rest of the project takes it: every request on the wire has its
\* node, a search finds it though others are added meanwhile, no two requests
\* share an id, a reply frees the node of its own request, also when its callback
\* registered others, and outside the windows the allocated nodes are those of
\* the list.
THEOREM SerialListCorrect == Spec => []ExactWhenSerial
<1>1. RingInv /\ SerialInv => ExactWhenSerial
  <2> SUFFICES ASSUME RingInv, SerialInv, ~overlapped
               PROVE  /\ ReplyFindsReceipt
                      /\ lpc = "scan" => found # Nil
                      /\ \A i, j \in 1 .. Len(wire) : wire[i] = wire[j] => i = j
                      /\ lpc = "unlink" => ridOf[found] = reply
                      /\ (\A a \in Actor : ~Linking(a)) => live = Reachable
    BY DEF ExactWhenSerial
  <2>1. IdsOnce /\ Registered /\ Connected /\ ListenerAt /\ Searched /\ ListInv /\ IsRanked
    BY DEF SerialInv, RingInv
  <2>2. Reachable = Linked
    BY <2>1, ReachableIsLinked
  <2>3. ReplyFindsReceipt
    BY <2>1, <2>2 DEF Registered, Known, ReplyFindsReceipt
  <2>4. \A i, j \in 1 .. Len(wire) : wire[i] = wire[j] => i = j
    BY <2>1 DEF IdsOnce
  <2>5. lpc = "unlink" => ridOf[found] = reply
    BY <2>1 DEF ListenerAt
  <2>6. lpc = "scan" => found # Nil
    BY <2>1 DEF Searched
  <2>7. (\A a \in Actor : ~Linking(a)) => live = Linked
    BY DEF Linking, Linked, Pending
  <2> QED
    BY <2>2, <2>3, <2>4, <2>5, <2>6, <2>7
<1> QED
  BY <1>1, SerialInvariant, PTL
=============================================================================
