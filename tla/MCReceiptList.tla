--------------------------- MODULE MCReceiptList ---------------------------
(***************************************************************************)
(* Constants of ReceiptList for TLC.                                       *)
(***************************************************************************)
EXTENDS ReceiptList, TLC

\* One request of each client and two of the listen thread; clients only.
MCOneEach  == [a \in Actor |-> IF a = Listener THEN 2 ELSE 1]
MCClients  == [a \in Actor |-> IF a = Listener THEN 0 ELSE 2]

\* Addresses and client threads are interchangeable.
MCSymmetry == Permutations(Node) \cup Permutations(Threads)
=============================================================================
