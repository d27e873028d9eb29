------------------------ MODULE TransactionContract ------------------------
(***************************************************************************)
(* What the transaction manager promises a client, whatever table, uuids   *)
(* and receipts it uses (OvsAgentApi/transaction_interface.h): a           *)
(* transaction is opened once; it is closed once, either by a completion,  *)
(* which reports one status to its callback, or silently; nothing is       *)
(* reported before it is opened or after it is closed.                     *)
(***************************************************************************)
EXTENDS Sequences

CONSTANTS Request, Outcome

VARIABLES
    phase,      \* "none", "open" or "closed" for each request; no step of the
                \* contract loses a transaction or frees one twice
    told        \* the statuses its callback was called with

vars == <<phase, told>>

Init ==
    /\ phase = [r \in Request |-> "none"]
    /\ told = [r \in Request |-> <<>>]

Open(r) ==
    /\ phase[r] = "none"
    /\ phase' = [phase EXCEPT ![r] = "open"]
    /\ UNCHANGED told

\* complete_transaction: the callback is called and the entry destroyed.
Complete(r, s) ==
    /\ phase[r] = "open"
    /\ phase' = [phase EXCEPT ![r] = "closed"]
    /\ told' = [told EXCEPT ![r] = <<s>>]

\* Deleted after a failure, evicted from its slot, or completed without callback.
Abandon(r) ==
    /\ phase[r] = "open"
    /\ phase' = [phase EXCEPT ![r] = "closed"]
    /\ UNCHANGED told

Next == \E r \in Request :
            \/ Open(r)
            \/ \E s \in Outcome : Complete(r, s)
            \/ Abandon(r)

Spec == Init /\ [][Next]_vars
=============================================================================
