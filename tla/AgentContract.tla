---------------------------- MODULE AgentContract ---------------------------
(***************************************************************************)
(* What the OvsAgent owes the writers of Gateway_Config rows, and what the *)
(* core model takes for granted of it: a row gets at most one Feedback,    *)
(* Feedbacks come in the order of the rows, and a row that is passed over  *)
(* (inserted while the agent was down, or its answer lost) is never        *)
(* answered later.                                                         *)
(***************************************************************************)
EXTENDS Naturals

VARIABLES
    asked,      \* number of rows inserted
    settled,    \* rows up to this one have been answered or passed over
    answered    \* rows with a Feedback

vars == <<asked, settled, answered>>

Init == asked = 0 /\ settled = 0 /\ answered = {}

Insert == asked' = asked + 1 /\ UNCHANGED <<settled, answered>>

Answer ==
    /\ settled < asked
    /\ settled' = settled + 1
    /\ answered' = answered \cup {settled'}
    /\ UNCHANGED asked

PassOver ==
    /\ settled' \in settled .. asked
    /\ UNCHANGED <<asked, answered>>

Next == Insert \/ Answer \/ PassOver

Spec == Init /\ [][Next]_vars
=============================================================================
