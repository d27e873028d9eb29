----------------------------- MODULE MCSession ------------------------------
(***************************************************************************)
(* Constants of Session for TLC: a component and the agent.                *)
(***************************************************************************)
EXTENDS Session

MCPrograms == {"component", "agent"}
=============================================================================
