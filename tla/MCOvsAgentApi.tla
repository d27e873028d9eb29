--------------------------- MODULE MCOvsAgentApi ---------------------------
(***************************************************************************)
(* Constants of OvsAgentApi for TLC.                                       *)
(***************************************************************************)
EXTENDS OvsAgentApi

\* A client that passes a callback, in either block mode.
BlockedMode   == [block |-> TRUE,  callback |-> TRUE]
UnblockedMode == [block |-> FALSE, callback |-> TRUE]
\* A blocked call without callback, and one that opens no transaction.
SilentMode    == [block |-> TRUE,  callback |-> FALSE]
ForgottenMode == [block |-> FALSE, callback |-> FALSE]

MCMixedModes  == {UnblockedMode, SilentMode, ForgottenMode}
MCBothModes   == {BlockedMode, UnblockedMode}
MCBlocked     == {BlockedMode}
MCUnblocked   == {UnblockedMode}
=============================================================================
