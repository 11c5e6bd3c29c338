------------------------------- MODULE MCBridge -----------------------------
(***************************************************************************)
(* Instances of Bridge for TLC.                                            *)
(***************************************************************************)
EXTENDS Bridge

Budget(commands, captures, may) ==
  [commands |-> commands, captures |-> captures, may |-> may]

OneCommand == {Budget(1, 1, {})}

\* Much may happen to one capture thread; two of them are there together.
RelayBudgets == {Budget(2, 1, {"lose", "close", "fail"}), Budget(1, 2, {})}
=============================================================================
