----------------------------- MODULE MCSession ------------------------------
(***************************************************************************)
(* Instances of Session for TLC.                                           *)
(***************************************************************************)
EXTENDS Session

Adverse(connections, refusals, senders) ==
  [connections |-> connections, refusals |-> refusals, senders |-> senders]

\* Nothing goes wrong, or accept() fails, or whoever sends may fail.
OneThing == { Adverse(3, 0, {}), Adverse(2, 1, {}), Adverse(2, 0, {"ping", "event"}) }
=============================================================================
