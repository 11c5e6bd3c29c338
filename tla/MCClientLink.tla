---------------------------- MODULE MCClientLink ----------------------------
(***************************************************************************)
(* Instances of ClientLink for TLC.                                        *)
(***************************************************************************)
EXTENDS ClientLink

Some(often, words, what, pings) ==
  [losses |-> often, commands |-> words, may |-> what, pingFails |-> pings]

\* A connection is lost and refused again and again; it is lost while the user
\* connects and closes; it is lost, or the user connects twice, while the ping
\* thread meets a failing send().
LossesOrCommands ==
  { Some(2, 1, {"refuse", "talk"}, {}), Some(1, 2, {}, {}),
    Some(1, 1, {}, {1}), Some(0, 2, {}, {1}) }
=============================================================================
