----------------------------- MODULE MCClient05 -----------------------------
(***************************************************************************)
(* Instances of Client05 for TLC.                                          *)
(***************************************************************************)
EXTENDS Client05

Some(losses, refusals, data, lines, pingFails) ==
  [losses |-> losses, refusals |-> refusals, data |-> data, lines |-> lines,
   pingFails |-> pingFails]

FewThings ==
  { Some(1, 1, 0, 0, {}), Some(1, 0, 1, 0, {}), Some(0, 1, 1, 2, {}), Some(1, 0, 0, 0, {1}) }

\* The user types /logout, or something else; nothing ever goes wrong.
OneLine == { Some(0, 0, 0, 1, {}) }
=============================================================================
