------------------------------- MODULE MCArena ------------------------------
(***************************************************************************)
(* Instances of Arena for TLC.                                             *)
(***************************************************************************)
EXTENDS Arena

\* Three clients of one meeting place send to each other; two of them have
\* more PSPs than the table holds; or two clients move between two places and
\* are told who is there.
RelayOrLists ==
  { [sessions |-> 3, connections |-> 3, commands |-> 2, ssids |-> {"plaza"},
     macs |-> {"psp1"}, types |-> {"D", "Y", "T", "U", "I"}, pingCloses |-> TRUE],
    [sessions |-> 2, connections |-> 2, commands |-> 2, ssids |-> {"plaza"},
     macs |-> {"psp1", "psp2"}, types |-> {"C", "T", "A"}, pingCloses |-> FALSE],
    [sessions |-> 2, connections |-> 2, commands |-> 3, ssids |-> {"plaza", "hall"},
     macs |-> {"psp1"}, types |-> {"S", "p", "T", "Y"}, pingCloses |-> FALSE] }
=============================================================================
