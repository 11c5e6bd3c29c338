------------------------------ MODULE MCWindow ------------------------------
(***************************************************************************)
(* Instances of UserView and of History for TLC.  The lists of the window  *)
(* and its command box have nothing to do with each other: a behaviour is  *)
(* one of the one or of the other.                                         *)
(***************************************************************************)
EXTENDS UserView, History

CONSTANTS a, b, c

\* Nobody, one, two and three users in a table of two, with none, one or two
\* PSPs; and one who is on the list twice.
ArenaLists ==
  LET E(u, n) == [id |-> u, psps |-> n] IN
  { <<>>, <<E(a, 1)>>, <<E(b, 2), E(a, 0)>>, <<E(c, 1), E(b, 0)>>,
    <<E(a, 0), E(a, 1)>>, <<E(b, 1)>> }

VARIABLE part \* the part of the window this behaviour is about

WindowInit == part \in {"lists", "box"} /\ ViewInit /\ HistoryInit

WindowNext ==
  \/ part = "lists" /\ ViewNext /\ UNCHANGED <<part, historyVars>>
  \/ part = "box" /\ HistoryNext /\ UNCHANGED <<part, viewVars>>

windowVars == <<part, viewVars, historyVars>>

WindowSpec ==
  /\ WindowInit /\ [][WindowNext]_windowVars
  /\ part = "lists" => ViewFairness
=============================================================================
