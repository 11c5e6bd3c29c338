------------------------------- MODULE Roster -------------------------------
(***************************************************************************)
(* What the client's user list promises: after each list of the arena it   *)
(* holds the users on that list, with what the list says of them.  Who is  *)
(* already in it always stays; somebody new may be missing only when the   *)
(* table had no entry left, the users who have just gone included.         *)
(***************************************************************************)
EXTENDS Naturals, FiniteSets, Sequences

CONSTANTS
  Lists,    \* the lists the arena may send: sequences of entries with an id
  MaxUsers  \* how many users there is room for

VARIABLE roster \* the entries of the users who are logged in

Ids(entries) == {e.id : e \in entries}

\* What a list says: of two entries with one id the later one counts.
Latest(list) ==
  {list[k] : k \in {i \in DOMAIN list :
                      \A j \in DOMAIN list : list[j].id = list[i].id => j <= i}}

Init == roster = {}

Receive(list) ==
  /\ roster' \subseteq Latest(list)
  /\ \A e \in Latest(list) : e.id \in Ids(roster) => e \in roster'
  /\ roster' # Latest(list) =>
       Cardinality(Ids(roster) \cup Ids(roster')) = MaxUsers

Next == \E list \in Lists : Receive(list)

Spec == Init /\ [][Next]_roster
=============================================================================
