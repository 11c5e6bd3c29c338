------------------------------ MODULE UserList ------------------------------
(***************************************************************************)
(* The client's table of the users in the arena, users[] and               *)
(* user_active[] of tunnel-client.cpp 121-123, and its maintenance by the  *)
(* 'a' branch of doClientCommand (1233-1307), which runs in the event      *)
(* thread.  An entry whose user has gone keeps its contents, and the       *)
(* command /userinfo (1414-1447) does not look at user_active.             *)
(***************************************************************************)
EXTENDS Integers, Sequences, FiniteSets

CONSTANTS
  MaxUsers,  \* entries of the table, 100
  Users,     \* identities: product id and process id (szUID, pid)
  Nobody,    \* the identity in an entry that was never written
  Lists      \* the lists the arena may send

(***************************************************************************)
(* A list is any sequence of entries.  A client that reconnects before the *)
(* arena has noticed that it was gone is on it twice.                      *)
(***************************************************************************)
ASSUME UserListAssumption ==
  /\ MaxUsers \in Nat \ {0}
  /\ Nobody \notin Users
  /\ \A list \in Lists :
       /\ list \in Seq([id : Users, psps : Nat])
       /\ Len(list) <= MaxUsers

Slots == 0 .. MaxUsers - 1
Entries == [id : Users \cup {Nobody}, psps : Nat]

VARIABLES
  users,       \* the table: id and pspCount stand for a USER_INFO
  user_active, \* the entries in use
  ui,          \* the list that is being handled
  next,        \* the entry of it that comes next, i in the code
  logout,      \* the entries the list has not named so far
  handling,    \* whether the event thread is in the 'a' branch
  before       \* history: who was logged in when the list came

table == <<users, user_active>>
handler == <<ui, next, logout, handling, before>>
listVars == <<table, handler>>

Active == {c \in Slots : user_active[c]}
LoggedIn == {users[c] : c \in Active}

TypeOK ==
  /\ users \in [Slots -> Entries]
  /\ user_active \in [Slots -> BOOLEAN]
  /\ ui \in Seq([id : Users, psps : Nat])
  /\ next \in 1 .. Len(ui) + 1
  /\ logout \in [Slots -> BOOLEAN]
  /\ handling \in BOOLEAN
  /\ before \in SUBSET Entries

\* The table is zeroed storage; InitClient (1993-2016) marks all entries free.
Init ==
  /\ users = [c \in Slots |-> [id |-> Nobody, psps |-> 0]]
  /\ user_active = [c \in Slots |-> FALSE]
  /\ ui = <<>> /\ next = 1
  /\ logout = [c \in Slots |-> FALSE]
  /\ handling = FALSE
  /\ before = {}
-----------------------------------------------------------------------------
(***************************************************************************)
(* An 'a' command arrives: everybody is about to be logged out.            *)
(***************************************************************************)
ReceiveList(list) ==
  /\ ~handling
  /\ handling' = TRUE
  /\ ui' = list /\ next' = 1
  /\ logout' = user_active
  /\ before' = LoggedIn
  /\ UNCHANGED table

NextEntry == handling /\ next <= Len(ui) /\ next' = next + 1

Found(c) == user_active[c] /\ users[c].id = ui[next].id

\* Wrong: the contents are renewed, the mark for the logout stays.
UpdateUserOnly ==
  /\ NextEntry
  /\ \E c \in Slots :
       /\ Found(c) /\ \A d \in Slots : d < c => ~Found(d)
       /\ users' = [users EXCEPT ![c] = ui[next]]
  /\ UNCHANGED <<user_active, logout, ui, handling, before>>

\* The first active entry with this identity is renewed.
UpdateUser ==
  /\ NextEntry
  /\ \E c \in Slots :
       /\ Found(c) /\ \A d \in Slots : d < c => ~Found(d)
       /\ users' = [users EXCEPT ![c] = ui[next]]
       /\ logout' = [logout EXCEPT ![c] = FALSE]
  /\ UNCHANGED <<user_active, ui, handling, before>>

NotFound == \A c \in Slots : ~Found(c)

\* Wrong: any free entry will do.
LogInAnywhere ==
  /\ NextEntry /\ NotFound
  /\ \E c \in Slots :
       /\ ~user_active[c]
       /\ users' = [users EXCEPT ![c] = ui[next]]
       /\ logout' = [logout EXCEPT ![c] = FALSE]
       /\ user_active' = [user_active EXCEPT ![c] = TRUE]
  /\ UNCHANGED <<ui, handling, before>>

\* Somebody new gets the first entry that is not in use.
LogIn ==
  /\ NextEntry /\ NotFound
  /\ \E c \in Slots :
       /\ ~user_active[c] /\ \A d \in Slots : d < c => user_active[d]
       /\ users' = [users EXCEPT ![c] = ui[next]]
       /\ logout' = [logout EXCEPT ![c] = FALSE]
       /\ user_active' = [user_active EXCEPT ![c] = TRUE]
  /\ UNCHANGED <<ui, handling, before>>

\* No entry is left for somebody new, who is not told of either.
NoRoom ==
  /\ NextEntry /\ NotFound
  /\ Active = Slots
  /\ UNCHANGED <<table, logout, ui, handling, before>>

\* Those the list has not named are logged out.
LogOutRest ==
  /\ handling /\ next > Len(ui)
  /\ handling' = FALSE
  /\ user_active' = [c \in Slots |-> user_active[c] /\ ~logout[c]]
  /\ UNCHANGED <<users, ui, next, logout, before>>

HandleList == UpdateUser \/ LogIn \/ NoRoom

Next == (\E list \in Lists : ReceiveList(list)) \/ HandleList \/ LogOutRest

Spec == Init /\ [][Next]_listVars
-----------------------------------------------------------------------------
(***************************************************************************)
(* What /u lists (1397-1412), and what /userinfo answers for one of them:  *)
(* the caller takes the first of the entries with that identity.           *)
(***************************************************************************)
ActiveIds == {users[c].id : c \in Active}

UserInfo(id) ==
  users[CHOOSE c \in Slots : users[c].id = id /\ \A d \in Slots : users[d].id = id => c <= d]
-----------------------------------------------------------------------------
(***************************************************************************)
(* The commands /userinfo and /u agree: the first entry with the identity  *)
(* of somebody who is logged in is the one that is kept up to date, never  *)
(* one that was left behind, although /userinfo looks at both (1420-1423). *)
(***************************************************************************)
FirstIsActive ==
  \A c \in Active : \A d \in Slots : d < c => users[d].id # users[c].id

(***************************************************************************)
(* The table implements the roster: a list takes effect at once when its   *)
(* last entry has been handled ("Turn out to be the same", "I have logged  *)
(* the", "I have to log out is", 1256-1302).                               *)
(***************************************************************************)
R == INSTANCE Roster WITH roster <- IF handling THEN before ELSE LoggedIn

ImplementsRoster == R!Spec
=============================================================================
