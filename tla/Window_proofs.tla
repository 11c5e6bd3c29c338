---------------------------- MODULE Window_proofs ---------------------------
(***************************************************************************)
(* The client's user list and the window, for tables, lists and histories  *)
(* of any size: the entries of one user are found by both commands alike   *)
(* and the table implements the roster; a refresh of the window shows what *)
(* the table holds, however the user disconnects meanwhile; the history    *)
(* keeps the commands entered last, and "down" brings back what was being  *)
(* typed.                                                                  *)
(***************************************************************************)
EXTENDS UserView, History, FiniteSetTheorems, FunctionTheorems, WellFoundedInduction, TLAPS

Item == [id : Users, psps : Nat]

LEMMA ListType ==
  ASSUME NEW list \in Lists
  PROVE  list \in Seq(Item) /\ Len(list) \in Nat /\ \A k \in 1 .. Len(list) : list[k] \in Item
<1>1. list \in Seq(Item)
  BY UserListAssumption, Zenon DEF Item
<1> HIDE DEF Item
<1> QED
  BY <1>1

LEMMA ItemIsEntry == Item \subseteq Entries
BY DEF Item, Entries

-----------------------------------------------------------------------------
(***************************************************************************)
(* Types, and the entry of an active user is the first with its identity.  *)
(***************************************************************************)
TableInv == TypeOK /\ FirstIsActive

LEMMA InitTable == Init => TableInv
<1> SUFFICES ASSUME Init PROVE TableInv
  OBVIOUS
<1>1. TypeOK
  <2>1. users \in [Slots -> Entries]
    BY DEF Init, Entries
  <2>2. ui \in Seq([id : Users, psps : Nat]) /\ next \in 1 .. Len(ui) + 1
    <3>1. ui = <<>> /\ next = 1
      BY DEF Init
    <3> QED
      BY <3>1
  <2> QED
    BY <2>1, <2>2 DEF Init, TypeOK
<1>2. FirstIsActive
  BY DEF Init, FirstIsActive, Active
<1> QED
  BY <1>1, <1>2 DEF TableInv

\* The entry of the list that comes next.
LEMMA NextItem ==
  ASSUME TypeOK, NextEntry
  PROVE  /\ next \in 1 .. Len(ui) /\ ui[next] \in Item /\ ui[next] \in Entries
         /\ next' \in 1 .. Len(ui) + 1 /\ next' = next + 1
<1>1. ui \in Seq(Item) /\ next \in 1 .. Len(ui) + 1
  BY Zenon DEF TypeOK, Item
<1>2. next <= Len(ui) /\ next' = next + 1
  BY DEF NextEntry
<1> HIDE DEF Item
<1>3. next \in 1 .. Len(ui) /\ ui[next] \in Item /\ next' \in 1 .. Len(ui) + 1
  BY <1>1, <1>2
<1> QED
  BY <1>2, <1>3, ItemIsEntry

LEMMA StepKeepsTable ==
  ASSUME TableInv, [Next]_listVars
  PROVE  TableInv'
<1> USE DEF TableInv
<1>1. ASSUME NEW list \in Lists, ReceiveList(list) PROVE TableInv'
  <2>1. LoggedIn \subseteq Entries
    BY DEF LoggedIn, Active, TypeOK
  <2>2. ui' \in Seq([id : Users, psps : Nat]) /\ next' \in 1 .. Len(ui') + 1
    <3>1. ui' = list /\ next' = 1
      BY <1>1 DEF ReceiveList
    <3>2. list \in Seq([id : Users, psps : Nat]) /\ Len(list) \in Nat
      BY ListType DEF Item
    <3> QED
      BY <3>1, <3>2
  <2>3. TypeOK'
    BY <1>1, <2>1, <2>2 DEF TypeOK, ReceiveList, table
  <2>4. FirstIsActive'
    BY <1>1 DEF FirstIsActive, Active, ReceiveList, table
  <2> QED
    BY <2>3, <2>4
<1>2. CASE UpdateUser
  <2>1. NextEntry
    BY <1>2 DEF UpdateUser
  <2>2. PICK c \in Slots :
          /\ Found(c)
          /\ users' = [users EXCEPT ![c] = ui[next]]
          /\ logout' = [logout EXCEPT ![c] = FALSE]
    BY <1>2 DEF UpdateUser
  <2>3. TypeOK'
    BY <1>2, <2>1, <2>2, NextItem DEF TypeOK, UpdateUser
  <2>4. \A d \in Slots : users'[d].id = users[d].id
    BY <2>2 DEF Found, TypeOK
  <2>5. FirstIsActive'
    BY <1>2, <2>4 DEF FirstIsActive, Active, UpdateUser
  <2> QED
    BY <2>3, <2>5
<1>3. CASE LogIn
  <2>1. NextEntry /\ NotFound
    BY <1>3 DEF LogIn
  <2>2. PICK c \in Slots :
          /\ ~user_active[c] /\ \A d \in Slots : d < c => user_active[d]
          /\ users' = [users EXCEPT ![c] = ui[next]]
          /\ logout' = [logout EXCEPT ![c] = FALSE]
          /\ user_active' = [user_active EXCEPT ![c] = TRUE]
    BY <1>3 DEF LogIn
  <2>3. TypeOK'
    BY <1>3, <2>1, <2>2, NextItem DEF TypeOK, LogIn
  <2>4. \A d \in Slots : user_active[d] => users[d].id # ui[next].id
    BY <2>1 DEF NotFound, Found
  <2>5. \A d \in Slots : user_active'[d] => d = c \/ user_active[d]
    BY <2>2 DEF TypeOK
  <2>6. users'[c] = ui[next] /\ \A d \in Slots \ {c} : users'[d] = users[d]
    BY <2>2 DEF TypeOK
  <2>7. FirstIsActive'
    <3> SUFFICES ASSUME NEW e \in Slots, user_active'[e], NEW d \in Slots, d < e
                 PROVE  users'[d].id # users'[e].id
      BY DEF FirstIsActive, Active
    <3>1. CASE e = c
      BY <3>1, <2>2, <2>4, <2>6 DEF Slots
    <3>2. CASE e # c /\ d = c
      BY <3>2, <2>4, <2>5, <2>6
    <3>3. CASE e # c /\ d # c
      BY <3>3, <2>5, <2>6 DEF FirstIsActive, Active
    <3> QED
      BY <3>1, <3>2, <3>3
  <2> QED
    BY <2>3, <2>7
<1>4. CASE NoRoom
  <2>1. TypeOK'
    BY <1>4, NextItem DEF NoRoom, TypeOK, table
  <2> QED
    BY <1>4, <2>1 DEF NoRoom, FirstIsActive, Active, table
<1>5. CASE LogOutRest
  <2>1. TypeOK'
    BY <1>5 DEF LogOutRest, TypeOK
  <2>2. \A c \in Slots : user_active'[c] => user_active[c]
    BY <1>5 DEF LogOutRest
  <2> QED
    BY <1>5, <2>1, <2>2 DEF LogOutRest, FirstIsActive, Active
<1>6. CASE UNCHANGED listVars
  BY <1>6 DEF listVars, table, handler, TypeOK, FirstIsActive, Active
<1> QED
  BY <1>1, <1>2, <1>3, <1>4, <1>5, <1>6 DEF Next, HandleList

(***************************************************************************)
(* The table, the list and the marks stay what they are meant to be, also  *)
(* when a list is longer than what is free.                                *)
(***************************************************************************)
THEOREM ListTypeCorrect == Spec => []TypeOK
<1>1. TableInv => TypeOK
  BY DEF TableInv
<1> QED
  BY <1>1, InitTable, StepKeepsTable, PTL DEF Spec

(***************************************************************************)
(* /userinfo and /u agree for any table: whoever is logged in is in the    *)
(* first entry with that identity.                                         *)
(***************************************************************************)
THEOREM CommandsAgree == Spec => []FirstIsActive
<1>1. TableInv => FirstIsActive
  BY DEF TableInv
<1> QED
  BY <1>1, InitTable, StepKeepsTable, PTL DEF Spec
-----------------------------------------------------------------------------
(***************************************************************************)
(* What holds while a list is handled.  Named is what it has said so far.  *)
(***************************************************************************)
Named == 1 .. next - 1

Current(c) ==
  \E k \in Named :
    users[c] = ui[k] /\ \A j \in Named : ui[j].id = users[c].id => j <= k

HandlingInv ==
  handling =>
    /\ ui \in Lists
    /\ \A c \in Slots : logout[c] => user_active[c]
    /\ \A c \in Slots : user_active[c] /\ ~logout[c] => Current(c)
    /\ \A c \in Slots : logout[c] => \A k \in Named : ui[k].id # users[c].id
    /\ \A k \in Named : (\E c \in Slots : user_active[c] /\ users[c].id = ui[k].id) \/ Active = Slots
    /\ \A e \in before : \E c \in Slots : user_active[c] /\ users[c].id = e.id
    /\ \A c \in Slots : logout[c] => \E e \in before : e.id = users[c].id

ListInv == TableInv /\ HandlingInv

LEMMA InitList == Init => ListInv
BY InitTable DEF Init, ListInv, HandlingInv

\* Active users have different identities.
LEMMA ActiveDiffer ==
  ASSUME TypeOK, FirstIsActive, NEW c \in Slots, NEW d \in Slots, c # d,
         user_active[c], user_active[d]
  PROVE  users[c].id # users[d].id
<1>1. c < d \/ d < c
  BY UserListAssumption DEF Slots
<1> QED
  BY <1>1 DEF FirstIsActive, Active

\* The list goes on by one entry.
LEMMA NamedGrows ==
  ASSUME TypeOK, NextEntry
  PROVE  /\ next \in Nat /\ Named \subseteq 1 .. next /\ Named' = Named \cup {next}
         /\ next \notin Named /\ \A k \in Named' : k <= next
BY NextItem DEF Named

LEMMA StepKeepsList ==
  ASSUME ListInv, [Next]_listVars
  PROVE  ListInv'
<1> USE DEF ListInv
<1> SUFFICES HandlingInv'
  BY StepKeepsTable
<1>1. TypeOK /\ FirstIsActive
  BY DEF TableInv
<1>2. ASSUME NEW list \in Lists, ReceiveList(list) PROVE HandlingInv'
  <2>1. /\ ui' = list /\ next' = 1 /\ logout' = user_active /\ before' = LoggedIn
        /\ users' = users /\ user_active' = user_active
    BY <1>2 DEF ReceiveList, table
  <2>2. Named' = {}
    BY <2>1 DEF Named
  <2>3. \A e \in before' : \E c \in Slots : user_active[c] /\ users[c].id = e.id
    BY <2>1 DEF LoggedIn, Active
  <2>4. \A c \in Slots : user_active[c] => users[c] \in before'
    BY <2>1 DEF LoggedIn, Active
  <2> QED
    BY <2>1, <2>2, <2>3, <2>4 DEF HandlingInv
<1>3. ASSUME NEW c \in Slots, Found(c), NextEntry,
             users' = [users EXCEPT ![c] = ui[next]], logout' = [logout EXCEPT ![c] = FALSE],
             UNCHANGED <<user_active, ui, handling, before>>
      PROVE  HandlingInv'
  <2>1. handling /\ user_active[c] /\ users[c].id = ui[next].id
    BY <1>3 DEF Found, NextEntry
  <2>2. /\ users'[c] = ui[next] /\ ~logout'[c]
        /\ \A d \in Slots \ {c} : users'[d] = users[d] /\ logout'[d] = logout[d]
    BY <1>1, <1>3 DEF TypeOK
  <2>3. \A d \in Slots : users'[d].id = users[d].id
    BY <2>1, <2>2
  <2>4. \A d \in Slots \ {c} : user_active[d] => users[d].id # ui[next].id
    BY <1>1, <2>1, ActiveDiffer
  <2>5. ASSUME NEW d \in Slots, user_active'[d], ~logout'[d] PROVE Current(d)'
    <3>1. CASE d = c
      BY <3>1, <1>1, <1>3, <2>2, NamedGrows DEF Current
    <3>2. CASE d # c
      <4>1. Current(d)
        BY <3>2, <2>1, <2>2, <2>5, <1>3 DEF HandlingInv
      <4> QED
        BY <3>2, <4>1, <1>1, <1>3, <2>2, <2>4, <2>5, NamedGrows DEF Current
    <3> QED
      BY <3>1, <3>2
  <2>6. \A d \in Slots : logout'[d] => d # c /\ logout[d] /\ user_active[d]
    BY <2>1, <2>2 DEF HandlingInv
  <2>7. \A d \in Slots : logout'[d] => \A k \in Named' : ui'[k].id # users'[d].id
    BY <1>1, <1>3, <2>1, <2>3, <2>4, <2>6, NamedGrows DEF HandlingInv
  <2>8. \A k \in Named' : (\E d \in Slots : user_active'[d] /\ users'[d].id = ui'[k].id)
                          \/ Active' = Slots
    BY <1>1, <1>3, <2>1, <2>3, NamedGrows DEF HandlingInv, Active
  <2> QED
    BY <1>3, <2>1, <2>3, <2>5, <2>6, <2>7, <2>8 DEF HandlingInv
<1>4. CASE LogIn
  <2>1. NextEntry /\ NotFound /\ handling /\ UNCHANGED <<ui, handling, before>>
    BY <1>4 DEF LogIn, NextEntry
  <2>2. PICK c \in Slots :
          /\ ~user_active[c]
          /\ users' = [users EXCEPT ![c] = ui[next]]
          /\ logout' = [logout EXCEPT ![c] = FALSE]
          /\ user_active' = [user_active EXCEPT ![c] = TRUE]
    BY <1>4 DEF LogIn
  <2>3. /\ users'[c] = ui[next] /\ ~logout'[c] /\ user_active'[c]
        /\ \A d \in Slots \ {c} : /\ users'[d] = users[d] /\ logout'[d] = logout[d]
                                   /\ user_active'[d] = user_active[d]
    BY <1>1, <2>2 DEF TypeOK
  <2>4. \A d \in Slots : user_active[d] => d # c /\ users[d].id # ui[next].id
    BY <2>1, <2>2 DEF NotFound, Found
  <2>5. ASSUME NEW d \in Slots, user_active'[d], ~logout'[d] PROVE Current(d)'
    <3>1. CASE d = c
      BY <3>1, <1>1, <2>1, <2>3, NamedGrows DEF Current
    <3>2. CASE d # c
      <4>1. Current(d) /\ user_active[d]
        BY <3>2, <2>1, <2>3, <2>5 DEF HandlingInv
      <4> QED
        BY <3>2, <4>1, <1>1, <2>1, <2>3, <2>4, NamedGrows DEF Current
    <3> QED
      BY <3>1, <3>2
  <2>6. \A d \in Slots : logout'[d] => d # c /\ logout[d] /\ user_active[d] /\ user_active'[d]
    BY <2>1, <2>3 DEF HandlingInv
  <2>7. \A d \in Slots : logout'[d] => \A k \in Named' : ui'[k].id # users'[d].id
    BY <1>1, <2>1, <2>3, <2>4, <2>6, NamedGrows DEF HandlingInv
  <2>8. \A k \in Named' : \E d \in Slots : user_active'[d] /\ users'[d].id = ui'[k].id
    <3>1. Active # Slots
      BY <2>2 DEF Active
    <3> QED
      BY <3>1, <1>1, <2>1, <2>3, <2>4, NamedGrows DEF HandlingInv
  <2>9. \A e \in before : \E d \in Slots : user_active'[d] /\ users'[d].id = e.id
    BY <2>1, <2>3, <2>4 DEF HandlingInv
  <2>10. \A d \in Slots : logout'[d] => \E e \in before : e.id = users'[d].id
    BY <2>1, <2>3, <2>6 DEF HandlingInv
  <2> QED
    BY <2>1, <2>5, <2>6, <2>7, <2>8, <2>9, <2>10 DEF HandlingInv
<1>5. CASE NoRoom
  <2>1. /\ NextEntry /\ NotFound /\ handling /\ Active = Slots
        /\ UNCHANGED <<users, user_active, logout, ui, handling, before>>
    BY <1>5 DEF NoRoom, NextEntry, table
  <2>2. \A d \in Slots : user_active[d] => users[d].id # ui[next].id
    BY <2>1 DEF NotFound, Found
  <2>3. ASSUME NEW d \in Slots, user_active[d], ~logout[d] PROVE Current(d)'
    <3>1. Current(d)
      BY <2>1, <2>3 DEF HandlingInv
    <3> QED
      BY <3>1, <1>1, <2>1, <2>2, <2>3, NamedGrows DEF Current
  <2>4. \A d \in Slots : logout[d] => \A k \in Named' : ui[k].id # users[d].id
    BY <1>1, <2>1, <2>2, NamedGrows DEF HandlingInv
  <2>5. Active' = Slots
    BY <2>1 DEF Active
  <2> QED
    BY <2>1, <2>3, <2>4, <2>5 DEF HandlingInv
<1>6. CASE LogOutRest
  BY <1>6 DEF LogOutRest, HandlingInv
<1>7. CASE UNCHANGED listVars
  BY <1>7 DEF listVars, table, handler, HandlingInv, Current, Named, Active
<1>8. UpdateUser => \E c \in Slots :
        /\ Found(c) /\ NextEntry
        /\ users' = [users EXCEPT ![c] = ui[next]] /\ logout' = [logout EXCEPT ![c] = FALSE]
        /\ UNCHANGED <<user_active, ui, handling, before>>
  BY DEF UpdateUser
<1> QED
  BY <1>2, <1>3, <1>4, <1>5, <1>6, <1>7, <1>8 DEF Next, HandleList
-----------------------------------------------------------------------------
\* The end of a list is one step of the roster.
LEMMA ListTakesEffect ==
  ASSUME ListInv, LogOutRest
  PROVE  R!Next
<1> DEFINE roster == {users[c] : c \in {d \in Slots : user_active[d] /\ ~logout[d]}}
           said == R!Latest(ui)
<1>1. TypeOK /\ FirstIsActive /\ handling /\ ui \in Lists
  BY DEF ListInv, TableInv, HandlingInv, LogOutRest
<1>2. Named = DOMAIN ui
  BY <1>1, ListType DEF TypeOK, LogOutRest, Named
<1>3. LoggedIn' = roster /\ handling' = FALSE
  BY DEF LogOutRest, LoggedIn, Active
<1>4. roster \subseteq said
  <2> SUFFICES ASSUME NEW c \in Slots, user_active[c], ~logout[c] PROVE users[c] \in said
    OBVIOUS
  <2>1. Current(c)
    BY <1>1 DEF ListInv, HandlingInv
  <2>2. PICK k \in DOMAIN ui :
          users[c] = ui[k] /\ \A j \in DOMAIN ui : ui[j].id = users[c].id => j <= k
    BY <2>1, <1>2 DEF Current
  <2> QED
    BY <2>2 DEF R!Latest
\* A user on the list who has an entry is in the roster, with the latest word.
<1>5. ASSUME NEW e \in said, NEW c \in Slots, user_active[c], users[c].id = e.id
      PROVE  e \in roster
  <2>1. PICK k \in Named : e = ui[k] /\ \A j \in Named : ui[j].id = ui[k].id => j <= k
    BY <1>2 DEF R!Latest
  <2>2. ~logout[c]
    BY <1>1, <1>5, <2>1 DEF ListInv, HandlingInv
  <2>3. Current(c)
    BY <1>1, <1>5, <2>2 DEF ListInv, HandlingInv
  <2>4. PICK m \in Named : users[c] = ui[m] /\ \A j \in Named : ui[j].id = users[c].id => j <= m
    BY <2>3 DEF Current
  <2>5. k <= m /\ m <= k
    BY <1>5, <2>1, <2>4
  <2>6. k = m
    BY <1>1, <2>5 DEF Named, TypeOK
  <2> QED
    BY <1>5, <2>1, <2>2, <2>4, <2>6
<1>6. \A e \in said : e.id \in R!Ids(before) => e \in roster
  <2> SUFFICES ASSUME NEW e \in said, NEW b \in before, b.id = e.id PROVE e \in roster
    BY DEF R!Ids
  <2>1. PICK c \in Slots : user_active[c] /\ users[c].id = b.id
    BY <1>1 DEF ListInv, HandlingInv
  <2> QED
    BY <1>5, <2>1
<1>7. ASSUME roster # said
      PROVE  Cardinality(R!Ids(before) \cup R!Ids(roster)) = MaxUsers
  <2> DEFINE ids == {users[c].id : c \in Slots}
  <2>1. PICK e \in said : e \notin roster
    BY <1>4, <1>7
  <2>2. PICK k \in Named : e = ui[k]
    BY <1>2 DEF R!Latest
  <2>3. Active = Slots
    <3>1. (\E c \in Slots : user_active[c] /\ users[c].id = ui[k].id) \/ Active = Slots
      BY <1>1 DEF ListInv, HandlingInv
    <3> QED
      BY <1>5, <2>1, <2>2, <3>1
  <2>4. \A c \in Slots : user_active[c]
    BY <2>3 DEF Active
  <2>5. R!Ids(before) \cup R!Ids(roster) = ids
    <3>1. \A b \in before : b.id \in ids
      BY <1>1 DEF ListInv, HandlingInv
    <3>2. \A r \in roster : r.id \in ids
      OBVIOUS
    <3>3. ASSUME NEW c \in Slots PROVE users[c].id \in R!Ids(before) \cup R!Ids(roster)
      <4>1. CASE logout[c]
        BY <4>1, <1>1 DEF ListInv, HandlingInv, R!Ids
      <4>2. CASE ~logout[c]
        <5>1. users[c] \in roster
          BY <4>2, <2>4
        <5> QED
          BY <5>1 DEF R!Ids
      <4> QED
        BY <4>1, <4>2
    <3> HIDE DEF roster
    <3> QED
      BY <3>1, <3>2, <3>3 DEF R!Ids
  <2>6. IsFiniteSet(Slots) /\ Cardinality(Slots) = MaxUsers
    BY UserListAssumption, FS_Interval DEF Slots
  <2>7. Cardinality(ids) = Cardinality(Slots)
    <3> DEFINE f == [c \in Slots |-> users[c].id]
    <3>1. \A c, d \in Slots : c # d => f[c] # f[d]
      BY <1>1, <2>4, ActiveDiffer
    <3>2. f \in Bijection(Slots, ids)
      BY <3>1 DEF Bijection, Injection, Surjection, IsInjective
    <3>3. ExistsBijection(Slots, ids)
      BY <3>2 DEF ExistsBijection
    <3> HIDE DEF f, ids
    <3> QED
      BY <2>6, <3>3, FS_Bijection
  <2> QED
    BY <2>5, <2>6, <2>7
<1>8. R!Receive(ui)
  <2>1. (IF handling THEN before ELSE LoggedIn) = before
    BY <1>1
  <2>2. (IF handling THEN before ELSE LoggedIn)' = roster
    BY <1>3
  <2> HIDE DEF roster
  <2>3. said = R!Latest(ui)
    OBVIOUS
  <2>4. \A S : R!Cardinality(S) = Cardinality(S)
    BY DEF R!Cardinality, Cardinality
  <2> HIDE DEF said
  <2> QED
    BY <2>1, <2>2, <2>3, <2>4, <1>4, <1>6, <1>7 DEF R!Receive
<1> QED
  BY <1>1, <1>8 DEF R!Next

(***************************************************************************)
(* Every list takes effect in one step, for any table and any lists: the   *)
(* users on it are logged in with what it says last of them, except those  *)
(* who came when the table was full; nobody else is.                       *)
(***************************************************************************)
THEOREM ListImplementsRoster == Spec => ImplementsRoster
<1> DEFINE roster == IF handling THEN before ELSE LoggedIn
<1>1. Init => R!Init
  BY DEF Init, R!Init, LoggedIn, Active
<1>2. ASSUME ListInv, [Next]_listVars PROVE [R!Next]_roster
  <2>1. ASSUME NEW list \in Lists, ReceiveList(list) PROVE roster' = roster
    BY <2>1 DEF ReceiveList
  <2>2. CASE HandleList
    BY <2>2 DEF HandleList, UpdateUser, LogIn, NoRoom, NextEntry
  <2>3. CASE LogOutRest
    BY <1>2, <2>3, ListTakesEffect
  <2>4. CASE UNCHANGED listVars
    BY <2>4 DEF listVars, table, handler, LoggedIn, Active
  <2> QED
    BY <1>2, <2>1, <2>2, <2>3, <2>4 DEF Next
<1> QED
  BY <1>1, <1>2, InitList, StepKeepsList, PTL DEF Spec, ImplementsRoster, R!Spec
-----------------------------------------------------------------------------

LEMMA HistoryEnd ==
  /\ historyMax \in Nat /\ historyMax >= 1 /\ historyMax \in 0 .. historyMax
  /\ Cells \subseteq 0 .. historyMax /\ \A i \in Cells : i < historyMax /\ i # -1
  /\ NoText \in Texts /\ NULL \notin Texts
BY HistoryAssumption DEF Cells

(***************************************************************************)
(* The history of the command box.  While the box shows a cell, the cell   *)
(* historyTemp is what was kept: only "up" from the box and "send" write   *)
(* to it, and the box shows no cell before the one and after the other.    *)
(***************************************************************************)
TempIsKept == historyIndex # -1 => historyTemp = kept

BoxInv == HistoryTypeOK /\ TempIsKept

\* What is shown is a cell in use.
LEMMA ShownInUse ==
  ASSUME HistoryTypeOK, NEW i \in 0 .. historyMax, history[i] # NULL, Show(i)
  PROVE  /\ historyIndex' = i /\ historyIndex' \in -1 .. historyMax
         /\ box' = history[i] /\ box' \in Texts
<1>1. history[i] \in Texts
  BY DEF HistoryTypeOK
<1> QED
  BY <1>1, HistoryEnd DEF Show

LEMMA ShowsBelow ==
  ASSUME HistoryTypeOK, NEW i \in 0 .. historyMax, ShowBelow(i)
  PROVE  \/ UNCHANGED <<historyIndex, box>>
         \/ \E j \in Cells : history[j] # NULL /\ Show(j)
BY DEF ShowBelow

LEMMA AddHistoryType ==
  ASSUME HistoryTypeOK
  PROVE  AddHistory \in [0 .. historyMax -> Texts \cup {NULL}]
<1>1. /\ history \in [0 .. historyMax -> Texts \cup {NULL}] /\ box \in Texts
      /\ historyMax \in Nat
  BY HistoryEnd DEF HistoryTypeOK
<1>2. ASSUME NEW i \in 0 .. historyMax
      PROVE  MovedToEnd(i) \in [0 .. historyMax -> Texts \cup {NULL}]
  <2> DEFINE last == {j \in Cells : j >= i /\ history[j] # NULL
                                    /\ (j = historyMax - 1 \/ history[j + 1] = NULL)}
  <2>1. ASSUME NEW j \in 0 .. historyMax, NEW l \in last, j \in i .. l - 1
        PROVE  j + 1 \in 0 .. historyMax
    BY <1>1, <2>1 DEF Cells
  <2>2. MovedToEnd(i) = [j \in 0 .. historyMax |->
          IF \E l \in last : j \in i .. l - 1 THEN history[j + 1]
          ELSE IF j \in last THEN history[i] ELSE history[j]]
    BY DEF MovedToEnd
  <2> HIDE DEF last
  <2> QED
    BY <1>1, <2>1, <2>2
<1>3. ShiftedIn \in [0 .. historyMax -> Texts \cup {NULL}]
  <2>1. \A j \in 0 .. historyMax : j < historyMax - 1 => j + 1 \in 0 .. historyMax
    BY <1>1
  <2> QED
    BY <1>1, <2>1 DEF ShiftedIn
<1>4. CASE \E i \in 0 .. historyMax : StopsAt(i)
  <2> DEFINE i == CHOOSE j \in 0 .. historyMax : StopsAt(j)
  <2>1. i \in 0 .. historyMax
    BY <1>4
  <2>2. AddHistory = IF history[i] = NULL THEN [history EXCEPT ![i] = box] ELSE MovedToEnd(i)
    BY <1>4 DEF AddHistory
  <2> HIDE DEF i
  <2> QED
    BY <1>1, <1>2, <2>1, <2>2
<1>5. CASE ~(\E i \in 0 .. historyMax : StopsAt(i))
  BY <1>3, <1>5 DEF AddHistory
<1> QED
  BY <1>4, <1>5

LEMMA InitBox == HistoryInit => BoxInv
BY HistoryEnd DEF HistoryInit, BoxInv, HistoryTypeOK, TempIsKept

LEMMA StepKeepsBox ==
  ASSUME BoxInv, [HistoryNext]_historyVars
  PROVE  BoxInv'
<1> USE DEF BoxInv, historyTemp
<1>0. /\ history \in [0 .. historyMax -> Texts \cup {NULL}]
      /\ historyIndex \in -1 .. historyMax /\ box \in Texts /\ kept \in Texts
      /\ historyIndex # -1 => history[historyIndex] # NULL /\ historyTemp = kept
  BY DEF HistoryTypeOK, TempIsKept
<1>1. ASSUME NEW text \in Texts, Type(text) PROVE BoxInv'
  BY <1>0, <1>1 DEF Type, HistoryTypeOK, TempIsKept
<1>2. CASE Send
  <2>1. history' \in [0 .. historyMax -> Texts \cup {NULL}]
    BY <1>2, AddHistoryType DEF Send
  <2> QED
    BY <1>0, <1>2, <2>1, HistoryEnd DEF Send, HistoryTypeOK, TempIsKept
<1>3. CASE KeyUpFirst
  <2>1. /\ historyIndex = -1 /\ history' = [history EXCEPT ![historyMax] = box] /\ kept' = box
        /\ ShowBelow(historyMax)
    BY <1>3 DEF KeyUpFirst
  <2>2. /\ history' \in [0 .. historyMax -> Texts \cup {NULL}] /\ historyTemp' = box
        /\ \A i \in Cells : history'[i] = history[i]
    BY <1>0, <2>1, HistoryEnd
  <2>3. CASE UNCHANGED <<historyIndex, box>>
    BY <1>0, <2>1, <2>2, <2>3 DEF HistoryTypeOK, TempIsKept
  <2>4. CASE \E j \in Cells : history[j] # NULL /\ Show(j)
    <3>1. PICK j \in Cells : history[j] # NULL /\ Show(j)
      BY <2>4
    <3>2. historyIndex' = j /\ historyIndex' \in -1 .. historyMax /\ box' \in Texts
      BY <3>1, ShownInUse, HistoryEnd
    <3> QED
      BY <1>0, <2>1, <2>2, <3>1, <3>2 DEF HistoryTypeOK, TempIsKept
  <2> QED
    BY <2>1, <2>3, <2>4, ShowsBelow, HistoryEnd
<1>4. CASE KeyUpAgain
  <2>1. historyIndex \in 0 .. historyMax /\ ShowBelow(historyIndex) /\ UNCHANGED <<history, kept>>
        /\ historyIndex # -1
    BY <1>0, <1>4, HistoryEnd DEF KeyUpAgain
  <2>2. CASE UNCHANGED <<historyIndex, box>>
    BY <1>0, <2>1, <2>2 DEF HistoryTypeOK, TempIsKept
  <2>3. CASE \E j \in Cells : history[j] # NULL /\ Show(j)
    <3>1. PICK j \in Cells : history[j] # NULL /\ Show(j)
      BY <2>3
    <3>2. historyIndex' = j /\ historyIndex' \in -1 .. historyMax /\ box' \in Texts
      BY <3>1, ShownInUse, HistoryEnd
    <3> QED
      BY <1>0, <2>1, <3>1, <3>2 DEF HistoryTypeOK, TempIsKept
  <2> QED
    BY <2>1, <2>2, <2>3, ShowsBelow
<1>5. CASE KeyDown
  <2>1. UNCHANGED <<history, kept>> /\ historyIndex # -1
    BY <1>5 DEF KeyDown
  <2>2. CASE historyIndex + 1 <= historyMax /\ history[historyIndex + 1] # NULL
    <3>1. historyIndex + 1 \in 0 .. historyMax /\ Show(historyIndex + 1)
      BY <1>0, <1>5, <2>2, HistoryEnd DEF KeyDown
    <3>2. historyIndex' = historyIndex + 1 /\ historyIndex' \in -1 .. historyMax /\ box' \in Texts
      BY <2>2, <3>1, ShownInUse
    <3> QED
      BY <1>0, <2>1, <2>2, <3>2 DEF HistoryTypeOK, TempIsKept
  <2>3. CASE ~(historyIndex + 1 <= historyMax /\ history[historyIndex + 1] # NULL)
    BY <1>0, <1>5, <2>1, <2>3, HistoryEnd DEF KeyDown, HistoryTypeOK, TempIsKept
  <2> QED
    BY <2>2, <2>3
<1>6. CASE UNCHANGED historyVars
  BY <1>0, <1>6 DEF historyVars, HistoryTypeOK, TempIsKept
<1> QED
  BY <1>1, <1>2, <1>3, <1>4, <1>5, <1>6 DEF HistoryNext

(***************************************************************************)
(* The box always shows a text, and the index a cell in use: the loops     *)
(* that run one cell too far find historyTemp there, and it is never free  *)
(* while they may show it (MHPTunnelMain.CPP 539-636).                     *)
(***************************************************************************)
THEOREM BoxType == HistorySpec => []HistoryTypeOK
<1>1. BoxInv => HistoryTypeOK
  BY DEF BoxInv
<1> QED
  BY <1>1, InitBox, StepKeepsBox, PTL DEF HistorySpec

(***************************************************************************)
(* The key that ends a walk through the history brings back what was being *)
(* typed, for a history of any size and any walk; only Send does not.      *)
(***************************************************************************)
THEOREM TypingComesBack == HistorySpec => TypedComesBack
<1>1. BoxInv /\ [HistoryNext]_historyVars =>
        [historyIndex # -1 /\ historyIndex' = -1 => box' = kept \/ Send]_historyVars
  <2> SUFFICES ASSUME BoxInv, HistoryNext, historyIndex # -1, historyIndex' = -1
               PROVE  box' = kept \/ Send
    OBVIOUS
  <2>0. HistoryTypeOK /\ historyTemp = kept /\ historyIndex \in 0 .. historyMax
    BY HistoryEnd DEF BoxInv, TempIsKept, HistoryTypeOK
  <2>1. ASSUME NEW text \in Texts, Type(text) PROVE FALSE
    BY <2>1 DEF Type
  <2>2. CASE Send
    BY <2>2
  <2>3. CASE KeyUpAgain
    BY <2>0, <2>3, ShowsBelow, HistoryEnd DEF KeyUpAgain, Show
  <2>4. CASE KeyDown
    BY <2>0, <2>4, HistoryEnd DEF KeyDown, Show
  <2> QED
    BY <2>1, <2>2, <2>3, <2>4 DEF HistoryNext, KeyUpFirst
<1> QED
  BY <1>1, InitBox, StepKeepsBox, PTL DEF HistorySpec, TypedComesBack
-----------------------------------------------------------------------------
\* Of the places the loops look for there is a first one.
LEMMA LeastOfNats ==
  ASSUME NEW S \in SUBSET Nat, S # {}
  PROVE  \E i \in S : \A j \in S : i <= j
<1> DEFINE less == {ss \in Nat \X Nat : ss[1] < ss[2]}
<1>1. IsWellFoundedOn(less, Nat)
  BY NatLessThanWellFounded DEF OpToRel
<1>2. PICK i \in S : \A j \in S : <<j, i>> \notin less
  BY <1>1, WFMin
<1>3. ASSUME NEW j \in S PROVE i <= j
  <2>1. i \in Nat /\ j \in Nat /\ <<j, i>> \notin less
    BY <1>2
  <2>2. ~(j < i)
    BY <2>1
  <2> QED
    BY <2>1, <2>2
<1> QED
  BY <1>3

(***************************************************************************)
(* AddHistory.  The cells in use are the first ones, and they hold each    *)
(* command once.  Whichever way the box is entered, the cells 0 .. last    *)
(* hold afterwards what they held without the cell gone, and the box: gone *)
(* is where the command was, or the oldest one, or no cell in use at all.  *)
(***************************************************************************)
UsedFirst == \A i, j \in Cells : i < j /\ history[j] # NULL => history[i] # NULL

KeptInv == HistoryTypeOK /\ UsedFirst /\ EachOnce

Entered(gone, last) ==
  \A i \in Cells : history'[i] = IF i = last THEN box
                                 ELSE IF i < gone THEN history[i]
                                 ELSE IF i < last THEN history[i + 1] ELSE NULL

\* The cells in use are those before some cell.
LEMMA UsedCells ==
  ASSUME KeptInv
  PROVE  \E n \in 0 .. historyMax : \A i \in Cells : history[i] # NULL <=> i < n
<1> DEFINE free == {i \in Cells : history[i] = NULL}
<1>1. CASE free = {}
  BY <1>1, HistoryEnd DEF Cells
<1>2. CASE free # {}
  <2>1. PICK n \in free : \A j \in free : n <= j
    <3>1. free \in SUBSET Nat
      BY HistoryEnd DEF Cells
    <3> HIDE DEF free
    <3> QED
      BY <1>2, <3>1, LeastOfNats
  <2>2. n \in 0 .. historyMax /\ n \in Cells /\ history[n] = NULL
    BY HistoryEnd DEF Cells
  <2>3. \A i \in Cells : i < n => history[i] # NULL
    BY <2>1, HistoryEnd DEF Cells
  <2>4. \A i \in Cells : history[i] # NULL => i < n
    BY <2>2, HistoryEnd DEF KeptInv, UsedFirst, Cells
  <2> QED
    BY <2>2, <2>3, <2>4
<1> QED
  BY <1>1, <1>2

LEMMA EnteredIsLast ==
  ASSUME KeptInv, NEW last \in Cells, NEW gone \in 0 .. last, Entered(gone, last),
         \A i \in (0 .. last) \ {gone} : history[i] \notin {NULL, box},
         Staying = {history[i] : i \in (0 .. last) \ {gone}}
  PROVE  UsedFirst' /\ EnteredLast
<1> DEFINE stay == (0 .. last) \ {gone}
           from(i) == IF i < gone THEN i ELSE i + 1
           to(j) == IF j < gone THEN j ELSE j - 1
<1>1. /\ historyMax \in Nat /\ last \in 0 .. historyMax - 1 /\ Cells = 0 .. historyMax - 1
      /\ last \in Nat /\ gone \in Nat /\ gone <= last /\ box # NULL
  BY HistoryEnd DEF Cells, KeptInv, HistoryTypeOK
<1>2. /\ history'[last] = box
      /\ \A i \in Cells : i > last => history'[i] = NULL
      /\ \A i \in 0 .. last - 1 : history'[i] = history[from(i)] /\ from(i) \in stay
      /\ \A j \in stay : to(j) \in 0 .. last - 1 /\ from(to(j)) = j
      /\ \A i, j \in stay : i < j => to(i) < to(j)
      /\ \A i, j \in 0 .. last - 1 : i < j => from(i) < from(j)
      /\ 0 .. last - 1 \subseteq Cells /\ stay \subseteq Cells
  BY <1>1 DEF Entered
<1>3. \A i \in stay : history[i] # NULL /\ history[i] # box
  OBVIOUS
<1>4. \A i \in Cells : i < last \/ i = last \/ i > last
  BY <1>1
<1> HIDE DEF stay, from, to
<1>5. \A i \in Cells : (history'[i] # NULL <=> i <= last) /\ (history'[i] = box <=> i = last)
  <2> SUFFICES ASSUME NEW i \in Cells
               PROVE  (history'[i] # NULL <=> i <= last) /\ (history'[i] = box <=> i = last)
    OBVIOUS
  <2>1. CASE i < last
    <3>1. i \in 0 .. last - 1 /\ ~(i > last) /\ i # last /\ i <= last
      BY <1>1, <2>1
    <3>2. history'[i] # NULL /\ history'[i] # box
      BY <1>2, <1>3, <3>1
    <3> QED
      BY <3>1, <3>2
  <2>2. CASE i >= last
    BY <1>1, <1>2, <2>2
  <2> QED
    BY <1>1, <2>1, <2>2
<1>6. \A i \in Cells : history'[i] = box <=> i = last
  BY <1>5
<1>7. UsedFirst'
  BY <1>1, <1>5 DEF UsedFirst
<1>8. Held' = {history'[i] : i \in Cells} \ {NULL}
  BY DEF Held, Cells
<1>9. Held' = Staying \cup {box}
  <2>1. Staying = {history[i] : i \in stay}
    BY DEF stay
  <2>2. ASSUME NEW v \in Held' PROVE v \in Staying \cup {box}
    <3>1. PICK i \in Cells : v = history'[i] /\ v # NULL
      BY <1>8, <2>2
    <3>2. CASE i = last
      BY <1>2, <3>1, <3>2
    <3>3. CASE i # last
      <4>1. i \in 0 .. last - 1
        BY <1>1, <1>2, <3>1, <3>3
      <4> QED
        BY <1>2, <2>1, <3>1, <4>1
    <3> QED
      BY <3>2, <3>3
  <2>3. ASSUME NEW v \in Staying \cup {box} PROVE v \in Held'
    <3>1. CASE v = box
      BY <1>1, <1>2, <1>8, <3>1
    <3>2. CASE v \in Staying
      <4>1. PICK j \in stay : v = history[j]
        BY <2>1, <3>2
      <4>2. to(j) \in Cells /\ history'[to(j)] = v /\ v # NULL
        BY <1>2, <1>3, <4>1
      <4> QED
        BY <1>8, <4>2
    <3> QED
      BY <2>3, <3>1, <3>2
  <2> QED
    BY <2>2, <2>3
<1>10. EachOnce'
  <2>1. ASSUME NEW i \in Cells, NEW j \in Cells, history'[i] = history'[j], history'[i] # NULL,
               i < j
        PROVE  FALSE
    <3>1. i \in 0 .. last - 1
      BY <1>1, <1>5, <2>1
    <3>2. history'[j] # box
      BY <1>2, <1>3, <2>1, <3>1
    <3>3. j \in 0 .. last - 1
      BY <1>1, <1>2, <1>5, <2>1, <3>2
    <3>4. from(i) \in Cells /\ from(j) \in Cells /\ history[from(i)] = history[from(j)]
          /\ history[from(i)] # NULL /\ from(i) < from(j)
      BY <1>2, <2>1, <3>1, <3>3
    <3>5. from(i) = from(j)
      BY <3>4 DEF KeptInv, EachOnce
    <3> QED
      BY <1>1, <3>4, <3>5
  <2>2. \A i, j \in Cells : i < j \/ i = j \/ j < i
    BY <1>1
  <2> QED
    BY <2>1, <2>2 DEF EachOnce, Cells
<1>11. ASSUME NEW old \in Held', NEW new \in Held'
       PROVE  Before(old, new)' <=> old # box /\ (new = box \/ Before(old, new))
  <2> SUFFICES (\E i, j \in Cells : i < j /\ history'[i] = old /\ history'[j] = new)
                 <=> old # box /\ (new = box \/ Before(old, new))
    BY DEF Before, Cells
  <2>1. PICK k \in Cells : history'[k] = old /\ old # NULL
    BY <1>8, <1>11
  <2>2. PICK m \in Cells : history'[m] = new /\ new # NULL
    BY <1>8, <1>11
  <2>3. k <= last /\ m <= last /\ k \in Int /\ m \in Int
    BY <1>1, <1>5, <2>1, <2>2
  <2>4. \A i \in Cells : (history'[i] = old => i = k) /\ (history'[i] = new => i = m)
    BY <1>10, <2>1, <2>2 DEF EachOnce, Cells
  <2>5. (\E i, j \in Cells : i < j /\ history'[i] = old /\ history'[j] = new) <=> k < m
    BY <2>1, <2>2, <2>4
  <2>6. CASE k = last
    BY <1>1, <1>2, <2>1, <2>3, <2>5, <2>6
  <2>7. CASE k # last /\ m = last
    BY <1>1, <1>2, <1>6, <2>1, <2>2, <2>3, <2>5, <2>7
  <2>8. CASE k # last /\ m # last
    <3>1. k \in 0 .. last - 1 /\ m \in 0 .. last - 1 /\ old # box /\ new # box
      BY <1>1, <1>6, <2>1, <2>2, <2>3, <2>8
    <3>2. /\ from(k) \in Cells /\ from(m) \in Cells /\ history[from(k)] = old /\ history[from(m)] = new
          /\ from(k) \in Int /\ from(m) \in Int
      <4>1. from(k) \in Cells /\ history[from(k)] = old
        BY <1>2, <2>1, <3>1
      <4>2. from(m) \in Cells /\ history[from(m)] = new
        BY <1>2, <2>2, <3>1
      <4> QED
        BY <1>1, <4>1, <4>2
    <3>3. \A i \in Cells : (history[i] = old => i = from(k)) /\ (history[i] = new => i = from(m))
      BY <2>1, <2>2, <3>2 DEF KeptInv, EachOnce
    <3>4. Before(old, new) <=> from(k) < from(m)
      BY <3>2, <3>3 DEF Before
    <3>5. from(k) < from(m) <=> k < m
      <4>1. k < m \/ k = m \/ m < k
        BY <2>3
      <4> QED
        BY <1>2, <2>3, <3>1, <3>2, <4>1
    <3> QED
      BY <2>5, <3>1, <3>4, <3>5
  <2> QED
    BY <2>6, <2>7, <2>8
<1> QED
  BY <1>7, <1>9, <1>10, <1>11 DEF EnteredLast

\* The command is in the cell c, behind which it is moved to the end.
LEMMA MovesToEnd ==
  ASSUME KeptInv, NEW c \in Cells, history[c] = box, Send
  PROVE  \E last \in Cells : c <= last /\ Entered(c, last)
                             /\ \A i \in Cells : history[i] # NULL <=> i <= last
<1>1. /\ historyMax \in Nat /\ Cells = 0 .. historyMax - 1 /\ c \in 0 .. historyMax - 1
      /\ c \in 0 .. historyMax /\ box # NULL
  BY HistoryEnd DEF Cells, KeptInv, HistoryTypeOK
<1>2. \A j \in Cells : Stops(j) /\ j < c => FALSE
  BY <1>1 DEF Stops, KeptInv, UsedFirst, EachOnce
<1>3. StopsAt(c)
  BY <1>1, <1>2 DEF StopsAt, Stops
<1>4. \A j \in 0 .. historyMax : StopsAt(j) => j = c
  <2>1. ASSUME NEW j \in 0 .. historyMax, StopsAt(j), j # c PROVE FALSE
    <3>1. j < c => j \in Cells
      BY <1>1
    <3>2. c < j => c \in 0 .. j - 1
      BY <1>1
    <3>3. Stops(j) /\ Stops(c)
      BY <1>3, <2>1 DEF StopsAt
    <3>4. j < c \/ c < j
      BY <1>1, <2>1
    <3> QED
      BY <1>2, <2>1, <3>1, <3>2, <3>3, <3>4 DEF StopsAt
  <2> QED
    BY <2>1
<1>5. history' = MovedToEnd(c)
  <2>1. (CHOOSE i \in 0 .. historyMax : StopsAt(i)) = c
    BY <1>1, <1>3, <1>4
  <2> QED
    BY <1>1, <1>3, <2>1 DEF Send, AddHistory
<1>6. PICK n \in 0 .. historyMax : \A i \in Cells : history[i] # NULL <=> i < n
  BY UsedCells
<1> DEFINE last == n - 1
<1>7. last \in Cells /\ c <= last /\ \A i \in Cells : history[i] # NULL <=> i <= last
  BY <1>1, <1>6
<1>8. {i \in Cells : i >= c /\ history[i] # NULL
                     /\ (i = historyMax - 1 \/ history[i + 1] = NULL)} = {last}
  <2>1. last >= c /\ history[last] # NULL
    BY <1>1, <1>7
  <2>2. last = historyMax - 1 \/ history[last + 1] = NULL
    <3>1. last # historyMax - 1 => last + 1 \in Cells /\ ~(last + 1 <= last)
      BY <1>1, <1>7
    <3> QED
      BY <1>7, <3>1
  <2>3. ASSUME NEW i \in Cells, history[i] # NULL, i = historyMax - 1 \/ history[i + 1] = NULL
        PROVE  i = last
    <3>1. i <= last
      BY <1>7, <2>3
    <3>2. i < last => i + 1 \in Cells /\ i + 1 <= last /\ i # historyMax - 1
      BY <1>1, <1>7
    <3>3. ~(i < last)
      BY <1>7, <2>3, <3>2
    <3> QED
      BY <1>1, <1>7, <3>1, <3>3
  <2> QED
    BY <1>7, <2>1, <2>2, <2>3
<1>9. history' = [i \in 0 .. historyMax |->
                   IF i \in c .. last - 1 THEN history[i + 1]
                   ELSE IF i = last THEN history[c] ELSE history[i]]
  <2> HIDE DEF last
  <2> QED
    BY <1>5, <1>8 DEF MovedToEnd
<1>10. Entered(c, last)
  <2> SUFFICES ASSUME NEW i \in Cells
               PROVE  history'[i] = IF i = last THEN box
                                    ELSE IF i < c THEN history[i]
                                    ELSE IF i < last THEN history[i + 1] ELSE NULL
    BY DEF Entered
  <2>1. i \in 0 .. historyMax /\ i \in Int /\ c \in Int /\ last \in Int
    BY <1>1, <1>7
  <2>2. i > last => history[i] = NULL
    BY <1>7, <2>1
  <2> HIDE DEF last
  <2>3. history'[i] = IF i \in c .. last - 1 THEN history[i + 1]
                      ELSE IF i = last THEN history[c] ELSE history[i]
    BY <1>9, <2>1
  <2> QED
    BY <1>7, <2>1, <2>2, <2>3
<1> QED
  BY <1>7, <1>10

\* AddHistory enters the box, or takes historyTemp for a cell.
LEMMA SendKeeps ==
  ASSUME KeptInv, Send
  PROVE  /\ UsedFirst' /\ EachOnce'
         /\ \/ EnteredLast
            \/ TakesTemp /\ \A i \in Cells : history'[i] = history[i]
<1>1. /\ historyMax \in Nat /\ historyMax >= 1 /\ Cells = 0 .. historyMax - 1 /\ box # NULL
      /\ history \in [0 .. historyMax -> Texts \cup {NULL}] /\ EachOnce /\ UsedFirst
  BY HistoryEnd DEF Cells, KeptInv, HistoryTypeOK
<1>2. PICK n \in 0 .. historyMax : \A i \in Cells : history[i] # NULL <=> i < n
  BY UsedCells
<1>3. Held = {history[i] : i \in {j \in Cells : j < n}}
  BY <1>2 DEF Held
<1>4. ASSUME NEW c \in Cells, history[c] = box PROVE UsedFirst' /\ EnteredLast
  <2>1. PICK last \in Cells : c <= last /\ Entered(c, last)
                             /\ \A i \in Cells : history[i] # NULL <=> i <= last
    BY <1>4, MovesToEnd
  <2>2. c \in 0 .. last /\ \A i \in 0 .. last : i \in Cells
    BY <1>1, <2>1
  <2>3. \A i \in (0 .. last) \ {c} : history[i] \notin {NULL, box}
    BY <1>1, <1>4, <2>1, <2>2 DEF EachOnce
  <2>4. Staying = {history[i] : i \in (0 .. last) \ {c}}
    <3>1. Staying = Held \ {box}
      BY <1>4 DEF Staying, Stops
    <3>2. \A i \in Cells : history[i] # NULL => i \in 0 .. last
      BY <1>1, <2>1
    <3> QED
      BY <1>4, <2>2, <2>3, <3>1, <3>2 DEF Held
  <2> QED
    BY <2>1, <2>2, <2>3, <2>4, EnteredIsLast
<1>5. ASSUME \A c \in Cells : history[c] # box, n < historyMax PROVE UsedFirst' /\ EnteredLast
  <2>1. n \in Cells /\ history[n] = NULL /\ n \in 0 .. n /\ n \in 0 .. historyMax
        /\ \A i \in (0 .. n) \ {n} : i \in Cells /\ i < n
    BY <1>1, <1>2, <1>5
  <2>2. \A j \in 0 .. historyMax : StopsAt(j) <=> j = n
    <3>1. \A j \in Cells : Stops(j) <=> j >= n
      BY <1>1, <1>2, <1>5 DEF Stops
    <3>2. ASSUME NEW j \in 0 .. historyMax, StopsAt(j) PROVE j = n
      <4>1. n < j => n \in 0 .. j - 1
        BY <2>1
      <4>2. j < n => j \in Cells
        BY <1>1
      <4>3. ~(n < j) /\ ~(j < n)
        BY <2>1, <3>1, <3>2, <4>1, <4>2 DEF StopsAt
      <4> QED
        BY <1>1, <4>3
    <3>3. StopsAt(n)
      <4>1. \A j \in 0 .. n - 1 : j \in Cells /\ ~(j >= n)
        BY <1>1
      <4> QED
        BY <1>1, <2>1, <3>1, <4>1 DEF StopsAt
    <3> QED
      BY <3>2, <3>3
  <2>3. history' = [history EXCEPT ![n] = box]
    <3>1. (CHOOSE i \in 0 .. historyMax : StopsAt(i)) = n /\ \E i \in 0 .. historyMax : StopsAt(i)
      BY <2>1, <2>2
    <3> QED
      BY <2>1, <3>1 DEF Send, AddHistory
  <2>4. Entered(n, n)
    BY <1>1, <1>2, <2>1, <2>3 DEF Entered
  <2>5. \A i \in (0 .. n) \ {n} : history[i] \notin {NULL, box}
    BY <1>2, <1>5, <2>1
  <2>6. Staying = {history[i] : i \in (0 .. n) \ {n}}
    <3>1. Staying = Held
      <4>1. Staying = Held \ {box}
        BY <2>1 DEF Staying, Stops
      <4> QED
        BY <1>5, <4>1 DEF Held
    <3>2. (0 .. n) \ {n} = {j \in Cells : j < n}
      BY <1>1
    <3> QED
      BY <1>3, <3>1, <3>2
  <2> QED
    BY <2>1, <2>4, <2>5, <2>6, EnteredIsLast
<1>6. ASSUME \A c \in Cells : history[c] # box, n = historyMax
      PROVE  /\ UsedFirst' /\ EachOnce'
             /\ \/ EnteredLast
                \/ TakesTemp /\ \A i \in Cells : history'[i] = history[i]
  <2>1. \A i \in Cells : history[i] # NULL /\ ~Stops(i)
    BY <1>1, <1>2, <1>6 DEF Stops
  <2>2. \A j \in 0 .. historyMax : StopsAt(j) <=> j = historyMax /\ Stops(historyMax)
    <3>1. \A j \in 0 .. historyMax : j = historyMax \/ j \in Cells
      BY <1>1
    <3> QED
      BY <1>1, <2>1, <3>1 DEF StopsAt
  <2>3. CASE Stops(historyMax)
    <3>1. (CHOOSE i \in 0 .. historyMax : StopsAt(i)) = historyMax
          /\ \E i \in 0 .. historyMax : StopsAt(i)
      BY <1>1, <2>2, <2>3
    <3>2. history' = IF historyTemp = NULL THEN [history EXCEPT ![historyMax] = box]
                     ELSE MovedToEnd(historyMax)
      BY <3>1 DEF Send, AddHistory, historyTemp
    <3>3. {i \in Cells : i >= historyMax /\ history[i] # NULL
                         /\ (i = historyMax - 1 \/ history[i + 1] = NULL)} = {}
      BY <1>1
    <3>4. MovedToEnd(historyMax) = history
      BY <1>1, <3>3 DEF MovedToEnd
    <3>5. \A i \in Cells : history'[i] = history[i]
      BY <1>1, <3>2, <3>4
    <3>6. TakesTemp
      BY <2>1, <2>3 DEF TakesTemp, Stops, historyTemp
    <3>7. UsedFirst' /\ EachOnce'
      BY <1>1, <3>5 DEF UsedFirst, EachOnce, Cells
    <3> QED
      BY <3>5, <3>6, <3>7
  <2>4. CASE ~Stops(historyMax)
    <3> DEFINE last == historyMax - 1
    <3>1. last \in Cells /\ 0 \in 0 .. last /\ 0 \in Cells
          /\ \A i \in (0 .. last) \ {0} : i \in Cells
      BY <1>1
    <3>2. history' = ShiftedIn
      BY <2>2, <2>4 DEF Send, AddHistory
    <3>3. Entered(0, last)
      BY <1>1, <3>2 DEF Entered, ShiftedIn
    <3>4. \A i \in (0 .. last) \ {0} : history[i] \notin {NULL, box}
      BY <1>6, <2>1, <3>1
    <3>5. Staying = {history[i] : i \in (0 .. last) \ {0}}
      <4>1. Staying = Held \ {history[0]}
        BY <2>1 DEF Staying
      <4>2. \A i \in Cells : history[i] = history[0] => i = 0
        BY <1>1, <2>1, <3>1 DEF EachOnce
      <4> QED
        BY <1>1, <2>1, <4>1, <4>2 DEF Held
    <3>6. UsedFirst' /\ EnteredLast
      BY <3>1, <3>3, <3>4, <3>5, EnteredIsLast
    <3> QED
      BY <3>6 DEF EnteredLast
  <2> QED
    BY <2>3, <2>4
<1> QED
  <2>1. n < historyMax \/ n = historyMax
    BY <1>1
  <2> QED
    BY <1>4, <1>5, <1>6, <2>1 DEF EnteredLast

LEMMA StepKeepsHistory ==
  ASSUME KeptInv, [HistoryNext]_historyVars, HistoryTypeOK'
  PROVE  KeptInv'
<1>1. CASE Send
  BY <1>1, SendKeeps DEF KeptInv
<1>2. CASE ~Send
  <2>1. \A i \in Cells : history'[i] = history[i]
    <3>1. CASE KeyUpFirst
      BY <3>1, HistoryEnd DEF KeyUpFirst, KeptInv, HistoryTypeOK, Cells
    <3>2. CASE ~KeyUpFirst
      BY <1>2, <3>2 DEF HistoryNext, Type, KeyUpAgain, KeyDown, historyVars
    <3> QED
      BY <3>1, <3>2
  <2> QED
    BY <2>1 DEF KeptInv, UsedFirst, EachOnce, Cells
<1> QED
  BY <1>1, <1>2

(***************************************************************************)
(* For a history of any size: what the user sends becomes the last of the  *)
(* commands the history holds, each of them once and the others as they    *)
(* stood, and only a full history loses one, the oldest; unless AddHistory *)
(* (MHPTunnelMain.CPP 566-602) takes historyTemp for a cell.               *)
(***************************************************************************)
THEOREM CommandsAreKept == HistorySpec => KeptUnlessTemp
<1>1. HistoryInit => BoxInv /\ KeptInv
  BY InitBox, HistoryEnd DEF HistoryInit, BoxInv, KeptInv, UsedFirst, EachOnce, Cells
<1>2. BoxInv /\ KeptInv /\ [HistoryNext]_historyVars => BoxInv' /\ KeptInv'
  BY StepKeepsBox, StepKeepsHistory DEF BoxInv
<1>3. KeptInv => [Send =>
        \/ EnteredLast
        \/ TakesTemp /\ \A i \in Cells : history'[i] = history[i]]_historyVars
  BY SendKeeps
<1> QED
  BY <1>1, <1>2, <1>3, PTL DEF HistorySpec, KeptUnlessTemp
-----------------------------------------------------------------------------
(***************************************************************************)
(* The lists of the window.  For each identity /u names, /userinfo finds   *)
(* the entry of the one who is logged in.                                  *)
(***************************************************************************)
RealIds == \A c \in Active : users[c].id \in Users

Infos == [id \in Users |-> UserInfo(id)]

LEMMA InfoOfActive ==
  ASSUME TypeOK, FirstIsActive, NEW c \in Active
  PROVE  UserInfo(users[c].id) = users[c]
<1> DEFINE id == users[c].id
           First(e) == users[e].id = id /\ \A d \in Slots : users[d].id = id => e <= d
           first == CHOOSE e \in Slots : First(e)
<1>1. c \in Slots /\ Slots \subseteq Int
  BY UserListAssumption DEF Active, Slots
<1>2. \A d \in Slots : d < c => users[d].id # id
  BY DEF FirstIsActive
<1>3. First(c)
  BY <1>1, <1>2
<1>4. first \in Slots /\ First(first)
  BY <1>1, <1>3
<1>5. UserInfo(id) = users[first]
  BY DEF UserInfo
<1> HIDE DEF first, id
<1>6. first <= c /\ c <= first /\ first \in Int /\ c \in Int
  BY <1>1, <1>3, <1>4
<1>7. first = c
  BY <1>6
<1> QED
  BY <1>5, <1>7 DEF id

LEMMA ActiveInfo ==
  ASSUME TypeOK, FirstIsActive, RealIds
  PROVE  /\ ActiveIds \subseteq Users
         /\ \A id \in ActiveIds : /\ UserInfo(id) \in LoggedIn /\ UserInfo(id) \in Entries
                                 /\ UserInfo(id).psps \in Nat
         /\ CurrentPSPs \subseteq PSPs
<1>1. ActiveIds \subseteq Users
  BY DEF ActiveIds, RealIds
<1>2. ASSUME NEW id \in ActiveIds
      PROVE  /\ UserInfo(id) \in LoggedIn /\ UserInfo(id) \in Entries /\ UserInfo(id).psps \in Nat
  <2>1. PICK c \in Active : id = users[c].id
    BY DEF ActiveIds
  <2>2. UserInfo(id) = users[c] /\ users[c] \in Entries /\ users[c] \in LoggedIn
    BY <2>1, InfoOfActive DEF Active, LoggedIn, TypeOK
  <2> QED
    BY <2>2 DEF Entries
<1>3. CurrentPSPs \subseteq PSPs
  BY <1>1 DEF CurrentPSPs, PSPs
<1> QED
  BY <1>1, <1>2, <1>3

LEMMA RealIdsStep ==
  ASSUME TableInv, RealIds, [Next]_listVars
  PROVE  RealIds'
<1> USE DEF TableInv
<1>1. ASSUME NEW list \in Lists, ReceiveList(list) PROVE RealIds'
  BY <1>1 DEF ReceiveList, table, RealIds, Active
<1>2. ASSUME NextEntry PROVE ui[next].id \in Users
  BY <1>2, NextItem DEF Item
<1>3. CASE UpdateUser
  <2>1. PICK c \in Slots : users' = [users EXCEPT ![c] = ui[next]] /\ user_active' = user_active
    BY <1>3 DEF UpdateUser
  <2> QED
    BY <1>2, <1>3, <2>1 DEF UpdateUser, TypeOK, RealIds, Active
<1>4. CASE LogIn
  <2>1. PICK c \in Slots : /\ users' = [users EXCEPT ![c] = ui[next]]
                          /\ user_active' = [user_active EXCEPT ![c] = TRUE]
    BY <1>4 DEF LogIn
  <2>2. \A d \in Slots : d # c => users'[d] = users[d] /\ user_active'[d] = user_active[d]
    BY <2>1 DEF TypeOK
  <2>3. users'[c].id \in Users
    BY <1>2, <1>4, <2>1 DEF LogIn, TypeOK
  <2> QED
    BY <2>2, <2>3 DEF RealIds, Active
<1>5. CASE NoRoom \/ UNCHANGED listVars
  BY <1>5 DEF NoRoom, listVars, table, RealIds, Active
<1>6. CASE LogOutRest
  <2>1. \A c \in Slots : user_active'[c] => user_active[c]
    BY <1>6 DEF LogOutRest
  <2> QED
    BY <1>6, <2>1 DEF LogOutRest, RealIds, Active
<1> QED
  BY <1>1, <1>3, <1>4, <1>5, <1>6 DEF Next, HandleList

\* The window does not touch the table, and what it shows is of the table.
LEMMA TableOfView ==
  ASSUME [ViewNext]_viewVars
  PROVE  [Next]_listVars
BY DEF ViewNext, Connect, ListArrives, EventThread, Handle, ListHandled, TestStatus, CopyIds, FindRow,
   FillRow, RowHasGone, CleanUp, Close, Reconnected, UpdateAtOnce, viewVars, Next

LEMMA TableStays ==
  ASSUME UNCHANGED table
  PROVE  ActiveIds' = ActiveIds /\ CurrentPSPs' = CurrentPSPs /\ Infos' = Infos
BY DEF table, ActiveIds, CurrentPSPs, Infos, Active, UserInfo

\* The copy of the identities names everybody who is logged in.
LEMMA CopyNamesAll ==
  ASSUME TypeOK, RealIds, NEW active \in [1 .. Cardinality(Active) -> Active],
         \A j, k \in DOMAIN active : j < k => active[j] < active[k],
         NEW ids, ids = [k \in DOMAIN active |-> users[active[k]].id]
  PROVE  ids \in Seq(Users) /\ {ids[k] : k \in DOMAIN ids} = ActiveIds
<1> DEFINE n == Cardinality(Active)
<1>1. IsFiniteSet(Active) /\ n \in Nat
  <2>1. IsFiniteSet(Slots)
    BY FS_Interval, UserListAssumption DEF Slots
  <2>2. Active \in SUBSET Slots
    BY DEF Active
  <2> QED
    BY <2>1, <2>2, FS_Subset, FS_CardinalityType
<1>2. IsFiniteSet(1 .. n) /\ Cardinality(1 .. n) = n
  BY <1>1, FS_Interval
<1>3. Active \subseteq Int
  BY UserListAssumption DEF Active, Slots
<1>4. active \in Injection(1 .. n, Active)
  <2>1. ASSUME NEW j \in 1 .. n, NEW k \in 1 .. n, active[j] = active[k] PROVE j = k
    <3>1. active[j] \in Int /\ active[k] \in Int
      BY <1>3
    <3>2. ~(j < k) /\ ~(k < j)
      BY <2>1, <3>1
    <3> QED
      BY <1>1, <3>2
  <2> QED
    BY <2>1, Fun_IsInj
<1>5. active \in Surjection(1 .. n, Active)
  BY <1>1, <1>2, <1>4, FS_Injection
<1>6. \A c \in Active : \E k \in 1 .. n : active[k] = c
  BY <1>5 DEF Surjection
<1>7. DOMAIN ids = 1 .. n /\ \A k \in 1 .. n : ids[k] = users[active[k]].id
  OBVIOUS
<1>8. ids \in Seq(Users)
  <2>1. ids \in [1 .. n -> Users]
    BY DEF RealIds
  <2> QED
    BY <1>1, <2>1
<1>9. {ids[k] : k \in DOMAIN ids} = ActiveIds
  BY <1>6, <1>7 DEF ActiveIds
<1> QED
  BY <1>8, <1>9
-----------------------------------------------------------------------------
(***************************************************************************)
(* A refresh.  Nobody handles a list meanwhile.  Unless the connection was *)
(* found closed, the identities that were copied are those in the table,   *)
(* and up to the row it is at the window shows what the table holds; a row *)
(* disappears under it only when the connection was found closed.          *)
(***************************************************************************)
Copied == {userId[k] : k \in DOMAIN userId}

Filled(k) ==
  /\ userId[k] \in DOMAIN rows /\ rows[userId[k]] = Infos[userId[k]]
  /\ {r \in CurrentPSPs : r[1] = userId[k]} \subseteq pspRows \cap userPSP

Refreshing == step \in {"user", "fill"}

Shows ==
  /\ DOMAIN rows = ActiveIds
  /\ \A id \in ActiveIds : rows[id] = Infos[id]
  /\ CurrentPSPs \subseteq pspRows

Sequential == step # "idle" => ~handling

CopyInv == Refreshing => Copied \subseteq ActiveIds /\ (~cleared => Copied = ActiveIds)

FillInv == Refreshing /\ ~cleared => \A k \in 1 .. row - 1 : Filled(k)

RowInv ==
  /\ step = "fill" => row <= Len(userId) /\ (~cleared => Id \in DOMAIN rows)
  /\ step = "crashed" => cleared

ShownInv == step = "idle" /\ ~handling /\ ui # <<>> /\ ~cleared => Shows

ViewInv ==
  /\ ViewTypeOK /\ FirstIsActive /\ RealIds
  /\ Sequential /\ CopyInv /\ FillInv /\ RowInv /\ ShownInv

LEMMA InitView == ViewInit => ViewInv
<1> SUFFICES ASSUME ViewInit PROVE ViewInv
  OBVIOUS
<1>1. TypeOK /\ FirstIsActive /\ ui = <<>>
  BY InitTable DEF ViewInit, TableInv, Init
<1>2. RealIds
  BY DEF ViewInit, Init, RealIds, Active
<1>3. DOMAIN rows = {} /\ userId = <<>> /\ userId \in Seq(Users)
  BY DEF ViewInit, NoRows
<1>4. ViewTypeOK
  <2>1. row \in 1 .. Len(userId) + 1
    BY <1>3 DEF ViewInit
  <2>2. pspRows = {} /\ userPSP = {} /\ step = "idle" /\ cleared = FALSE
        /\ clientStatus = 0 /\ changes = 0 /\ disconnects = 0 /\ closing = FALSE
    BY DEF ViewInit
  <2>3. changes \in 0 .. MaxChanges /\ disconnects \in 0 .. MaxDisconnects
    BY <2>2, UserViewAssumption
  <2> QED
    BY <1>1, <1>3, <2>1, <2>2, <2>3 DEF ViewTypeOK
<1> QED
  BY <1>1, <1>2, <1>4 DEF ViewInit, ViewInv, Sequential, CopyInv, FillInv, RowInv, ShownInv, Refreshing

\* While a refresh runs the table stays.
LEMMA RefreshLeavesTable ==
  ASSUME ViewInv, [ViewNext]_viewVars, ~(handling /\ step = "idle"), step' # "idle" \/ step # "idle"
  PROVE  UNCHANGED table
<1>1. ~handling
  BY DEF ViewInv, Sequential
<1>2. ~Handle /\ ~ListHandled
  BY <1>1 DEF Handle, HandleList, UpdateUser, LogIn, NoRoom, NextEntry, ListHandled, LogOutRest
<1>3. ASSUME NEW list \in Lists, ListArrives(list) PROVE UNCHANGED table
  BY <1>3 DEF ListArrives, ReceiveList
<1> QED
  BY <1>2, <1>3 DEF ViewNext, Connect, EventThread, TestStatus, CopyIds, FindRow,
     FillRow, RowHasGone, CleanUp, Close, Reconnected, UpdateAtOnce, viewVars, listVars

LEMMA IdIsActive ==
  ASSUME ViewInv, Refreshing, row <= Len(userId)
  PROVE  /\ row \in DOMAIN userId /\ row \in 1 .. Len(userId) /\ row + 1 \in 1 .. Len(userId) + 1
         /\ Id \in Copied /\ Id \in ActiveIds /\ Id \in Users
         /\ UserInfo(Id) = Infos[Id] /\ UserInfo(Id) \in Entries /\ UserInfo(Id).psps \in Nat
<1>1. userId \in Seq(Users) /\ row \in 1 .. Len(userId) + 1
  BY DEF ViewInv, ViewTypeOK
<1>2. row \in DOMAIN userId /\ row \in 1 .. Len(userId) /\ row + 1 \in 1 .. Len(userId) + 1
  BY <1>1
<1>3. Id \in Copied /\ Id \in ActiveIds
  BY <1>2 DEF Id, Copied, ViewInv, CopyInv
<1> QED
  BY <1>2, <1>3, ActiveInfo DEF ViewInv, ViewTypeOK, Infos

(***************************************************************************)
(* Types.                                                                  *)
(***************************************************************************)
LEMMA StepKeepsViewType ==
  ASSUME ViewInv, [ViewNext]_viewVars
  PROVE  ViewTypeOK' /\ FirstIsActive' /\ RealIds'
<1>0. /\ ViewTypeOK /\ FirstIsActive /\ RealIds /\ CopyInv /\ RowInv
  BY DEF ViewInv
<1>a. /\ TypeOK /\ clientStatus \in {0, 2} /\ changes \in 0 .. MaxChanges
      /\ disconnects \in 0 .. MaxDisconnects /\ closing \in BOOLEAN
      /\ DOMAIN rows \subseteq Users /\ \A id \in DOMAIN rows : rows[id] \in Entries
      /\ pspRows \subseteq PSPs
      /\ step \in {"idle", "status", "copy", "user", "fill", "crashed"}
      /\ userId \in Seq(Users) /\ row \in 1 .. Len(userId) + 1 /\ userPSP \subseteq PSPs
      /\ cleared \in BOOLEAN
  BY <1>0 DEF ViewTypeOK
<1>b. TypeOK' /\ FirstIsActive' /\ RealIds'
  BY <1>0, <1>a, TableOfView, StepKeepsTable, RealIdsStep DEF TableInv
<1> SUFFICES ViewTypeOK'
  BY <1>b
<1> USE DEF lists, refresh, arena
<1>1. CASE Connect \/ Close \/ Reconnected
  <2>1. clientStatus' \in {0, 2} /\ changes' = changes /\ closing' \in BOOLEAN
    BY <1>1, <1>a DEF Connect, Close, Reconnected
  <2>3. disconnects' = disconnects \/ (disconnects' = disconnects + 1 /\ disconnects < MaxDisconnects)
    BY <1>1 DEF Connect, Close, Reconnected
  <2>4. disconnects' \in 0 .. MaxDisconnects
    BY <1>a, <2>3, UserViewAssumption
  <2>2. UNCHANGED <<rows, pspRows, step, userId, row, userPSP, cleared>>
    BY <1>1 DEF Connect, Close, Reconnected
  <2> QED
    BY <1>a, <1>b, <2>1, <2>2, <2>4 DEF ViewTypeOK
<1>2. ASSUME NEW list \in Lists, ListArrives(list) PROVE ViewTypeOK'
  <2>1. changes' \in 0 .. MaxChanges
    BY <1>2, <1>a, UserViewAssumption DEF ListArrives
  <2>2. UNCHANGED <<clientStatus, disconnects, closing, rows, pspRows, step, userId, row, userPSP,
                    cleared>>
    BY <1>2 DEF ListArrives
  <2> QED
    BY <1>a, <1>b, <2>1, <2>2 DEF ViewTypeOK
<1>3. CASE Handle
  BY <1>3, <1>a, <1>b DEF Handle, ViewTypeOK
<1>4. CASE ListHandled
  BY <1>4, <1>a, <1>b DEF ListHandled, ViewTypeOK
<1>5. CASE TestStatus
  <2>1. DOMAIN NoRows = {}
    BY DEF NoRows
  <2> QED
    BY <1>5, <1>a, <1>b, <2>1 DEF TestStatus, ViewTypeOK
<1>6. CASE CopyIds
  <2>1. userId' \in Seq(Users) /\ cleared' \in BOOLEAN
    <3>1. CASE clientStatus > 1
      BY <1>6, <3>1, <1>0, <1>a, CopyNamesAll DEF CopyIds
    <3>2. CASE ~(clientStatus > 1)
      BY <1>6, <3>2 DEF CopyIds
    <3> QED
      BY <3>1, <3>2
  <2>2. row' = 1 /\ row' \in 1 .. Len(userId') + 1
    BY <1>6, <2>1 DEF CopyIds
  <2> QED
    BY <1>6, <1>a, <1>b, <2>1, <2>2 DEF CopyIds, ViewTypeOK
<1>7. CASE FindRow
  <2>1. Id \in Users /\ UserInfo(Id) \in Entries
    BY <1>7, IdIsActive DEF FindRow, Refreshing
  <2>2. DOMAIN rows' \subseteq Users /\ \A id \in DOMAIN rows' : rows'[id] \in Entries
    BY <1>7, <1>a, <2>1 DEF FindRow
  <2> QED
    BY <1>7, <1>a, <1>b, <2>2 DEF FindRow, ViewTypeOK
<1>8. CASE FillRow
  <2>1. /\ Id \in Users /\ UserInfo(Id) \in Entries /\ row + 1 \in 1 .. Len(userId) + 1
        /\ UserInfo(Id).psps \in Nat
    BY <1>8, <1>0, IdIsActive DEF FillRow, Refreshing, RowInv
  <2>2. rows' = [rows EXCEPT ![Id] = UserInfo(Id)] /\ Id \in DOMAIN rows
    BY <1>8 DEF FillRow
  <2>3. DOMAIN rows' \subseteq Users /\ \A id \in DOMAIN rows' : rows'[id] \in Entries
    BY <1>a, <2>1, <2>2
  <2>4. {<<Id, p>> : p \in 0 .. UserInfo(Id).psps - 1} \subseteq PSPs
    BY <2>1 DEF PSPs
  <2>5. pspRows' \subseteq PSPs /\ userPSP' \subseteq PSPs
    BY <1>8, <1>a, <2>4 DEF FillRow
  <2>6. row' \in 1 .. Len(userId') + 1 /\ step' = "user"
        /\ UNCHANGED <<userId, cleared, clientStatus, changes, disconnects, closing>>
    BY <1>8, <2>1 DEF FillRow
  <2> QED
    BY <1>a, <1>b, <2>3, <2>5, <2>6 DEF ViewTypeOK
<1>9. CASE RowHasGone
  BY <1>9, <1>a, <1>b DEF RowHasGone, ViewTypeOK
<1>10. CASE CleanUp
  <2>1. DOMAIN rows' \subseteq DOMAIN rows /\ \A id \in DOMAIN rows' : rows'[id] = rows[id]
    BY <1>10 DEF CleanUp
  <2>2. pspRows' \subseteq pspRows
    BY <1>10 DEF CleanUp, DropOneOf
  <2> QED
    BY <1>10, <1>a, <1>b, <2>1, <2>2 DEF CleanUp, ViewTypeOK
<1>11. CASE UpdateAtOnce
  <2>1. DOMAIN rows' \subseteq Users /\ \A id \in DOMAIN rows' : rows'[id] \in Entries
    BY <1>11, <1>0, <1>a, ActiveInfo DEF UpdateAtOnce, NoRows
  <2>2. pspRows' \subseteq PSPs /\ cleared' \in BOOLEAN
    BY <1>11, <1>0, <1>a, ActiveInfo DEF UpdateAtOnce
  <2> QED
    BY <1>11, <1>a, <1>b, <2>1, <2>2 DEF UpdateAtOnce, ViewTypeOK
<1>12. CASE UNCHANGED viewVars
  BY <1>12, <1>a, <1>b DEF viewVars, ViewTypeOK
<1> QED
  BY <1>1, <1>2, <1>3, <1>4, <1>5, <1>6, <1>7, <1>8, <1>9, <1>10, <1>11, <1>12
     DEF ViewNext, EventThread
-----------------------------------------------------------------------------
(***************************************************************************)
(* What the steps of a refresh do to the lists.                            *)
(***************************************************************************)
LEMMA CopyingCopies ==
  ASSUME ViewInv, CopyIds
  PROVE  CopyInv' /\ FillInv' /\ RowInv'
<1>1. /\ ViewTypeOK /\ RealIds /\ step = "copy" /\ TypeOK /\ clientStatus \in {0, 2}
  BY DEF ViewInv, ViewTypeOK, CopyIds
<1>2. ActiveIds' = ActiveIds
  BY TableStays DEF CopyIds, listVars
<1>3. Copied' \subseteq ActiveIds /\ (~cleared' => Copied' = ActiveIds)
  <2>1. CASE clientStatus > 1
    BY <1>1, <2>1, CopyNamesAll DEF CopyIds, Copied
  <2>2. CASE ~(clientStatus > 1)
    BY <2>2 DEF CopyIds, Copied
  <2> QED
    BY <2>1, <2>2
<1>4. step' = "user" /\ row' = 1
  BY DEF CopyIds
<1>5. \A k \in 1 .. row' - 1 : FALSE
  BY <1>4
<1> QED
  BY <1>2, <1>3, <1>4, <1>5 DEF CopyInv, FillInv, RowInv

LEMMA FindingKeeps ==
  ASSUME ViewInv, FindRow
  PROVE  FillInv' /\ RowInv'
<1>1. /\ ViewTypeOK /\ step = "user" /\ Refreshing /\ row <= Len(userId) /\ FillInv
      /\ step' = "fill" /\ UNCHANGED <<pspRows, userId, row, userPSP, cleared>>
  BY DEF ViewInv, FindRow, Refreshing
<1>2. Infos' = Infos /\ CurrentPSPs' = CurrentPSPs
  BY TableStays DEF FindRow, listVars
<1>3. /\ DOMAIN rows' = DOMAIN rows \cup {Id}
      /\ \A id \in DOMAIN rows : rows'[id] = rows[id]
  BY DEF FindRow
<1>4. FillInv'
  <2>1. ASSUME ~cleared, NEW k \in 1 .. row - 1 PROVE Filled(k)'
    <3>1. Filled(k)
      BY <1>1, <2>1 DEF FillInv
    <3> QED
      BY <1>1, <1>2, <1>3, <3>1 DEF Filled
  <2> QED
    BY <1>1, <2>1 DEF FillInv
<1>5. RowInv'
  BY <1>1, <1>3 DEF RowInv, Id
<1> QED
  BY <1>4, <1>5

LEMMA FillingFills ==
  ASSUME ViewInv, FillRow
  PROVE  FillInv' /\ RowInv'
<1>1. /\ ViewTypeOK /\ step = "fill" /\ Refreshing /\ row <= Len(userId) /\ FillInv
      /\ step' = "user" /\ row' = row + 1 /\ UNCHANGED <<userId, cleared>>
  BY DEF ViewInv, FillRow, Refreshing, RowInv
<1>2. Infos' = Infos /\ CurrentPSPs' = CurrentPSPs
  BY TableStays DEF FillRow, listVars
<1>3. /\ UserInfo(Id) = Infos[Id] /\ UserInfo(Id).psps \in Nat /\ row \in 1 .. Len(userId)
  BY <1>1, IdIsActive
<1> DEFINE current == {<<Id, p>> : p \in 0 .. UserInfo(Id).psps - 1}
<1>4. /\ rows' = [rows EXCEPT ![Id] = Infos[Id]] /\ Id \in DOMAIN rows
      /\ pspRows' = pspRows \cup current /\ userPSP' = userPSP \cup current
  BY <1>3 DEF FillRow
<1>5. /\ DOMAIN rows' = DOMAIN rows /\ rows'[Id] = Infos[Id]
      /\ \A id \in DOMAIN rows : id # Id => rows'[id] = rows[id]
  BY <1>4
<1>6. {r \in CurrentPSPs : r[1] = Id} \subseteq current
  BY <1>3 DEF CurrentPSPs
<1> HIDE DEF current
<1>7. ASSUME ~cleared, NEW k \in 1 .. row PROVE Filled(k)'
  <2>1. CASE k = row
    BY <1>1, <1>2, <1>4, <1>5, <1>6, <2>1 DEF Filled, Id
  <2>2. CASE k # row
    <3>1. Filled(k)
      BY <1>1, <1>3, <1>7, <2>2 DEF FillInv
    <3> QED
      BY <1>1, <1>2, <1>4, <1>5, <3>1 DEF Filled
  <2> QED
    BY <2>1, <2>2
<1>8. 1 .. row' - 1 = 1 .. row
  BY <1>1, <1>3
<1> QED
  BY <1>1, <1>7, <1>8 DEF FillInv, RowInv

LEMMA CleaningShows ==
  ASSUME ViewInv, CleanUp, ~cleared
  PROVE  Shows'
<1>1. /\ ViewTypeOK /\ step = "user" /\ Refreshing /\ row > Len(userId) /\ FillInv
      /\ Copied = ActiveIds /\ userId \in Seq(Users) /\ row \in 1 .. Len(userId) + 1
  BY DEF ViewInv, ViewTypeOK, CleanUp, Refreshing, CopyInv
<1>2. ActiveIds' = ActiveIds /\ Infos' = Infos /\ CurrentPSPs' = CurrentPSPs
  BY TableStays DEF CleanUp, listVars
<1>3. ASSUME NEW k \in DOMAIN userId PROVE Filled(k)
  <2>1. k \in 1 .. row - 1
    BY <1>1
  <2> QED
    BY <1>1, <2>1 DEF FillInv
<1>4. \A id \in ActiveIds : /\ id \in DOMAIN rows /\ rows[id] = Infos[id]
                            /\ {r \in CurrentPSPs : r[1] = id} \subseteq pspRows \cap userPSP
  BY <1>1, <1>3 DEF Copied, Filled
<1>5. rows' = [id \in DOMAIN rows \cap ActiveIds |-> rows[id]]
  BY <1>1 DEF CleanUp, Copied
<1>6. \A r \in CurrentPSPs : r[1] \in ActiveIds
  BY DEF CurrentPSPs
<1>7. CurrentPSPs \subseteq pspRows \cap userPSP
  BY <1>4, <1>6
<1>8. pspRows \cap userPSP \subseteq pspRows'
  BY DEF CleanUp, DropOneOf
<1> QED
  BY <1>2, <1>4, <1>5, <1>7, <1>8 DEF Shows

\* What the user's thread does at once shows the table too.
LEMMA UpdatingShows ==
  ASSUME ViewInv, UpdateAtOnce, ~cleared'
  PROVE  /\ Shows' /\ UNCHANGED table /\ ~cleared
         /\ rows' = [id \in ActiveIds |-> UserInfo(id)] /\ CurrentPSPs \subseteq pspRows'
<1>1. ViewTypeOK /\ FirstIsActive /\ RealIds /\ TypeOK /\ clientStatus \in {0, 2}
  BY DEF ViewInv, ViewTypeOK
<1>2. /\ rows' = [id \in ActiveIds |-> UserInfo(id)] /\ ~cleared
      /\ CurrentPSPs \subseteq pspRows'
  BY <1>1 DEF UpdateAtOnce
<1>3. UNCHANGED table
  BY DEF UpdateAtOnce, listVars
<1>4. ActiveIds' = ActiveIds /\ Infos' = Infos /\ CurrentPSPs' = CurrentPSPs
  BY <1>3, TableStays
<1>5. \A id \in ActiveIds : UserInfo(id) = Infos[id]
  BY <1>1, ActiveInfo DEF Infos
<1> QED
  BY <1>2, <1>3, <1>4, <1>5 DEF Shows

LEMMA StepKeepsView ==
  ASSUME ViewInv, [ViewNext]_viewVars
  PROVE  ViewInv'
<1>0. /\ ViewTypeOK /\ FirstIsActive /\ RealIds
      /\ Sequential /\ CopyInv /\ FillInv /\ RowInv /\ ShownInv
  BY DEF ViewInv
<1> SUFFICES Sequential' /\ CopyInv' /\ FillInv' /\ RowInv' /\ ShownInv'
  BY StepKeepsViewType DEF ViewInv
\* The connection changes, or nothing.
<1>1. ASSUME UNCHANGED <<listVars, lists, refresh>>
      PROVE  Sequential' /\ CopyInv' /\ FillInv' /\ RowInv' /\ ShownInv'
  <2>1. ActiveIds' = ActiveIds /\ Infos' = Infos /\ CurrentPSPs' = CurrentPSPs
    BY <1>1, TableStays DEF listVars
  <2>2. UNCHANGED <<handling, ui, rows, pspRows, step, userId, row, userPSP, cleared>>
    BY <1>1 DEF listVars, handler, lists, refresh
  <2>3. Copied' = Copied /\ Shows' = Shows
    BY <2>1, <2>2 DEF Copied, Shows
  <2>4. FillInv'
    BY <1>0, <2>1, <2>2 DEF FillInv, Filled, Refreshing
  <2> QED
    BY <1>0, <2>1, <2>2, <2>3, <2>4
       DEF Sequential, CopyInv, RowInv, ShownInv, Refreshing, Id
\* A list comes, and is handled.
<1>2. ASSUME step' = "idle", handling'
      PROVE  Sequential' /\ CopyInv' /\ FillInv' /\ RowInv' /\ ShownInv'
  BY <1>2 DEF Sequential, CopyInv, FillInv, RowInv, ShownInv, Refreshing
<1>3. ASSUME NEW list \in Lists, ListArrives(list) PROVE step' = "idle" /\ handling'
  BY <1>3 DEF ListArrives, ReceiveList, refresh
<1>4. CASE Handle
  BY <1>0, <1>2, <1>4 DEF Handle, HandleList, UpdateUser, LogIn, NoRoom, NextEntry, refresh, Sequential
<1>5. CASE ListHandled
  BY <1>5 DEF ListHandled, LogOutRest, Sequential, CopyInv, FillInv, RowInv, ShownInv, Refreshing
\* The refresh.
<1>6. CASE TestStatus
  <2>1. ~handling' /\ step' \in {"idle", "copy"} /\ (step' = "idle" => cleared')
    BY <1>0, <1>6 DEF TestStatus, Sequential, listVars, handler
  <2> QED
    BY <2>1 DEF Sequential, CopyInv, FillInv, RowInv, ShownInv, Refreshing
<1>7. CASE CopyIds
  BY <1>0, <1>7, CopyingCopies DEF CopyIds, Sequential, ShownInv, listVars, handler
<1>8. ASSUME UNCHANGED <<table, userId, cleared>>, Refreshing PROVE CopyInv'
  BY <1>0, <1>8, TableStays DEF CopyInv, Copied
<1>9. CASE FindRow
  BY <1>0, <1>8, <1>9, FindingKeeps DEF FindRow, Sequential, ShownInv, Refreshing, listVars, handler
<1>10. CASE FillRow
  BY <1>0, <1>8, <1>10, FillingFills DEF FillRow, Sequential, ShownInv, Refreshing, listVars, handler
<1>11. CASE RowHasGone
  BY <1>0, <1>11
     DEF RowHasGone, Sequential, CopyInv, FillInv, RowInv, ShownInv, Refreshing, listVars, handler
<1>12. CASE CleanUp
  <2>1. step' = "idle" /\ ~handling' /\ cleared' = cleared
    BY <1>0, <1>12 DEF CleanUp, Sequential, listVars, handler
  <2> QED
    BY <1>12, <2>1, CleaningShows DEF Sequential, CopyInv, FillInv, RowInv, ShownInv, Refreshing
\* The user's thread.
<1>13. CASE UpdateAtOnce
  <2>1. UNCHANGED <<table, handling, ui, step, userId, row, userPSP>>
    BY <1>13 DEF UpdateAtOnce, listVars, handler
  <2>2. ActiveIds' = ActiveIds /\ Infos' = Infos /\ CurrentPSPs' = CurrentPSPs
    BY <2>1, TableStays
  <2>3. Copied' = Copied /\ Sequential'
    BY <1>0, <2>1 DEF Copied, Sequential
  <2>4. CASE cleared'
    BY <1>0, <2>1, <2>2, <2>3, <2>4 DEF CopyInv, FillInv, RowInv, ShownInv, Refreshing
  <2>5. CASE ~cleared'
    <3>1. Shows' /\ ~cleared
      BY <1>13, <2>5, UpdatingShows
    <3>2. ASSUME Refreshing, NEW k \in 1 .. row - 1 PROVE Filled(k) /\ userId[k] \in ActiveIds
      <4>1. k \in DOMAIN userId
        BY <1>0 DEF ViewTypeOK
      <4> QED
        BY <1>0, <3>1, <3>2, <4>1 DEF FillInv, CopyInv, Copied
    <3>3. ASSUME Refreshing, NEW k \in 1 .. row - 1 PROVE Filled(k)'
      BY <2>1, <2>2, <3>1, <3>2, <3>3 DEF Filled, Shows
    <3>4. FillInv'
      BY <2>1, <3>3 DEF FillInv, Refreshing
    <3>5. RowInv'
      <4>1. ASSUME step = "fill" PROVE row <= Len(userId) /\ Id' \in ActiveIds
        BY <1>0, <2>1, <3>1, <4>1, IdIsActive DEF RowInv, Refreshing, Id, ViewInv
      <4> QED
        BY <1>0, <2>1, <2>2, <3>1, <4>1 DEF RowInv, Shows
    <3> QED
      BY <1>0, <2>1, <2>2, <2>3, <3>1, <3>4, <3>5 DEF CopyInv, ShownInv, Refreshing
  <2> QED
    BY <2>4, <2>5
<1>14. CASE Connect \/ Close \/ Reconnected \/ UNCHANGED viewVars
  BY <1>1, <1>14 DEF Connect, Close, Reconnected, viewVars
<1> QED
  BY <1>2, <1>3, <1>4, <1>5, <1>6, <1>7, <1>9, <1>10, <1>11, <1>12, <1>13, <1>14
     DEF ViewNext, EventThread
-----------------------------------------------------------------------------
(***************************************************************************)
(* Types of the window's lists and of a refresh, and the row that          *)
(* UpdateUserList is at is one of those it has got (MHPTunnelMain.CPP      *)
(* 718-876).                                                               *)
(***************************************************************************)
THEOREM ViewType == ViewSpec => []ViewTypeOK
<1>1. ViewInv => ViewTypeOK
  BY DEF ViewInv
<1> QED
  BY <1>1, InitView, StepKeepsView, PTL DEF ViewSpec

(***************************************************************************)
(* Whatever the user does meanwhile, after a refresh that did not find the *)
(* connection closed the window shows the users who are logged in as the   *)
(* last list described them, nobody else, and all their PSPs.              *)
(***************************************************************************)
THEOREM WindowFollowsTheTable == ViewSpec => []ViewFollows
<1>1. ViewInv => ViewFollows
  <2> SUFFICES ASSUME ViewInv, step = "idle", ~handling, ui # <<>>, ~cleared PROVE
               /\ DOMAIN rows = ActiveIds
               /\ \A id \in DOMAIN rows : rows[id] \in LoggedIn
               /\ CurrentPSPs \subseteq pspRows
    BY DEF ViewFollows
  <2>1. Shows
    BY DEF ViewInv, ShownInv
  <2>2. \A id \in ActiveIds : Infos[id] \in LoggedIn
    BY ActiveInfo DEF ViewInv, ViewTypeOK, Infos
  <2> QED
    BY <2>1, <2>2 DEF Shows
<1> QED
  BY <1>1, InitView, StepKeepsView, PTL DEF ViewSpec

(***************************************************************************)
(* The event thread loses the row it is about to fill only when the user   *)
(* has disconnected during the refresh: as long as the connection was not  *)
(* found closed, updating in the other thread takes no row of somebody the *)
(* refresh still comes to (MHPTunnelMain.CPP 405-410, 754-846).            *)
(***************************************************************************)
RowsGoOnlyWhenClosed == step = "crashed" => cleared

THEOREM RowsStayWhileConnected == ViewSpec => []RowsGoOnlyWhenClosed
<1>1. ViewInv => RowsGoOnlyWhenClosed
  BY DEF ViewInv, RowInv, RowsGoOnlyWhenClosed
<1> QED
  BY <1>1, InitView, StepKeepsView, PTL DEF ViewSpec
=============================================================================
