------------------------------ MODULE UserView ------------------------------
(***************************************************************************)
(* The two lists of users in the window of the client                      *)
(* (07source/MHPTunnelMain.CPP): ListUsers, one row per user, and ListPSP, *)
(* one row per PSP of a user.  Both follow the client's table of users.    *)
(* UpdateUserList (718-876) runs in the event thread after each list of    *)
(* the arena (ClientLogHandler, 245-247) and in the user's thread after    *)
(* "disconnect" (405-410), without a lock.  The rows belong to the user's  *)
(* thread: what the event thread does to a row waits for it, so that the   *)
(* user's click is one step for the event thread, which goes on from where *)
(* it was.                                                                 *)
(***************************************************************************)
EXTENDS UserList

CONSTANTS
  MaxChanges,    \* bound: how often the list of the arena changes
  MaxDisconnects \* bound: how often the user disconnects

ASSUME UserViewAssumption == MaxChanges \in Nat /\ MaxDisconnects \in Nat

VARIABLES
  clientStatus, \* 2 while connected
  changes,      \* how many lists were unlike the one before
  disconnects,
  closing,      \* the user's thread is between /close and UpdateUserList
  rows,         \* ListUsers: what the row of each user in it shows
  pspRows,      \* ListPSP: the rows <<user, number>>
  step,         \* where the event thread is in UpdateUserList
  userId,       \* the identities it has got from /u
  row,          \* the one of them it is at
  userPSP,      \* the rows of PSPs it has found to be current
  cleared       \* history: this refresh met a closed connection

arena == <<clientStatus, changes, disconnects, closing>>
lists == <<rows, pspRows>>
refresh == <<step, userId, row, userPSP, cleared>>
viewVars == <<listVars, arena, lists, refresh>>

PSPs == Users \X Nat

ViewTypeOK ==
  /\ TypeOK
  /\ clientStatus \in {0, 2}
  /\ changes \in 0 .. MaxChanges
  /\ disconnects \in 0 .. MaxDisconnects
  /\ closing \in BOOLEAN
  /\ DOMAIN rows \subseteq Users /\ \A id \in DOMAIN rows : rows[id] \in Entries
  /\ pspRows \subseteq PSPs
  /\ step \in {"idle", "status", "copy", "user", "fill", "crashed"}
  /\ userId \in Seq(Users)
  /\ row \in 1 .. Len(userId) + 1
  /\ userPSP \subseteq PSPs
  /\ cleared \in BOOLEAN

NoRows == [id \in {} |-> users[0]]

ViewInit ==
  /\ Init
  /\ clientStatus = 0 /\ changes = 0 /\ disconnects = 0 /\ closing = FALSE
  /\ rows = NoRows /\ pspRows = {}
  /\ step = "idle" /\ userId = <<>> /\ row = 1 /\ userPSP = {} /\ cleared = FALSE
-----------------------------------------------------------------------------
(***************************************************************************)
(* The connection, and the lists that come through it.  The arena sends a  *)
(* list for every notice of a user, whether it has changed or not.         *)
(***************************************************************************)
Connect ==
  /\ clientStatus = 0 /\ ~closing
  /\ clientStatus' = 2
  /\ UNCHANGED <<changes, disconnects, closing, listVars, lists, refresh>>

ListArrives(list) ==
  /\ clientStatus = 2 /\ step = "idle"
  /\ ReceiveList(list)
  /\ changes' = IF list = ui THEN changes ELSE changes + 1
  /\ changes' <= MaxChanges
  /\ UNCHANGED <<clientStatus, disconnects, closing, lists, refresh>>

Handle == HandleList /\ UNCHANGED <<arena, lists, refresh>>

\* callUI(TUNNEL_EVENT_ENTERUSER, ...) follows.
ListHandled ==
  /\ LogOutRest
  /\ step' = "status" /\ cleared' = FALSE
  /\ UNCHANGED <<userId, row, userPSP, arena, lists>>
-----------------------------------------------------------------------------
(***************************************************************************)
(* UpdateUserList in the event thread.                                     *)
(***************************************************************************)
TestStatus ==
  /\ step = "status"
  /\ IF clientStatus < 2
     THEN rows' = NoRows /\ pspRows' = {} /\ cleared' = TRUE /\ step' = "idle"
     ELSE step' = "copy" /\ UNCHANGED <<lists, cleared>>
  /\ UNCHANGED <<userId, row, userPSP, listVars, arena>>

\* /u, which lists the users in the order of the table, and nobody when the
\* connection is closed.
CopyIds ==
  /\ step = "copy"
  /\ IF clientStatus > 1
     THEN /\ \E active \in [1 .. Cardinality(Active) -> Active] :
               /\ \A j, k \in DOMAIN active : j < k => active[j] < active[k]
               /\ userId' = [k \in DOMAIN active |-> users[active[k]].id]
          /\ UNCHANGED cleared
     ELSE userId' = <<>> /\ cleared' = TRUE
  /\ row' = 1 /\ userPSP' = {}
  /\ step' = "user"
  /\ UNCHANGED <<listVars, arena, lists>>

Id == userId[row]

\* FindItem, and AddItem if there is no row yet.
FindRow ==
  /\ step = "user" /\ row <= Len(userId)
  /\ rows' = IF Id \in DOMAIN rows
             THEN rows
             ELSE [id \in DOMAIN rows \cup {Id} |-> IF id = Id THEN UserInfo(Id) ELSE rows[id]]
  /\ step' = "fill"
  /\ UNCHANGED <<pspRows, userId, row, userPSP, cleared, listVars, arena>>

\* Wrong: a row that exists is left as it is.
FillNewOnly ==
  /\ step = "fill" /\ Id \in DOMAIN rows
  /\ LET current == {<<Id, p>> : p \in 0 .. rows[Id].psps - 1} IN
     /\ pspRows' = pspRows \cup current
     /\ userPSP' = userPSP \cup current
  /\ row' = row + 1 /\ step' = "user"
  /\ UNCHANGED <<rows, userId, cleared, listVars, arena>>

\* What it shows, and the rows of this user's PSPs.
FillRow ==
  /\ step = "fill" /\ Id \in DOMAIN rows
  /\ LET info == UserInfo(Id)
         current == {<<Id, p>> : p \in 0 .. info.psps - 1} IN
     /\ rows' = [rows EXCEPT ![Id] = info]
     /\ pspRows' = pspRows \cup current
     /\ userPSP' = userPSP \cup current
  /\ row' = row + 1 /\ step' = "user"
  /\ UNCHANGED <<userId, cleared, listVars, arena>>

\* The row has gone meanwhile: its pointer is NULL, or to freed storage.
RowHasGone ==
  /\ step = "fill" /\ Id \notin DOMAIN rows
  /\ step' = "crashed"
  /\ UNCHANGED <<userId, row, userPSP, cleared, listVars, arena, lists>>

\* Wrong: the first row is looked at, whether it is current or not.
DropNoneOf(stale) == pspRows' = pspRows

\* Only one row of a PSP that has gone is taken out per refresh (855, 870).
DropOneOf(stale) ==
  IF stale = {} THEN pspRows' = pspRows
  ELSE \E r \in stale : pspRows' = pspRows \ {r}

CleanUp ==
  LET kept == {userId[k] : k \in DOMAIN userId} IN
  /\ step = "user" /\ row > Len(userId)
  /\ rows' = [id \in DOMAIN rows \cap kept |-> rows[id]]
  /\ DropOneOf(pspRows \ userPSP)
  /\ step' = "idle"
  /\ UNCHANGED <<userId, row, userPSP, cleared, listVars, arena>>
-----------------------------------------------------------------------------
(***************************************************************************)
(* MenuDisconnectClick: /close, then UpdateUserList in this thread.  The   *)
(* client may be connected again by then, when another thread was in its   *)
(* reconnect loop.                                                         *)
(***************************************************************************)
Close ==
  /\ ~closing /\ disconnects < MaxDisconnects
  /\ closing' = TRUE /\ disconnects' = disconnects + 1
  /\ clientStatus' = 0
  /\ UNCHANGED <<changes, listVars, lists, refresh>>

Reconnected ==
  /\ closing /\ clientStatus = 0
  /\ clientStatus' = 2
  /\ UNCHANGED <<changes, disconnects, closing, listVars, lists, refresh>>

CurrentPSPs == {r \in ActiveIds \X (0 .. 9) : r[2] < UserInfo(r[1]).psps}

UpdateAtOnce ==
  /\ closing
  /\ closing' = FALSE
  /\ IF clientStatus < 2
     THEN rows' = NoRows /\ pspRows' = {} /\ cleared' = TRUE
     ELSE /\ rows' = [id \in ActiveIds |-> UserInfo(id)]
          /\ LET shown == pspRows \cup CurrentPSPs IN
             \/ shown = CurrentPSPs /\ pspRows' = shown
             \/ \E r \in shown \ CurrentPSPs : pspRows' = shown \ {r}
          /\ UNCHANGED cleared
  /\ UNCHANGED <<clientStatus, changes, disconnects, listVars,
                 step, userId, row, userPSP>>
-----------------------------------------------------------------------------
EventThread ==
  \/ Handle \/ ListHandled \/ TestStatus \/ CopyIds
  \/ FindRow \/ FillRow \/ RowHasGone \/ CleanUp

ViewNext ==
  \/ Connect \/ (\E list \in Lists : ListArrives(list))
  \/ EventThread
  \/ Close \/ Reconnected \/ UpdateAtOnce

ViewSpec == ViewInit /\ [][ViewNext]_viewVars

(***************************************************************************)
(* Threads run, and the arena goes on sending the list: the clients report *)
(* themselves every few seconds.                                           *)
(***************************************************************************)
ViewFairness ==
  /\ WF_viewVars(EventThread) /\ WF_viewVars(UpdateAtOnce)
  /\ WF_viewVars(ListArrives(ui)) /\ WF_viewVars(Connect)

FairViewSpec == ViewSpec /\ ViewFairness
-----------------------------------------------------------------------------
(***************************************************************************)
(* After a refresh that nobody disturbed the window shows each user who is *)
(* logged in, once, as the last list described them, and nobody else, and  *)
(* every PSP they have (UpdateUserList).                                   *)
(***************************************************************************)
ViewFollows ==
  (step = "idle" /\ ~handling /\ ui # <<>> /\ ~cleared /\ clientStatus = 2 /\ ~closing) =>
    /\ DOMAIN rows = ActiveIds
    /\ \A id \in DOMAIN rows : rows[id] \in LoggedIn
    /\ CurrentPSPs \subseteq pspRows

(***************************************************************************)
(* Although each refresh takes out one row of a PSP at most, the list of   *)
(* PSPs becomes that of the users who are logged in once the arena's list  *)
(* no longer changes (UpdateUserList, 847-872).                            *)
(***************************************************************************)
Quiet ==
  /\ changes = MaxChanges /\ disconnects = MaxDisconnects
  /\ clientStatus = 2 /\ ~closing /\ step # "crashed"

PspRowsSettle == Quiet ~> (step = "crashed" \/ pspRows = CurrentPSPs)
=============================================================================
