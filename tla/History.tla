------------------------------ MODULE History -------------------------------
(***************************************************************************)
(* The commands that were entered, which the arrow keys bring back         *)
(* (07source/MHPTunnelMain.CPP): ButtonSendClick (364-378), AddHistory     *)
(* (566-602), CommandBoxKeyDown (539-563) and CommandBoxKeyUp (604-636).   *)
(*                                                                         *)
(* The array has historyMax cells, and three loops visit one more: the     *)
(* field that comes after it in the class, historyTemp                     *)
(* (MHPTunnelMain.h 89-91), which is therefore the cell historyMax here.   *)
(***************************************************************************)
EXTENDS Integers, Sequences

CONSTANTS
  historyMax, \* cells of the array, 40
  Texts,      \* what the command box may hold
  NoText,     \* the empty command box, one of Texts
  NULL        \* a cell that is not in use

ASSUME HistoryAssumption ==
  /\ historyMax \in Nat \ {0}
  /\ NoText \in Texts /\ NULL \notin Texts

VARIABLES
  history,      \* the cells 0 .. historyMax
  historyIndex, \* the cell that the box shows, or -1
  box,          \* CommandBox->Text
  kept          \* auxiliary: what was in the box when the user left it by "up"

historyVars == <<history, historyIndex, box, kept>>

Cells == 0 .. historyMax - 1
historyTemp == history[historyMax]

HistoryTypeOK ==
  /\ history \in [0 .. historyMax -> Texts \cup {NULL}]
  /\ historyIndex \in -1 .. historyMax
  /\ box \in Texts
  /\ kept \in Texts
  /\ historyIndex # -1 => history[historyIndex] # NULL

HistoryInit ==
  /\ history = [i \in 0 .. historyMax |-> NULL]
  /\ historyIndex = -1
  /\ box = NoText /\ kept = NoText
-----------------------------------------------------------------------------
\* The user edits the command.
Type(text) ==
  /\ box' = text
  /\ UNCHANGED <<history, historyIndex, kept>>

(***************************************************************************)
(* AddHistory: the first loop stops at the first cell that is free or      *)
(* holds the command, and may find historyTemp to be either.               *)
(***************************************************************************)
Stops(i) == history[i] \in {NULL, box}

StopsAt(i) == Stops(i) /\ \A j \in 0 .. i - 1 : ~Stops(j)

\* The command at the cell found moves behind those entered after it, up to
\* the first free cell.
MovedToEnd(found) ==
  LET last == {i \in Cells : i >= found /\ history[i] # NULL
                             /\ (i = historyMax - 1 \/ history[i + 1] = NULL)} IN
  [i \in 0 .. historyMax |->
     IF \E l \in last : i \in found .. l - 1 THEN history[i + 1]
     ELSE IF i \in last THEN history[found]
     ELSE history[i]]

\* The first command goes, the others move up.
ShiftedIn ==
  [i \in 0 .. historyMax |->
     IF i < historyMax - 1 THEN history[i + 1]
     ELSE IF i = historyMax - 1 THEN box
     ELSE history[i]]

\* Wrong: a command that is found stays where it is.
AddHistoryInPlace ==
  IF \E i \in 0 .. historyMax : StopsAt(i)
  THEN [i \in 0 .. historyMax |-> IF StopsAt(i) THEN box ELSE history[i]]
  ELSE ShiftedIn

AddHistory ==
  IF \E i \in 0 .. historyMax : StopsAt(i)
  THEN LET i == CHOOSE c \in 0 .. historyMax : StopsAt(c) IN
       IF history[i] = NULL THEN [history EXCEPT ![i] = box] ELSE MovedToEnd(i)
  ELSE ShiftedIn

Send ==
  /\ history' = AddHistory
  /\ historyIndex' = -1
  /\ box' = NoText
  /\ UNCHANGED kept
-----------------------------------------------------------------------------
Show(i) ==
  /\ historyIndex' = i
  /\ box' = history[i]

\* The nearest cell in use below i, if there is one.
ShowBelow(i) ==
  LET used == {j \in Cells : j < i /\ history[j] # NULL} IN
  IF used = {} THEN UNCHANGED <<historyIndex, box>>
  ELSE \E j \in used : (\A k \in used : k <= j) /\ Show(j)

\* The key "up": the text in the box is kept first.
KeyUpFirst ==
  /\ historyIndex = -1
  /\ history' = [history EXCEPT ![historyMax] = box]
  /\ kept' = box
  /\ ShowBelow(historyMax)

KeyUpAgain ==
  /\ historyIndex # -1
  /\ ShowBelow(historyIndex)
  /\ UNCHANGED <<history, kept>>

\* Wrong: the end of the history is not the end of the walk.
KeyDownToEnd ==
  /\ historyIndex # -1
  /\ IF historyIndex + 1 <= historyMax /\ history[historyIndex + 1] # NULL
     THEN Show(historyIndex + 1)
     ELSE historyIndex' = -1 /\ UNCHANGED box
  /\ UNCHANGED <<history, kept>>

\* The key "down": the next cell in use, also the one past the end, or the
\* text that was kept.
KeyDown ==
  /\ historyIndex # -1
  /\ IF historyIndex + 1 <= historyMax /\ history[historyIndex + 1] # NULL
     THEN Show(historyIndex + 1)
     ELSE historyIndex' = -1 /\ box' = historyTemp
  /\ UNCHANGED <<history, kept>>
-----------------------------------------------------------------------------
HistoryNext ==
  \/ \E text \in Texts : Type(text)
  \/ Send \/ KeyUpFirst \/ KeyUpAgain \/ KeyDown

HistorySpec == HistoryInit /\ [][HistoryNext]_historyVars
-----------------------------------------------------------------------------
\* The commands the cells hold, and that one of them is before another.
Held == {history[i] : i \in Cells} \ {NULL}

Before(old, new) == \E i, j \in Cells : i < j /\ history[i] = old /\ history[j] = new

EachOnce ==
  \A i, j \in Cells : history[i] = history[j] /\ history[i] # NULL => i = j

\* The commands that stay when the box is sent: all but the oldest, when
\* every cell holds a command and none of them the one in the box.
Staying ==
  IF \A i \in Cells : ~Stops(i) THEN Held \ {history[0]} ELSE Held \ {box}

EnteredLast ==
  /\ Held' = Staying \cup {box}
  /\ EachOnce'
  /\ \A old, new \in Held' :
       Before(old, new)' <=> old # box /\ (new = box \/ Before(old, new))

TakesTemp == NULL \notin {history[i] : i \in Cells} /\ historyTemp \in {NULL, box}

(***************************************************************************)
(* The cells hold the commands that were entered last, each once, in the   *)
(* order they were last entered.  AddHistory breaks this only when it      *)
(* takes historyTemp for a cell: all cells are in use, and historyTemp is  *)
(* free or holds the very command.  The command is then lost.              *)
(***************************************************************************)
KeptUnlessTemp ==
  [][Send =>
       \/ EnteredLast
       \/ TakesTemp /\ \A i \in Cells : history'[i] = history[i]]_historyVars

(***************************************************************************)
(* Whatever key ends the walk through the history brings back exactly what *)
(* the user was typing before the first "up", wherever the walk went and   *)
(* although historyTemp is also a cell of the history that the loops visit *)
(* and shift.  Only sending the command leaves the box otherwise.          *)
(***************************************************************************)
TypedComesBack ==
  [][historyIndex # -1 /\ historyIndex' = -1 => box' = kept \/ Send]_historyVars
=============================================================================
