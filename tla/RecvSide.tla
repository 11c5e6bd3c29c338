------------------------------ MODULE RecvSide ------------------------------
(***************************************************************************)
(* The receiving half of a SOCKET_EX: RecvToBuffer takes bytes from the    *)
(* socket into the receive ring, and RecvAndExecCommand cuts commands out  *)
(* of it, checks their numbers and executes them (tunnel-common.cpp        *)
(* 272-413 and 465-534).  One thread, the SocketEventHandler of the        *)
(* connection, does all of it.                                             *)
(***************************************************************************)
EXTENDS Wire

CONSTANT MaxSize \* sizeof(data) in RecvAndExecCommand, 4096

ASSUME RecvSideAssumption == MaxSize \in Nat

VARIABLES
  receiverState, \* sdex->state
  recvBuffer, recvWritePoint, recvReadPoint,
  sendCountBefore, recvCount,
  rpc,           \* "wait": in WSAWaitForMultipleEvents
                 \* "exec": in the loop of RecvAndExecCommand
                 \* "done": the thread has ended
  dropped,       \* history: the commands thrown away as too long
  mismatch,      \* history: the number check has closed the connection
  delivered      \* history: the commands executed

recvVars == <<receiverState, recvBuffer, recvWritePoint, recvReadPoint,
              sendCountBefore, recvCount, rpc, dropped, mismatch, delivered>>

\* The read point may leave the ring by one, when the terminator of an earlier
\* lap has made a command larger than the ring.
RecvTypeOK ==
  /\ receiverState \in {"CONNECTED", "ERROR", "IDOL"}
  /\ recvBuffer \in [Cell -> Int]
  /\ recvWritePoint \in Point /\ recvReadPoint \in 0 .. BufferSize + 1
  /\ sendCountBefore \in Int /\ recvCount \in Nat
  /\ rpc \in {"wait", "exec", "done"}
  /\ dropped \in Nat
  /\ mismatch \in BOOLEAN
  /\ delivered \in Seq([sendCount : Int, data : Seq(Int)])

RecvInit ==
  /\ receiverState = "CONNECTED"
  /\ recvBuffer = [i \in Cell |-> 0]
  /\ recvWritePoint = 0 /\ recvReadPoint = 0
  /\ sendCountBefore = 0 /\ recvCount = 0
  /\ rpc = "wait"
  /\ dropped = 0
  /\ mismatch = FALSE
  /\ delivered = <<>>

Unread == Pending(recvWritePoint, recvReadPoint)

(***************************************************************************)
(* RecvToBuffer: recv() into the ring from the write point up to the end   *)
(* of the ring, from its beginning when the write point is at the end.     *)
(***************************************************************************)
RecvStart == IF recvWritePoint = BufferSize THEN 0 ELSE recvWritePoint

RecvToBuffer ==
  \E n \in Transfers(BufferSize - RecvStart, Len(wire)) :
    /\ rpc = "wait"
    /\ receiverState = "CONNECTED"
    /\ link # "reset"
    /\ recvBuffer' = Written(recvBuffer, RecvStart, SubSeq(wire, 1, n))
    /\ recvWritePoint' = RecvStart + n
    /\ wire' = SubSeq(wire, n + 1, Len(wire))
    /\ rpc' = "exec"
    /\ UNCHANGED <<receiverState, recvReadPoint, sendCountBefore, recvCount,
                   dropped, mismatch, delivered, link>>

(***************************************************************************)
(* RecvCommand, called in a loop by RecvAndExecCommand: one disjunct per   *)
(* return.  Found is the size RecvCommandSize reports; when it is Lost     *)
(* the call does not return.                                               *)
(***************************************************************************)
Found == CommandSize(recvBuffer, recvWritePoint, recvReadPoint)

HeaderCount == recvBuffer[CellOf(recvReadPoint, 0)]

Data == Copied(recvBuffer, Move(recvReadPoint, HeaderSize), Found - MinCommand)

\* Wrong: the number is not checked.
AnyOrder == TRUE

InOrder == sendCountBefore = 0 \/ HeaderCount = sendCountBefore + 1

Executing == rpc = "exec" /\ receiverState = "CONNECTED"

NoMoreCommands ==
  /\ rpc = "exec"
  /\ \/ receiverState # "CONNECTED"
     \/ Found # Lost /\ Found < MinCommand
  /\ rpc' = "wait"
  /\ UNCHANGED <<receiverState, recvBuffer, recvWritePoint, recvReadPoint,
                 sendCountBefore, recvCount, dropped, mismatch, delivered, wire, link>>

\* A command longer than the array it would be copied to: it is skipped and
\* the loop ends.
DropCommand ==
  /\ Executing
  /\ Found > MaxSize
  /\ recvReadPoint' = Move(recvReadPoint, Found)
  /\ dropped' = dropped + 1
  /\ rpc' = "wait"
  /\ UNCHANGED <<receiverState, recvBuffer, recvWritePoint, sendCountBefore,
                 recvCount, mismatch, delivered, wire, link>>

\* A command whose number does not follow the one before: CloseConnection.
RejectCommand ==
  /\ Executing
  /\ Found \in MinCommand .. MaxSize
  /\ ~InOrder
  /\ recvReadPoint' = Move(recvReadPoint, Found)
  /\ sendCountBefore' = 0
  /\ receiverState' = "IDOL"
  /\ mismatch' = TRUE
  /\ rpc' = "wait"
  /\ UNCHANGED <<recvBuffer, recvWritePoint, recvCount, dropped, delivered, wire, link>>

ExecCommand ==
  /\ Executing
  /\ Found \in MinCommand .. MaxSize
  /\ InOrder
  /\ recvReadPoint' = Move(recvReadPoint, Found)
  /\ sendCountBefore' = HeaderCount
  /\ recvCount' = recvCount + 1
  /\ delivered' = Append(delivered, [sendCount |-> HeaderCount, data |-> Data])
  /\ UNCHANGED <<receiverState, recvBuffer, recvWritePoint, rpc, dropped,
                 mismatch, wire, link>>

RecvCommand ==
  NoMoreCommands \/ DropCommand \/ RejectCommand \/ ExecCommand

(***************************************************************************)
(* recv() fails, or returns 0 as the peer has closed its socket: the state *)
(* becomes ERROR and the loop ends.                                        *)
(***************************************************************************)
RecvFails ==
  /\ rpc = "wait"
  /\ receiverState = "CONNECTED"
  /\ link = "reset" \/ (link = "fin" /\ wire = <<>>)
  /\ receiverState' = "ERROR"
  /\ UNCHANGED <<recvBuffer, recvWritePoint, recvReadPoint, sendCountBefore,
                 recvCount, rpc, dropped, mismatch, delivered, wire, link>>

(***************************************************************************)
(* The end of SocketEventHandler: the state is no longer CONNECTED, or     *)
(* FD_CLOSE, which breaks the loop whatever is left to receive.            *)
(***************************************************************************)
EndOfReceiver ==
  /\ rpc = "wait"
  /\ receiverState # "CONNECTED" \/ link = "fin"
  /\ receiverState' = "IDOL"
  /\ rpc' = "done"
  /\ UNCHANGED <<recvBuffer, recvWritePoint, recvReadPoint, sendCountBefore,
                 recvCount, dropped, mismatch, delivered, wire, link>>

RecvNext == RecvToBuffer \/ RecvCommand \/ RecvFails \/ EndOfReceiver
=============================================================================
