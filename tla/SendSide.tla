------------------------------ MODULE SendSide ------------------------------
(***************************************************************************)
(* The sending half of a SOCKET_EX: the send ring that SendCommand fills   *)
(* and SendFromBuffer drains into the socket (tunnel-common.cpp 421-610).  *)
(* SendCommand is called by several threads of one connection: the ping    *)
(* thread, and the threads whose handlers or user commands send.  The      *)
(* event thread of the connection calls SendFromBuffer on FD_WRITE, and    *)
(* on FD_READ after the traffic of the other direction.                    *)
(***************************************************************************)
EXTENDS Wire

CONSTANTS
  Senders,     \* threads that call SendCommand
  EventThread, \* the SocketEventHandler thread
  NoThread,
  LeftStates,  \* sendState as an earlier connection of this SOCKET_EX may
               \* have left it: InitConnection does not reset it
  Payloads,    \* the data of commands, sequences of bytes
  MaxCommands, \* bound: commands sent over the connection
  MaxBacklog   \* bound: bytes in the send ring

ASSUME SendSideAssumption ==
  /\ EventThread \notin Senders
  /\ NoThread \notin Senders \cup {EventThread}
  /\ LeftStates \subseteq {-1, 0, 1}
  /\ Payloads \subseteq Seq(Int)
  /\ MaxCommands \in Nat
  /\ MaxBacklog \in Nat

VARIABLES
  senderState,    \* sdex->state
  sendBuffer, sendWritePoint, sendReadPoint,
  sendCount,
  sendState,      \* 0 idle, 1 sending or blocked, -1 failed
  sendSection,    \* the thread in the critical section, while it sends
  chunk,          \* start and last of the SendFromBuffer that is sending
  fdWrite,        \* FD_WRITE is due: after connecting, or after a send()
                  \* that would have blocked
  pc,
  status,         \* the copy of sendState SendCommand takes in the section
  sent,           \* history: the data of every command numbered so far
  offset          \* history: where in the stream of all bytes each of them
                  \* starts, and at the end where the next one will

sendVars == <<senderState, sendBuffer, sendWritePoint, sendReadPoint, sendCount,
              sendState, sendSection, chunk, fdWrite, pc, status, sent, offset>>

ring == <<sendBuffer, sendWritePoint, sendReadPoint, sendCount, sent, offset>>

Threads == Senders \cup {EventThread}
Steps == {"idle", "test", "flush", "sending", "more", "check", "done"}

SendTypeOK ==
  /\ senderState \in {"CONNECTED", "ERROR", "IDOL"}
  /\ sendBuffer \in [Cell -> Int]
  /\ sendWritePoint \in Point /\ sendReadPoint \in Point
  /\ sendCount \in Nat
  /\ sendState \in {-1, 0, 1}
  /\ sendSection \in Threads \cup {NoThread}
  /\ chunk \in [start : Point, last : 0 .. BufferSize]
  /\ fdWrite \in BOOLEAN
  /\ pc \in [Threads -> Steps]
  /\ status \in [Senders -> {-1, 0, 1}]
  /\ sent \in Seq(Seq(Int))
  /\ offset \in Seq(Nat) /\ Len(offset) = Len(sent) + 1

SendInit ==
  /\ senderState = "CONNECTED"
  /\ sendBuffer = [i \in Cell |-> 0]
  /\ sendWritePoint = 0 /\ sendReadPoint = 0
  /\ sendCount = 0
  /\ sendState \in LeftStates
  /\ sendSection = NoThread
  /\ chunk = [start |-> 0, last |-> 0]
  /\ fdWrite = TRUE
  /\ pc = [t \in Threads |-> "idle"]
  /\ status = [t \in Senders |-> 0]
  /\ sent = <<>> /\ offset = <<0>>

Goto(t, step) == pc' = [pc EXCEPT ![t] = step]

Backlog == Pending(sendWritePoint, sendReadPoint)

Frame(count, data) == <<count>> \o data \o Eof

(***************************************************************************)
(* SendCommand up to LeaveCriticalSection: the command gets its number and *)
(* is copied behind the write point, whether or not there is room for it.  *)
(***************************************************************************)
SendCommand(t, data) ==
  LET frame == Frame(sendCount + 1, data) IN
  /\ pc[t] = "idle"
  /\ senderState = "CONNECTED"
  /\ sendSection = NoThread
  /\ Len(sent) < MaxCommands
  /\ Backlog + Len(frame) <= MaxBacklog
  /\ sendCount' = sendCount + 1
  /\ sendBuffer' = Written(sendBuffer, sendWritePoint, frame)
  /\ sendWritePoint' = Move(sendWritePoint, Len(frame))
  /\ status' = [status EXCEPT ![t] = sendState]
  /\ sent' = Append(sent, data)
  /\ offset' = Append(offset, offset[Len(offset)] + Len(frame))
  /\ Goto(t, "test")
  /\ UNCHANGED <<senderState, sendReadPoint, sendState, sendSection, chunk,
                 fdWrite, wire, link>>

(***************************************************************************)
(* Outside the section SendCommand looks at sendState once more before it  *)
(* calls SendFromBuffer.                                                   *)
(***************************************************************************)
TestSendState(t) ==
  /\ pc[t] = "test"
  /\ Goto(t, IF status[t] = 0 /\ sendState = 0 THEN "flush" ELSE "idle")
  /\ UNCHANGED <<ring, senderState, sendState, sendSection, chunk, fdWrite,
                 status, wire, link>>

(***************************************************************************)
(* What SendFromBuffer returns to: SendCommand's look at the state, or the *)
(* loop of the event thread.                                               *)
(***************************************************************************)
Return(t) == Goto(t, IF t = EventThread THEN "idle" ELSE "check")

FirstChunk ==
  LET start == IF sendReadPoint = BufferSize THEN 0 ELSE sendReadPoint
  IN  [start |-> start,
       last |-> IF start + Backlog > BufferSize THEN BufferSize - start ELSE Backlog]

\* Wrong: sendState is set before the look at the size, and left so.
BeginSendEarly(t) ==
  /\ pc[t] = "flush"
  /\ sendSection = NoThread
  /\ sendState' = 1
  /\ IF Backlog = 0
     THEN Return(t) /\ UNCHANGED <<sendSection, chunk>>
     ELSE Goto(t, "sending") /\ sendSection' = t /\ chunk' = FirstChunk
  /\ UNCHANGED <<ring, senderState, fdWrite, status, wire, link>>

(***************************************************************************)
(* SendFromBuffer: only the bytes up to the end of the ring are sent.      *)
(***************************************************************************)
BeginSend(t) ==
  /\ pc[t] = "flush"
  /\ sendSection = NoThread
  /\ IF Backlog = 0
     THEN /\ Return(t)
          /\ UNCHANGED <<sendState, sendSection, chunk>>
     ELSE /\ Goto(t, "sending")
          /\ sendState' = 1
          /\ sendSection' = t
          /\ chunk' = FirstChunk
  /\ UNCHANGED <<ring, senderState, fdWrite, status, wire, link>>

Accepted == Transfers(chunk.last, Room)

\* Wrong: whatever send() returns, the chunk counts as sent.
ChunkGone(n) == [start |-> chunk.start + chunk.last, last |-> 0]

ChunkAfter(n) == [start |-> chunk.start + n, last |-> chunk.last - n]

SendBytes(t) ==
  \E n \in Accepted :
    /\ pc[t] = "sending"
    /\ link = "up"
    /\ wire' = wire \o Copied(sendBuffer, chunk.start, n)
    /\ sendReadPoint' = ChunkAfter(n).start
    /\ chunk' = ChunkAfter(n)
    /\ sendState' = 0
    /\ IF chunk'.last = 0 THEN sendSection' = NoThread /\ Return(t)
                         ELSE UNCHANGED sendSection /\ Goto(t, "more")
    /\ UNCHANGED <<senderState, sendBuffer, sendWritePoint, sendCount, fdWrite,
                   status, sent, offset, link>>

\* The next round of the loop: for a moment sendState was 0, which a thread
\* outside the section may have seen.
SendMore(t) ==
  /\ pc[t] = "more"
  /\ sendState' = 1
  /\ Goto(t, "sending")
  /\ UNCHANGED <<ring, senderState, sendSection, chunk, fdWrite, status, wire, link>>

\* WSAEWOULDBLOCK: sendState stays 1, the rest waits for an event.
SendWouldBlock(t) ==
  /\ pc[t] = "sending"
  /\ link = "up"
  /\ Room < chunk.last
  /\ WholeSegments => Room = 0
  /\ sendSection' = NoThread
  /\ fdWrite' = TRUE
  /\ Return(t)
  /\ UNCHANGED <<ring, senderState, sendState, chunk, status, wire, link>>

\* The network failed, or another thread closed the socket meanwhile.
SendFails(t) ==
  /\ pc[t] = "sending"
  /\ link # "up"
  /\ sendState' = -1
  /\ senderState' = "ERROR"
  /\ sendSection' = NoThread
  /\ Return(t)
  /\ UNCHANGED <<ring, chunk, fdWrite, status, wire, link>>

(***************************************************************************)
(* CloseConnection as the sending half sees it: the socket is closed, what *)
(* is in flight may still arrive.                                          *)
(***************************************************************************)
CloseSender ==
  /\ senderState' = "IDOL"
  /\ link' = IF link = "up" /\ senderState # "IDOL" THEN "fin" ELSE link

\* The end of SendCommand.
CheckError(t) ==
  /\ pc[t] = "check"
  /\ IF senderState = "ERROR" THEN CloseSender ELSE UNCHANGED <<senderState, link>>
  /\ Goto(t, "idle")
  /\ UNCHANGED <<ring, sendState, sendSection, chunk, fdWrite, status, wire>>

(***************************************************************************)
(* SocketEventHandler, the part that concerns this direction: FD_WRITE     *)
(* after a send() that would have blocked, and FD_READ of the other        *)
(* direction, both of which call SendFromBuffer.                           *)
(***************************************************************************)
OnFdWrite ==
  /\ pc[EventThread] = "idle"
  /\ senderState = "CONNECTED"
  /\ link = "up"
  /\ fdWrite /\ Room > 0
  /\ fdWrite' = FALSE
  /\ Goto(EventThread, "flush")
  /\ UNCHANGED <<ring, senderState, sendState, sendSection, chunk, status, wire, link>>

\* Wrong: FD_READ only receives.
OnFdReadReceive == pc[EventThread] = "idle" /\ UNCHANGED <<sendVars, wire, link>>

OnFdRead ==
  /\ pc[EventThread] = "idle"
  /\ senderState = "CONNECTED"
  /\ link = "up"
  /\ Goto(EventThread, "flush")
  /\ UNCHANGED <<ring, senderState, sendState, sendSection, chunk, fdWrite,
                 status, wire, link>>

\* The event thread leaves its loop and closes the connection.
EndOfEvents ==
  /\ pc[EventThread] = "idle"
  /\ senderState # "CONNECTED" \/ link = "reset"
  /\ CloseSender
  /\ Goto(EventThread, "done")
  /\ UNCHANGED <<ring, sendState, sendSection, chunk, fdWrite, status, wire>>

\* CloseConnection called by another thread: a user command, or a handler.
Disconnect ==
  /\ senderState = "CONNECTED"
  /\ CloseSender
  /\ UNCHANGED <<ring, sendState, sendSection, chunk, fdWrite, pc, status, wire>>

SendNext ==
  \/ \E t \in Senders, data \in Payloads : SendCommand(t, data)
  \/ \E t \in Senders : TestSendState(t) \/ CheckError(t)
  \/ \E t \in Threads :
       BeginSend(t) \/ SendBytes(t) \/ SendMore(t) \/ SendWouldBlock(t) \/ SendFails(t)
  \/ OnFdWrite \/ OnFdRead \/ EndOfEvents \/ Disconnect
=============================================================================
