------------------------------- MODULE Stream -------------------------------
(***************************************************************************)
(* One direction of a connection: the sending half of one SOCKET_EX, the   *)
(* TCP stream, and the receiving half of the SOCKET_EX of the peer.        *)
(***************************************************************************)
EXTENDS SendSide, RecvSide, SequencesExt

CONSTANT MayBreak \* whether the network may fail

vars == <<sendVars, recvVars, wire, link>>

TypeOK == SendTypeOK /\ RecvTypeOK /\ WireTypeOK

Init == SendInit /\ RecvInit /\ WireInit

NetworkFailure == MayBreak /\ Break /\ UNCHANGED <<sendVars, recvVars>>

Next ==
  \/ SendNext /\ UNCHANGED recvVars
  \/ RecvNext /\ UNCHANGED sendVars
  \/ NetworkFailure

Spec == Init /\ [][Next]_vars

(***************************************************************************)
(* Fairness.  A thread that is running goes on.  The event thread is woken *)
(* for FD_READ again and again as the peer's PingAction sends a command    *)
(* every three seconds.                                                    *)
(***************************************************************************)
SenderRuns(t) ==
  (TestSendState(t) \/ CheckError(t)) /\ UNCHANGED recvVars

FlushRuns(t) ==
  (BeginSend(t) \/ SendBytes(t) \/ SendMore(t) \/ SendWouldBlock(t) \/ SendFails(t))
    /\ UNCHANGED recvVars

EventsRun ==
  (OnFdWrite \/ OnFdRead \/ EndOfEvents) /\ UNCHANGED recvVars

Fairness ==
  /\ \A t \in Senders : WF_vars(SenderRuns(t))
  /\ \A t \in Threads : SF_vars(FlushRuns(t))
  /\ WF_vars(EventsRun)
  /\ WF_vars(RecvNext /\ UNCHANGED sendVars)

FairSpec == Spec /\ Fairness
-----------------------------------------------------------------------------
(***************************************************************************)
(* A connection implements the channel: what RecvAndExecCommand executes   *)
(* is what SendCommand was given, in order, whatever the two rings do at   *)
(* their ends and wherever TCP cuts the stream.                            *)
(***************************************************************************)
Commands == INSTANCE Channel WITH sent <- sent, delivered <- delivered, Payloads <- Payloads
ImplementsChannel == Commands!Spec

(***************************************************************************)
(* Nothing is lost, doubled or overwritten on the way: the bytes unread in *)
(* the receive ring, those in flight and those unsent in the send ring are *)
(* in this order exactly the frames of the commands not yet executed.      *)
(***************************************************************************)
BytesUnsent == PendingBytes(sendBuffer, sendWritePoint, sendReadPoint)
BytesUnread == PendingBytes(recvBuffer, recvWritePoint, recvReadPoint)
InTransit == BytesUnread \o wire \o BytesUnsent

UndeliveredSize == offset[Len(sent) + 1] - offset[Len(delivered) + 1]

FrameInTransit(k) ==
  LET start == offset[k] - offset[Len(delivered) + 1]
      frame == Frame(k, sent[k])
  IN  SubSeq(InTransit, start + 1, start + Len(frame)) = frame

NothingLost ==
  ~mismatch => /\ Len(delivered) <= Len(sent)
               /\ Len(InTransit) = UndeliveredSize
               /\ \A k \in Len(delivered) + 1 .. Len(sent) : FrameInTransit(k)

(***************************************************************************)
(* Whatever the bytes say, both rings hand them on in order: the send ring *)
(* to the stream, behind what is in flight, with each command appended     *)
(* last; and the stream to the receive ring as long as the ring holds it,  *)
(* which RecvToBuffer does not test.                                       *)
(***************************************************************************)
KeptOnTheWayOut ==
  UNCHANGED recvVars =>
    (wire \o BytesUnsent)'
      = wire \o BytesUnsent \o (IF sent' = sent THEN <<>> ELSE Frame(sendCount', Last(sent')))

KeptOnTheWayIn ==
  LET taken == Len(wire) - Len(wire')
      holds == recvReadPoint \in Point /\ Unread + taken < BufferSize
  IN  UNCHANGED <<sendVars, recvReadPoint>> /\ holds
        => (BytesUnread \o wire)' = BytesUnread \o wire

BytesInOrder == [][KeptOnTheWayOut /\ KeptOnTheWayIn]_vars

(***************************************************************************)
(* The check of sendCount never fires: it closes the connection "due to an *)
(* internal error" (tunnel-common.cpp 389) that must not happen.           *)
(***************************************************************************)
NoInternalError == ~mismatch

(***************************************************************************)
(* It never does while the payloads are plain: no payload holds a          *)
(* terminator and no command is longer than the array it is copied to.     *)
(***************************************************************************)
Plain(data) == /\ Len(data) + MinCommand <= MaxSize
               /\ \A k \in 1 .. Len(data) - 1 : ~(data[k] = LT /\ data[k + 1] = GT)

PlainSent == \A k \in 1 .. Len(sent) : Plain(sent[k])

NoInternalErrorIfPlain == PlainSent => NoInternalError

(***************************************************************************)
(* Nor does it show where TCP has cut the stream: while the payloads are   *)
(* plain every step is one of the channel, Commands.                       *)
(***************************************************************************)
ChannelIfPlain == [][PlainSent => Commands!Next]_<<sent, delivered>>

(***************************************************************************)
(* RecvCommandSize returns, in every state of the ring: the unbounded      *)
(* memchr past the end of the ring (line 291) never runs off the ring and  *)
(* never meets the same stale '<' for ever.                                *)
(***************************************************************************)
ScanEnds == Executing => Found # Lost

(***************************************************************************)
(* What RecvCommandSize reports is a command that has arrived: no larger   *)
(* than what is unread, and ended by the first terminator in it.  When     *)
(* there is none it is to return -1 ("there is no '<'", lines 293, 300).   *)
(***************************************************************************)
OnlyArrivedCommands ==
  Executing /\ Found >= MinCommand => Found = WholeCommandSize(BytesUnread)

(***************************************************************************)
(* A command that is too long is thrown away ("I will through this         *)
(* command", line 356) and the connection goes on without it.              *)
(***************************************************************************)
SkipIsHarmless == dropped > 0 => ~mismatch

(***************************************************************************)
(* What SendCommand writes never passes the read point: no byte that waits *)
(* in the send ring is overwritten ("I have not been able to make a buffer *)
(* overflow error", tunnel-common.cpp 572-573).                            *)
(***************************************************************************)
NoSendOverflow ==
  link = "up" /\ senderState = "CONNECTED" /\ ~mismatch
    => Len(InTransit) = UndeliveredSize

(***************************************************************************)
(* RecvAndExecCommand leaves its loop only when no whole command is left   *)
(* in the receive ring ("Repeated as long as there is a command in the     *)
(* receive buffer", tunnel-common.cpp 472).                                *)
(***************************************************************************)
RingDrained ==
  rpc = "wait" /\ receiverState = "CONNECTED"
    => WholeCommandSize(BytesUnread) = NoCommand

(***************************************************************************)
(* Whatever the rings do to the bytes, no command is executed twice or     *)
(* after a later one: the number check of RecvCommand sees to it, unless a *)
(* piece of a payload has passed for a command with the number 0, which    *)
(* counts as none (tunnel-common.cpp 381).                                 *)
(***************************************************************************)
ExecutedInOrder ==
  \A i, j \in 1 .. Len(delivered) :
    i < j => delivered[i].sendCount < delivered[j].sendCount

(***************************************************************************)
(* A thread that finds the send ring blocked (sendState 1) may leave its   *)
(* command to others: someone is inside SendFromBuffer, or FD_WRITE is due *)
(* or being served.                                                        *)
(***************************************************************************)
BlockedIsWatched ==
  senderState = "CONNECTED" /\ sendState = 1
    => \/ sendSection # NoThread
       \/ fdWrite
       \/ \E t \in Threads : pc[t] = "flush"

(***************************************************************************)
(* Every command numbered by SendCommand is executed by the peer, as long  *)
(* as the connection lives: also the part beyond the end of the ring that  *)
(* SendFromBuffer leaves behind, and the command of a thread that lost the *)
(* race for sendState.                                                     *)
(***************************************************************************)
Alive == senderState = "CONNECTED" /\ receiverState = "CONNECTED" /\ link = "up"

CommandsArrive ==
  \A k \in 1 .. MaxCommands :
    Len(sent) >= k ~> (Len(delivered) >= k \/ ~Alive)
=============================================================================
