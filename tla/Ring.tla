-------------------------------- MODULE Ring --------------------------------
(***************************************************************************)
(* The ring buffers of SOCKET_EX (tunnel-common.h 57-100) and the pointer  *)
(* arithmetic of tunnel-common.cpp over them.  A ring is a function from   *)
(* 0..BufferSize-1 to bytes.  A point (sendReadPoint, sendWritePoint,      *)
(* recvReadPoint, recvWritePoint) lies in 0..BufferSize: the code wraps it *)
(* only when it EXCEEDS the size, so 0 and BufferSize name the same cell   *)
(* and a ring that is full may look empty.                                 *)
(*                                                                         *)
(* A byte is an integer.  What the code tells apart is the terminator      *)
(* eof = "<E>\0", here the two distinct bytes LT and GT, and the header,   *)
(* here the single byte that holds DATA_HEADER.sendCount (a positive       *)
(* number).  Every other byte is payload.                                  *)
(***************************************************************************)
EXTENDS Integers, Sequences

CONSTANT BufferSize \* 65536 in EstablishConnection and AcceptConnection

ASSUME BufferSizeAssumption == BufferSize \in Nat \ {0}

LT == -1 \* '<', the byte memchr looks for
GT == -2 \* 'E' '>' '\0', the bytes memcmp compares after it
Eof == <<LT, GT>>

HeaderSize == 1 \* sizeof(DATA_HEADER), abstracted to its sendCount
EofSize == 2    \* sizeof(eof)
MinCommand == HeaderSize + EofSize

Point == 0 .. BufferSize
Cell == 0 .. BufferSize - 1

(***************************************************************************)
(* RecvPacketSize, SendPacketSize, SendCommandSize: the bytes between the  *)
(* read point and the write point.                                         *)
(***************************************************************************)
Pending(write, read) ==
  LET size == write - read IN IF size < 0 THEN size + BufferSize ELSE size

(***************************************************************************)
(* SendBufferMove, RecvBufferMove.                                         *)
(***************************************************************************)
Move(point, size) ==
  LET newPoint == point + size
  IN  IF newPoint > BufferSize THEN newPoint - BufferSize ELSE newPoint

(***************************************************************************)
(* The cell that the k-th byte (from 0) of a copy that starts at a point   *)
(* lands in, and its inverse, the distance of a cell from the point.       *)
(***************************************************************************)
CellOf(start, k) ==
  IF start + k < BufferSize THEN start + k ELSE start + k - BufferSize

Distance(start, i) == IF i < start THEN i - start + BufferSize ELSE i - start

\* Wrong: the part that does not fit before the end of the ring is forgotten.
WrittenOnce(ring, start, data) ==
  [i \in Cell |-> IF start <= i /\ i - start < Len(data)
                  THEN data[i - start + 1] ELSE ring[i]]

(***************************************************************************)
(* SendBufferCopy: data written over the ring from start on, the part that *)
(* does not fit before the end of the ring at its beginning.               *)
(* RecvBufferCopy: size bytes read the same way.  Both for data no longer  *)
(* than the ring.                                                          *)
(***************************************************************************)
Written(ring, start, data) ==
  [i \in Cell |-> IF Distance(start, i) < Len(data)
                  THEN data[Distance(start, i) + 1]
                  ELSE ring[i]]

Copied(ring, start, size) == [k \in 1 .. size |-> ring[CellOf(start, k - 1)]]

(***************************************************************************)
(* A terminator starts in cell i: the memcmp of RecvCommandSize, which     *)
(* goes on at the beginning of the ring past its end, and looks at cells   *)
(* whether or not they hold received bytes.                                *)
(***************************************************************************)
EofAt(ring, i) == /\ ring[i] = LT
                  /\ ring[CellOf(i, 1)] = GT

FirstOf(S) == CHOOSE i \in S : \A j \in S : i <= j

Eofs(ring, lo, hi) == {i \in Cell : lo <= i /\ i < hi /\ EofAt(ring, i)}

(***************************************************************************)
(* The outcomes of RecvCommandSize that are not a size: NoCommand is its   *)
(* -1; Lost stands for a scan that cannot end well: past the last received *)
(* byte it reads on from the start of the ring with a length (size - last) *)
(* that is negative and so unbounded, and either loops over the same stale *)
(* '<' for ever or runs off the end of the ring.                           *)
(***************************************************************************)
NoCommand == -1
Lost == -2

SizeTo(read, i) == Distance(read, i) + EofSize

(***************************************************************************)
(* The scan for the first terminator, from cell lo up to cell hi: the      *)
(* bounded memchr calls of RecvCommandSize.                                *)
(***************************************************************************)
ScanTo(ring, read, lo, hi) ==
  IF Eofs(ring, lo, hi) = {} THEN NoCommand
  ELSE SizeTo(read, FirstOf(Eofs(ring, lo, hi)))

\* Wrong: the scan stops at the end of the ring.
ScanStops(ring, read, write) == NoCommand

(***************************************************************************)
(* The scan after it passed the end of the ring: memchr(.., size - last)   *)
(* from cell 0.  Once it meets a '<' before the write point the following  *)
(* calls are bounded by the write point again; otherwise it takes a stale  *)
(* terminator beyond the write point.                                      *)
(***************************************************************************)
ScanFromStart(ring, read, write) ==
  IF \E i \in Cell : i < write /\ ring[i] = LT THEN ScanTo(ring, read, 0, write)
  ELSE IF Eofs(ring, write, BufferSize) = {} THEN Lost
  ELSE ScanTo(ring, read, write, BufferSize)

\* Wrong: the scan starts whatever the size, and passes the end of the ring
\* whenever it finds nothing.
CommandSizeUnguarded(ring, write, read) ==
  IF Pending(write, read) = 0 THEN NoCommand
  ELSE IF Eofs(ring, read, BufferSize) # {} THEN ScanTo(ring, read, read, BufferSize)
  ELSE ScanFromStart(ring, read, write)

(***************************************************************************)
(* RecvCommandSize: the size of the first command after the read point,    *)
(* terminator included.                                                    *)
(***************************************************************************)
CommandSize(ring, write, read) ==
  IF Pending(write, read) < MinCommand THEN NoCommand
  ELSE IF read <= write THEN ScanTo(ring, read, read, write)
  ELSE IF Eofs(ring, read, BufferSize) # {} THEN ScanTo(ring, read, read, BufferSize)
  ELSE ScanFromStart(ring, read, write)

(***************************************************************************)
(* What RecvCommandSize is there to find, stated on the pending bytes in   *)
(* the order they were received: the place of the first whole terminator.  *)
(***************************************************************************)
PendingBytes(ring, write, read) == Copied(ring, read, Pending(write, read))

EofPlaces(bytes) ==
  {k \in 1 .. Len(bytes) : k < Len(bytes) /\ bytes[k] = LT /\ bytes[k + 1] = GT}

WholeCommandSize(bytes) ==
  IF Len(bytes) < MinCommand \/ EofPlaces(bytes) = {} THEN NoCommand
  ELSE FirstOf(EofPlaces(bytes)) + EofSize - 1
=============================================================================
