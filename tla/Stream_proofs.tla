---------------------------- MODULE Stream_proofs ---------------------------
(***************************************************************************)
(* A connection, for every size of ring, any number of threads that send,  *)
(* any payloads and any cuts of the stream: the rings hand the bytes on in *)
(* order, no command is executed twice or late, and a thread that leaves   *)
(* its command in the ring because sendState says that it is blocked       *)
(* leaves it to somebody.  While no payload holds a terminator the         *)
(* connection implements Channel, as long as the scan for terminators is   *)
(* not misled by those of earlier laps; the last part says when it is not. *)
(* The pointer arithmetic of the rings comes first.                        *)
(***************************************************************************)
EXTENDS Stream, SequenceTheorems, WellFoundedInduction, TLAPS

\* SendPacketSize and RecvPacketSize stay within the ring.
LEMMA PendingType ==
  ASSUME NEW w \in Point, NEW r \in Point
  PROVE  Pending(w, r) \in 0 .. BufferSize
BY BufferSizeAssumption DEF Pending, Point

\* SendBufferMove and RecvBufferMove keep a point within the ring, which
\* covers both of its names for the first cell.
LEMMA MoveType ==
  ASSUME NEW w \in Point, NEW s \in 0 .. BufferSize
  PROVE  Move(w, s) \in Point
BY BufferSizeAssumption DEF Move, Point

\* What SendCommand appends is counted, as long as it does not fill the ring:
\* a ring that is filled to the last byte counts as empty.
LEMMA PendingAfterWrite ==
  ASSUME NEW w \in Point, NEW r \in Point, NEW s \in Nat,
         Pending(w, r) + s < BufferSize
  PROVE  Pending(Move(w, s), r) = Pending(w, r) + s
BY BufferSizeAssumption DEF Pending, Move, Point

\* What SendFromBuffer takes from the first cell of a chunk on is counted,
\* also when the read point stands at the end of the ring.  (With nothing
\* pending and both points at the end it would not be.)
LEMMA PendingAfterRead ==
  ASSUME NEW w \in Point, NEW r \in Point, NEW n \in Nat,
         0 < Pending(w, r), Pending(w, r) < BufferSize,
         NEW start \in Point, start = IF r = BufferSize THEN 0 ELSE r,
         n <= Pending(w, r), start + n <= BufferSize
  PROVE  Pending(w, start + n) = Pending(w, r) - n
BY BufferSizeAssumption DEF Pending, Point

\* A copy finds its k-th byte in a cell of the ring, at distance k.
LEMMA CellOfType ==
  ASSUME NEW start \in Point, NEW k \in Cell
  PROVE  CellOf(start, k) \in Cell
BY BufferSizeAssumption DEF CellOf, Point, Cell

LEMMA DistanceOfCell ==
  ASSUME NEW start \in Point, NEW k \in Cell
  PROVE  Distance(start, CellOf(start, k)) = k
BY BufferSizeAssumption DEF Distance, CellOf, Point, Cell

LEMMA DistanceType ==
  ASSUME NEW start \in Point, NEW i \in Cell
  PROVE  Distance(start, i) \in Cell
BY BufferSizeAssumption DEF Distance, Point, Cell

LEMMA WrittenType ==
  ASSUME NEW cells \in [Cell -> Int], NEW start \in Point, NEW data \in Seq(Int)
  PROVE  Written(cells, start, data) \in [Cell -> Int]
<1>1. SUFFICES ASSUME NEW i \in Cell
               PROVE (IF Distance(start, i) < Len(data)
                      THEN data[Distance(start, i) + 1] ELSE cells[i]) \in Int
  BY DEF Written
<1>2. Distance(start, i) \in Nat
  BY DistanceType, BufferSizeAssumption DEF Cell
<1>3. QED
  BY <1>2

LEMMA CopiedType ==
  ASSUME NEW cells \in [Cell -> Int], NEW start \in Point, NEW size \in 0 .. BufferSize
  PROVE  /\ Copied(cells, start, size) \in Seq(Int)
         /\ Len(Copied(cells, start, size)) = size
<1>1. \A k \in 1 .. size : k - 1 \in Cell
  BY BufferSizeAssumption DEF Cell
<1>2. \A k \in 1 .. size : cells[CellOf(start, k - 1)] \in Int
  BY <1>1, CellOfType
<1>3. Copied(cells, start, size) \in [1 .. size -> Int]
  BY <1>2 DEF Copied
<1>4. QED
  BY <1>3, BufferSizeAssumption

\* RecvBufferCopy gives back what SendBufferCopy wrote, wherever in the ring
\* it starts and whether or not it goes on at the beginning of the ring.
LEMMA RoundTrip ==
  ASSUME NEW cells \in [Cell -> Int], NEW start \in Point, NEW data \in Seq(Int),
         Len(data) <= BufferSize
  PROVE  Copied(Written(cells, start, data), start, Len(data)) = data
<1> DEFINE written == Written(cells, start, data)
<1>1. Len(data) \in 0 .. BufferSize
  BY BufferSizeAssumption
<1>2. written \in [Cell -> Int]
  BY WrittenType
<1>3. ASSUME NEW k \in 1 .. Len(data)
      PROVE  written[CellOf(start, k - 1)] = data[k]
  <2>1. k - 1 \in Cell
    BY <1>1, BufferSizeAssumption DEF Cell
  <2>2. CellOf(start, k - 1) \in Cell
    BY <2>1, CellOfType
  <2>3. Distance(start, CellOf(start, k - 1)) = k - 1
    BY <2>1, DistanceOfCell
  <2>4. QED
    BY <2>2, <2>3, <1>1 DEF Written
<1>4. Copied(written, start, Len(data)) = [k \in 1 .. Len(data) |-> data[k]]
  BY <1>3 DEF Copied
<1>5. QED
  BY <1>4

\* SendCommand leaves alone the bytes that wait to be sent, as long as what
\* it appends fits behind them.
LEMMA WriteKeepsPending ==
  ASSUME NEW cells \in [Cell -> Int], NEW w \in Point, NEW r \in Point,
         NEW data \in Seq(Int),
         Pending(w, r) + Len(data) <= BufferSize
  PROVE  PendingBytes(Written(cells, w, data), w, r) = PendingBytes(cells, w, r)
<1> DEFINE written == Written(cells, w, data)
<1>1. Pending(w, r) \in 0 .. BufferSize
  BY PendingType
<1>2. ASSUME NEW k \in 1 .. Pending(w, r)
      PROVE  written[CellOf(r, k - 1)] = cells[CellOf(r, k - 1)]
  <2>1. k - 1 \in Cell
    BY <1>1, BufferSizeAssumption DEF Cell
  <2>2. CellOf(r, k - 1) \in Cell
    BY <2>1, CellOfType
  <2>3. ~(Distance(w, CellOf(r, k - 1)) < BufferSize - Pending(w, r))
    BY <1>1, <2>1, BufferSizeAssumption DEF Distance, CellOf, Pending, Point, Cell
  <2>4. Distance(w, CellOf(r, k - 1)) \in Cell
    BY <2>2, DistanceType
  <2>5. ~(Distance(w, CellOf(r, k - 1)) < Len(data))
    BY <2>3, <2>4, <1>1, BufferSizeAssumption DEF Cell
  <2>6. QED
    BY <2>2, <2>5 DEF Written
<1>3. QED
  BY <1>2 DEF PendingBytes, Copied

\* Both rings are queues: what is appended comes after what waits,
LEMMA AppendsToPending ==
  ASSUME NEW cells \in [Cell -> Int], NEW w \in Point, NEW r \in Point,
         NEW data \in Seq(Int),
         Pending(w, r) + Len(data) < BufferSize
  PROVE  PendingBytes(Written(cells, w, data), Move(w, Len(data)), r)
           = PendingBytes(cells, w, r) \o data
<1> DEFINE written == Written(cells, w, data)
           p == Pending(w, r)
           waits == PendingBytes(cells, w, r)
           after == waits \o data
<1>1. p \in 0 .. BufferSize /\ Len(data) \in Nat
  BY PendingType
<1>2. Pending(Move(w, Len(data)), r) = p + Len(data)
  BY PendingAfterWrite
<1>3. /\ waits \in Seq(Int) /\ Len(waits) = p
      /\ \A k \in 1 .. p : waits[k] = cells[CellOf(r, k - 1)]
  BY <1>1, CopiedType, SMTT(30) DEF PendingBytes, Copied
<1> HIDE DEF waits
<1>4. /\ after \in Seq(Int) /\ Len(after) = p + Len(data)
      /\ \A k \in 1 .. p : after[k] = cells[CellOf(r, k - 1)]
      /\ \A k \in p + 1 .. p + Len(data) : after[k] = data[k - p]
  <2>1. /\ after \in Seq(Int) /\ Len(after) = p + Len(data)
        /\ \A k \in 1 .. p + Len(data) :
             after[k] = IF k <= p THEN waits[k] ELSE data[k - p]
    <3>1. /\ waits \o data \in Seq(Int) /\ Len(waits \o data) = Len(waits) + Len(data)
          /\ \A k \in 1 .. Len(waits) + Len(data) :
               (waits \o data)[k] = IF k <= Len(waits) THEN waits[k] ELSE data[k - Len(waits)]
      BY <1>3, ConcatProperties, Zenon
    <3> HIDE DEF p
    <3> QED
      BY <1>3, <3>1
  <2> HIDE DEF p, after
  <2> QED
    BY <1>1, <1>3, <2>1, SMTT(30)
<1>5. ASSUME NEW k \in 1 .. p + Len(data)
      PROVE  written[CellOf(r, k - 1)] = after[k]
  <2>1. k - 1 \in Cell
    BY <1>1, BufferSizeAssumption DEF Cell
  <2>2. CellOf(r, k - 1) \in Cell
    BY <2>1, CellOfType
  <2>3. written[CellOf(r, k - 1)] = IF Distance(w, CellOf(r, k - 1)) < Len(data)
                                    THEN data[Distance(w, CellOf(r, k - 1)) + 1]
                                    ELSE cells[CellOf(r, k - 1)]
    BY <2>2 DEF Written
  <2>4. CASE k <= p
    <3>1. ~(Distance(w, CellOf(r, k - 1)) < Len(data))
      BY <1>1, <2>1, <2>4, BufferSizeAssumption DEF Distance, CellOf, Pending, Point, Cell
    <3> QED
      BY <1>4, <2>3, <2>4, <3>1
  <2>5. CASE p < k
    <3>1. Distance(w, CellOf(r, k - 1)) = k - 1 - p
      BY <1>1, <2>1, <2>5, BufferSizeAssumption DEF Distance, CellOf, Pending, Point, Cell
    <3> HIDE DEF p, after, written
    <3>2. k \in p + 1 .. p + Len(data) /\ k - 1 - p < Len(data) /\ k - 1 - p + 1 = k - p
      BY <1>1, <2>5
    <3> QED
      BY <1>4, <2>3, <3>1, <3>2
  <2>6. k <= p \/ p < k
    BY <1>1
  <2> QED
    BY <2>4, <2>5, <2>6
<1> HIDE DEF written, after, p
<1>6. PendingBytes(written, Move(w, Len(data)), r)
        = [k \in 1 .. p + Len(data) |-> written[CellOf(r, k - 1)]]
  BY <1>2 DEF PendingBytes, Copied
<1>7. after = [k \in 1 .. p + Len(data) |-> after[k]]
  BY <1>1, <1>4
<1> QED
  BY <1>5, <1>6, <1>7 DEF written, after, waits

\* and what is taken from the read point on was first, the rest is next.
LEMMA TakesFromPending ==
  ASSUME NEW cells \in [Cell -> Int], NEW w \in Point, NEW r \in Point, NEW n \in Nat,
         0 < Pending(w, r), Pending(w, r) < BufferSize,
         NEW start \in Point, r = BufferSize => start = 0, r # BufferSize => start = r,
         n <= Pending(w, r), start + n <= BufferSize
  PROVE  PendingBytes(cells, w, r) = Copied(cells, start, n) \o PendingBytes(cells, w, start + n)
<1> DEFINE p == Pending(w, r)
           first == Copied(cells, start, n)
           rest == PendingBytes(cells, w, start + n)
           whole == PendingBytes(cells, w, r)
<1>1. p \in 0 .. BufferSize /\ n \in 0 .. BufferSize /\ start + n \in Point
  <2>1. p \in 0 .. BufferSize
    BY PendingType
  <2> HIDE DEF p
  <2> QED
    BY <2>1, BufferSizeAssumption DEF Point, p
<1>2. Pending(w, start + n) = p - n
  BY PendingAfterRead
<1>3. /\ first \in Seq(Int) /\ Len(first) = n
      /\ \A k \in 1 .. n : first[k] = cells[CellOf(start, k - 1)]
  BY <1>1, CopiedType DEF Copied
<1>4. /\ rest \in Seq(Int) /\ Len(rest) = p - n
      /\ \A k \in 1 .. p - n : rest[k] = cells[CellOf(start + n, k - 1)]
  <2>0. n <= p
    OBVIOUS
  <2>1. p - n \in 0 .. BufferSize
    <3> HIDE DEF p
    <3> QED
      BY <1>1, <2>0, BufferSizeAssumption
  <2>2. rest = Copied(cells, start + n, p - n)
    BY <1>2 DEF PendingBytes
  <2> HIDE DEF p, rest
  <2> QED
    BY <1>1, <2>1, <2>2, CopiedType DEF Copied
<1>5. /\ whole \in Seq(Int) /\ Len(whole) = p
      /\ \A k \in 1 .. p : whole[k] = cells[CellOf(r, k - 1)]
  BY <1>1, CopiedType DEF PendingBytes, Copied
<1>6. n <= p
  OBVIOUS
<1> HIDE DEF p, first, rest, whole
<1>7. /\ first \o rest \in Seq(Int) /\ Len(first \o rest) = p
      /\ \A k \in 1 .. p : (first \o rest)[k] = IF k <= n THEN first[k] ELSE rest[k - n]
  <2>1. n + (p - n) = p
    BY <1>1
  <2>2. /\ first \o rest \in Seq(Int) /\ Len(first \o rest) = Len(first) + Len(rest)
        /\ \A k \in 1 .. Len(first) + Len(rest) :
             (first \o rest)[k] = IF k <= Len(first) THEN first[k] ELSE rest[k - Len(first)]
    BY <1>3, <1>4, ConcatProperties
  <2>3. Len(first) + Len(rest) = p
    BY <1>3, <1>4, <2>1
  <2> QED
    BY <1>3, <2>2, <2>3
<1>8. ASSUME NEW k \in 1 .. p
      PROVE  whole[k] = (first \o rest)[k]
  <2>1. CASE k <= n
    <3>1. CellOf(start, k - 1) = CellOf(r, k - 1) /\ k \in 1 .. n
      BY <1>1, <2>1, BufferSizeAssumption DEF CellOf, Point
    <3> QED
      BY <1>3, <1>5, <1>7, <2>1, <3>1
  <2>2. CASE n < k
    <3>1. CellOf(start + n, k - n - 1) = CellOf(r, k - 1)
      BY <1>1, <2>2, BufferSizeAssumption DEF CellOf, Point, p
    <3>2. k - n \in 1 .. p - n /\ ~(k <= n)
      BY <1>1, <2>2
    <3> QED
      BY <1>4, <1>5, <1>7, <3>1, <3>2
  <2>3. k <= n \/ n < k
    BY <1>1
  <2> QED
    BY <2>1, <2>2, <2>3
<1>9. whole = first \o rest
  BY <1>5, <1>7, <1>8, SeqEqual
<1> QED
  BY <1>9 DEF whole, first, rest
-----------------------------------------------------------------------------
\* RecvCommandSize.  The first of the places it has found is one of them.
LEMMA FirstOfNats ==
  ASSUME NEW S \in SUBSET Nat, S # {}
  PROVE  FirstOf(S) \in S /\ \A j \in S : FirstOf(S) <= j
<1> DEFINE less == {ss \in Nat \X Nat : ss[1] < ss[2]}
<1>1. IsWellFoundedOn(less, Nat)
  BY NatLessThanWellFounded DEF OpToRel
<1>2. \E i \in S : \A j \in S : <<j, i>> \notin less
  BY <1>1, WFMin
<1>3. \E i \in S : \A j \in S : i <= j
  <2>1. PICK i \in S : \A j \in S : <<j, i>> \notin less
    BY <1>2
  <2>2. ASSUME NEW j \in S PROVE i <= j
    <3>1. i \in Nat /\ j \in Nat
      OBVIOUS
    <3>2. <<j, i>> \notin less
      BY <2>1
    <3>3. ~(j < i)
      BY <3>1, <3>2
    <3> QED
      BY <3>1, <3>3
  <2> QED
    BY <2>2
<1> QED
  BY <1>3 DEF FirstOf

LEMMA FirstOfCells ==
  ASSUME NEW S \in SUBSET Cell, S # {}
  PROVE  FirstOf(S) \in S /\ \A j \in S : FirstOf(S) <= j
<1>1. S \in SUBSET Nat
  BY BufferSizeAssumption DEF Cell
<1>2. QED
  BY <1>1, FirstOfNats

(***************************************************************************)
(* What it reports ends in the terminator of some cell, which may be of an *)
(* earlier lap.                                                            *)
(***************************************************************************)
Sizes(r) == {SizeTo(r, i) : i \in Cell}

LEMMA CommandSizeType ==
  ASSUME NEW cells \in [Cell -> Int], NEW w \in Point, NEW r \in 0 .. BufferSize + 1
  PROVE  CommandSize(cells, w, r) \in {NoCommand, Lost} \cup Sizes(r)
<1>1. ASSUME NEW lo, NEW hi
      PROVE  ScanTo(cells, r, lo, hi) \in {NoCommand} \cup Sizes(r)
  <2>1. Eofs(cells, lo, hi) \in SUBSET Cell
    BY DEF Eofs
  <2>2. CASE Eofs(cells, lo, hi) # {}
    <3>1. FirstOf(Eofs(cells, lo, hi)) \in Cell
      BY <2>1, <2>2, FirstOfCells
    <3>2. QED
      BY <2>2, <3>1 DEF ScanTo, Sizes
  <2>3. QED
    BY <2>2 DEF ScanTo
<1>2. ScanFromStart(cells, r, w) \in {NoCommand, Lost} \cup Sizes(r)
  BY <1>1 DEF ScanFromStart
<1>3. QED
  BY <1>1, <1>2 DEF CommandSize

\* So the read point moves one cell past the end of the ring at most.
LEMMA AfterCommand ==
  ASSUME NEW r \in 0 .. BufferSize + 1, NEW size \in Sizes(r)
  PROVE  size \in 1 .. BufferSize + 1 /\ Move(r, size) \in 0 .. BufferSize + 1
BY BufferSizeAssumption DEF Sizes, SizeTo, Distance, EofSize, Move, Cell

(***************************************************************************)
(* A whole command is found: when the bytes that wait, from the read point *)
(* on and past the end of the ring, begin with one that ends in their n-th *)
(* byte, RecvCommandSize reports n, whatever else lies about in the ring.  *)
(***************************************************************************)
EndsAt(bytes, n) ==
  /\ bytes[n - 1] = LT /\ bytes[n] = GT
  /\ \A j \in 1 .. n - 2 : ~(bytes[j] = LT /\ bytes[j + 1] = GT)

LEMMA FirstIs ==
  ASSUME NEW S \in SUBSET Int, NEW i \in S, \A j \in S : i <= j
  PROVE  FirstOf(S) = i
<1>1. FirstOf(S) \in S /\ \A j \in S : FirstOf(S) <= j
  BY DEF FirstOf
<1>2. i <= FirstOf(S) /\ FirstOf(S) <= i /\ FirstOf(S) \in Int
  BY <1>1
<1>3. QED
  BY <1>2

LEMMA FoundByScan ==
  ASSUME NEW cells \in [Cell -> Int], NEW r \in Point, NEW lo \in Int, NEW hi \in Int,
         NEW i \in Cell, lo <= i, i < hi, EofAt(cells, i),
         \A j \in Cell : lo <= j /\ j < i => ~EofAt(cells, j)
  PROVE  Eofs(cells, lo, hi) # {} /\ ScanTo(cells, r, lo, hi) = SizeTo(r, i)
<1> DEFINE S == Eofs(cells, lo, hi)
<1>1. S \in SUBSET Int /\ i \in S
  BY BufferSizeAssumption DEF Eofs, Cell
<1>2. \A j \in S : i <= j
  BY BufferSizeAssumption DEF Eofs, Cell
<1> HIDE DEF S
<1>3. FirstOf(S) = i
  BY <1>1, <1>2, FirstIs
<1>4. QED
  BY <1>1, <1>3 DEF ScanTo, S

LEMMA FindsWhatArrived ==
  ASSUME NEW cells \in [Cell -> Int], NEW w \in Point, NEW r \in Point,
         Pending(w, r) < BufferSize,
         NEW n \in MinCommand .. Pending(w, r), EndsAt(PendingBytes(cells, w, r), n)
  PROVE  CommandSize(cells, w, r) = n
<1> DEFINE p == Pending(w, r)
           bytes == PendingBytes(cells, w, r)
<1> USE BufferSizeAssumption
<1>1. p \in 3 .. BufferSize - 1 /\ n \in 3 .. p /\ MinCommand = 3
  <2>1. p \in 0 .. BufferSize /\ MinCommand = 3
    BY PendingType DEF MinCommand, HeaderSize, EofSize
  <2> HIDE DEF p
  <2>2. p < BufferSize /\ n \in 3 .. p
    BY <2>1 DEF p
  <2>3. QED
    BY <2>1, <2>2
<1>2. \A k \in 1 .. p : bytes[k] = cells[CellOf(r, k - 1)]
  BY DEF PendingBytes, Copied
<1>3. /\ cells[CellOf(r, n - 2)] = LT /\ cells[CellOf(r, n - 1)] = GT
      /\ \A j \in 1 .. n - 2 : ~(cells[CellOf(r, j - 1)] = LT /\ cells[CellOf(r, j)] = GT)
  <2>1. n \in 1 .. p /\ n - 1 \in 1 .. p /\ n - 1 - 1 = n - 2
    BY <1>1
  <2>2. \A j \in 1 .. n - 2 : j \in 1 .. p /\ j + 1 \in 1 .. p /\ (j + 1) - 1 = j
    BY <1>1
  <2> HIDE DEF p, bytes
  <2>3. EndsAt(bytes, n)
    BY DEF bytes
  <2>4. QED
    BY <1>2, <2>1, <2>2, <2>3 DEF EndsAt
<1>4. p = IF r <= w THEN w - r ELSE w - r + BufferSize
  BY DEF Pending, Point
<1> HIDE DEF p, bytes
<1>5. CommandSize(cells, w, r)
        = IF r <= w THEN ScanTo(cells, r, r, w)
          ELSE IF Eofs(cells, r, BufferSize) # {} THEN ScanTo(cells, r, r, BufferSize)
          ELSE ScanFromStart(cells, r, w)
  BY <1>1 DEF CommandSize, p
\* The terminator starts before the end of the ring, and no other does before it.
<1>6. CASE r + n - 2 < BufferSize
  <2> DEFINE i == r + n - 2
  <2>1. i \in Cell /\ r <= i /\ CellOf(r, n - 2) = i /\ CellOf(r, n - 1) = CellOf(i, 1)
    BY <1>1, <1>6 DEF CellOf, Cell, Point
  <2>2. EofAt(cells, i)
    BY <1>3, <2>1 DEF EofAt
  <2>3. ASSUME NEW j \in Cell, r <= j, j < i
        PROVE  ~EofAt(cells, j)
    <3>1. /\ j - r + 1 \in 1 .. n - 2
          /\ CellOf(r, (j - r + 1) - 1) = j /\ CellOf(r, j - r + 1) = CellOf(j, 1)
      BY <1>1, <1>6, <2>3 DEF CellOf, Cell, Point
    <3>2. QED
      BY <1>3, <3>1 DEF EofAt
  <2>4. SizeTo(r, i) = n
    BY <1>1, <2>1 DEF SizeTo, Distance, EofSize, Point, Cell
  <2> HIDE DEF i
  <2>5. CASE r <= w
    <3>1. i < w
      BY <1>1, <1>4, <2>5 DEF i, Point
    <3>2. ScanTo(cells, r, r, w) = SizeTo(r, i)
      BY <2>1, <2>2, <2>3, <3>1, FoundByScan DEF Point
    <3>3. QED
      BY <1>5, <2>4, <2>5, <3>2
  <2>6. CASE ~(r <= w)
    <3>0. r \in Int /\ BufferSize \in Int /\ i < BufferSize
      BY <2>1 DEF Point, Cell
    <3>1. /\ Eofs(cells, r, BufferSize) # {}
          /\ ScanTo(cells, r, r, BufferSize) = SizeTo(r, i)
      BY <2>1, <2>2, <2>3, <3>0, FoundByScan
    <3>2. QED
      BY <1>5, <2>4, <2>6, <3>1
  <2>7. QED
    BY <2>5, <2>6
\* It lies behind the end of the ring, where the scan goes on at its beginning.
<1>7. CASE ~(r + n - 2 < BufferSize)
  <2> DEFINE i == r + n - 2 - BufferSize
  <2>1. /\ ~(r <= w) /\ i \in Cell /\ 0 <= i /\ i < w /\ i < r
        /\ CellOf(r, n - 2) = i /\ CellOf(r, n - 1) = CellOf(i, 1)
    BY <1>1, <1>4, <1>7 DEF CellOf, Cell, Point
  <2>2. EofAt(cells, i)
    BY <1>3, <2>1 DEF EofAt
  <2>3. ASSUME NEW j \in Cell, r <= j
        PROVE  ~EofAt(cells, j)
    <3>1. /\ j - r + 1 \in 1 .. n - 2
          /\ CellOf(r, (j - r + 1) - 1) = j /\ CellOf(r, j - r + 1) = CellOf(j, 1)
      BY <1>1, <1>7, <2>3 DEF CellOf, Cell, Point
    <3>2. QED
      BY <1>3, <3>1 DEF EofAt
  <2>4. ASSUME NEW j \in Cell, 0 <= j, j < i
        PROVE  ~EofAt(cells, j)
    <3>1. /\ j - r + BufferSize + 1 \in 1 .. n - 2
          /\ CellOf(r, (j - r + BufferSize + 1) - 1) = j
          /\ CellOf(r, j - r + BufferSize + 1) = CellOf(j, 1)
      BY <1>1, <1>7, <2>1, <2>4 DEF CellOf, Cell, Point
    <3>2. QED
      BY <1>3, <3>1 DEF EofAt
  <2>5. SizeTo(r, i) = n
    BY <1>1, <2>1 DEF SizeTo, Distance, EofSize, Point, Cell
  <2> HIDE DEF i
  <2>6. Eofs(cells, r, BufferSize) = {}
    BY <2>3 DEF Eofs
  <2>7. ScanTo(cells, r, 0, w) = SizeTo(r, i)
    BY <2>1, <2>2, <2>4, FoundByScan DEF Point
  <2>8. ScanFromStart(cells, r, w) = ScanTo(cells, r, 0, w)
    BY <2>1, <2>2 DEF ScanFromStart, EofAt
  <2>9. QED
    BY <1>5, <2>1, <2>5, <2>6, <2>7, <2>8
<1>8. QED
  BY <1>6, <1>7

\* The same place is what there is to find, and with no terminator there is none.
LEMMA WholeCommandIs ==
  ASSUME NEW bytes \in Seq(Int), NEW n \in MinCommand .. Len(bytes), EndsAt(bytes, n)
  PROVE  WholeCommandSize(bytes) = n
<1>1. Len(bytes) \in Nat /\ MinCommand = 3 /\ EofSize = 2
  BY DEF MinCommand, HeaderSize, EofSize
<1>2. EofPlaces(bytes) \in SUBSET Int /\ n - 1 \in EofPlaces(bytes)
  BY <1>1 DEF EofPlaces, EndsAt
<1>3. ASSUME NEW k \in EofPlaces(bytes) PROVE n - 1 <= k
  BY <1>1, <1>3 DEF EofPlaces, EndsAt
<1>4. FirstOf(EofPlaces(bytes)) = n - 1
  BY <1>2, <1>3, FirstIs
<1>5. QED
  BY <1>1, <1>2, <1>4 DEF WholeCommandSize

\* Without the first n of the bytes that wait, the others are one by one the rest.
IsRest(rest, n, whole) ==
  /\ Len(rest) = Len(whole) - n
  /\ \A k \in 1 .. Len(rest) : rest[k] = whole[n + k]

LEMMA RestOfPending ==
  ASSUME NEW cells \in [Cell -> Int], NEW w \in Point, NEW r \in Point,
         Pending(w, r) < BufferSize, NEW n \in 1 .. Pending(w, r)
  PROVE  /\ Move(r, n) \in Point
         /\ Pending(w, Move(r, n)) = Pending(w, r) - n
         /\ IsRest(PendingBytes(cells, w, Move(r, n)), n, PendingBytes(cells, w, r))
<1> DEFINE p == Pending(w, r)
<1> USE BufferSizeAssumption
<1>1. p \in 1 .. BufferSize - 1 /\ n \in 1 .. p /\ p \in 0 .. BufferSize
  <2>1. p \in 0 .. BufferSize
    BY PendingType
  <2> HIDE DEF p
  <2>2. p < BufferSize /\ n \in 1 .. p
    BY DEF p
  <2>3. QED
    BY <2>1, <2>2
<1>2. Move(r, n) \in Point /\ Pending(w, Move(r, n)) = p - n
  BY <1>1 DEF Pending, Move, Point
<1> HIDE DEF p
<1>3. p - n \in 0 .. BufferSize
  BY <1>1
<1>4. /\ Len(PendingBytes(cells, w, r)) = p
      /\ \A k \in 1 .. p : PendingBytes(cells, w, r)[k] = cells[CellOf(r, k - 1)]
  <2>1. PendingBytes(cells, w, r) = Copied(cells, r, p)
    BY DEF PendingBytes, p
  <2>2. QED
    BY <1>1, <2>1, CopiedType DEF Copied
<1>5. /\ Len(PendingBytes(cells, w, Move(r, n))) = p - n
      /\ \A k \in 1 .. p - n :
           PendingBytes(cells, w, Move(r, n))[k] = cells[CellOf(Move(r, n), k - 1)]
  <2>1. PendingBytes(cells, w, Move(r, n)) = Copied(cells, Move(r, n), p - n)
    BY <1>2 DEF PendingBytes
  <2>2. QED
    BY <1>2, <1>3, <2>1, CopiedType DEF Copied
<1>6. ASSUME NEW k \in 1 .. p - n
      PROVE  CellOf(Move(r, n), k - 1) = CellOf(r, (n + k) - 1) /\ n + k \in 1 .. p
  BY <1>1, <1>6 DEF CellOf, Move, Point
<1>7. QED
  BY <1>2, <1>4, <1>5, <1>6 DEF IsRest, p

LEMMA RestGoesOn ==
  ASSUME NEW whole \in Seq(Int), NEW rest \in Seq(Int), NEW more \in Seq(Int), NEW n \in Nat,
         IsRest(rest, n, whole)
  PROVE  IsRest(rest \o more, n, whole \o more)
<1>1. /\ Len(rest) = Len(whole) - n /\ Len(whole) \in Nat /\ Len(rest) \in Nat
      /\ Len(more) \in Nat
  BY DEF IsRest
<1>2. /\ Len(rest \o more) = Len(rest) + Len(more)
      /\ \A k \in 1 .. Len(rest) + Len(more) :
           (rest \o more)[k] = IF k <= Len(rest) THEN rest[k] ELSE more[k - Len(rest)]
  BY ConcatProperties
<1>3. /\ Len(whole \o more) = Len(whole) + Len(more)
      /\ \A k \in 1 .. Len(whole) + Len(more) :
           (whole \o more)[k] = IF k <= Len(whole) THEN whole[k] ELSE more[k - Len(whole)]
  BY ConcatProperties
<1>4. ASSUME NEW k \in 1 .. Len(rest) + Len(more)
      PROVE  (rest \o more)[k] = (whole \o more)[n + k]
  <2>1. n + k \in 1 .. Len(whole) + Len(more)
    BY <1>1
  <2>2. CASE k <= Len(rest)
    <3>1. n + k <= Len(whole) /\ k \in 1 .. Len(rest)
      BY <1>1, <2>2
    <3>2. QED
      BY <1>2, <1>3, <2>1, <2>2, <3>1 DEF IsRest
  <2>3. CASE ~(k <= Len(rest))
    <3>1. ~(n + k <= Len(whole)) /\ (n + k) - Len(whole) = k - Len(rest)
      BY <1>1, <2>3
    <3>2. QED
      BY <1>2, <1>3, <2>1, <2>3, <3>1
  <2>4. QED
    BY <2>2, <2>3
<1>5. Len(rest \o more) = Len(whole \o more) - n
  BY <1>1, <1>2, <1>3
<1>6. QED
  BY <1>2, <1>4, <1>5 DEF IsRest
-----------------------------------------------------------------------------

(***************************************************************************)
(* The inductive invariant.  One thread is inside SendFromBuffer's loop;   *)
(* its chunk lies before the end of the ring, starts at the read point and *)
(* is unsent; the ring is never full, as a full ring would count as empty; *)
(* and while sendState is 1 outside the section there is something left to *)
(* send and an event or a thread that will, unless an earlier connection   *)
(* has left it so.                                                         *)
(***************************************************************************)
InLoop(t) == pc[t] \in {"sending", "more"}

OneInLoop ==
  /\ \A t \in Threads : InLoop(t) <=> sendSection = t
  /\ \A t \in Threads : pc[t] = "sending" => sendState = 1

ChunkUnsent ==
  sendSection # NoThread =>
    /\ chunk.start = IF sendReadPoint = BufferSize THEN 0 ELSE sendReadPoint
    /\ chunk.start + chunk.last <= BufferSize
    /\ 0 < chunk.last /\ chunk.last <= Backlog

NeverFull == Backlog < BufferSize

LeftToSomebody ==
  1 \notin LeftStates /\ sendState = 1 /\ sendSection = NoThread =>
    /\ Backlog > 0
    /\ fdWrite \/ \E t \in Threads : pc[t] = "flush"

ReceiverTypes == recvWritePoint \in Point

SendInv ==
  /\ SendTypeOK /\ WireTypeOK /\ ReceiverTypes
  /\ OneInLoop /\ ChunkUnsent /\ NeverFull /\ LeftToSomebody
-----------------------------------------------------------------------------
LEMMA FrameType ==
  ASSUME NEW count \in Nat, NEW data \in Seq(Int)
  PROVE  Frame(count, data) \in Seq(Int) /\ Len(Frame(count, data)) = Len(data) + 3
BY DEF Frame, Eof, LT, GT

LEMMA TransferRange ==
  ASSUME NEW len \in Int, NEW limit \in Int, NEW n \in Transfers(len, limit)
  PROVE  n \in 1 .. len /\ n <= limit
BY DEF Transfers

LEMMA SendInitially ==
  ASSUME Init
  PROVE  SendInv
<1> USE BufferSizeAssumption, SendSideAssumption
<1> USE DEF Init, SendInit, RecvInit, WireInit
<1>1. SendTypeOK
  BY DEF SendTypeOK, Point, Cell, Steps
<1>2. WireTypeOK /\ ReceiverTypes
  BY DEF WireTypeOK, ReceiverTypes, Point
<1>3. OneInLoop
  BY DEF OneInLoop, InLoop, Threads
<1>4. Backlog = 0
  BY DEF Backlog, Pending
<1>5. ChunkUnsent /\ NeverFull /\ LeftToSomebody
  BY <1>4 DEF ChunkUnsent, NeverFull, LeftToSomebody
<1>6. QED
  BY <1>1, <1>2, <1>3, <1>5 DEF SendInv

(***************************************************************************)
(* SendCommand is the only step that moves the write point, and it needs   *)
(* the section to itself.                                                  *)
(***************************************************************************)
LEMMA SendCommandStep ==
  ASSUME MaxBacklog < BufferSize, SendInv,
         NEW t \in Senders, NEW data \in Payloads, SendCommand(t, data),
         UNCHANGED recvVars
  PROVE  SendInv'
<1> DEFINE frame == Frame(sendCount + 1, data)
<1> USE BufferSizeAssumption, SendSideAssumption
<1>0. SendTypeOK /\ WireTypeOK /\ ReceiverTypes
  BY DEF SendInv
<1>1. frame \in Seq(Int) /\ Len(frame) \in Nat /\ Len(frame) > 0
  <2>1. sendCount + 1 \in Nat /\ data \in Seq(Int)
    BY <1>0 DEF SendTypeOK
  <2>2. frame \in Seq(Int) /\ Len(frame) = Len(data) + 3
    BY <2>1, FrameType
  <2>3. QED
    BY <2>1, <2>2
<1>2. Backlog \in 0 .. BufferSize /\ Backlog + Len(frame) < BufferSize
  <2>1. Backlog \in 0 .. BufferSize
    BY <1>0, PendingType DEF SendTypeOK, Backlog
  <2>2. Backlog + Len(frame) <= MaxBacklog
    BY DEF SendCommand
  <2>3. QED
    BY <1>1, <2>1, <2>2
<1>3. Len(frame) \in 0 .. BufferSize
  BY <1>1, <1>2
<1>4. Backlog' = Backlog + Len(frame)
  BY <1>0, <1>1, <1>2, PendingAfterWrite DEF SendTypeOK, SendCommand, Backlog
<1>5. SendTypeOK'
  <2>1. sendBuffer' \in [Cell -> Int]
    BY <1>0, <1>1, WrittenType DEF SendTypeOK, SendCommand
  <2>2. sendWritePoint' \in Point
    BY <1>0, <1>3, MoveType DEF SendTypeOK, SendCommand
  <2>3. sent' \in Seq(Seq(Int))
    BY <1>0 DEF SendTypeOK, SendCommand
  <2>4. pc' \in [Threads -> Steps] /\ status' \in [Senders -> {-1, 0, 1}]
    BY <1>0 DEF SendTypeOK, SendCommand, Goto, Threads, Steps
  <2>5. sendCount' \in Nat
    BY <1>0 DEF SendTypeOK, SendCommand
  <2>6. QED
    BY <1>0, <2>1, <2>2, <2>3, <2>4, <2>5 DEF SendTypeOK, SendCommand
<1>6. WireTypeOK' /\ ReceiverTypes'
  BY <1>0 DEF WireTypeOK, ReceiverTypes, SendCommand, recvVars
<1>7. OneInLoop'
  BY <1>0 DEF SendInv, SendTypeOK, OneInLoop, InLoop, SendCommand, Goto, Threads
<1>8. ChunkUnsent' /\ NeverFull'
  BY <1>2, <1>4 DEF ChunkUnsent, NeverFull, SendCommand
<1>9. LeftToSomebody'
  BY <1>0, <1>1, <1>2, <1>4
  DEF SendInv, SendTypeOK, LeftToSomebody, SendCommand, Goto, Threads
<1>10. QED
  BY <1>5, <1>6, <1>7, <1>8, <1>9 DEF SendInv

(***************************************************************************)
(* The steps that leave ring and section alone.                            *)
(***************************************************************************)
LEMMA SameBacklog ==
  ASSUME UNCHANGED <<sendWritePoint, sendReadPoint>>
  PROVE  Backlog' = Backlog
BY DEF Backlog, Pending

LEMMA QuietStep ==
  ASSUME SendInv, UNCHANGED recvVars,
         \/ \E t \in Senders : TestSendState(t) \/ CheckError(t)
         \/ OnFdWrite \/ OnFdRead \/ EndOfEvents \/ Disconnect
  PROVE  SendInv'
<1> USE SendSideAssumption
<1>0. SendTypeOK /\ WireTypeOK /\ ReceiverTypes
  BY DEF SendInv
<1> DEFINE Quiet == /\ UNCHANGED <<ring, sendState, sendSection, chunk, status, wire>>
                    /\ senderState' \in {"CONNECTED", "ERROR", "IDOL"}
                    /\ link' \in {"up", "fin", "reset"}
                    /\ fdWrite' \in BOOLEAN
                    /\ pc' \in [Threads -> Steps]
                    /\ \A t \in Threads : pc[t] \in {"sending", "more"} => pc'[t] = pc[t]
                    /\ \A t \in Threads : pc'[t] \in {"sending", "more"} => pc'[t] = pc[t]
                    /\ \A t \in Threads : pc[t] = "flush" => pc'[t] = pc[t]
                    /\ fdWrite' = fdWrite \/ \E t \in Threads : pc'[t] = "flush"
<1>1. Quiet
  <2>1. ASSUME NEW t \in Senders, TestSendState(t)
        PROVE  Quiet
    BY <1>0, <2>1 DEF SendTypeOK, WireTypeOK, TestSendState, Goto, Threads, Steps
  <2>2. ASSUME NEW t \in Senders, CheckError(t)
        PROVE  Quiet
    BY <1>0, <2>2 DEF SendTypeOK, WireTypeOK, CheckError, CloseSender, Goto, Threads, Steps
  <2>3. CASE OnFdWrite
    BY <1>0, <2>3 DEF SendTypeOK, WireTypeOK, OnFdWrite, Goto, Threads, Steps
  <2>4. CASE OnFdRead
    BY <1>0, <2>4 DEF SendTypeOK, WireTypeOK, OnFdRead, Goto, Threads, Steps
  <2>5. CASE EndOfEvents
    BY <1>0, <2>5 DEF SendTypeOK, WireTypeOK, EndOfEvents, CloseSender, Goto, Threads, Steps
  <2>6. CASE Disconnect
    BY <1>0, <2>6 DEF SendTypeOK, WireTypeOK, Disconnect, CloseSender, Threads, Steps
  <2>7. QED
    BY <2>1, <2>2, <2>3, <2>4, <2>5, <2>6
<1>2. Backlog' = Backlog
  BY <1>1, SameBacklog DEF ring
<1>3. SendTypeOK' /\ WireTypeOK' /\ ReceiverTypes'
  BY <1>0, <1>1 DEF SendTypeOK, WireTypeOK, ReceiverTypes, ring, recvVars
<1>4. OneInLoop'
  BY <1>1 DEF SendInv, OneInLoop, InLoop
<1>5. ChunkUnsent' /\ NeverFull'
  BY <1>1, <1>2 DEF SendInv, ChunkUnsent, NeverFull, ring
<1>6. LeftToSomebody'
  BY <1>1, <1>2 DEF SendInv, LeftToSomebody
<1>7. QED
  BY <1>3, <1>4, <1>5, <1>6 DEF SendInv

(***************************************************************************)
(* SendFromBuffer.                                                         *)
(***************************************************************************)
LEMMA BeginSendStep ==
  ASSUME SendInv, NEW t \in Threads, BeginSend(t), UNCHANGED recvVars
  PROVE  SendInv'
<1> USE BufferSizeAssumption, SendSideAssumption
<1>0. SendTypeOK /\ WireTypeOK /\ ReceiverTypes
  BY DEF SendInv
<1>1. Backlog' = Backlog
  BY SameBacklog DEF BeginSend, ring
<1>2. Backlog \in 0 .. BufferSize
  BY <1>0, PendingType DEF SendTypeOK, Backlog
<1>3. Backlog # 0 =>
        /\ FirstChunk \in [start : Point, last : 0 .. BufferSize]
        /\ FirstChunk.start = IF sendReadPoint = BufferSize THEN 0 ELSE sendReadPoint
        /\ FirstChunk.start + FirstChunk.last <= BufferSize
        /\ 0 < FirstChunk.last /\ FirstChunk.last <= Backlog
  BY <1>0, <1>2 DEF SendTypeOK, FirstChunk, Point
<1>4. SendTypeOK' /\ WireTypeOK' /\ ReceiverTypes'
  BY <1>0, <1>3 DEF SendTypeOK, WireTypeOK, ReceiverTypes, BeginSend, Return, Goto,
                    Threads, Steps, ring, recvVars
<1>5. OneInLoop'
  BY <1>0 DEF SendInv, SendTypeOK, OneInLoop, InLoop, BeginSend, Return, Goto, Threads
<1>6. ChunkUnsent' /\ NeverFull'
  BY <1>0, <1>1, <1>3 DEF SendInv, ChunkUnsent, NeverFull, BeginSend, ring
<1>7. LeftToSomebody'
  BY <1>0, <1>1 DEF SendInv, SendTypeOK, LeftToSomebody, BeginSend, Return, Goto, Threads
<1>8. QED
  BY <1>4, <1>5, <1>6, <1>7 DEF SendInv

LEMMA SendBytesStep ==
  ASSUME SendInv, NEW t \in Threads, SendBytes(t), UNCHANGED recvVars
  PROVE  SendInv'
<1> USE BufferSizeAssumption, SendSideAssumption
<1>0. SendTypeOK /\ WireTypeOK /\ ReceiverTypes
  BY DEF SendInv
<1>1. /\ pc[t] = "sending" /\ sendSection = t /\ t # NoThread
      /\ \A u \in Threads : InLoop(u) => u = t
  BY <1>0 DEF SendInv, OneInLoop, InLoop, SendBytes, Threads
<1>2. /\ chunk.start \in Point /\ chunk.last \in 0 .. BufferSize
      /\ chunk.start = IF sendReadPoint = BufferSize THEN 0 ELSE sendReadPoint
      /\ chunk.start + chunk.last <= BufferSize
      /\ 0 < chunk.last /\ chunk.last <= Backlog
  BY <1>0, <1>1 DEF SendInv, SendTypeOK, ChunkUnsent
<1>3. PICK n \in Accepted :
        /\ wire' = wire \o Copied(sendBuffer, chunk.start, n)
        /\ sendReadPoint' = chunk.start + n
        /\ chunk' = [start |-> chunk.start + n, last |-> chunk.last - n]
        /\ sendState' = 0
        /\ IF chunk.last - n = 0 THEN sendSection' = NoThread /\ Return(t)
                                 ELSE UNCHANGED sendSection /\ Goto(t, "more")
        /\ UNCHANGED <<senderState, sendBuffer, sendWritePoint, sendCount, fdWrite,
                       status, sent, offset, link>>
  BY DEF SendBytes, ChunkAfter
<1>4. n \in Nat /\ 1 <= n /\ n <= chunk.last /\ n \in 0 .. BufferSize
  BY <1>2, TransferRange DEF Accepted, Room, WireTypeOK, Transfers
<1>5. chunk.start + n \in Point
  BY <1>2, <1>4 DEF Point
<1>6. Backlog \in 0 .. BufferSize
  BY <1>0, PendingType DEF SendTypeOK, Backlog
<1>7. Backlog' = Backlog - n
  <2>1. sendWritePoint \in Point /\ sendReadPoint \in Point
    BY <1>0 DEF SendTypeOK
  <2>2. 0 < Backlog /\ Backlog < BufferSize /\ n <= Backlog /\ chunk.start + n <= BufferSize
    BY <1>2, <1>4, <1>5, <1>6 DEF SendInv, NeverFull, Point
  <2>3. Pending(sendWritePoint, chunk.start + n) = Backlog - n
    BY <1>2, <1>4, <2>1, <2>2, PendingAfterRead DEF Backlog
  <2>4. QED
    BY <1>3, <2>3 DEF Backlog
<1>8. SendTypeOK'
  <2>1. sendReadPoint' \in Point /\ chunk' \in [start : Point, last : 0 .. BufferSize]
    <3>1. chunk.last - n \in 0 .. BufferSize
      BY <1>2, <1>4
    <3>2. QED
      BY <1>3, <1>5, <3>1
  <2>2. pc' \in [Threads -> Steps] /\ sendSection' \in Threads \cup {NoThread}
    BY <1>0, <1>3 DEF SendTypeOK, Return, Goto, Steps
  <2>3. QED
    BY <1>0, <1>3, <2>1, <2>2 DEF SendTypeOK
<1>9. WireTypeOK' /\ ReceiverTypes'
  <2>1. Copied(sendBuffer, chunk.start, n) \in Seq(Int)
    BY <1>0, <1>2, <1>4, CopiedType DEF SendTypeOK
  <2>2. QED
    BY <1>0, <1>3, <2>1 DEF WireTypeOK, ReceiverTypes, recvVars
<1>10. OneInLoop'
  <2>1. ASSUME NEW u \in Threads, u # t
        PROVE  pc'[u] = pc[u] /\ ~InLoop(u) /\ ~InLoop(u)'
    BY <1>0, <1>1, <1>3, <2>1 DEF SendTypeOK, Return, Goto, InLoop
  <2>2. CASE chunk.last - n = 0
    <3>1. ~InLoop(t)' /\ sendSection' = NoThread
      BY <1>0, <1>3, <2>2 DEF SendTypeOK, Return, Goto, InLoop
    <3>2. \A u \in Threads : ~InLoop(u)' /\ sendSection' # u
      BY <2>1, <3>1 DEF Threads
    <3>3. QED
      BY <3>2 DEF OneInLoop, InLoop
  <2>3. CASE chunk.last - n # 0
    <3>1. pc'[t] = "more" /\ sendSection' = t
      BY <1>0, <1>1, <1>3, <2>3 DEF SendTypeOK, Goto
    <3>2. QED
      BY <2>1, <3>1 DEF OneInLoop, InLoop
  <2>4. QED
    BY <2>2, <2>3
<1>11. ChunkUnsent' /\ NeverFull'
  <2>1. NeverFull'
    BY <1>4, <1>6, <1>7 DEF SendInv, NeverFull
  <2>2. CASE chunk.last - n = 0
    BY <1>3, <2>1, <2>2 DEF ChunkUnsent
  <2>3. CASE chunk.last - n # 0
    BY <1>2, <1>3, <1>4, <1>6, <1>7, <2>1, <2>3 DEF ChunkUnsent, Point
  <2>4. QED
    BY <2>2, <2>3
<1>12. LeftToSomebody'
  BY <1>3 DEF LeftToSomebody
<1>13. QED
  BY <1>8, <1>9, <1>10, <1>11, <1>12 DEF SendInv

LEMMA SendMoreStep ==
  ASSUME SendInv, NEW t \in Threads, SendMore(t), UNCHANGED recvVars
  PROVE  SendInv'
<1> USE SendSideAssumption
<1>0. SendTypeOK /\ WireTypeOK /\ ReceiverTypes
  BY DEF SendInv
<1>1. sendSection = t /\ t # NoThread
  BY <1>0 DEF SendInv, OneInLoop, InLoop, SendMore, Threads
<1>2. Backlog' = Backlog
  BY SameBacklog DEF SendMore, ring
<1>3. SendTypeOK' /\ WireTypeOK' /\ ReceiverTypes'
  BY <1>0 DEF SendTypeOK, WireTypeOK, ReceiverTypes, SendMore, Goto, Steps, ring, recvVars
<1>4. OneInLoop'
  BY <1>0, <1>1 DEF SendInv, SendTypeOK, OneInLoop, InLoop, SendMore, Goto
<1>5. ChunkUnsent' /\ NeverFull'
  BY <1>2 DEF SendInv, ChunkUnsent, NeverFull, SendMore, ring
<1>6. LeftToSomebody'
  BY <1>1 DEF LeftToSomebody, SendMore
<1>7. QED
  BY <1>3, <1>4, <1>5, <1>6 DEF SendInv

LEMMA SendStopsStep ==
  ASSUME SendInv, NEW t \in Threads, SendWouldBlock(t) \/ SendFails(t),
         UNCHANGED recvVars
  PROVE  SendInv'
<1> USE SendSideAssumption
<1>0. SendTypeOK /\ WireTypeOK /\ ReceiverTypes
  BY DEF SendInv
<1>1. sendSection = t /\ t # NoThread
  BY <1>0 DEF SendInv, OneInLoop, InLoop, SendWouldBlock, SendFails, Threads
<1>2. Backlog' = Backlog
  BY SameBacklog DEF SendWouldBlock, SendFails, ring
<1>3. SendTypeOK' /\ WireTypeOK' /\ ReceiverTypes'
  BY <1>0 DEF SendTypeOK, WireTypeOK, ReceiverTypes, SendWouldBlock, SendFails, Return,
              Goto, Steps, ring, recvVars
<1>4. sendSection' = NoThread
  BY DEF SendWouldBlock, SendFails
<1>5. OneInLoop'
  <2>1. \A u \in Threads : ~InLoop(u)'
    BY <1>0, <1>1 DEF SendInv, SendTypeOK, OneInLoop, InLoop, SendWouldBlock, SendFails,
                      Return, Goto
  <2>2. QED
    BY <1>4, <2>1 DEF OneInLoop, InLoop, Threads
<1>6. ChunkUnsent' /\ NeverFull'
  BY <1>2, <1>4 DEF SendInv, ChunkUnsent, NeverFull
<1>7. LeftToSomebody'
  <2>1. Backlog > 0
    BY <1>0, <1>1, PendingType, BufferSizeAssumption
    DEF SendInv, SendTypeOK, ChunkUnsent, Backlog
  <2>2. sendState' = 1 => fdWrite' = TRUE
    BY DEF SendWouldBlock, SendFails
  <2>3. QED
    BY <1>2, <2>1, <2>2 DEF LeftToSomebody
<1>8. QED
  BY <1>3, <1>5, <1>6, <1>7 DEF SendInv

(***************************************************************************)
(* The peer and the network do not touch the sending half.                 *)
(***************************************************************************)
LEMMA PeerStep ==
  ASSUME SendInv, UNCHANGED sendVars, RecvNext \/ NetworkFailure
  PROVE  SendInv'
<1> USE BufferSizeAssumption
<1>0. SendTypeOK /\ WireTypeOK /\ ReceiverTypes
  BY DEF SendInv
<1>1. Backlog' = Backlog
  BY SameBacklog DEF sendVars
<1>2. SendTypeOK' /\ OneInLoop' /\ ChunkUnsent' /\ NeverFull' /\ LeftToSomebody'
  BY <1>1 DEF SendInv, SendTypeOK, OneInLoop, InLoop, ChunkUnsent, NeverFull,
              LeftToSomebody, sendVars
<1>3. WireTypeOK' /\ ReceiverTypes'
  <2>1. CASE RecvToBuffer
    <3>1. RecvStart \in Point
      BY <1>0 DEF ReceiverTypes, RecvStart, Point
    <3>2. PICK n \in Transfers(BufferSize - RecvStart, Len(wire)) :
            /\ recvWritePoint' = RecvStart + n
            /\ wire' = SubSeq(wire, n + 1, Len(wire))
            /\ UNCHANGED link
      BY <2>1 DEF RecvToBuffer
    <3>3. n \in 1 .. BufferSize - RecvStart /\ n <= Len(wire)
      BY <1>0, <3>1, TransferRange DEF WireTypeOK, Point
    <3>4. wire' \in Seq(Int)
      BY <1>0, <3>2, <3>3 DEF WireTypeOK
    <3>5. QED
      BY <1>0, <3>1, <3>2, <3>3, <3>4 DEF WireTypeOK, ReceiverTypes, Point
  <2>2. CASE RecvCommand \/ RecvFails \/ EndOfReceiver
    BY <1>0, <2>2 DEF WireTypeOK, ReceiverTypes, RecvCommand, NoMoreCommands, DropCommand,
                      RejectCommand, ExecCommand, RecvFails, EndOfReceiver
  <2>3. CASE NetworkFailure
    BY <1>0, <2>3 DEF WireTypeOK, ReceiverTypes, NetworkFailure, Break, recvVars
  <2>4. QED
    BY <2>1, <2>2, <2>3 DEF RecvNext
<1>4. QED
  BY <1>2, <1>3 DEF SendInv

LEMMA SendInvHolds ==
  ASSUME MaxBacklog < BufferSize
  PROVE  Spec => []SendInv
<1>1. Init => SendInv
  BY SendInitially
<1>2. SendInv /\ [Next]_vars => SendInv'
  <2> SUFFICES ASSUME SendInv, [Next]_vars PROVE SendInv'
    OBVIOUS
  <2>1. ASSUME NEW t \in Senders, NEW data \in Payloads, SendCommand(t, data),
               UNCHANGED recvVars
        PROVE  SendInv'
    BY <2>1, SendCommandStep
  <2>2. ASSUME NEW t \in Threads, UNCHANGED recvVars,
               BeginSend(t) \/ SendBytes(t) \/ SendMore(t) \/ SendWouldBlock(t) \/ SendFails(t)
        PROVE  SendInv'
    BY <2>2, BeginSendStep, SendBytesStep, SendMoreStep, SendStopsStep
  <2>3. ASSUME UNCHANGED recvVars,
               \/ \E t \in Senders : TestSendState(t) \/ CheckError(t)
               \/ OnFdWrite \/ OnFdRead \/ EndOfEvents \/ Disconnect
        PROVE  SendInv'
    BY <2>3, QuietStep
  <2>4. ASSUME UNCHANGED sendVars, RecvNext \/ NetworkFailure
        PROVE  SendInv'
    BY <2>4, PeerStep
  <2>5. CASE UNCHANGED vars
    BY <2>5 DEF vars, sendVars, recvVars, SendInv, SendTypeOK, WireTypeOK, ReceiverTypes,
                OneInLoop, InLoop, ChunkUnsent, NeverFull, LeftToSomebody, Backlog
  <2>6. CASE SendNext /\ UNCHANGED recvVars
    BY <2>1, <2>2, <2>3, <2>6 DEF SendNext
  <2>7. QED
    BY <2>4, <2>5, <2>6 DEF Next, NetworkFailure
<1>3. QED
  BY <1>1, <1>2, PTL DEF Spec

-----------------------------------------------------------------------------
(***************************************************************************)
(* The receiving half.                                                     *)
(***************************************************************************)
LEMMA StepTypes ==
  ASSUME SendInv, RecvTypeOK, Executing, Found \in MinCommand .. MaxSize
  PROVE  /\ Move(recvReadPoint, Found) \in 0 .. BufferSize + 1
         /\ HeaderCount \in Int /\ Data \in Seq(Int)
<1> USE BufferSizeAssumption, RecvSideAssumption
<1>1. recvBuffer \in [Cell -> Int] /\ recvReadPoint \in 0 .. BufferSize + 1
  BY DEF RecvTypeOK
<1>2. Found \in Sizes(recvReadPoint) /\ Found \in Nat /\ Found >= 3
  <2>1. Found \in {NoCommand, Lost} \cup Sizes(recvReadPoint)
    BY CommandSizeType DEF RecvTypeOK, Found
  <2>2. MinCommand = 3 /\ NoCommand = -1 /\ Lost = -2
    BY DEF MinCommand, HeaderSize, EofSize, NoCommand, Lost
  <2>3. Found \in Nat /\ Found >= 3
    BY <2>2
  <2>4. QED
    BY <2>1, <2>2, <2>3
<1>3. Found <= BufferSize + 1 /\ Move(recvReadPoint, Found) \in 0 .. BufferSize + 1
  BY <1>1, <1>2, AfterCommand
<1>4. BufferSize >= 2
  BY <1>2, <1>3
<1>5. HeaderCount \in Int
  <2>1. CellOf(recvReadPoint, 0) \in Cell
    BY <1>1, <1>4 DEF CellOf, Cell
  <2>2. QED
    BY <1>1, <2>1 DEF HeaderCount
<1>6. Data \in Seq(Int)
  <2>1. Move(recvReadPoint, HeaderSize) \in Point
    BY <1>1, <1>4 DEF Move, HeaderSize, Point
  <2>2. Found - MinCommand \in 0 .. BufferSize
    BY <1>2, <1>3 DEF MinCommand, HeaderSize, EofSize
  <2>3. QED
    BY <1>1, <2>1, <2>2, CopiedType DEF Data
<1>7. QED
  BY <1>3, <1>5, <1>6

LEMMA RecvTypesKept ==
  ASSUME SendInv, RecvTypeOK, [Next]_vars
  PROVE  RecvTypeOK'
<1> USE BufferSizeAssumption
<1>1. ASSUME UNCHANGED recvVars PROVE RecvTypeOK'
  BY <1>1 DEF RecvTypeOK, recvVars
<1>2. CASE RecvToBuffer
  <2>1. PICK n \in Transfers(BufferSize - RecvStart, Len(wire)) :
          /\ recvBuffer' = Written(recvBuffer, RecvStart, SubSeq(wire, 1, n))
          /\ recvWritePoint' = RecvStart + n
    BY <1>2 DEF RecvToBuffer
  <2>2. RecvStart \in Point /\ wire \in Seq(Int)
    BY DEF RecvTypeOK, RecvStart, Point, SendInv, WireTypeOK
  <2>3. n \in 1 .. BufferSize - RecvStart /\ n <= Len(wire)
    BY <2>1, <2>2, TransferRange DEF Point
  <2>4. SubSeq(wire, 1, n) \in Seq(Int) /\ RecvStart + n \in Point
    BY <2>2, <2>3 DEF Point
  <2>5. recvBuffer' \in [Cell -> Int] /\ recvWritePoint' \in Point
    BY <2>1, <2>2, <2>4, WrittenType DEF RecvTypeOK
  <2>6. QED
    BY <1>2, <2>5 DEF RecvTypeOK, RecvToBuffer
<1>3. CASE NoMoreCommands \/ RecvFails \/ EndOfReceiver
  BY <1>3 DEF RecvTypeOK, NoMoreCommands, RecvFails, EndOfReceiver
<1>4. CASE DropCommand
  <2>1. Found \in Sizes(recvReadPoint)
    <3>1. Found \in {NoCommand, Lost} \cup Sizes(recvReadPoint)
      BY CommandSizeType DEF RecvTypeOK, Found
    <3>2. Found # NoCommand /\ Found # Lost
      BY <1>4, RecvSideAssumption DEF DropCommand, NoCommand, Lost
    <3>3. QED
      BY <3>1, <3>2
  <2>2. Move(recvReadPoint, Found) \in 0 .. BufferSize + 1
    BY <2>1, AfterCommand DEF RecvTypeOK
  <2>3. QED
    BY <1>4, <2>2 DEF RecvTypeOK, DropCommand
<1>5. CASE RejectCommand
  BY <1>5, StepTypes DEF RecvTypeOK, RejectCommand
<1>6. CASE ExecCommand
  <2>1. /\ recvReadPoint' \in 0 .. BufferSize + 1
        /\ [sendCount |-> HeaderCount, data |-> Data] \in [sendCount : Int, data : Seq(Int)]
        /\ sendCountBefore' \in Int
    BY <1>6, StepTypes DEF ExecCommand
  <2>2. delivered' \in Seq([sendCount : Int, data : Seq(Int)])
    BY <1>6, <2>1 DEF RecvTypeOK, ExecCommand
  <2>3. recvCount' \in Nat
    BY <1>6 DEF RecvTypeOK, ExecCommand
  <2>4. QED
    BY <1>6, <2>1, <2>2, <2>3 DEF RecvTypeOK, ExecCommand
<1>7. QED
  BY <1>1, <1>2, <1>3, <1>4, <1>5, <1>6
  DEF Next, NetworkFailure, RecvNext, RecvCommand, vars

LEMMA BothHold ==
  ASSUME MaxBacklog < BufferSize
  PROVE  Spec => [](SendInv /\ RecvTypeOK)
<1>1. Init => RecvTypeOK
  BY BufferSizeAssumption DEF Init, RecvInit, RecvTypeOK, Point, Cell
<1>2. SendInv /\ RecvTypeOK /\ [Next]_vars => RecvTypeOK'
  BY RecvTypesKept
<1>3. QED
  BY <1>1, <1>2, SendInvHolds, PTL DEF Spec

(***************************************************************************)
(* Both halves and the stream keep their types: the points of the send     *)
(* ring stay within it, and so does all that the receiver reads, whatever  *)
(* terminators lie about in its ring.                                      *)
(***************************************************************************)
THEOREM StreamTypeCorrect ==
  ASSUME MaxBacklog < BufferSize
  PROVE  Spec => []TypeOK
<1>1. SendInv /\ RecvTypeOK => TypeOK
  BY DEF SendInv, TypeOK
<1>2. QED
  BY <1>1, BothHold, PTL

(***************************************************************************)
(* While the connection lives, sendCountBefore is the number of the last   *)
(* command executed, so that the next has a greater one, unless that       *)
(* number is 0, which RecvCommand takes for none.                          *)
(***************************************************************************)
NoneHasNumberZero == \A i \in 1 .. Len(delivered) : delivered[i].sendCount # 0

LastExecuted == IF delivered = <<>> THEN 0 ELSE delivered[Len(delivered)].sendCount

OrderInv ==
  /\ NoneHasNumberZero => ExecutedInOrder
  /\ receiverState = "CONNECTED" => sendCountBefore = LastExecuted

LEMMA ExecKeepsOrder ==
  ASSUME SendInv, RecvTypeOK, OrderInv, ExecCommand
  PROVE  OrderInv'
<1> DEFINE item == [sendCount |-> HeaderCount, data |-> Data]
           n == Len(delivered)
<1>1. HeaderCount \in Int /\ Data \in Seq(Int)
  BY StepTypes DEF ExecCommand
<1>2. /\ delivered \in Seq([sendCount : Int, data : Seq(Int)])
      /\ delivered' = Append(delivered, item)
      /\ item \in [sendCount : Int, data : Seq(Int)]
      /\ n \in Nat
  BY <1>1 DEF RecvTypeOK, ExecCommand
<1>3. /\ Len(delivered') = n + 1
      /\ \A i \in 1 .. n : delivered'[i] = delivered[i]
      /\ delivered'[n + 1] = item
  <2> HIDE DEF item
  <2>1. QED
    BY <1>2
<1>4. sendCountBefore' = HeaderCount /\ delivered'[n + 1].sendCount = HeaderCount
  BY <1>3 DEF ExecCommand
<1>5. LastExecuted' = HeaderCount
  BY <1>2, <1>3, <1>4 DEF LastExecuted
<1>6. ASSUME NoneHasNumberZero'
      PROVE  ExecutedInOrder'
  <2>1. NoneHasNumberZero /\ ExecutedInOrder
    BY <1>2, <1>3, <1>6 DEF NoneHasNumberZero, OrderInv
  <2>2. n = 0 \/ HeaderCount = delivered[n].sendCount + 1
    BY <1>2, <2>1 DEF OrderInv, ExecCommand, Executing, InOrder, LastExecuted, NoneHasNumberZero
  <2>3. ASSUME NEW i \in 1 .. n
        PROVE  delivered[i].sendCount < HeaderCount
    <3>1. delivered[i].sendCount \in Int /\ delivered[n].sendCount \in Int
      <4>1. \A k \in 1 .. n : delivered[k] \in [sendCount : Int, data : Seq(Int)]
        BY <1>2, ElementOfSeq, Zenon
      <4>2. i \in 1 .. n /\ n \in 1 .. n
        BY <1>2, <2>3
      <4>3. QED
        BY <4>1, <4>2
    <3>2. delivered[i].sendCount <= delivered[n].sendCount
      <4>1. i = n \/ delivered[i].sendCount < delivered[n].sendCount
        BY <1>2, <2>1, <2>3 DEF ExecutedInOrder
      <4>2. QED
        BY <3>1, <4>1
    <3>3. QED
      BY <1>2, <2>2, <2>3, <3>1, <3>2
  <2>4. SUFFICES ASSUME NEW i \in 1 .. n + 1, NEW j \in 1 .. n + 1, i < j
                 PROVE  delivered'[i].sendCount < delivered'[j].sendCount
    BY <1>3 DEF ExecutedInOrder
  <2>5. CASE j = n + 1
    <3>1. i \in 1 .. n
      BY <1>2, <2>4, <2>5
    <3>2. QED
      BY <1>3, <1>4, <2>3, <2>5, <3>1
  <2>6. CASE j # n + 1
    <3>1. i \in 1 .. n /\ j \in 1 .. n
      <4>1. n \in Nat
        BY <1>2
      <4> HIDE DEF n
      <4>2. QED
        BY <4>1, <2>4, <2>6
    <3>2. QED
      BY <1>3, <2>1, <2>4, <3>1 DEF ExecutedInOrder
  <2>7. QED
    BY <2>5, <2>6
<1>7. QED
  BY <1>4, <1>5, <1>6 DEF OrderInv

LEMMA OrderKept ==
  ASSUME SendInv, RecvTypeOK, OrderInv, [Next]_vars
  PROVE  OrderInv'
<1>1. CASE ExecCommand
  BY <1>1, ExecKeepsOrder
<1>2. ASSUME UNCHANGED delivered,
             receiverState' # "CONNECTED" \/ UNCHANGED <<receiverState, sendCountBefore>>
      PROVE  OrderInv'
  BY <1>2 DEF OrderInv, NoneHasNumberZero, ExecutedInOrder, LastExecuted
<1>3. CASE RecvNext /\ ~ExecCommand
  BY <1>2, <1>3
  DEF RecvNext, RecvToBuffer, RecvCommand, NoMoreCommands, DropCommand, RejectCommand,
      RecvFails, EndOfReceiver
<1>4. CASE UNCHANGED recvVars
  BY <1>2, <1>4 DEF recvVars
<1>5. QED
  BY <1>1, <1>3, <1>4 DEF Next, NetworkFailure, vars

(***************************************************************************)
(* RecvCommand executes no command twice and none after a later one,       *)
(* whatever the payloads hold and wherever the stream was cut, as long as  *)
(* none of those executed came with the number 0, which SendCommand never  *)
(* writes but the bytes of a payload may spell (tunnel-common.cpp 381).    *)
(***************************************************************************)
THEOREM ExecutesInOrder ==
  ASSUME MaxBacklog < BufferSize
  PROVE  Spec => [](NoneHasNumberZero => ExecutedInOrder)
<1>1. Init => OrderInv
  BY DEF Init, RecvInit, OrderInv, ExecutedInOrder, LastExecuted
<1>2. SendInv /\ RecvTypeOK /\ OrderInv /\ [Next]_vars => OrderInv'
  BY OrderKept
<1>3. OrderInv => (NoneHasNumberZero => ExecutedInOrder)
  BY DEF OrderInv
<1>4. QED
  BY <1>1, <1>2, <1>3, BothHold, PTL DEF Spec

-----------------------------------------------------------------------------
(***************************************************************************)
(* The bytes.  A step of the sending half appends a command to the ring,   *)
(* or takes a chunk from it, or touches neither ring nor stream.           *)
(***************************************************************************)
LEMMA SameBytes ==
  /\ UNCHANGED <<sendBuffer, sendWritePoint, sendReadPoint>> => UNCHANGED BytesUnsent
  /\ UNCHANGED <<recvBuffer, recvWritePoint, recvReadPoint>> => UNCHANGED BytesUnread
BY DEF BytesUnsent, BytesUnread

LEMMA BytesTypes ==
  ASSUME SendInv
  PROVE  wire \in Seq(Int) /\ BytesUnsent \in Seq(Int)
<1>1. Backlog \in 0 .. BufferSize
  BY PendingType DEF SendInv, SendTypeOK, Backlog
<1>2. QED
  BY <1>1, CopiedType DEF SendInv, SendTypeOK, WireTypeOK, BytesUnsent, PendingBytes, Backlog

LEMMA CommandIsAppended ==
  ASSUME MaxBacklog < BufferSize, SendInv,
         NEW t \in Senders, NEW data \in Payloads, SendCommand(t, data)
  PROVE  KeptOnTheWayOut
<1> DEFINE frame == Frame(sendCount + 1, data)
<1> USE BufferSizeAssumption, SendSideAssumption
<1>1. frame \in Seq(Int) /\ Backlog + Len(frame) < BufferSize
  <2>1. sendCount + 1 \in Nat /\ data \in Seq(Int)
    BY DEF SendInv, SendTypeOK
  <2>2. frame \in Seq(Int) /\ Len(frame) \in Nat
    BY <2>1, FrameType
  <2>3. Backlog + Len(frame) <= MaxBacklog
    BY DEF SendCommand
  <2>4. Backlog \in Nat
    BY PendingType DEF SendInv, SendTypeOK, Backlog
  <2>5. QED
    BY <2>2, <2>3, <2>4
<1>2. BytesUnsent' = BytesUnsent \o frame
  <2>1. sendBuffer \in [Cell -> Int] /\ sendWritePoint \in Point /\ sendReadPoint \in Point
    BY DEF SendInv, SendTypeOK
  <2>2. PendingBytes(Written(sendBuffer, sendWritePoint, frame),
                     Move(sendWritePoint, Len(frame)), sendReadPoint)
          = PendingBytes(sendBuffer, sendWritePoint, sendReadPoint) \o frame
    BY <1>1, <2>1, AppendsToPending, SMTT(30) DEF Backlog
  <2>3. QED
    BY <2>2 DEF SendCommand, BytesUnsent
<1>3. sent' # sent /\ frame = Frame(sendCount', Last(sent'))
  <2>1. sent \in Seq(Seq(Int)) /\ sent' = Append(sent, data) /\ data \in Seq(Int)
    BY DEF SendInv, SendTypeOK, SendCommand
  <2>2. Len(sent') = Len(sent) + 1 /\ Len(sent) \in Nat /\ sent'[Len(sent) + 1] = data
    BY <2>1
  <2>3. QED
    BY <2>2 DEF SendCommand, Last
<1>4. (wire \o BytesUnsent) \o frame = wire \o (BytesUnsent \o frame)
  BY <1>1, BytesTypes, ConcatAssociative, SMTT(30)
<1>5. wire' = wire
  BY DEF SendCommand
<1>6. QED
  BY <1>2, <1>3, <1>4, <1>5 DEF KeptOnTheWayOut

LEMMA ChunkIsMoved ==
  ASSUME SendInv, NEW t \in Threads, SendBytes(t)
  PROVE  KeptOnTheWayOut
<1> USE BufferSizeAssumption, SendSideAssumption
<1>1. /\ sendBuffer \in [Cell -> Int] /\ sendWritePoint \in Point /\ sendReadPoint \in Point
      /\ chunk.start \in Point /\ chunk.last \in 0 .. BufferSize
  BY DEF SendInv, SendTypeOK
<1>2. /\ chunk.start = IF sendReadPoint = BufferSize THEN 0 ELSE sendReadPoint
      /\ chunk.start + chunk.last <= BufferSize
      /\ 0 < chunk.last /\ chunk.last <= Backlog /\ Backlog < BufferSize
  BY DEF SendInv, SendTypeOK, OneInLoop, InLoop, ChunkUnsent, NeverFull, SendBytes, Threads
<1>3. PICK n \in Accepted :
        /\ wire' = wire \o Copied(sendBuffer, chunk.start, n)
        /\ sendReadPoint' = chunk.start + n
        /\ UNCHANGED <<sendBuffer, sendWritePoint, sent>>
  BY DEF SendBytes, ChunkAfter
<1>4. n \in 1 .. chunk.last
  <2>1. chunk.last \in Int /\ Room \in Int
    BY <1>1, WireAssumption DEF Room, SendInv, WireTypeOK
  <2>2. QED
    BY <2>1, TransferRange DEF Accepted
<1> DEFINE first == Copied(sendBuffer, chunk.start, n)
           rest == PendingBytes(sendBuffer, sendWritePoint, chunk.start + n)
<1>5. BytesUnsent = first \o rest
  <2>1. Backlog \in Nat
    BY <1>1, PendingType DEF Backlog
  <2>2. /\ n \in Nat /\ 0 < Backlog /\ n <= Backlog
        /\ chunk.start + n <= BufferSize
    BY <1>1, <1>2, <1>4, <2>1 DEF Point
  <2>3. PendingBytes(sendBuffer, sendWritePoint, sendReadPoint) = first \o rest
    <3> HIDE DEF first, rest
    <3>1. /\ 0 < Pending(sendWritePoint, sendReadPoint)
          /\ Pending(sendWritePoint, sendReadPoint) < BufferSize
          /\ n <= Pending(sendWritePoint, sendReadPoint)
      BY <1>2, <2>2 DEF Backlog
    <3>2. QED
      <4>1. /\ sendReadPoint = BufferSize => chunk.start = 0
            /\ sendReadPoint # BufferSize => chunk.start = sendReadPoint
        BY <1>2
      <4>2. PendingBytes(sendBuffer, sendWritePoint, sendReadPoint)
              = Copied(sendBuffer, chunk.start, n)
                  \o PendingBytes(sendBuffer, sendWritePoint, chunk.start + n)
        <5>1. /\ sendBuffer \in [Cell -> Int] /\ sendWritePoint \in Point
              /\ sendReadPoint \in Point /\ chunk.start \in Point
              /\ n \in Nat /\ chunk.start + n <= BufferSize
          BY <1>1, <2>2
        <5> HIDE BufferSizeAssumption, SendSideAssumption
        <5>2. \A start \in Point :
                /\ sendReadPoint = BufferSize => start = 0
                /\ sendReadPoint # BufferSize => start = sendReadPoint
                /\ start + n <= BufferSize
                => PendingBytes(sendBuffer, sendWritePoint, sendReadPoint)
                     = Copied(sendBuffer, start, n)
                         \o PendingBytes(sendBuffer, sendWritePoint, start + n)
          BY <3>1, <5>1, TakesFromPending
        <5>3. QED
          BY <4>1, <5>1, <5>2
      <4>3. QED
        BY <4>2 DEF first, rest
  <2>4. QED
    BY <2>3 DEF BytesUnsent
<1>6. first \in Seq(Int) /\ rest \in Seq(Int)
  <2>1. chunk.start + n \in Point /\ n \in 0 .. BufferSize
    BY <1>1, <1>2, <1>4 DEF Point
  <2>2. Pending(sendWritePoint, chunk.start + n) \in 0 .. BufferSize
    BY <1>1, <2>1, PendingType
  <2>3. QED
    BY <1>1, <2>1, <2>2, CopiedType DEF PendingBytes
<1>7. BytesUnsent' = rest
  BY <1>3 DEF BytesUnsent
<1>8. (wire \o first) \o rest = wire \o (first \o rest)
  <2> HIDE DEF first, rest
  <2>1. QED
    BY <1>6, BytesTypes, ConcatAssociative, SMTT(30)
<1>9. (wire \o BytesUnsent) \o <<>> = wire \o BytesUnsent
  BY BytesTypes, ConcatProperties
<1>10. QED
  BY <1>3, <1>5, <1>7, <1>8, <1>9 DEF KeptOnTheWayOut

LEMMA ChunkIsReceived ==
  ASSUME SendInv, RecvTypeOK, RecvToBuffer
  PROVE  KeptOnTheWayIn
<1> USE BufferSizeAssumption
<1>1. SUFFICES ASSUME recvReadPoint \in Point, UNCHANGED recvReadPoint,
                      Unread + (Len(wire) - Len(wire')) < BufferSize
               PROVE  (BytesUnread \o wire)' = BytesUnread \o wire
  BY DEF KeptOnTheWayIn
<1>2. PICK n \in Transfers(BufferSize - RecvStart, Len(wire)) :
        /\ recvBuffer' = Written(recvBuffer, RecvStart, SubSeq(wire, 1, n))
        /\ recvWritePoint' = RecvStart + n
        /\ wire' = SubSeq(wire, n + 1, Len(wire))
  BY DEF RecvToBuffer
<1>3. /\ recvBuffer \in [Cell -> Int] /\ recvWritePoint \in Point /\ RecvStart \in Point
      /\ wire \in Seq(Int)
  BY DEF RecvTypeOK, RecvStart, Point, SendInv, WireTypeOK
<1>4. n \in 1 .. BufferSize - RecvStart /\ n <= Len(wire)
  BY <1>2, <1>3, TransferRange DEF Point
<1> DEFINE first == SubSeq(wire, 1, n)
           rest == SubSeq(wire, n + 1, Len(wire))
<1>5. /\ first \in Seq(Int) /\ Len(first) = n
      /\ rest \in Seq(Int) /\ Len(rest) = Len(wire) - n
  BY <1>3, <1>4
<1>6. Unread + n < BufferSize /\ Unread \in 0 .. BufferSize
  <2>1. Unread \in 0 .. BufferSize
    BY <1>1, <1>3, PendingType DEF Unread
  <2>2. Len(wire) - Len(wire') = n
    <3>1. Len(wire') = Len(wire) - n /\ Len(wire) \in Nat /\ n \in Nat
      BY <1>2, <1>3, <1>4, <1>5
    <3>2. QED
      BY <3>1
  <2>3. QED
    BY <1>1, <2>1, <2>2
<1>7. Pending(RecvStart, recvReadPoint) = Unread
  BY <1>1, <1>3, <1>4, <1>6 DEF Pending, RecvStart, Unread, Point
<1>8. Move(RecvStart, Len(first)) = RecvStart + n
  BY <1>3, <1>4, <1>5 DEF Move, Point
<1>9. BytesUnread' = BytesUnread \o first
  <2>1. PendingBytes(Written(recvBuffer, RecvStart, first), Move(RecvStart, Len(first)),
                     recvReadPoint)
          = PendingBytes(recvBuffer, RecvStart, recvReadPoint) \o first
    BY <1>1, <1>3, <1>5, <1>6, <1>7, AppendsToPending
  <2>2. BytesUnread = PendingBytes(recvBuffer, RecvStart, recvReadPoint)
    BY <1>7 DEF BytesUnread, PendingBytes, Unread
  <2>3. QED
    BY <1>1, <1>2, <1>8, <2>1, <2>2 DEF BytesUnread
<1>10. first \o rest = wire
  BY <1>3, <1>4
<1>11. BytesUnread \in Seq(Int)
  BY <1>1, <1>3, <1>6, CopiedType DEF BytesUnread, PendingBytes, Unread
<1>12. (BytesUnread \o first) \o rest = BytesUnread \o (first \o rest)
  <2> HIDE DEF first, rest
  <2>1. QED
    BY <1>5, <1>11, ConcatAssociative, SMTT(30)
<1>13. QED
  BY <1>2, <1>9, <1>10, <1>12

(***************************************************************************)
(* Whatever the bytes say, both rings hand them on in order, none lost and *)
(* none added: SendCommand's commands whole behind what waits, and, while  *)
(* the receive ring holds them, what recv() delivers behind what is unread.*)
(***************************************************************************)
THEOREM BytesStayInOrder ==
  ASSUME MaxBacklog < BufferSize
  PROVE  Spec => BytesInOrder
<1>1. SendInv /\ RecvTypeOK /\ [Next]_vars => [KeptOnTheWayOut /\ KeptOnTheWayIn]_vars
  <2> SUFFICES ASSUME SendInv, RecvTypeOK, Next
               PROVE  KeptOnTheWayOut /\ KeptOnTheWayIn
    OBVIOUS
  <2> DEFINE quiet == UNCHANGED <<sendBuffer, sendWritePoint, sendReadPoint, sent, wire>>
             idle == UNCHANGED <<recvBuffer, recvWritePoint, wire>>
  <2>1. ASSUME quiet PROVE KeptOnTheWayOut
    <3>1. (wire \o BytesUnsent) \o <<>> = wire \o BytesUnsent
      BY BytesTypes, ConcatProperties
    <3>2. QED
      BY <2>1, <3>1, SameBytes DEF KeptOnTheWayOut
  <2>2. ASSUME idle PROVE KeptOnTheWayIn
    BY <2>2, SameBytes DEF KeptOnTheWayIn
  <2>3. CASE SendNext /\ UNCHANGED recvVars
    <3>1. \/ quiet
          \/ \E t \in Senders, data \in Payloads : SendCommand(t, data)
          \/ \E t \in Threads : SendBytes(t)
      BY <2>3 DEF SendNext, TestSendState, CheckError, BeginSend, SendMore, SendWouldBlock,
                  SendFails, OnFdWrite, OnFdRead, EndOfEvents, Disconnect, ring
    <3>2. KeptOnTheWayOut
      BY <2>1, <3>1, CommandIsAppended, ChunkIsMoved
    <3>3. UNCHANGED sendVars => UNCHANGED wire
      <4>1. ASSUME NEW t \in Threads, SendBytes(t) PROVE pc' # pc
        BY <4>1 DEF SendBytes, Return, Goto, SendInv, SendTypeOK
      <4>2. QED
        BY <3>1, <4>1 DEF sendVars, SendCommand
    <3>4. KeptOnTheWayIn
      BY <2>2, <2>3, <3>3 DEF recvVars, KeptOnTheWayIn
    <3>5. QED
      BY <3>2, <3>4
  <2>4. CASE RecvNext /\ UNCHANGED sendVars
    <3>1. RecvToBuffer \/ idle
      BY <2>4 DEF RecvNext, RecvCommand, NoMoreCommands, DropCommand, RejectCommand,
                  ExecCommand, RecvFails, EndOfReceiver
    <3>2. KeptOnTheWayIn
      BY <2>2, <3>1, ChunkIsReceived
    <3>3. UNCHANGED recvVars => UNCHANGED wire
      BY <3>1 DEF RecvToBuffer, recvVars
    <3>4. KeptOnTheWayOut
      BY <2>1, <2>4, <3>3 DEF sendVars, KeptOnTheWayOut
    <3>5. QED
      BY <3>2, <3>4
  <2>5. CASE NetworkFailure
    BY <2>1, <2>2, <2>5 DEF NetworkFailure, Break, sendVars, recvVars
  <2>6. QED
    BY <2>3, <2>4, <2>5 DEF Next
<1>2. QED
  BY <1>1, BothHold, PTL DEF Spec, BytesInOrder

(***************************************************************************)
(* A thread whose SendCommand finds the ring blocked (sendState 1) may     *)
(* return: somebody is sending, or an event that flushes the ring is due   *)
(* or being served.  The assumption on LeftStates is what InitConnection   *)
(* does not see to (tunnel-common.cpp 755-767).                            *)
(***************************************************************************)
THEOREM Watched ==
  ASSUME 1 \notin LeftStates, MaxBacklog < BufferSize
  PROVE  Spec => []BlockedIsWatched
<1>1. SendInv => BlockedIsWatched
  BY DEF SendInv, LeftToSomebody, BlockedIsWatched
<1>2. QED
  BY <1>1, SendInvHolds, PTL
-----------------------------------------------------------------------------
(***************************************************************************)
(* The commands in the bytes.  off[k] is where in the stream command k     *)
(* starts; Frames says that bytes are the commands after the first d, one  *)
(* behind the other.                                                       *)
(***************************************************************************)
Layout(cmds, off) ==
  /\ off[1] = 0
  /\ \A k \in 1 .. Len(cmds) : off[k + 1] = off[k] + Len(cmds[k]) + MinCommand
  /\ \A i, j \in 1 .. Len(off) : i <= j => off[i] <= off[j]

Frames(bytes, cmds, off, d) ==
  /\ Len(bytes) = off[Len(cmds) + 1] - off[d + 1]
  /\ \A k \in d + 1 .. Len(cmds) : \A i \in 1 .. Len(cmds[k]) + MinCommand :
       bytes[off[k] - off[d + 1] + i] = Frame(k, cmds[k])[i]

LEMMA FrameBytes ==
  ASSUME NEW count \in Nat, NEW data \in Seq(Int)
  PROVE  /\ Frame(count, data) \in Seq(Int)
         /\ Len(Frame(count, data)) = Len(data) + MinCommand
         /\ Frame(count, data)[1] = count
         /\ \A k \in 1 .. Len(data) : Frame(count, data)[k + 1] = data[k]
         /\ Frame(count, data)[Len(data) + 2] = LT
         /\ Frame(count, data)[Len(data) + 3] = GT
BY DEF Frame, Eof, LT, GT, MinCommand, HeaderSize, EofSize

LEMMA Places ==
  ASSUME NEW cmds \in Seq(Seq(Int)), NEW off \in Seq(Nat), Len(off) = Len(cmds) + 1,
         Layout(cmds, off)
  PROVE  /\ Len(cmds) \in Nat
         /\ \A k \in 1 .. Len(cmds) + 1 : off[k] \in Nat
         /\ \A k \in 1 .. Len(cmds) :
              /\ Len(cmds[k]) \in Nat
              /\ off[k + 1] = off[k] + (Len(cmds[k]) + 3)
         /\ \A i, j \in 1 .. Len(cmds) + 1 : i <= j => off[i] <= off[j]
<1>1. Len(cmds) \in Nat /\ MinCommand = 3
  BY DEF MinCommand, HeaderSize, EofSize
<1>2. \A k \in 1 .. Len(cmds) + 1 : off[k] \in Nat
  BY <1>1
<1>3. \A k \in 1 .. Len(cmds) : Len(cmds[k]) \in Nat /\ k \in 1 .. Len(cmds) + 1
  BY <1>1
<1>4. \A k \in 1 .. Len(cmds) : off[k + 1] = off[k] + Len(cmds[k]) + 3
  BY <1>1 DEF Layout
<1>5. \A k \in 1 .. Len(cmds) : off[k + 1] = off[k] + (Len(cmds[k]) + 3)
  BY <1>2, <1>3, <1>4
<1>6. QED
  BY <1>1, <1>2, <1>3, <1>5 DEF Layout

\* A byte of a frame lies within the bytes that begin at from.
LEMMA WithinBytes ==
  ASSUME NEW from \in Nat, NEW start \in Nat, NEW end \in Nat, NEW total \in Nat,
         NEW size \in Nat, NEW i \in 1 .. size,
         from <= start, end = start + size, end <= total
  PROVE  start - from + i \in 1 .. total - from
OBVIOUS

LEMMA SameByte ==
  ASSUME NEW from \in Nat, NEW next \in Nat, NEW start \in Nat, NEW size \in Nat,
         NEW m \in Nat, NEW i \in 1 .. m, next = from + size
  PROVE  size + (start - next + i) = start - from + i
OBVIOUS

LEMMA LayoutGrows ==
  ASSUME NEW cmds \in Seq(Seq(Int)), NEW off \in Seq(Nat), Len(off) = Len(cmds) + 1,
         Layout(cmds, off), NEW data \in Seq(Int)
  PROVE  Layout(Append(cmds, data), Append(off, off[Len(off)] + Len(data) + MinCommand))
<1> DEFINE s == Len(cmds)
           last == off[Len(off)] + Len(data) + MinCommand
           more == Append(cmds, data)
           ends == Append(off, last)
<1>1. s \in Nat /\ Len(data) \in Nat /\ MinCommand = 3
  BY DEF MinCommand, HeaderSize, EofSize
<1>2. \A k \in 1 .. s + 1 : off[k] \in Nat
  BY <1>1
<1>3. last \in Nat
  BY <1>1, <1>2
<1>4. /\ Len(more) = s + 1 /\ more[s + 1] = data
      /\ \A k \in 1 .. s : more[k] = cmds[k]
  BY <1>1
<1> HIDE DEF last, more
<1>5. /\ Len(ends) = s + 2 /\ ends[s + 2] = last
      /\ \A k \in 1 .. s + 1 : ends[k] = off[k]
  BY <1>1, <1>3
<1> HIDE DEF ends
<1>6. ends[1] = 0
  BY <1>1, <1>5 DEF Layout
<1>7. ASSUME NEW k \in 1 .. s + 1
      PROVE  ends[k + 1] = ends[k] + Len(more[k]) + MinCommand
  <2>1. CASE k \in 1 .. s
    <3>1. k \in 1 .. s + 1 /\ k + 1 \in 1 .. s + 1
      BY <1>1, <2>1
    <3>2. QED
      BY <1>4, <1>5, <2>1, <3>1 DEF Layout
  <2>2. CASE k = s + 1
    BY <1>1, <1>4, <1>5, <2>2, SMTT(40) DEF last
  <2>3. QED
    BY <1>1, <2>1, <2>2
<1>8. ASSUME NEW i \in 1 .. s + 2, NEW j \in 1 .. s + 2, i <= j
      PROVE  ends[i] <= ends[j]
  <2>1. off[s + 1] <= last
    BY <1>1, <1>2 DEF last
  <2>2. \A m \in 1 .. s + 1 : off[m] <= off[s + 1]
    BY <1>1 DEF Layout
  <2>3. CASE j \in 1 .. s + 1
    <3>1. i \in 1 .. s + 1
      BY <1>1, <1>8, <2>3
    <3>2. QED
      BY <1>5, <1>8, <2>3, <3>1 DEF Layout
  <2>4. CASE j = s + 2 /\ i \in 1 .. s + 1
    BY <1>1, <1>2, <1>3, <1>5, <2>1, <2>2, <2>4
  <2>5. CASE j = s + 2 /\ i = s + 2
    BY <1>3, <1>5, <2>5
  <2>6. QED
    BY <1>1, <2>3, <2>4, <2>5
<1>9. QED
  BY <1>4, <1>5, <1>6, <1>7, <1>8 DEF Layout, ends, more, last

\* SendCommand puts one more at the end.
LEMMA FramesGrow ==
  ASSUME NEW cmds \in Seq(Seq(Int)), NEW off \in Seq(Nat), Len(off) = Len(cmds) + 1,
         Layout(cmds, off), NEW data \in Seq(Int), NEW d \in 0 .. Len(cmds),
         NEW bytes \in Seq(Int), Frames(bytes, cmds, off, d)
  PROVE  Frames(bytes \o Frame(Len(cmds) + 1, data), Append(cmds, data),
                Append(off, off[Len(off)] + Len(data) + MinCommand), d)
<1> DEFINE s == Len(cmds)
           last == off[Len(off)] + Len(data) + MinCommand
           more == Append(cmds, data)
           ends == Append(off, last)
           frame == Frame(s + 1, data)
           all == bytes \o frame
<1>1. s \in Nat /\ Len(data) \in Nat /\ Len(bytes) \in Nat /\ MinCommand = 3 /\ d \in 0 .. s
  BY DEF MinCommand, HeaderSize, EofSize
<1>2. \A k \in 1 .. s + 1 : off[k] \in Nat
  BY <1>1
<1>3. last \in Nat
  BY <1>1, <1>2
<1>4. /\ Len(more) = s + 1 /\ more[s + 1] = data
      /\ \A k \in 1 .. s : more[k] = cmds[k]
  BY <1>1
<1>5. frame \in Seq(Int) /\ Len(frame) = Len(data) + MinCommand
  BY <1>1, FrameBytes
<1> HIDE DEF last, more, frame
<1>6. /\ Len(ends) = s + 2 /\ ends[s + 2] = last
      /\ \A k \in 1 .. s + 1 : ends[k] = off[k]
  BY <1>1, <1>3
<1>7. /\ Len(all) = Len(bytes) + Len(frame)
      /\ \A k \in 1 .. Len(bytes) + Len(frame) :
           all[k] = IF k <= Len(bytes) THEN bytes[k] ELSE frame[k - Len(bytes)]
  BY <1>5, ConcatProperties
<1> HIDE DEF ends, all
<1>8. Len(bytes) = off[s + 1] - off[d + 1]
  BY DEF Frames
<1>9. d + 1 \in 1 .. s + 1 /\ ends[d + 1] = off[d + 1] /\ off[d + 1] \in Nat
      /\ off[s + 1] \in Nat
  BY <1>1, <1>2, <1>6
<1>10. Len(all) = ends[Len(more) + 1] - ends[d + 1]
  <2>1. Len(more) + 1 = s + 2 /\ Len(off) = s + 1
    BY <1>1, <1>4
  <2>2. last = off[s + 1] + (Len(data) + MinCommand)
    BY <1>1, <1>9, <2>1 DEF last
  <2>3. Len(all) = last - off[d + 1]
    BY <1>1, <1>5, <1>7, <1>8, <1>9, <2>2
  <2>4. QED
    BY <1>6, <1>9, <2>1, <2>3
<1>11. ASSUME NEW k \in d + 1 .. s + 1, NEW i \in 1 .. Len(more[k]) + MinCommand
       PROVE  all[ends[k] - ends[d + 1] + i] = Frame(k, more[k])[i]
  <2>1. k \in 1 .. s + 1 /\ ends[k] = off[k] /\ off[k] \in Nat
    BY <1>1, <1>2, <1>6
  <2>2. CASE k \in d + 1 .. s
    <3>1. more[k] = cmds[k] /\ Len(cmds[k]) \in Nat /\ k \in 1 .. s
      BY <1>1, <1>4, <2>2
    <3>2. off[k + 1] = off[k] + (Len(cmds[k]) + 3)
      BY <3>1, Places
    <3>3. off[k + 1] <= off[s + 1] /\ off[d + 1] <= off[k]
      <4>1. k + 1 \in 1 .. s + 1 /\ s + 1 \in 1 .. s + 1 /\ k + 1 <= s + 1 /\ d + 1 <= k
        BY <1>1, <2>2
      <4>2. QED
        BY <1>9, <2>1, <4>1, Places
    <3>4. off[k] - off[d + 1] + i \in 1 .. Len(bytes)
      <4>1. i \in 1 .. Len(cmds[k]) + 3
        BY <1>1, <3>1
      <4>2. QED
        <5>0. Len(cmds[k]) \in Nat /\ k + 1 \in 1 .. Len(cmds) + 1
          BY <1>1, <3>1, SMTT(40)
        <5>1. Len(cmds[k]) + 3 \in Nat
          BY <5>0
        <5>4. off[k + 1] \in Nat
          BY <5>0, Places
        <5>2. off[k] - off[d + 1] + i \in 1 .. off[s + 1] - off[d + 1]
          BY <1>9, <2>1, <3>2, <3>3, <4>1, <5>1, <5>4, WithinBytes
        <5>3. QED
          BY <1>8, <5>2
    <3>5. bytes[off[k] - off[d + 1] + i] = Frame(k, cmds[k])[i]
      BY <2>2, <3>1 DEF Frames
    <3>6. all[off[k] - off[d + 1] + i] = bytes[off[k] - off[d + 1] + i]
      BY <1>1, <1>5, <1>7, <3>4, SMTT(40)
    <3>7. QED
      BY <1>9, <2>1, <3>1, <3>5, <3>6
  <2>3. CASE k = s + 1
    <3>1. i \in 1 .. Len(frame)
      BY <1>4, <1>5, <2>3
    <3>2. off[k] - off[d + 1] + i = Len(bytes) + i
      BY <1>8, <2>3
    <3>3. all[Len(bytes) + i] = frame[i]
      <4>1. Len(bytes) + i \in 1 .. Len(bytes) + Len(frame) /\ ~(Len(bytes) + i <= Len(bytes))
            /\ Len(bytes) + i - Len(bytes) = i
        BY <1>1, <1>5, <3>1
      <4>2. QED
        BY <1>7, <4>1
    <3>4. QED
      BY <1>4, <1>9, <2>1, <2>3, <3>2, <3>3 DEF frame
  <2>4. QED
    BY <1>1, <2>2, <2>3
<1>12. QED
  BY <1>4, <1>10, <1>11 DEF Frames, all, ends, more, last, frame

\* ExecCommand takes the first.
LEMMA FramesAdvance ==
  ASSUME NEW cmds \in Seq(Seq(Int)), NEW off \in Seq(Nat), Len(off) = Len(cmds) + 1,
         Layout(cmds, off), NEW d \in 0 .. Len(cmds), d < Len(cmds),
         NEW bytes \in Seq(Int), Frames(bytes, cmds, off, d),
         NEW rest \in Seq(Int), IsRest(rest, Len(cmds[d + 1]) + MinCommand, bytes)
  PROVE  Frames(rest, cmds, off, d + 1)
<1> DEFINE s == Len(cmds)
           n == Len(cmds[d + 1]) + MinCommand
<1>1. s \in Nat /\ d \in Nat /\ d + 1 \in 1 .. s /\ MinCommand = 3
      /\ Len(rest) \in Nat /\ Len(bytes) \in Nat
  BY DEF MinCommand, HeaderSize, EofSize
<1>2. /\ n \in Nat /\ off[d + 2] = off[d + 1] + n
      /\ off[d + 1] \in Nat /\ off[d + 2] \in Nat /\ off[s + 1] \in Nat
  <2>1. d + 1 \in 1 .. s + 1 /\ d + 2 \in 1 .. s + 1 /\ s + 1 \in 1 .. s + 1
        /\ (d + 1) + 1 = d + 2
    BY <1>1
  <2>2. off[d + 1] \in Nat /\ off[d + 2] \in Nat /\ off[s + 1] \in Nat
    BY <2>1, Places
  <2>3. Len(cmds[d + 1]) \in Nat /\ off[d + 2] = off[d + 1] + (Len(cmds[d + 1]) + 3)
    BY <1>1, <2>1, Places
  <2>4. QED
    BY <1>1, <2>2, <2>3
<1>3. Len(bytes) = off[s + 1] - off[d + 1]
  BY DEF Frames
<1>4. Len(rest) = Len(bytes) - n
  BY DEF IsRest
<1> HIDE DEF n
<1>5. Len(rest) = off[s + 1] - off[d + 2]
  BY <1>1, <1>2, <1>3, <1>4, SMTT(40)
<1>6. ASSUME NEW k \in d + 2 .. s, NEW i \in 1 .. Len(cmds[k]) + MinCommand
      PROVE  rest[off[k] - off[d + 2] + i] = Frame(k, cmds[k])[i]
  <2>1. k \in 1 .. s /\ k \in d + 1 .. s /\ k \in 1 .. s + 1 /\ k + 1 \in 1 .. s + 1
        /\ d + 2 \in 1 .. s + 1 /\ s + 1 \in 1 .. s + 1 /\ d + 2 <= k /\ k + 1 <= s + 1
    BY <1>1, SMTT(40)
  <2>2. /\ Len(cmds[k]) \in Nat /\ off[k] \in Nat /\ off[k + 1] \in Nat
        /\ off[k + 1] = off[k] + (Len(cmds[k]) + 3)
        /\ off[k + 1] <= off[s + 1] /\ off[d + 2] <= off[k]
    BY <2>1, Places
  <2>3. i \in 1 .. Len(cmds[k]) + 3 /\ Len(cmds[k]) + 3 \in Nat
    <3>1. \A m \in Nat : m + 3 \in Nat
      OBVIOUS
    <3>2. QED
      BY <1>1, <2>2, <3>1, Zenon
  <2>4. off[k] - off[d + 2] + i \in 1 .. Len(rest)
    <3>1. off[k] - off[d + 2] + i \in 1 .. off[s + 1] - off[d + 2]
      BY <1>2, <2>2, <2>3, WithinBytes
    <3>2. QED
      BY <1>5, <3>1
  <2>5. rest[off[k] - off[d + 2] + i] = bytes[n + (off[k] - off[d + 2] + i)]
    BY <2>4 DEF IsRest, n
  <2>6. n + (off[k] - off[d + 2] + i) = off[k] - off[d + 1] + i
    <3>1. ASSUME NEW from \in Nat, NEW next \in Nat, NEW start \in Nat, next = from + n
          PROVE  n + (start - next + i) = start - from + i
      BY <1>2, <2>3, <3>1, SameByte
    <3>2. QED
      BY <1>2, <2>2, <3>1
  <2>7. bytes[off[k] - off[d + 1] + i] = Frame(k, cmds[k])[i]
    BY <2>1 DEF Frames
  <2>8. QED
    BY <2>5, <2>6, <2>7
<1>7. QED
  <2>1. (d + 1) + 1 = d + 2
    BY <1>1
  <2>2. QED
    BY <1>5, <1>6, <2>1 DEF Frames

\* What begins the bytes begins with the first command, if there is one.
LEMMA FirstFrame ==
  ASSUME NEW cmds \in Seq(Seq(Int)), NEW off \in Seq(Nat), Len(off) = Len(cmds) + 1,
         Layout(cmds, off), NEW d \in 0 .. Len(cmds),
         NEW begin \in Seq(Int), NEW bytes \in Seq(Int), Len(begin) <= Len(bytes),
         \A k \in 1 .. Len(begin) : begin[k] = bytes[k],
         Frames(bytes, cmds, off, d)
  PROVE  /\ d = Len(cmds) => Len(begin) = 0
         /\ d < Len(cmds) =>
              LET n == Len(cmds[d + 1]) + MinCommand IN
              /\ n <= Len(bytes)
              /\ \A i \in 1 .. n : i <= Len(begin) => begin[i] = Frame(d + 1, cmds[d + 1])[i]
<1> DEFINE s == Len(cmds)
<1>1. s \in Nat /\ Len(begin) \in Nat /\ Len(bytes) \in Nat /\ MinCommand = 3
  BY DEF MinCommand, HeaderSize, EofSize
<1>2. \A k \in 1 .. s + 1 : off[k] \in Nat
  BY <1>1
<1>3. Len(bytes) = off[s + 1] - off[d + 1]
  BY DEF Frames
<1>4. CASE d = s
  <2>1. off[s + 1] \in Nat
    BY <1>1, <1>2
  <2>2. QED
    BY <1>1, <1>3, <1>4, <2>1
<1>5. CASE d < s
  <2> DEFINE n == Len(cmds[d + 1]) + MinCommand
  <2>1. d + 1 \in 1 .. s /\ d + 2 \in 1 .. s + 1 /\ n \in Nat
    BY <1>1, <1>5, SMTT(40)
  <2>0. d + 1 \in 1 .. s + 1 /\ s + 1 \in 1 .. s + 1 /\ (d + 1) + 1 = d + 2 /\ d + 2 <= s + 1
    BY <1>1, <1>5
  <2>2. off[d + 2] = off[d + 1] + n /\ off[d + 2] <= off[s + 1]
    BY <1>1, <2>0, <2>1, Places
  <2>3. off[d + 1] \in Nat /\ off[d + 2] \in Nat /\ off[s + 1] \in Nat
    BY <2>0, <2>1, Places
  <2>4. ASSUME NEW i \in 1 .. n
        PROVE  bytes[i] = Frame(d + 1, cmds[d + 1])[i]
    <3>0. d + 1 \in d + 1 .. Len(cmds)
      BY <1>1, <2>1
    <3>1. bytes[off[d + 1] - off[d + 1] + i] = Frame(d + 1, cmds[d + 1])[i]
      BY <3>0 DEF Frames
    <3>2. off[d + 1] - off[d + 1] + i = i
      BY <2>3
    <3>3. QED
      BY <3>1, <3>2
  <2> HIDE DEF n
  <2>5. n <= Len(bytes)
    BY <1>1, <1>3, <2>1, <2>2, <2>3
  <2>6. \A i \in 1 .. n : i <= Len(begin) => begin[i] = Frame(d + 1, cmds[d + 1])[i]
    BY <1>1, <2>1, <2>4
  <2>7. QED
    BY <1>5, <2>5, <2>6 DEF n
<1>6. QED
  BY <1>4, <1>5

\* A plain command ends in the first terminator there is.
LEMMA PlainEnds ==
  ASSUME NEW count \in Nat, NEW data \in Seq(Int), Plain(data),
         NEW begin \in Seq(Int),
         \A i \in 1 .. Len(data) + MinCommand :
           i <= Len(begin) => begin[i] = Frame(count, data)[i]
  PROVE  /\ Len(begin) < Len(data) + MinCommand => WholeCommandSize(begin) = NoCommand
         /\ Len(begin) >= Len(data) + MinCommand =>
              /\ EndsAt(begin, Len(data) + MinCommand)
              /\ begin[1] = count
              /\ \A k \in 1 .. Len(data) : begin[k + 1] = data[k]
<1> DEFINE m == Len(data)
           frame == Frame(count, data)
<1>1. m \in Nat /\ Len(begin) \in Nat /\ MinCommand = 3 /\ LT = -1 /\ GT = -2
  BY DEF MinCommand, HeaderSize, EofSize, LT, GT
<1>2. /\ frame[1] = count
      /\ \A k \in 1 .. m : frame[k + 1] = data[k]
      /\ frame[m + 2] = LT /\ frame[m + 3] = GT
  BY FrameBytes
<1> HIDE DEF frame
<1>3. ASSUME NEW j \in 1 .. m + 1
      PROVE  ~(frame[j] = LT /\ frame[j + 1] = GT)
  <2>1. CASE j = 1
    BY <1>1, <1>2, <2>1
  <2>2. CASE j \in 2 .. m
    <3>1. j - 1 \in 1 .. m - 1 /\ j - 1 \in 1 .. m /\ j \in 1 .. m /\ (j - 1) + 1 = j
      BY <1>1, <2>2
    <3>2. frame[j] = data[j - 1] /\ frame[j + 1] = data[(j - 1) + 1]
      BY <1>2, <3>1
    <3>3. QED
      BY <3>1, <3>2 DEF Plain
  <2>3. CASE j = m + 1
    BY <1>1, <1>2, <2>3
  <2>4. QED
    BY <1>1, <2>1, <2>2, <2>3
<1>4. \A i \in 1 .. m + 3 : i <= Len(begin) => begin[i] = frame[i]
  BY <1>1 DEF frame
<1>5. CASE Len(begin) < m + 3
  <2>1. ASSUME NEW k \in 1 .. Len(begin), k < Len(begin)
        PROVE  ~(begin[k] = LT /\ begin[k + 1] = GT)
    <3>1. k \in 1 .. m + 1 /\ k \in 1 .. m + 3 /\ k + 1 \in 1 .. m + 3
          /\ k <= Len(begin) /\ k + 1 <= Len(begin)
      BY <1>1, <1>5, <2>1
    <3>2. begin[k] = frame[k] /\ begin[k + 1] = frame[k + 1]
      BY <1>4, <3>1
    <3>3. QED
      BY <1>3, <3>1, <3>2
  <2>2. EofPlaces(begin) = {}
    BY <2>1 DEF EofPlaces
  <2>3. QED
    BY <1>1, <1>5, <2>2 DEF WholeCommandSize
<1>6. CASE Len(begin) >= m + 3
  <2>1. \A i \in 1 .. m + 3 : begin[i] = frame[i]
    BY <1>1, <1>4, <1>6, SMTT(40)
  <2>2. ASSUME NEW j \in 1 .. m + 1
        PROVE  ~(begin[j] = LT /\ begin[j + 1] = GT)
    <3>1. j \in 1 .. m + 3 /\ j + 1 \in 1 .. m + 3
      BY <1>1
    <3>2. QED
      BY <1>3, <2>1, <3>1
  <2>3. EndsAt(begin, m + 3)
    <3>1. m + 3 - 1 = m + 2 /\ m + 3 - 2 = m + 1 /\ m + 2 \in 1 .. m + 3 /\ m + 3 \in 1 .. m + 3
      BY <1>1
    <3>2. QED
      BY <1>2, <2>1, <2>2, <3>1 DEF EndsAt
  <2>4. \A k \in 1 .. m : begin[k + 1] = data[k]
    <3>1. \A k \in 1 .. m : k + 1 \in 1 .. m + 3
      BY <1>1
    <3>2. QED
      BY <1>2, <2>1, <3>1
  <2>5. begin[1] = count
    BY <1>1, <1>2, <2>1
  <2>6. QED
    BY <1>1, <1>6, <2>3, <2>4, <2>5
<1>7. QED
  BY <1>1, <1>5, <1>6
-----------------------------------------------------------------------------
(***************************************************************************)
(* What holds of the numbers and places SendCommand gives, whatever the    *)
(* payloads, and of the wire.                                              *)
(***************************************************************************)
Numbered ==
  /\ sendCount = Len(sent)
  /\ \A k \in 1 .. Len(sent) : sent[k] \in Payloads
  /\ Layout(sent, offset)
  /\ Len(wire) <= WireCapacity

StreamInv == SendInv /\ RecvTypeOK /\ Numbered

LEMMA PendingBytesType ==
  ASSUME NEW cells \in [Cell -> Int], NEW w \in Point, NEW r \in Point
  PROVE  /\ Pending(w, r) \in 0 .. BufferSize
         /\ PendingBytes(cells, w, r) \in Seq(Int)
         /\ Len(PendingBytes(cells, w, r)) = Pending(w, r)
         /\ \A k \in 1 .. Pending(w, r) : PendingBytes(cells, w, r)[k] = cells[CellOf(r, k - 1)]
<1>1. Pending(w, r) \in 0 .. BufferSize
  BY PendingType
<1>2. QED
  BY <1>1, CopiedType DEF PendingBytes, Copied

LEMMA SentGrows ==
  ASSUME SendInv, Numbered, NEW t \in Senders, NEW data \in Payloads, SendCommand(t, data)
  PROVE  /\ data \in Seq(Int)
         /\ sent' = Append(sent, data) /\ sent' \in Seq(Seq(Int))
         /\ Len(sent') = Len(sent) + 1 /\ sent'[Len(sent) + 1] = data
         /\ \A k \in 1 .. Len(sent) : sent'[k] = sent[k]
         /\ offset' = Append(offset, offset[Len(offset)] + Len(data) + MinCommand)
<1>1. /\ sent \in Seq(Seq(Int)) /\ data \in Seq(Int) /\ sendCount + 1 \in Nat
      /\ offset \in Seq(Nat) /\ Len(offset) = Len(sent) + 1
  BY SendSideAssumption DEF SendInv, SendTypeOK
<1>2. sent' = Append(sent, data)
      /\ offset' = Append(offset, offset[Len(offset)] + Len(Frame(sendCount + 1, data)))
  BY DEF SendCommand
<1>3. Len(Frame(sendCount + 1, data)) = Len(data) + MinCommand
  BY <1>1, FrameBytes
<1>4. offset[Len(offset)] \in Nat /\ Len(data) \in Nat /\ MinCommand \in Nat
  BY <1>1 DEF MinCommand, HeaderSize, EofSize
<1>5. QED
  BY <1>1, <1>2, <1>3, <1>4

LEMMA NumberedKept ==
  ASSUME SendInv, RecvTypeOK, Numbered, [Next]_vars
  PROVE  Numbered'
<1> USE SendSideAssumption, WireAssumption
<1>1. wire \in Seq(Int) /\ Len(wire) \in Nat
  BY DEF SendInv, WireTypeOK
<1>2. ASSUME UNCHANGED <<sendCount, sent, offset>>, Len(wire') <= WireCapacity
      PROVE  Numbered'
  BY <1>2 DEF Numbered
<1>3. ASSUME NEW t \in Senders, NEW data \in Payloads, SendCommand(t, data)
      PROVE  Numbered'
  <2>1. /\ sent \in Seq(Seq(Int)) /\ offset \in Seq(Nat) /\ Len(offset) = Len(sent) + 1
        /\ Len(sent) \in Nat
    BY DEF SendInv, SendTypeOK
  <2>2. /\ data \in Seq(Int)
        /\ sent' = Append(sent, data)
        /\ Len(sent') = Len(sent) + 1 /\ sent'[Len(sent) + 1] = data
        /\ \A k \in 1 .. Len(sent) : sent'[k] = sent[k]
        /\ offset' = Append(offset, offset[Len(offset)] + Len(data) + MinCommand)
    BY <1>3, SentGrows
  <2>3. Layout(sent', offset')
    BY <2>1, <2>2, LayoutGrows DEF Numbered
  <2>4. sendCount' = Len(sent') /\ wire' = wire
    BY <1>3, <2>2 DEF Numbered, SendCommand
  <2>5. \A k \in 1 .. Len(sent') : sent'[k] \in Payloads
    BY <2>1, <2>2 DEF Numbered
  <2>6. QED
    BY <2>3, <2>4, <2>5 DEF Numbered
<1>4. ASSUME NEW t \in Threads, SendBytes(t)
      PROVE  Numbered'
  <2>1. PICK n \in Accepted :
          /\ wire' = wire \o Copied(sendBuffer, chunk.start, n)
          /\ UNCHANGED <<sendCount, sent, offset>>
    BY <1>4 DEF SendBytes
  <2>2. chunk.start \in Point /\ chunk.last \in 0 .. BufferSize /\ sendBuffer \in [Cell -> Int]
    BY DEF SendInv, SendTypeOK
  <2>3. n \in 1 .. chunk.last /\ n <= Room
    BY <1>1, <2>2, TransferRange, BufferSizeAssumption DEF Accepted, Room
  <2>4. n \in 0 .. BufferSize
    BY <2>2, <2>3, BufferSizeAssumption
  <2>5. Copied(sendBuffer, chunk.start, n) \in Seq(Int)
        /\ Len(Copied(sendBuffer, chunk.start, n)) = n
    BY <2>2, <2>4, CopiedType
  <2>6. Len(wire') = Len(wire) + n
    BY <1>1, <2>1, <2>5, ConcatProperties, ZenonT(60)
  <2>7. QED
    BY <1>1, <1>2, <2>1, <2>3, <2>4, <2>6 DEF Room
<1>5. CASE SendNext /\ UNCHANGED recvVars
  <2>1. \/ UNCHANGED <<sendCount, sent, offset, wire>>
        \/ \E t \in Senders, data \in Payloads : SendCommand(t, data)
        \/ \E t \in Threads : SendBytes(t)
    BY <1>5 DEF SendNext, TestSendState, CheckError, BeginSend, SendMore, SendWouldBlock,
                SendFails, OnFdWrite, OnFdRead, EndOfEvents, Disconnect, ring
  <2>2. QED
    BY <1>2, <1>3, <1>4, <2>1 DEF Numbered
<1>6. CASE RecvToBuffer /\ UNCHANGED sendVars
  <2>1. PICK n \in Transfers(BufferSize - RecvStart, Len(wire)) :
          wire' = SubSeq(wire, n + 1, Len(wire))
    BY <1>6 DEF RecvToBuffer
  <2>2. RecvStart \in Point
    BY DEF RecvTypeOK, RecvStart, Point
  <2>3. n \in Nat /\ n <= Len(wire)
    BY <1>1, <2>2, TransferRange, BufferSizeAssumption DEF Point
  <2>4. Len(wire') = Len(wire) - n
    BY <1>1, <2>1, <2>3
  <2>5. QED
    BY <1>1, <1>2, <1>6, <2>3, <2>4 DEF Numbered, sendVars
<1>7. CASE (RecvNext \/ NetworkFailure) /\ UNCHANGED sendVars /\ ~RecvToBuffer
  BY <1>2, <1>7 DEF Numbered, RecvNext, RecvCommand, NoMoreCommands, DropCommand,
                    RejectCommand, ExecCommand, RecvFails, EndOfReceiver, NetworkFailure,
                    Break, sendVars
<1>8. CASE UNCHANGED vars
  BY <1>2, <1>8 DEF Numbered, vars, sendVars
<1>9. QED
  BY <1>5, <1>6, <1>7, <1>8 DEF Next, NetworkFailure

LEMMA StreamInvHolds ==
  ASSUME MaxBacklog < BufferSize
  PROVE  Spec => []StreamInv
<1>1. Init => Numbered
  BY WireAssumption DEF Init, SendInit, WireInit, Numbered, Layout
<1>2. SendInv /\ RecvTypeOK /\ Numbered /\ [Next]_vars => Numbered'
  BY NumberedKept
<1>3. QED
  BY <1>1, <1>2, BothHold, PTL DEF Spec, StreamInv

(***************************************************************************)
(* While the payloads are plain: the bytes under way are the commands not  *)
(* yet executed; the receiver has executed all before them, in order; and  *)
(* when it waits it has at most a piece of the next.                       *)
(***************************************************************************)
NextIsPartial ==
  rpc = "wait" /\ receiverState = "CONNECTED" /\ Len(delivered) < Len(sent)
    => Unread < Len(sent[Len(delivered) + 1]) + MinCommand

Flow ==
  /\ ~mismatch
  /\ Len(delivered) <= Len(sent)
  /\ receiverState = "CONNECTED" => sendCountBefore = Len(delivered)
  /\ recvReadPoint \in Point /\ Unread < BufferSize
  /\ Frames(InTransit, sent, offset, Len(delivered))
  /\ NextIsPartial

\* The types of the places, for what follows.
LEMMA FlowTypes ==
  ASSUME StreamInv, recvReadPoint \in Point
  PROVE  /\ sent \in Seq(Seq(Int)) /\ offset \in Seq(Nat) /\ Len(offset) = Len(sent) + 1
         /\ Len(sent) \in Nat /\ Len(delivered) \in Nat
         /\ Unread \in 0 .. BufferSize
         /\ BytesUnread \in Seq(Int) /\ Len(BytesUnread) = Unread
         /\ wire \in Seq(Int) /\ BytesUnsent \in Seq(Int)
         /\ InTransit \in Seq(Int) /\ Len(BytesUnread) <= Len(InTransit)
         /\ \A k \in 1 .. Len(BytesUnread) : BytesUnread[k] = InTransit[k]
<1>1. /\ sent \in Seq(Seq(Int)) /\ offset \in Seq(Nat) /\ Len(offset) = Len(sent) + 1
      /\ Len(sent) \in Nat /\ Len(delivered) \in Nat
      /\ wire \in Seq(Int) /\ BytesUnsent \in Seq(Int)
  BY BytesTypes DEF StreamInv, SendInv, SendTypeOK, RecvTypeOK
<1>2. /\ Unread \in 0 .. BufferSize
      /\ BytesUnread \in Seq(Int) /\ Len(BytesUnread) = Unread
  BY PendingBytesType DEF StreamInv, RecvTypeOK, Unread, BytesUnread
<1>0. ASSUME NEW a \in Seq(Int), NEW b \in Seq(Int)
      PROVE  /\ a \o b \in Seq(Int) /\ Len(a) \in Nat /\ Len(b) \in Nat
             /\ Len(a \o b) = Len(a) + Len(b)
             /\ \A k \in 1 .. Len(a) : a[k] = (a \o b)[k]
  BY <1>0
<1>3. /\ BytesUnread \o wire \in Seq(Int)
      /\ Len(BytesUnread \o wire) = Len(BytesUnread) + Len(wire)
      /\ Len(BytesUnread) \in Nat /\ Len(wire) \in Nat /\ Len(BytesUnsent) \in Nat
      /\ \A k \in 1 .. Len(BytesUnread) : BytesUnread[k] = (BytesUnread \o wire)[k]
  BY <1>0, <1>1, <1>2
<1> DEFINE front == BytesUnread \o wire
<1>4. /\ InTransit \in Seq(Int) /\ Len(InTransit) = Len(front) + Len(BytesUnsent)
      /\ \A k \in 1 .. Len(front) : front[k] = InTransit[k]
  BY <1>0, <1>1, <1>3 DEF InTransit
<1> HIDE DEF front
<1>5. \A k \in 1 .. Len(BytesUnread) : BytesUnread[k] = InTransit[k]
  <2>1. ASSUME NEW k \in 1 .. Len(BytesUnread)
        PROVE  BytesUnread[k] = front[k] /\ k \in 1 .. Len(front)
    <3>1. BytesUnread[k] = front[k]
      BY <1>3 DEF front
    <3>2. Len(front) = Len(BytesUnread) + Len(wire)
      BY <1>3 DEF front
    <3>3. QED
      BY <1>3, <3>1, <3>2
  <2>2. QED
    BY <1>4, <2>1
<1>6. Len(BytesUnread) <= Len(InTransit)
  BY <1>3, <1>4 DEF front
<1>7. QED
  BY <1>1, <1>2, <1>4, <1>5, <1>6

(***************************************************************************)
(* What RecvCommand can see: nothing, a piece of the next command, or all  *)
(* of it; and RecvCommandSize finds it when it is there.                   *)
(***************************************************************************)
LEMMA NextCommandSeen ==
  ASSUME StreamInv, PlainSent, Flow
  PROVE  /\ Len(delivered) = Len(sent) => Unread = 0
         /\ Len(delivered) < Len(sent) =>
              LET data == sent[Len(delivered) + 1]
                  n == Len(data) + MinCommand
              IN  /\ Plain(data) /\ data \in Seq(Int)
                  /\ Unread < n => WholeCommandSize(BytesUnread) = NoCommand
                  /\ Unread >= n => /\ WholeCommandSize(BytesUnread) = n
                                    /\ Found = n
                                    /\ HeaderCount = Len(delivered) + 1
                                    /\ Found = n => Data = data
<1> DEFINE d == Len(delivered)
<1>1. /\ sent \in Seq(Seq(Int)) /\ offset \in Seq(Nat) /\ Len(offset) = Len(sent) + 1
      /\ Len(sent) \in Nat /\ d \in 0 .. Len(sent)
      /\ Unread \in 0 .. BufferSize
      /\ BytesUnread \in Seq(Int) /\ Len(BytesUnread) = Unread
      /\ InTransit \in Seq(Int) /\ Len(BytesUnread) <= Len(InTransit)
      /\ \A k \in 1 .. Len(BytesUnread) : BytesUnread[k] = InTransit[k]
  <2>1. recvReadPoint \in Point /\ d <= Len(sent)
    BY DEF Flow
  <2>2. d \in Nat /\ Len(sent) \in Nat
    BY <2>1, FlowTypes
  <2>3. d \in 0 .. Len(sent)
    BY <2>1, <2>2
  <2> HIDE DEF d
  <2>4. QED
    BY <2>1, <2>3, FlowTypes
<1>2. Layout(sent, offset) /\ Frames(InTransit, sent, offset, d)
  BY DEF StreamInv, Numbered, Flow
<1> HIDE DEF d
<1>3. /\ d = Len(sent) => Len(BytesUnread) = 0
      /\ d < Len(sent) =>
           \A i \in 1 .. Len(sent[d + 1]) + MinCommand :
             i <= Len(BytesUnread) => BytesUnread[i] = Frame(d + 1, sent[d + 1])[i]
  BY <1>1, <1>2, FirstFrame, ZenonT(60)
<1>4. ASSUME d < Len(sent)
      PROVE  LET data == sent[d + 1]
                 n == Len(data) + MinCommand
             IN  /\ Plain(data) /\ data \in Seq(Int)
                 /\ Unread < n => WholeCommandSize(BytesUnread) = NoCommand
                 /\ Unread >= n => /\ WholeCommandSize(BytesUnread) = n
                                   /\ Found = n
                                   /\ HeaderCount = d + 1
                                   /\ Found = n => Data = data
  <2> DEFINE data == sent[d + 1]
             n == Len(data) + MinCommand
  <2>1. d + 1 \in 1 .. Len(sent) /\ d + 1 \in Nat /\ data \in Seq(Int) /\ Len(data) \in Nat
    BY <1>1, <1>4
  <2>2. Plain(data)
    BY <2>1 DEF PlainSent
  <2> HIDE DEF data
  <2>3. /\ Len(BytesUnread) < n => WholeCommandSize(BytesUnread) = NoCommand
        /\ Len(BytesUnread) >= n =>
             /\ EndsAt(BytesUnread, n)
             /\ BytesUnread[1] = d + 1
             /\ \A k \in 1 .. Len(data) : BytesUnread[k + 1] = data[k]
    BY <1>1, <1>3, <1>4, <2>1, <2>2, PlainEnds, ZenonT(60) DEF data
  <2>4. ASSUME Unread >= n
        PROVE  /\ WholeCommandSize(BytesUnread) = n
               /\ Found = n
               /\ HeaderCount = d + 1
               /\ Found = n => Data = data
    <3>1. MinCommand = 3 /\ HeaderSize = 1 /\ n \in MinCommand .. Unread
      BY <1>1, <2>1, <2>4 DEF MinCommand, HeaderSize, EofSize
    <3>2. WholeCommandSize(BytesUnread) = n
      BY <1>1, <2>3, <2>4, <3>1, WholeCommandIs
    <3>3. /\ recvBuffer \in [Cell -> Int] /\ recvWritePoint \in Point
          /\ recvReadPoint \in Point /\ Unread < BufferSize
      BY DEF StreamInv, RecvTypeOK, Flow
    <3>4. Found = n
      <4>1. EndsAt(PendingBytes(recvBuffer, recvWritePoint, recvReadPoint), n)
        BY <1>1, <2>3, <2>4 DEF BytesUnread
      <4>2. Pending(recvWritePoint, recvReadPoint) < BufferSize
            /\ n \in MinCommand .. Pending(recvWritePoint, recvReadPoint)
        BY <3>1, <3>3 DEF Unread
      <4> HIDE DEF n
      <4>3. QED
        BY <3>3, <4>1, <4>2, FindsWhatArrived DEF Found
    <3>5. \A k \in 1 .. Unread : BytesUnread[k] = recvBuffer[CellOf(recvReadPoint, k - 1)]
      BY <3>3, PendingBytesType DEF BytesUnread, Unread
    <3>6. HeaderCount = d + 1
      <4>1. 1 \in 1 .. Unread /\ 1 - 1 = 0
        BY <1>1, <3>1
      <4>2. BytesUnread[1] = recvBuffer[CellOf(recvReadPoint, 0)]
        BY <3>5, <4>1
      <4>3. QED
        BY <1>1, <2>3, <2>4, <4>2 DEF HeaderCount
    <3>7. n - MinCommand = Len(data)
      BY <2>1, <3>1
    <3>8. ASSUME NEW k \in 1 .. Len(data)
          PROVE  recvBuffer[CellOf(Move(recvReadPoint, HeaderSize), k - 1)] = data[k]
      <4>2. k + 1 \in 1 .. Unread /\ k \in Nat /\ 0 < k
        BY <1>1, <2>1, <3>1
      <4>1. CellOf(Move(recvReadPoint, 1), k - 1) = CellOf(recvReadPoint, (k + 1) - 1)
        BY <1>1, <3>3, <4>2, BufferSizeAssumption DEF CellOf, Move, Point
      <4>3. BytesUnread[k + 1] = data[k]
        BY <1>1, <2>3, <2>4
      <4>4. QED
        BY <3>1, <3>5, <4>1, <4>2, <4>3
    <3>9. Data = [k \in 1 .. Len(data) |-> data[k]]
      BY <3>4, <3>7, <3>8 DEF Data, Copied
    <3>10. data = [k \in 1 .. Len(data) |-> data[k]]
      BY <2>1
    <3>11. QED
      BY <3>2, <3>4, <3>6, <3>9, <3>10
  <2>5. QED
    BY <1>1, <2>1, <2>2, <2>3, <2>4 DEF data
<1>5. QED
  BY <1>1, <1>3, <1>4 DEF d

LEMMA Rebracket ==
  ASSUME NEW a \in Seq(Int), NEW b \in Seq(Int), NEW c \in Seq(Int)
  PROVE  (a \o b) \o c = a \o (b \o c)
BY ConcatAssociative, SMTT(30)

LEMMA PlainBefore ==
  ASSUME SendInv, Numbered, [Next]_vars, PlainSent'
  PROVE  PlainSent
<1>1. \/ UNCHANGED sent
      \/ \E t \in Senders, data \in Payloads : SendCommand(t, data)
  BY DEF Next, SendNext, NetworkFailure, TestSendState, CheckError, BeginSend, SendBytes,
         SendMore, SendWouldBlock, SendFails, OnFdWrite, OnFdRead, EndOfEvents, Disconnect,
         ring, vars, sendVars
<1>2. CASE UNCHANGED sent
  BY <1>2 DEF PlainSent
<1>3. ASSUME NEW t \in Senders, NEW data \in Payloads, SendCommand(t, data)
      PROVE  PlainSent
  <2>1. /\ Len(sent') = Len(sent) + 1 /\ Len(sent) \in Nat
        /\ \A k \in 1 .. Len(sent) : sent'[k] = sent[k]
    BY <1>3, SentGrows DEF SendInv, SendTypeOK
  <2>2. \A k \in 1 .. Len(sent) : k \in 1 .. Len(sent')
    BY <2>1
  <2>3. QED
    BY <2>1, <2>2 DEF PlainSent
<1>4. QED
  BY <1>1, <1>2, <1>3

(***************************************************************************)
(* Steps that neither move bytes nor execute a command.                    *)
(***************************************************************************)
LEMMA FlowAtRest ==
  ASSUME Flow,
         UNCHANGED <<InTransit, sent, offset, delivered, recvWritePoint, recvReadPoint,
                     sendCountBefore, mismatch>>,
         receiverState' = "CONNECTED" => receiverState = "CONNECTED",
         NextIsPartial'
  PROVE  Flow'
<1>1. Unread' = Unread
  BY DEF Unread
<1>2. Frames(InTransit', sent', offset', Len(delivered'))
  BY DEF Flow
<1>3. QED
  BY <1>1, <1>2 DEF Flow

\* SendCommand puts its command behind all that is under way.
LEMMA FlowWhenSent ==
  ASSUME MaxBacklog < BufferSize, StreamInv, Flow, UNCHANGED recvVars,
         NEW t \in Senders, NEW data \in Payloads, SendCommand(t, data)
  PROVE  Flow'
<1> DEFINE d == Len(delivered)
           frame == Frame(Len(sent) + 1, data)
<1> USE DEF StreamInv
<1>1. /\ sent \in Seq(Seq(Int)) /\ offset \in Seq(Nat) /\ Len(offset) = Len(sent) + 1
      /\ Len(sent) \in Nat /\ d \in 0 .. Len(sent)
      /\ BytesUnread \in Seq(Int) /\ wire \in Seq(Int) /\ BytesUnsent \in Seq(Int)
      /\ InTransit \in Seq(Int)
      /\ Unread \in 0 .. BufferSize /\ Len(BytesUnread) = Unread
  BY FlowTypes DEF Flow
<1>2. /\ data \in Seq(Int) /\ sent' = Append(sent, data)
      /\ Len(sent') = Len(sent) + 1 /\ sent'[Len(sent) + 1] = data
      /\ \A k \in 1 .. Len(sent) : sent'[k] = sent[k]
      /\ offset' = Append(offset, offset[Len(offset)] + Len(data) + MinCommand)
  BY SentGrows
<1>3. frame = Frame(sendCount', Last(sent')) /\ sent' # sent
  <2>1. Last(sent') = data /\ sent' # sent
    BY <1>1, <1>2 DEF Last
  <2>2. sendCount' = Len(sent) + 1
    BY DEF SendCommand, Numbered
  <2>3. QED
    BY <2>1, <2>2
<1>4. (wire \o BytesUnsent)' = (wire \o BytesUnsent) \o frame
  BY <1>3, CommandIsAppended DEF KeptOnTheWayOut
<1>5. frame \in Seq(Int)
  BY <1>1, <1>2, FrameBytes
<1>6. InTransit' = InTransit \o frame
  <2>1. BytesUnread' = BytesUnread
    BY SameBytes DEF recvVars
  <2>2. wire' \in Seq(Int) /\ BytesUnsent' \in Seq(Int)
    <3>1. wire' = wire
      BY DEF SendCommand
    <3>2. sendBuffer' \in [Cell -> Int] /\ sendWritePoint' \in Point /\ sendReadPoint' \in Point
      BY SendCommandStep DEF SendInv, SendTypeOK
    <3>3. QED
      BY <1>1, <3>1, <3>2, PendingBytesType DEF BytesUnsent
  <2>3. InTransit' = BytesUnread \o (wire' \o BytesUnsent')
    BY <1>1, <2>1, <2>2, Rebracket, ZenonT(60) DEF InTransit
  <2>4. InTransit' = BytesUnread \o ((wire \o BytesUnsent) \o frame)
    BY <1>4, <2>3
  <2>5. wire \o BytesUnsent \in Seq(Int)
    BY <1>1, ConcatProperties
  <2>6. BytesUnread \o ((wire \o BytesUnsent) \o frame)
          = (BytesUnread \o (wire \o BytesUnsent)) \o frame
    <3> HIDE DEF frame
    <3>1. QED
      BY <1>1, <1>5, <2>5, Rebracket, ZenonT(60)
  <2>7. BytesUnread \o (wire \o BytesUnsent) = InTransit
    BY <1>1, Rebracket DEF InTransit
  <2>8. QED
    BY <2>4, <2>6, <2>7
<1>7. Layout(sent, offset) /\ Frames(InTransit, sent, offset, d)
  BY DEF Numbered, Flow
<1>8. Frames(InTransit', sent', offset', d)
  <2> HIDE DEF d
  <2>1. Frames(InTransit \o Frame(Len(sent) + 1, data), Append(sent, data),
               Append(offset, offset[Len(offset)] + Len(data) + MinCommand), d)
    BY <1>1, <1>2, <1>7, FramesGrow
  <2>2. QED
    BY <1>2, <1>6, <2>1
<1>9. Unread' = Unread /\ delivered' = delivered
  BY DEF Unread, recvVars
<1>10. NextIsPartial'
  <2>1. CASE d < Len(sent)
    <3>1. d + 1 \in 1 .. Len(sent)
      BY <1>1, <2>1
    <3>2. sent'[d + 1] = sent[d + 1]
      BY <1>2, <3>1
    <3>3. QED
      BY <1>9, <2>1, <3>2 DEF NextIsPartial, Flow, recvVars
  <2>2. CASE d = Len(sent)
    <3>1. Len(BytesUnread) = 0
      <4> HIDE DEF d
      <4>1. Len(BytesUnread) <= Len(InTransit)
            /\ \A k \in 1 .. Len(BytesUnread) : BytesUnread[k] = InTransit[k]
        BY FlowTypes DEF Flow
      <4>2. QED
        BY <1>1, <1>7, <2>2, <4>1, FirstFrame
    <3>2. Unread < Len(data) + MinCommand
      <4>1. Len(data) \in Nat /\ MinCommand = 3
        BY <1>2 DEF MinCommand, HeaderSize, EofSize
      <4>2. QED
        BY <1>1, <3>1, <4>1
    <3>3. sent'[Len(delivered') + 1] = data
      BY <1>2, <1>9, <2>2
    <3>4. QED
      BY <1>9, <3>2, <3>3 DEF NextIsPartial
  <2>3. QED
    BY <1>1, <2>1, <2>2
<1>11. Len(delivered') <= Len(sent')
  BY <1>1, <1>2, <1>9
<1>12. QED
  BY <1>8, <1>9, <1>10, <1>11 DEF Flow, recvVars

\* SendFromBuffer moves bytes from the ring to the stream.
LEMMA FlowWhenMoved ==
  ASSUME MaxBacklog < BufferSize, StreamInv, Flow, UNCHANGED recvVars,
         NEW t \in Threads, SendBytes(t)
  PROVE  Flow'
<1> USE DEF StreamInv
<1>1. /\ BytesUnread \in Seq(Int) /\ wire \in Seq(Int) /\ BytesUnsent \in Seq(Int)
  BY FlowTypes DEF Flow
<1>2. UNCHANGED <<sent, offset>>
  BY DEF SendBytes
<1>3. (wire \o BytesUnsent)' = wire \o BytesUnsent
  <2>1. wire \o BytesUnsent \in Seq(Int)
    BY <1>1, ConcatProperties
  <2>2. (wire \o BytesUnsent) \o <<>> = wire \o BytesUnsent
    BY <2>1, ConcatProperties
  <2>3. QED
    BY <1>2, <2>2, ChunkIsMoved DEF KeptOnTheWayOut
<1>4. BytesUnread' = BytesUnread
  BY SameBytes DEF recvVars
<1>5. wire' \in Seq(Int) /\ BytesUnsent' \in Seq(Int)
  <2>1. SendInv'
    BY SendBytesStep
  <2>2. QED
    BY <2>1, PendingBytesType DEF SendInv, SendTypeOK, WireTypeOK, BytesUnsent
<1>6. InTransit' = BytesUnread \o (wire' \o BytesUnsent')
  BY <1>1, <1>4, <1>5, Rebracket DEF InTransit
<1>7. InTransit = BytesUnread \o (wire \o BytesUnsent)
  BY <1>1, Rebracket DEF InTransit
<1>8. InTransit' = InTransit
  BY <1>3, <1>6, <1>7
<1>9. NextIsPartial'
  BY <1>2 DEF NextIsPartial, Flow, Unread, recvVars
<1>10. QED
  BY <1>2, <1>8, <1>9, FlowAtRest DEF recvVars

(***************************************************************************)
(* RecvToBuffer moves bytes from the stream to the receive ring, which has *)
(* room for all that is in the stream.                                     *)
(***************************************************************************)
RingHolds == Unread + Len(wire) < BufferSize

LEMMA FlowWhenReceived ==
  ASSUME StreamInv, Flow, RingHolds, RecvToBuffer, UNCHANGED sendVars
  PROVE  Flow'
<1> USE DEF StreamInv
<1>1. /\ BytesUnread \in Seq(Int) /\ wire \in Seq(Int) /\ BytesUnsent \in Seq(Int)
      /\ Unread \in 0 .. BufferSize /\ Len(BytesUnread) = Unread
      /\ recvReadPoint \in Point
  BY FlowTypes DEF Flow
<1>2. PICK n \in Transfers(BufferSize - RecvStart, Len(wire)) :
        wire' = SubSeq(wire, n + 1, Len(wire))
  BY DEF RecvToBuffer
<1>3. n \in Nat /\ n <= Len(wire) /\ Len(wire) \in Nat
  <2>1. RecvStart \in Point
    BY DEF RecvTypeOK, RecvStart, Point
  <2>2. QED
    BY <1>1, <1>2, <2>1, TransferRange, BufferSizeAssumption DEF Point
<1>4. wire' \in Seq(Int) /\ Len(wire') = Len(wire) - n
  BY <1>1, <1>2, <1>3
<1>5. UNCHANGED recvReadPoint
  BY DEF RecvToBuffer
<1>6. (BytesUnread \o wire)' = BytesUnread \o wire
  <2>1. Unread + (Len(wire) - Len(wire')) < BufferSize
    <3>1. Len(wire) - Len(wire') = n
      BY <1>3, <1>4
    <3>2. Unread + n < BufferSize
      BY <1>1, <1>3, BufferSizeAssumption DEF RingHolds
    <3>3. QED
      BY <3>1, <3>2
  <2>2. QED
    BY <1>1, <1>5, <2>1, ChunkIsReceived DEF KeptOnTheWayIn
<1>7. BytesUnsent' = BytesUnsent
  BY SameBytes DEF sendVars
<1>8. InTransit' = InTransit
  BY <1>6, <1>7 DEF InTransit
<1>9. Unread' < BufferSize
  <2>1. recvBuffer' \in [Cell -> Int] /\ recvWritePoint' \in Point /\ recvReadPoint' \in Point
    <3>1. RecvTypeOK'
      BY RecvTypesKept DEF Next, RecvNext
    <3>2. QED
      BY <1>1, <1>5, <3>1 DEF RecvTypeOK
  <2>2. BytesUnread' \in Seq(Int) /\ Len(BytesUnread') = Unread' /\ Unread' \in 0 .. BufferSize
    BY <2>1, PendingBytesType DEF BytesUnread, Unread
  <2>3. /\ Len((BytesUnread \o wire)') = Len(BytesUnread') + Len(wire')
        /\ Len(BytesUnread \o wire) = Len(BytesUnread) + Len(wire)
    BY <1>1, <1>4, <2>2, ConcatProperties
  <2>4. Unread' + Len(wire') = Unread + Len(wire)
    BY <1>1, <1>6, <2>2, <2>3
  <2>5. Len(wire') \in Nat /\ Unread' \in Nat
    BY <1>4, <2>2, BufferSizeAssumption
  <2>6. Unread' <= Unread + Len(wire)
    BY <2>4, <2>5
  <2>7. QED
    BY <1>1, <1>3, <2>5, <2>6, BufferSizeAssumption DEF RingHolds
<1>10. NextIsPartial'
  BY DEF NextIsPartial, RecvToBuffer
<1>11. UNCHANGED <<sent, offset, delivered, sendCountBefore, mismatch, receiverState>>
  BY DEF RecvToBuffer, sendVars
<1>12. Frames(InTransit', sent', offset', Len(delivered'))
  BY <1>8, <1>11 DEF Flow
<1>13. QED
  BY <1>5, <1>9, <1>10, <1>11, <1>12 DEF Flow

(***************************************************************************)
(* As long as what RecvCommandSize finds has arrived, it is the next       *)
(* command, which RecvCommand neither drops nor rejects.                   *)
(***************************************************************************)
LEMMA FindsTheNext ==
  ASSUME StreamInv, PlainSent, Flow, OnlyArrivedCommands, Executing, Found >= MinCommand
  PROVE  /\ Len(delivered) < Len(sent)
         /\ sent[Len(delivered) + 1] \in Seq(Int)
         /\ Found = Len(sent[Len(delivered) + 1]) + MinCommand
         /\ Found \in MinCommand .. MaxSize /\ Found <= Unread
         /\ HeaderCount = Len(delivered) + 1 /\ Data = sent[Len(delivered) + 1]
         /\ InOrder
<1> DEFINE d == Len(delivered)
           data == sent[d + 1]
           n == Len(data) + MinCommand
<1>1. /\ Len(sent) \in Nat /\ d \in Nat /\ d <= Len(sent) /\ Unread \in Nat
      /\ Len(BytesUnread) = Unread
  BY FlowTypes DEF Flow
<1>2. MinCommand = 3 /\ NoCommand = -1
  BY DEF MinCommand, HeaderSize, EofSize, NoCommand
<1>3. Found = WholeCommandSize(BytesUnread) /\ Found # NoCommand
  BY <1>2 DEF OnlyArrivedCommands
<1>4. d < Len(sent)
  <2>1. CASE d = Len(sent)
    <3>1. Unread = 0
      BY <2>1, NextCommandSeen
    <3>2. WholeCommandSize(BytesUnread) = NoCommand
      BY <1>1, <1>2, <3>1 DEF WholeCommandSize
    <3>3. QED
      BY <1>3, <3>2
  <2>2. QED
    BY <1>1, <2>1
<1>5. /\ Plain(data) /\ data \in Seq(Int)
      /\ Unread < n => WholeCommandSize(BytesUnread) = NoCommand
      /\ Unread >= n => /\ Found = n
                        /\ HeaderCount = d + 1
                        /\ Found = n => Data = data
  BY <1>4, NextCommandSeen
<1>6. Len(data) \in Nat
  BY <1>5
<1>7. Unread >= n
  BY <1>1, <1>2, <1>3, <1>5, <1>6
<1>8. Found = n /\ HeaderCount = d + 1 /\ Data = data
  BY <1>5, <1>7
<1>9. Found \in MinCommand .. MaxSize /\ Found <= Unread
  BY <1>1, <1>2, <1>5, <1>6, <1>7, <1>8, RecvSideAssumption DEF Plain
<1>10. InOrder
  BY <1>8 DEF InOrder, Executing, Flow
<1>11. QED
  BY <1>4, <1>5, <1>8, <1>9, <1>10

\* RecvAndExecCommand ends its loop when at most a piece of it is left.
LEMMA FlowWhenDrained ==
  ASSUME StreamInv, PlainSent, Flow, NoMoreCommands, UNCHANGED sendVars
  PROVE  Flow'
<1>1. UNCHANGED InTransit
  BY SameBytes DEF InTransit, NoMoreCommands, sendVars
<1>2. NextIsPartial'
  <2>1. SUFFICES ASSUME receiverState = "CONNECTED", Len(delivered) < Len(sent)
                 PROVE  Unread < Len(sent[Len(delivered) + 1]) + MinCommand
    BY DEF NextIsPartial, NoMoreCommands, sendVars, Unread
  <2>2. Found < MinCommand /\ Found # Lost
    BY <2>1 DEF NoMoreCommands
  <2> DEFINE data == sent[Len(delivered) + 1]
  <2>3. /\ data \in Seq(Int)
        /\ Unread >= Len(data) + MinCommand => Found = Len(data) + MinCommand
    BY <2>1, NextCommandSeen
  <2>4. Len(data) \in Nat /\ MinCommand = 3 /\ Unread \in Nat
    BY <2>3, FlowTypes DEF Flow, MinCommand, HeaderSize, EofSize
  <2>5. QED
    BY <2>2, <2>3, <2>4
<1>3. QED
  BY <1>1, <1>2, FlowAtRest DEF NoMoreCommands, sendVars

\* ExecCommand takes the next command out and executes it.
LEMMA FlowWhenExecuted ==
  ASSUME StreamInv, PlainSent, Flow, OnlyArrivedCommands, ExecCommand, UNCHANGED sendVars
  PROVE  /\ Flow'
         /\ Len(delivered) + 1 <= Len(sent)
         /\ delivered' = Append(delivered, [sendCount |-> Len(delivered) + 1,
                                            data |-> sent[Len(delivered) + 1]])
<1> DEFINE d == Len(delivered)
           data == sent[d + 1]
<1> USE DEF StreamInv
<1>1. /\ d < Len(sent) /\ data \in Seq(Int)
      /\ Found = Len(data) + MinCommand
      /\ Found \in MinCommand .. MaxSize /\ Found <= Unread
      /\ HeaderCount = d + 1 /\ Data = data
  <2>1. Executing /\ Found >= MinCommand
    BY RecvSideAssumption DEF ExecCommand, MinCommand, HeaderSize, EofSize
  <2>2. QED
    BY <2>1, FindsTheNext
<1>2. /\ sent \in Seq(Seq(Int)) /\ offset \in Seq(Nat) /\ Len(offset) = Len(sent) + 1
      /\ Len(sent) \in Nat /\ d \in Nat /\ Unread \in 0 .. BufferSize
      /\ BytesUnread \in Seq(Int) /\ Len(BytesUnread) = Unread
      /\ wire \in Seq(Int) /\ BytesUnsent \in Seq(Int) /\ InTransit \in Seq(Int)
  BY FlowTypes DEF Flow
<1>3. /\ recvBuffer \in [Cell -> Int] /\ recvWritePoint \in Point
      /\ recvReadPoint \in Point /\ Unread < BufferSize
  BY DEF RecvTypeOK, Flow
<1>4. Found \in 1 .. Unread /\ Found \in Nat
  <2>1. MinCommand = 3 /\ Found >= MinCommand /\ Found \in Int /\ Unread \in Int
    BY <1>1, <1>2, RecvSideAssumption DEF MinCommand, HeaderSize, EofSize
  <2>2. QED
    BY <1>1, <2>1
<1>5. /\ recvReadPoint' = Move(recvReadPoint, Found)
      /\ recvReadPoint' \in Point
      /\ Unread' = Unread - Found
      /\ IsRest(BytesUnread', Found, BytesUnread)
  <2>1. recvReadPoint' = Move(recvReadPoint, Found)
        /\ UNCHANGED <<recvBuffer, recvWritePoint>>
    BY DEF ExecCommand
  <2>2. /\ Move(recvReadPoint, Found) \in Point
        /\ Pending(recvWritePoint, Move(recvReadPoint, Found)) = Unread - Found
        /\ IsRest(PendingBytes(recvBuffer, recvWritePoint, Move(recvReadPoint, Found)),
                  Found, PendingBytes(recvBuffer, recvWritePoint, recvReadPoint))
    <3>1. Pending(recvWritePoint, recvReadPoint) < BufferSize
          /\ Found \in 1 .. Pending(recvWritePoint, recvReadPoint)
      BY <1>3, <1>4 DEF Unread
    <3>2. QED
      BY <1>3, <3>1, RestOfPending DEF Unread
  <2>3. QED
    BY <2>1, <2>2 DEF Unread, BytesUnread
<1>6. wire' = wire /\ BytesUnsent' = BytesUnsent /\ UNCHANGED <<sent, offset>>
  BY SameBytes DEF ExecCommand, sendVars
<1>7. BytesUnread' \in Seq(Int)
  <2>1. recvBuffer' \in [Cell -> Int] /\ recvWritePoint' \in Point
    BY <1>3 DEF ExecCommand
  <2>2. QED
    BY <1>5, <2>1, PendingBytesType DEF BytesUnread
<1>8. IsRest(InTransit', Found, InTransit) /\ InTransit' \in Seq(Int)
  <2>1. /\ IsRest(BytesUnread' \o wire, Found, BytesUnread \o wire)
        /\ BytesUnread' \o wire \in Seq(Int) /\ BytesUnread \o wire \in Seq(Int)
    BY <1>2, <1>4, <1>5, <1>7, RestGoesOn, ConcatProperties
  <2> DEFINE rest == BytesUnread' \o wire
             whole == BytesUnread \o wire
  <2>2. IsRest(rest, Found, whole) /\ rest \in Seq(Int) /\ whole \in Seq(Int)
    BY <2>1
  <2>3. InTransit' = rest \o BytesUnsent /\ InTransit = whole \o BytesUnsent
    BY <1>6 DEF InTransit
  <2> HIDE DEF rest, whole
  <2>4. IsRest(rest \o BytesUnsent, Found, whole \o BytesUnsent)
        /\ rest \o BytesUnsent \in Seq(Int)
    BY <1>2, <1>4, <2>2, RestGoesOn, ConcatProperties
  <2>5. QED
    BY <2>3, <2>4
<1>9. /\ delivered' = Append(delivered, [sendCount |-> d + 1, data |-> data])
      /\ Len(delivered') = d + 1
  <2>1. delivered' = Append(delivered, [sendCount |-> d + 1, data |-> data])
    BY <1>1 DEF ExecCommand
  <2>2. delivered \in Seq([sendCount : Int, data : Seq(Int)])
    BY DEF RecvTypeOK
  <2>3. QED
    BY <2>1, <2>2
<1>10. Frames(InTransit', sent, offset, d + 1)
  <2>1. Layout(sent, offset) /\ Frames(InTransit, sent, offset, d) /\ d \in 0 .. Len(sent)
    BY <1>1, <1>2 DEF Numbered, Flow
  <2>2. IsRest(InTransit', Len(sent[d + 1]) + MinCommand, InTransit)
    BY <1>1, <1>8
  <2> HIDE DEF d
  <2>3. QED
    BY <1>1, <1>2, <1>8, <2>1, <2>2, FramesAdvance
<1>11. Frames(InTransit', sent', offset', Len(delivered'))
  BY <1>6, <1>9, <1>10
<1>12. NextIsPartial'
  BY DEF NextIsPartial, ExecCommand, Executing
<1>13. /\ Len(delivered') <= Len(sent') /\ sendCountBefore' = Len(delivered')
       /\ Unread' < BufferSize /\ ~mismatch'
  <2>1. sendCountBefore' = d + 1 /\ ~mismatch'
    BY <1>1 DEF ExecCommand, Flow
  <2>2. Unread' < BufferSize
    BY <1>2, <1>3, <1>4, <1>5, BufferSizeAssumption
  <2>3. Len(delivered') <= Len(sent')
    BY <1>1, <1>2, <1>6, <1>9
  <2>4. QED
    BY <1>9, <2>1, <2>2, <2>3
<1>14. Flow'
  BY <1>5, <1>11, <1>12, <1>13 DEF Flow
<1>15. d + 1 <= Len(sent)
  BY <1>1, <1>2
<1>16. QED
  BY <1>9, <1>14, <1>15

(***************************************************************************)
(* Every step keeps the flow, as long as what is found has arrived and the *)
(* receive ring has room.                                                  *)
(***************************************************************************)
LEMMA FlowKept ==
  ASSUME MaxBacklog < BufferSize, StreamInv, PlainSent, Flow, OnlyArrivedCommands,
         RecvToBuffer => RingHolds, [Next]_vars
  PROVE  Flow'
<1> DEFINE atRest == UNCHANGED <<sendBuffer, sendWritePoint, sendReadPoint, sent, offset,
                                 recvBuffer, wire, delivered, recvWritePoint,
                                 recvReadPoint, sendCountBefore, mismatch>>
<1>1. ASSUME atRest,
             receiverState' = "CONNECTED" => receiverState = "CONNECTED" /\ rpc' = rpc
      PROVE  Flow'
  <2>1. UNCHANGED <<InTransit, Unread>>
    BY <1>1, SameBytes DEF InTransit, Unread
  <2>2. NextIsPartial'
    BY <1>1, <2>1 DEF NextIsPartial, Flow
  <2>3. QED
    BY <1>1, <2>1, <2>2, FlowAtRest
<1>2. CASE SendNext /\ UNCHANGED recvVars
  <2>1. \/ atRest
        \/ \E t \in Senders, data \in Payloads : SendCommand(t, data)
        \/ \E t \in Threads : SendBytes(t)
    BY <1>2 DEF SendNext, TestSendState, CheckError, BeginSend, SendMore, SendWouldBlock,
                SendFails, OnFdWrite, OnFdRead, EndOfEvents, Disconnect, ring, recvVars
  <2>2. CASE atRest
    BY <1>1, <1>2, <2>2 DEF recvVars
  <2>3. QED
    BY <1>2, <2>1, <2>2, FlowWhenSent, FlowWhenMoved
<1>3. CASE RecvNext /\ UNCHANGED sendVars
  <2>1. CASE RecvToBuffer
    BY <1>3, <2>1, FlowWhenReceived
  <2>2. CASE NoMoreCommands
    BY <1>3, <2>2, FlowWhenDrained
  <2>3. CASE DropCommand
    <3>1. Executing /\ Found > MaxSize /\ Found \in Int
      <4>1. Found \in {NoCommand, Lost} \cup Sizes(recvReadPoint)
        BY CommandSizeType DEF StreamInv, RecvTypeOK, Found
      <4>2. recvReadPoint \in 0 .. BufferSize + 1
        BY DEF StreamInv, RecvTypeOK
      <4>3. Found \in Int
        BY <4>1, <4>2, BufferSizeAssumption
        DEF NoCommand, Lost, Sizes, SizeTo, Distance, EofSize, Cell
      <4>4. QED
        BY <2>3, <4>3 DEF DropCommand
    <3>2. Found # NoCommand /\ Found # Lost
      BY <3>1, RecvSideAssumption DEF NoCommand, Lost
    <3>3. ~(Found >= MinCommand)
      BY <3>1, FindsTheNext, RecvSideAssumption
    <3>4. MinCommand <= MaxSize \/ Len(sent) = 0
      <4>1. ASSUME Len(sent) # 0 PROVE MinCommand <= MaxSize
        <5>1. sent \in Seq(Seq(Int)) /\ 1 \in 1 .. Len(sent)
          BY <4>1 DEF StreamInv, SendInv, SendTypeOK
        <5>2. Plain(sent[1]) /\ Len(sent[1]) \in Nat
          BY <5>1 DEF PlainSent
        <5>3. QED
          BY <5>2, RecvSideAssumption DEF Plain, MinCommand, HeaderSize, EofSize
      <4>2. QED
        BY <4>1
    <3>5. MinCommand = 3 /\ Found # NoCommand
      BY <3>2 DEF MinCommand, HeaderSize, EofSize
    <3>6. Len(sent) # 0
      <4>1. SUFFICES ASSUME Len(sent) = 0 PROVE FALSE
        OBVIOUS
      <4>2. Len(delivered) = Len(sent)
        BY <4>1, FlowTypes DEF Flow
      <4>3. Unread = 0
        BY <4>2, NextCommandSeen
      <4>4. QED
        BY <3>5, <4>3 DEF Found, CommandSize, Unread
    <3>7. QED
      BY <3>1, <3>3, <3>4, <3>5, <3>6, RecvSideAssumption
  <2>4. CASE RejectCommand
    <3>1. Executing /\ Found >= MinCommand /\ ~InOrder
      BY <2>4, RecvSideAssumption DEF RejectCommand, MinCommand, HeaderSize, EofSize
    <3>2. QED
      BY <3>1, FindsTheNext
  <2>5. CASE ExecCommand
    BY <1>3, <2>5, FlowWhenExecuted
  <2>6. CASE RecvFails \/ EndOfReceiver
    BY <1>1, <1>3, <2>6 DEF RecvFails, EndOfReceiver, sendVars
  <2>7. QED
    BY <1>3, <2>1, <2>2, <2>3, <2>4, <2>5, <2>6 DEF RecvNext, RecvCommand
<1>4. CASE NetworkFailure
  BY <1>1, <1>4 DEF NetworkFailure, Break, sendVars, recvVars
<1>5. CASE UNCHANGED vars
  BY <1>1, <1>5 DEF vars, sendVars, recvVars
<1>6. QED
  BY <1>2, <1>3, <1>4, <1>5 DEF Next


LEMMA FlowInitially == Init => Flow
<1> SUFFICES ASSUME Init PROVE Flow
  OBVIOUS
<1>1. /\ sent = <<>> /\ delivered = <<>> /\ offset = <<0>> /\ wire = <<>>
      /\ recvWritePoint = 0 /\ recvReadPoint = 0 /\ sendWritePoint = 0 /\ sendReadPoint = 0
      /\ sendCountBefore = 0 /\ ~mismatch
  BY DEF Init, SendInit, RecvInit, WireInit
<1>2. Unread = 0 /\ Pending(sendWritePoint, sendReadPoint) = 0
  BY <1>1 DEF Unread, Pending
<1>3. BytesUnread = <<>> /\ BytesUnsent = <<>>
  BY <1>2 DEF BytesUnread, BytesUnsent, PendingBytes, Copied, Unread
<1>4. InTransit = <<>>
  BY <1>1, <1>3 DEF InTransit
<1>5. Frames(InTransit, sent, offset, Len(delivered))
  BY <1>1, <1>4 DEF Frames
<1>6. recvReadPoint \in Point /\ Unread < BufferSize
  BY <1>1, <1>2, BufferSizeAssumption DEF Point
<1>7. NextIsPartial
  BY <1>1 DEF NextIsPartial
<1>8. QED
  BY <1>1, <1>5, <1>6, <1>7 DEF Flow

LEMMA InTransitLength ==
  ASSUME StreamInv, recvReadPoint \in Point
  PROVE  /\ Unread \in Nat /\ Len(wire) \in Nat /\ Len(BytesUnsent) \in Nat
         /\ Len(InTransit) = Unread + Len(wire) + Len(BytesUnsent)
<1>1. /\ BytesUnread \in Seq(Int) /\ wire \in Seq(Int) /\ BytesUnsent \in Seq(Int)
      /\ Len(BytesUnread) = Unread
  BY FlowTypes
<1>2. ASSUME NEW a \in Seq(Int), NEW b \in Seq(Int), NEW c \in Seq(Int)
      PROVE  /\ Len(a) \in Nat /\ Len(b) \in Nat /\ Len(c) \in Nat
             /\ Len((a \o b) \o c) = Len(a) + Len(b) + Len(c)
  BY <1>2
<1>3. QED
  BY <1>1, <1>2 DEF InTransit

(***************************************************************************)
(* While the receiver waits, the piece of a command it has leaves room for *)
(* all that the stream holds, if the ring is large enough for both.        *)
(***************************************************************************)
LEMMA RoomWhenWaiting ==
  ASSUME StreamInv, PlainSent, Flow, RecvToBuffer
  PROVE  Unread + Len(wire) < MaxSize + WireCapacity
<1> USE WireAssumption, RecvSideAssumption, BufferSizeAssumption
<1> DEFINE d == Len(delivered)
<1>1. /\ Unread \in Nat /\ Len(wire) \in Nat /\ Len(BytesUnsent) \in Nat
      /\ Len(InTransit) = Unread + Len(wire) + Len(BytesUnsent)
  BY InTransitLength DEF Flow
<1>2. /\ Len(sent) \in Nat /\ d \in Nat /\ d <= Len(sent)
      /\ sent \in Seq(Seq(Int)) /\ offset \in Seq(Nat) /\ Len(offset) = Len(sent) + 1
  BY FlowTypes DEF Flow
<1>3. CASE d = Len(sent)
  <2>1. Len(InTransit) = offset[Len(sent) + 1] - offset[Len(sent) + 1]
    BY <1>3 DEF Flow, Frames
  <2>2. offset[Len(sent) + 1] \in Nat
    BY <1>2
  <2>3. Len(wire) = 0
    BY <1>1, <2>1, <2>2
  <2>4. PICK n \in Transfers(BufferSize - RecvStart, Len(wire)) : TRUE
    BY DEF RecvToBuffer
  <2>5. RecvStart \in Point
    BY DEF StreamInv, RecvTypeOK, RecvStart, Point
  <2>6. n \in 1 .. BufferSize - RecvStart /\ n <= Len(wire)
    BY <1>1, <2>5, TransferRange DEF Point
  <2>7. QED
    BY <2>3, <2>6
<1>4. CASE d < Len(sent)
  <2> DEFINE n == Len(sent[d + 1]) + MinCommand
  <2>1. Unread < n
    BY <1>4 DEF Flow, NextIsPartial, RecvToBuffer
  <2>2. n <= MaxSize /\ n \in Nat
    <3>1. Plain(sent[d + 1]) /\ sent[d + 1] \in Seq(Int)
      BY <1>4, NextCommandSeen
    <3>2. QED
      BY <3>1 DEF Plain, MinCommand, HeaderSize, EofSize
  <2> HIDE DEF n
  <2>3. Len(wire) <= WireCapacity
    BY DEF StreamInv, Numbered
  <2>4. QED
    BY <1>1, <2>1, <2>2, <2>3
<1>5. QED
  BY <1>2, <1>3, <1>4

(***************************************************************************)
(* What the flow gives: the properties of the connection.                  *)
(***************************************************************************)
LEMMA PartIs ==
  ASSUME NEW whole \in Seq(Int), NEW part \in Seq(Int), NEW m \in Nat,
         m + Len(part) <= Len(whole),
         \A i \in 1 .. Len(part) : whole[m + i] = part[i]
  PROVE  SubSeq(whole, m + 1, m + Len(part)) = part
<1> DEFINE s == SubSeq(whole, m + 1, m + Len(part))
<1>1. Len(part) \in Nat /\ Len(whole) \in Nat
  OBVIOUS
<1>2. /\ s \in Seq(Int) /\ Len(s) = Len(part)
      /\ \A i \in 1 .. Len(part) : s[i] = whole[m + i]
  BY <1>1
<1> HIDE DEF s
<1>3. \A i \in 1 .. Len(part) : s[i] = part[i]
  BY <1>2
<1>4. s = part
  BY <1>2, <1>3, SeqEqual
<1>5. QED
  BY <1>4 DEF s

LEMMA FlowLosesNothing ==
  ASSUME StreamInv, Flow
  PROVE  NothingLost
<1> DEFINE d == Len(delivered)
<1>1. /\ sent \in Seq(Seq(Int)) /\ offset \in Seq(Nat) /\ Len(offset) = Len(sent) + 1
      /\ Len(sent) \in Nat /\ d \in Nat /\ d <= Len(sent) /\ InTransit \in Seq(Int)
  BY FlowTypes DEF Flow
<1>2. /\ Layout(sent, offset) /\ Frames(InTransit, sent, offset, d)
  BY DEF StreamInv, Numbered, Flow
<1>3. Len(InTransit) = UndeliveredSize
  BY <1>2 DEF Frames, UndeliveredSize
<1>4. ASSUME NEW k \in d + 1 .. Len(sent)
      PROVE  FrameInTransit(k)
  <2> DEFINE start == offset[k] - offset[d + 1]
             frame == Frame(k, sent[k])
  <2>1. k \in 1 .. Len(sent) /\ k \in Nat /\ sent[k] \in Seq(Int) /\ d + 1 <= k
        /\ k \in 1 .. Len(sent) + 1 /\ k + 1 \in 1 .. Len(sent) + 1
        /\ d + 1 \in 1 .. Len(sent) + 1 /\ Len(sent) + 1 \in 1 .. Len(sent) + 1
        /\ k + 1 <= Len(sent) + 1
    BY <1>1
  <2>2. /\ offset[k] \in Nat /\ offset[d + 1] \in Nat /\ offset[Len(sent) + 1] \in Nat
        /\ Len(sent[k]) \in Nat
        /\ offset[k + 1] = offset[k] + (Len(sent[k]) + 3)
        /\ offset[d + 1] <= offset[k] /\ offset[k + 1] <= offset[Len(sent) + 1]
    BY <1>1, <1>2, <2>1, Places
  <2>3. frame \in Seq(Int) /\ Len(frame) = Len(sent[k]) + 3
    BY <2>1, FrameType
  <2>4. \A i \in 1 .. Len(frame) : InTransit[start + i] = frame[i]
    BY <1>2, <2>3, SMTT(40) DEF Frames, MinCommand, HeaderSize, EofSize
  <2> HIDE DEF frame
  <2>5. start \in Nat /\ start + Len(frame) <= Len(InTransit)
    <3>1. ASSUME NEW from \in Nat, NEW here \in Nat, NEW size \in Nat, NEW end \in Nat,
                 from <= here, here + size <= end
          PROVE  here - from \in Nat /\ (here - from) + size <= end - from
      BY <3>1
    <3>2. Len(sent[k]) + 3 \in Nat
      BY <2>2
    <3>3. start + (Len(sent[k]) + 3) <= offset[Len(sent) + 1] - offset[d + 1] /\ start \in Nat
      BY <2>2, <3>1, <3>2
    <3>4. QED
      BY <1>3, <2>3, <3>3 DEF UndeliveredSize
  <2> HIDE DEF start
  <2>6. SubSeq(InTransit, start + 1, start + Len(frame)) = frame
    BY <1>1, <2>3, <2>4, <2>5, PartIs
  <2>7. QED
    BY <2>6 DEF FrameInTransit, start, frame
<1>5. QED
  BY <1>1, <1>3, <1>4 DEF NothingLost

LEMMA FlowDrainsTheRing ==
  ASSUME StreamInv, PlainSent, Flow
  PROVE  RingDrained
<1>1. SUFFICES ASSUME rpc = "wait", receiverState = "CONNECTED"
               PROVE  WholeCommandSize(BytesUnread) = NoCommand
  BY DEF RingDrained
<1>2. /\ Len(sent) \in Nat /\ Len(delivered) \in Nat /\ Len(delivered) <= Len(sent)
      /\ Len(BytesUnread) = Unread
  BY FlowTypes DEF Flow
<1>3. CASE Len(delivered) = Len(sent)
  <2>1. Len(BytesUnread) = 0
    BY <1>2, <1>3, NextCommandSeen
  <2>2. QED
    BY <2>1 DEF WholeCommandSize, MinCommand, HeaderSize, EofSize
<1>4. CASE Len(delivered) < Len(sent)
  <2>1. Unread < Len(sent[Len(delivered) + 1]) + MinCommand
    BY <1>1, <1>4 DEF Flow, NextIsPartial
  <2>2. QED
    BY <1>4, <2>1, NextCommandSeen
<1>5. QED
  BY <1>2, <1>3, <1>4

\* A step is one of the channel.
LEMMA FlowIsChannel ==
  ASSUME StreamInv, PlainSent, Flow, OnlyArrivedCommands, [Next]_vars
  PROVE  [Commands!Next]_<<sent, delivered>>
<1>1. ASSUME NEW t \in Senders, NEW data \in Payloads, SendCommand(t, data), UNCHANGED recvVars
      PROVE  Commands!Next
  <2>1. Commands!Send(data)
    BY <1>1 DEF Commands!Send, SendCommand, recvVars
  <2>2. QED
    BY <2>1 DEF Commands!Next
<1>2. ASSUME ExecCommand, UNCHANGED sendVars
      PROVE  Commands!Next
  <2>1. Commands!Deliver
    BY <1>2, FlowWhenExecuted DEF Commands!Deliver, sendVars
  <2>2. QED
    BY <2>1 DEF Commands!Next
<1>3. CASE SendNext /\ UNCHANGED recvVars
  <2>1. \/ UNCHANGED sent
        \/ \E t \in Senders, data \in Payloads : SendCommand(t, data)
    BY <1>3 DEF SendNext, TestSendState, CheckError, BeginSend, SendBytes, SendMore,
                SendWouldBlock, SendFails, OnFdWrite, OnFdRead, EndOfEvents, Disconnect, ring
  <2>2. QED
    BY <1>1, <1>3, <2>1 DEF recvVars
<1>4. CASE RecvNext /\ UNCHANGED sendVars
  <2>1. ExecCommand \/ UNCHANGED delivered
    BY <1>4 DEF RecvNext, RecvToBuffer, RecvCommand, NoMoreCommands, DropCommand,
                RejectCommand, RecvFails, EndOfReceiver
  <2>2. QED
    BY <1>2, <1>4, <2>1 DEF sendVars
<1>5. CASE NetworkFailure \/ UNCHANGED vars
  BY <1>5 DEF NetworkFailure, vars, sendVars, recvVars
<1>6. QED
  BY <1>3, <1>4, <1>5 DEF Next

-----------------------------------------------------------------------------
(***************************************************************************)
(* The flow goes on as long as what RecvCommandSize finds has arrived.     *)
(* Two things the code does not test must hold of the sizes: SendCommand   *)
(* never writes more than the send ring has room for (TC 449), and the     *)
(* receive ring has room for a command and all that the stream may hold    *)
(* (RecvToBuffer, TC 313).                                                 *)
(***************************************************************************)
LEMMA FlowGoesOn ==
  ASSUME MaxBacklog < BufferSize, MaxSize + WireCapacity <= BufferSize
  PROVE  Spec /\ []OnlyArrivedCommands => [](StreamInv /\ (PlainSent => Flow))
<1>1. Init => (PlainSent => Flow)
  BY FlowInitially
<1>2. StreamInv /\ (PlainSent => Flow) /\ OnlyArrivedCommands /\ [Next]_vars
        => (PlainSent => Flow)'
  <2>1. SUFFICES ASSUME StreamInv, PlainSent => Flow, OnlyArrivedCommands, [Next]_vars,
                        PlainSent'
                 PROVE  Flow'
    OBVIOUS
  <2>2. PlainSent /\ Flow
    BY <2>1, PlainBefore DEF StreamInv
  <2>3. RecvToBuffer => RingHolds
    <3>1. Unread \in Nat /\ Len(wire) \in Nat
      BY <2>1, <2>2, InTransitLength DEF Flow
    <3>2. QED
      BY <2>1, <2>2, <3>1, RoomWhenWaiting, BufferSizeAssumption, RecvSideAssumption,
         WireAssumption DEF RingHolds
  <2>4. QED
    BY <2>1, <2>2, <2>3, FlowKept
<1>3. QED
  BY <1>1, <1>2, StreamInvHolds, PTL DEF Spec

(***************************************************************************)
(* Nothing is lost on the way (NothingLost): while all payloads are plain  *)
(* the bytes unread, in flight and unsent are the commands SendCommand has *)
(* framed and RecvAndExecCommand not yet executed (TC 421-534), in order   *)
(* and whole, as long as no scan reports a terminator that has not arrived.*)
(***************************************************************************)
THEOREM NothingIsLost ==
  ASSUME MaxBacklog < BufferSize, MaxSize + WireCapacity <= BufferSize
  PROVE  Spec /\ []OnlyArrivedCommands => [](PlainSent => NothingLost)
<1>1. StreamInv /\ (PlainSent => Flow) => (PlainSent => NothingLost)
  BY FlowLosesNothing
<1>2. QED
  BY <1>1, FlowGoesOn, PTL

(***************************************************************************)
(* Under the same conditions the loop of RecvAndExecCommand (TC 472-533)   *)
(* leaves no whole command behind (RingDrained).                           *)
(***************************************************************************)
THEOREM RingIsDrained ==
  ASSUME MaxBacklog < BufferSize, MaxSize + WireCapacity <= BufferSize
  PROVE  Spec /\ []OnlyArrivedCommands => [](PlainSent => RingDrained)
<1>1. StreamInv /\ (PlainSent => Flow) => (PlainSent => RingDrained)
  BY FlowDrainsTheRing
<1>2. QED
  BY <1>1, FlowGoesOn, PTL

(***************************************************************************)
(* And the number check of RecvCommand (TC 381-394) never closes the       *)
(* connection "due to an internal error" (NoInternalErrorIfPlain).         *)
(***************************************************************************)
THEOREM NoErrorWhilePlain ==
  ASSUME MaxBacklog < BufferSize, MaxSize + WireCapacity <= BufferSize
  PROVE  Spec /\ []OnlyArrivedCommands => []NoInternalErrorIfPlain
<1>1. StreamInv /\ (PlainSent => Flow) => NoInternalErrorIfPlain
  BY DEF Flow, NoInternalErrorIfPlain, NoInternalError
<1>2. QED
  BY <1>1, FlowGoesOn, PTL

(***************************************************************************)
(* Every step is one of the channel (ChannelIfPlain): what                 *)
(* RecvAndExecCommand executes (TC 493-533) is the next of the commands    *)
(* SendCommand was given, with its number and its data, and each is        *)
(* executed once.                                                          *)
(***************************************************************************)
THEOREM StepsOfTheChannel ==
  ASSUME MaxBacklog < BufferSize, MaxSize + WireCapacity <= BufferSize
  PROVE  Spec /\ []OnlyArrivedCommands => ChannelIfPlain
<1>1. StreamInv /\ (PlainSent => Flow) /\ OnlyArrivedCommands /\ [Next]_vars
        => [PlainSent => Commands!Next]_<<sent, delivered>>
  BY FlowIsChannel
<1>2. QED
  BY <1>1, FlowGoesOn, PTL DEF Spec, ChannelIfPlain

(***************************************************************************)
(* So a connection over which only plain payloads are sent implements the  *)
(* channel (ImplementsChannel).                                            *)
(***************************************************************************)
THEOREM StreamIsChannel ==
  ASSUME MaxBacklog < BufferSize, MaxSize + WireCapacity <= BufferSize,
         \A data \in Payloads : Plain(data)
  PROVE  Spec /\ []OnlyArrivedCommands => ImplementsChannel
<1>1. Init => Commands!Init
  BY DEF Init, SendInit, RecvInit, Commands!Init
<1>2. StreamInv /\ (PlainSent => Flow) /\ OnlyArrivedCommands /\ [Next]_vars
        => [Commands!Next]_<<sent, delivered>>
  <2>1. StreamInv => PlainSent
    BY DEF StreamInv, Numbered, PlainSent
  <2>2. QED
    BY <2>1, FlowIsChannel
<1>3. QED
  BY <1>1, <1>2, FlowGoesOn, PTL DEF Spec, ImplementsChannel, Commands!Spec

-----------------------------------------------------------------------------
(***************************************************************************)
(* The first lap: until as many bytes have been sent as the ring holds no  *)
(* point has wrapped, the cells behind the write point of the receiver     *)
(* have never been written, and so no terminator lies about in them.       *)
(***************************************************************************)
FirstLap == offset[Len(offset)] < BufferSize

InLine ==
  /\ sendWritePoint = offset[Len(offset)]
  /\ sendReadPoint <= sendWritePoint
  /\ recvWritePoint + Len(wire) = sendReadPoint
  /\ recvReadPoint <= recvWritePoint
  /\ \A i \in Cell : recvWritePoint <= i => recvBuffer[i] = 0

\* The total only grows, so that a lap once over does not come back.
LEMMA TotalGrows ==
  ASSUME StreamInv, [Next]_vars
  PROVE  /\ offset[Len(offset)] \in Nat /\ offset'[Len(offset')] \in Nat
         /\ offset[Len(offset)] <= offset'[Len(offset')]
<1>1. offset \in Seq(Nat) /\ Len(offset) = Len(sent) + 1 /\ Len(sent) \in Nat
  BY DEF StreamInv, SendInv, SendTypeOK
<1>2. offset[Len(offset)] \in Nat
  BY <1>1
<1>3. \/ UNCHANGED offset
      \/ \E t \in Senders, data \in Payloads : SendCommand(t, data)
  BY DEF Next, SendNext, RecvNext, NetworkFailure, TestSendState, CheckError, BeginSend, SendBytes,
         SendMore, SendWouldBlock, SendFails, OnFdWrite, OnFdRead, EndOfEvents, Disconnect,
         ring, vars, sendVars
<1>4. ASSUME NEW t \in Senders, NEW data \in Payloads, SendCommand(t, data)
      PROVE  offset'[Len(offset')] = offset[Len(offset)] + (Len(data) + 3) /\ Len(data) \in Nat
  <2>1. data \in Seq(Int) /\ offset' = Append(offset, offset[Len(offset)] + Len(data) + MinCommand)
    BY <1>4, SentGrows DEF StreamInv
  <2>2. Len(data) \in Nat /\ MinCommand = 3
    BY <2>1 DEF MinCommand, HeaderSize, EofSize
  <2>3. offset[Len(offset)] + Len(data) + MinCommand = offset[Len(offset)] + (Len(data) + 3)
    BY <1>2, <2>2
  <2>4. offset' = Append(offset, offset[Len(offset)] + (Len(data) + 3))
    BY <2>1, <2>3
  <2>5. QED
    BY <1>1, <2>2, <2>4
<1>5. QED
  BY <1>2, <1>3, <1>4

LEMMA StillFirstLap ==
  ASSUME StreamInv, [Next]_vars, FirstLap'
  PROVE  FirstLap
<1>1. /\ offset[Len(offset)] \in Nat /\ offset'[Len(offset')] \in Nat
      /\ offset[Len(offset)] <= offset'[Len(offset')]
  BY TotalGrows
<1>2. QED
  BY <1>1, BufferSizeAssumption DEF FirstLap

(***************************************************************************)
(* In line, RecvCommandSize looks only at cells between the read point and *)
(* the write point: what it reports has arrived, and it is the first.      *)
(***************************************************************************)
LEMMA FindsInLine ==
  ASSUME StreamInv, InLine, recvWritePoint < BufferSize
  PROVE  /\ recvReadPoint \in Point /\ Unread = recvWritePoint - recvReadPoint
         /\ Unread \in Nat
         /\ \/ Found = NoCommand
            \/ /\ Found \in 2 .. Unread
               /\ EndsAt(BytesUnread, Found)
<1> USE BufferSizeAssumption
<1> DEFINE w == recvWritePoint
           r == recvReadPoint
<1>1. /\ w \in Int /\ r \in Int /\ 0 <= r /\ r <= w /\ w < BufferSize
      /\ r \in Point /\ w \in Point
      /\ recvBuffer \in [Cell -> Int]
  BY DEF StreamInv, RecvTypeOK, InLine, Point
<1>2. Unread = w - r /\ w - r \in Nat
  BY <1>1 DEF Unread, Pending
<1> HIDE DEF w, r
<1>3. \A k \in 1 .. w - r : BytesUnread[k] = recvBuffer[r + k - 1]
  <2>1. \A k \in 1 .. Unread : BytesUnread[k] = recvBuffer[CellOf(r, k - 1)]
    BY <1>1, PendingBytesType DEF BytesUnread, Unread, w, r
  <2>2. ASSUME NEW k \in 1 .. w - r PROVE CellOf(r, k - 1) = r + k - 1
    BY <1>1 DEF CellOf
  <2>3. QED
    BY <1>2, <2>1, <2>2
<1> DEFINE S == Eofs(recvBuffer, r, w)
<1>4. Found = NoCommand \/ (S # {} /\ Found = SizeTo(r, FirstOf(S)))
  BY <1>1 DEF Found, CommandSize, ScanTo, w, r
<1>5. ASSUME S # {}, Found = SizeTo(r, FirstOf(S))
      PROVE  Found \in 2 .. Unread /\ EndsAt(BytesUnread, Found)
  <2> DEFINE i == FirstOf(S)
  <2>1. i \in S /\ \A j \in S : i <= j
    <3>1. S \in SUBSET Cell
      BY DEF Eofs
    <3>2. QED
      BY <1>5, <3>1, FirstOfCells
  <2> HIDE DEF i
  <2>3. i \in Int /\ r <= i /\ i < w /\ i \in Cell /\ EofAt(recvBuffer, i)
    BY <2>1 DEF Eofs, Cell
  <2>4. CellOf(i, 1) = IF i + 1 < BufferSize THEN i + 1 ELSE i + 1 - BufferSize
    BY DEF CellOf
  <2>5. CellOf(i, 1) = i + 1 /\ i + 1 \in Cell
    BY <1>1, <2>3, <2>4 DEF Cell
  <2>6. i + 1 < w
    <3>1. recvBuffer[i + 1] = -2
      BY <2>3, <2>5 DEF EofAt, GT
    <3>2. w <= i + 1 => recvBuffer[i + 1] = 0
      BY <2>5 DEF InLine, w
    <3>3. QED
      BY <1>1, <2>3, <3>1, <3>2
  <2>7. Found = (i - r) + 2
    BY <1>1, <1>5, <2>3 DEF SizeTo, Distance, EofSize, i
  <2>8. Found \in 2 .. Unread
    BY <1>1, <1>2, <2>3, <2>6, <2>7
  <2>9. BytesUnread[Found - 1] = LT /\ BytesUnread[Found] = GT
    <3>1. Found - 1 \in 1 .. w - r /\ Found \in 1 .. w - r
          /\ r + (Found - 1) - 1 = i /\ r + Found - 1 = i + 1
      BY <1>1, <1>2, <2>3, <2>7, <2>8
    <3>2. QED
      BY <1>3, <2>3, <2>5, <3>1 DEF EofAt
  <2>10. ASSUME NEW k \in 1 .. Found - 2, BytesUnread[k] = LT, BytesUnread[k + 1] = GT
         PROVE  FALSE
    <3>1. k \in 1 .. w - r /\ k + 1 \in 1 .. w - r /\ r + (k + 1) - 1 = (r + k - 1) + 1
          /\ r + k - 1 \in Int /\ r <= r + k - 1 /\ r + k - 1 < i
      BY <1>1, <1>2, <2>3, <2>7, <2>8
    <3> DEFINE j == r + k - 1
    <3>2. recvBuffer[j] = LT /\ recvBuffer[j + 1] = GT
      BY <1>3, <2>10, <3>1
    <3>3. j \in Int /\ r <= j /\ j < i
      BY <3>1
    <3> HIDE DEF j
    <3>4. j \in Cell /\ CellOf(j, 1) = j + 1
      BY <1>1, <2>3, <3>3 DEF Cell, CellOf
    <3>5. j \in S
      BY <1>1, <2>3, <3>2, <3>3, <3>4 DEF Eofs, EofAt
    <3>6. QED
      BY <2>1, <2>3, <3>3, <3>5
  <2>11. QED
    BY <2>8, <2>9, <2>10 DEF EndsAt
<1>6. QED
  BY <1>1, <1>2, <1>4, <1>5 DEF w, r

LEMMA ArrivedInLine ==
  ASSUME StreamInv, InLine, recvWritePoint < BufferSize
  PROVE  OnlyArrivedCommands /\ ScanEnds
<1>1. /\ recvReadPoint \in Point /\ Unread \in Nat
      /\ \/ Found = NoCommand
         \/ /\ Found \in 2 .. Unread
            /\ EndsAt(BytesUnread, Found)
  BY FindsInLine
<1>2. BytesUnread \in Seq(Int) /\ Len(BytesUnread) = Unread
  BY <1>1, FlowTypes
<1>3. NoCommand = -1 /\ Lost = -2 /\ MinCommand = 3
  BY DEF NoCommand, Lost, MinCommand, HeaderSize, EofSize
<1>4. ScanEnds
  BY <1>1, <1>3 DEF ScanEnds
<1>5. ASSUME Found >= MinCommand
      PROVE  Found = WholeCommandSize(BytesUnread)
  <2>1. Found \in 2 .. Unread /\ EndsAt(BytesUnread, Found)
    BY <1>1, <1>3, <1>5
  <2>2. Found \in MinCommand .. Len(BytesUnread)
    BY <1>1, <1>2, <1>3, <1>5, <2>1
  <2>3. QED
    BY <1>2, <2>1, <2>2, WholeCommandIs
<1>6. QED
  BY <1>4, <1>5 DEF OnlyArrivedCommands


LEMMA InLineKept ==
  ASSUME StreamInv, InLine, FirstLap', [Next]_vars
  PROVE  InLine'
<1> USE BufferSizeAssumption
<1> DEFINE total == offset[Len(offset)]
<1>1. /\ total \in Nat /\ total' \in Nat /\ total <= total'
      /\ total' < BufferSize /\ total < BufferSize
  BY TotalGrows DEF FirstLap
<1>2. /\ sendWritePoint = total /\ sendReadPoint <= sendWritePoint
      /\ recvWritePoint + Len(wire) = sendReadPoint
      /\ recvReadPoint <= recvWritePoint
      /\ \A i \in Cell : recvWritePoint <= i => recvBuffer[i] = 0
  BY DEF InLine
<1>3. /\ sendReadPoint \in Nat /\ recvWritePoint \in Nat /\ recvReadPoint \in Nat
      /\ wire \in Seq(Int) /\ Len(wire) \in Nat
  BY DEF StreamInv, SendInv, SendTypeOK, RecvTypeOK, WireTypeOK, Point
<1> DEFINE still == UNCHANGED <<offset, sendWritePoint, sendReadPoint, wire,
                                recvBuffer, recvWritePoint, recvReadPoint>>
<1>4. ASSUME still PROVE InLine'
  BY <1>2, <1>4 DEF InLine
<1>5. ASSUME NEW t \in Senders, NEW data \in Payloads, SendCommand(t, data), UNCHANGED recvVars
      PROVE  InLine'
  <2> DEFINE size == Len(Frame(sendCount + 1, data))
  <2>1. /\ sendWritePoint' = Move(sendWritePoint, size)
        /\ offset' = Append(offset, total + size)
        /\ UNCHANGED <<sendReadPoint, wire>>
    BY <1>5 DEF SendCommand
  <2>2. size \in Nat
    <3>1. data \in Seq(Int) /\ sendCount + 1 \in Nat
      BY SendSideAssumption DEF StreamInv, SendInv, SendTypeOK
    <3>2. QED
      BY <3>1, FrameType
  <2> HIDE DEF size
  <2>3. offset'[Len(offset')] = total + size
    <3>1. offset \in Seq(Nat) /\ total + size \in Nat
      BY <1>1, <2>2 DEF StreamInv, SendInv, SendTypeOK
    <3> HIDE DEF total
    <3>2. QED
      BY <2>1, <3>1
  <2>4. sendWritePoint' = total + size
    BY <1>1, <1>2, <2>1, <2>2, <2>3 DEF Move
  <2>5. sendReadPoint' <= sendWritePoint'
    BY <1>1, <1>2, <1>3, <2>1, <2>2, <2>4
  <2>6. QED
    BY <1>2, <1>5, <2>1, <2>3, <2>4, <2>5 DEF InLine, recvVars
<1>6. ASSUME NEW t \in Threads, SendBytes(t), UNCHANGED recvVars
      PROVE  InLine'
  <2>1. /\ chunk.start = IF sendReadPoint = BufferSize THEN 0 ELSE sendReadPoint
        /\ chunk.start + chunk.last <= BufferSize
        /\ 0 < chunk.last /\ chunk.last <= Backlog
        /\ chunk.start \in Point /\ chunk.last \in 0 .. BufferSize
        /\ sendBuffer \in [Cell -> Int]
    BY <1>6, SendSideAssumption
    DEF StreamInv, SendInv, SendTypeOK, OneInLoop, InLoop, ChunkUnsent, SendBytes, Threads
  <2>2. chunk.start = sendReadPoint /\ Backlog = sendWritePoint - sendReadPoint
    BY <1>1, <1>2, <1>3, <2>1 DEF Backlog, Pending
  <2>3. PICK n \in Accepted :
          /\ wire' = wire \o Copied(sendBuffer, chunk.start, n)
          /\ sendReadPoint' = chunk.start + n
          /\ UNCHANGED <<sendWritePoint, offset>>
    BY <1>6 DEF SendBytes, ChunkAfter
  <2>4. n \in Nat /\ n <= chunk.last /\ n \in 0 .. BufferSize
    <3>1. chunk.last \in Int /\ Room \in Int
      BY <1>3, <2>1, WireAssumption DEF Room
    <3>2. n \in 1 .. chunk.last
      BY <3>1, TransferRange DEF Accepted
    <3>3. QED
      BY <2>1, <3>2
  <2>5. Len(wire') = Len(wire) + n
    <3>1. /\ Copied(sendBuffer, chunk.start, n) \in Seq(Int)
          /\ Len(Copied(sendBuffer, chunk.start, n)) = n
      BY <2>1, <2>4, CopiedType
    <3>2. QED
      BY <1>3, <2>3, <3>1, ConcatProperties
  <2>6. sendReadPoint' = sendReadPoint + n /\ sendReadPoint' <= sendWritePoint'
    BY <1>1, <1>2, <1>3, <2>1, <2>2, <2>3, <2>4
  <2>7. recvWritePoint + Len(wire') = sendReadPoint'
    BY <1>2, <1>3, <2>4, <2>5, <2>6
  <2>8. QED
    BY <1>2, <1>6, <2>3, <2>6, <2>7 DEF InLine, recvVars
<1>7. ASSUME RecvToBuffer, UNCHANGED sendVars
      PROVE  InLine'
  <2>1. recvWritePoint < BufferSize /\ RecvStart = recvWritePoint
    BY <1>1, <1>2, <1>3 DEF RecvStart
  <2>2. PICK n \in Transfers(BufferSize - RecvStart, Len(wire)) :
          /\ recvBuffer' = Written(recvBuffer, RecvStart, SubSeq(wire, 1, n))
          /\ recvWritePoint' = RecvStart + n
          /\ wire' = SubSeq(wire, n + 1, Len(wire))
          /\ UNCHANGED recvReadPoint
    BY <1>7 DEF RecvToBuffer
  <2>3. n \in 1 .. BufferSize - recvWritePoint /\ n <= Len(wire) /\ n \in Nat
    BY <1>3, <2>1, <2>2, TransferRange
  <2>4. Len(wire') = Len(wire) - n /\ Len(SubSeq(wire, 1, n)) = n
    BY <1>3, <2>2, <2>3
  <2>5. recvWritePoint' = recvWritePoint + n
    BY <2>1, <2>2
  <2>6. ASSUME NEW i \in Cell, recvWritePoint' <= i
        PROVE  recvBuffer'[i] = 0
    <3>1. Distance(recvWritePoint, i) = i - recvWritePoint /\ ~(i - recvWritePoint < n)
      BY <1>3, <2>3, <2>5, <2>6 DEF Distance, Cell
    <3>2. recvBuffer'[i] = recvBuffer[i]
      BY <2>1, <2>2, <2>4, <3>1 DEF Written
    <3>3. recvWritePoint <= i
      BY <1>3, <2>3, <2>5, <2>6 DEF Cell
    <3>4. QED
      BY <1>2, <3>2, <3>3
  <2>7. /\ recvWritePoint' + Len(wire') = sendReadPoint
        /\ recvReadPoint' <= recvWritePoint'
    <3>1. (recvWritePoint + n) + (Len(wire) - n) = sendReadPoint
      BY <1>2, <1>3, <2>3
    <3>2. recvReadPoint <= recvWritePoint + n
      BY <1>2, <1>3, <2>3
    <3>3. QED
      BY <2>2, <2>4, <2>5, <3>1, <3>2
  <2>8. QED
    BY <1>2, <1>7, <2>6, <2>7 DEF InLine, sendVars
<1>8. ASSUME Found # NoCommand, recvReadPoint' = Move(recvReadPoint, Found),
             UNCHANGED <<offset, sendWritePoint, sendReadPoint, wire, recvBuffer, recvWritePoint>>
      PROVE  InLine'
  <2>1. recvWritePoint < BufferSize
    BY <1>1, <1>2, <1>3
  <2>2. Unread = recvWritePoint - recvReadPoint /\ Found \in 2 .. Unread
    BY <1>8, <2>1, FindsInLine
  <2>3. recvReadPoint' = recvReadPoint + Found /\ recvReadPoint' <= recvWritePoint
    BY <1>2, <1>3, <1>8, <2>1, <2>2 DEF Move
  <2>4. QED
    BY <1>2, <1>8, <2>3 DEF InLine
<1>9. CASE SendNext /\ UNCHANGED recvVars
  <2>1. \/ still
        \/ \E t \in Senders, data \in Payloads : SendCommand(t, data)
        \/ \E t \in Threads : SendBytes(t)
    BY <1>9 DEF SendNext, TestSendState, CheckError, BeginSend, SendMore, SendWouldBlock,
                SendFails, OnFdWrite, OnFdRead, EndOfEvents, Disconnect, ring, recvVars
  <2>2. QED
    BY <1>4, <1>5, <1>6, <1>9, <2>1
<1>10. CASE RecvNext /\ UNCHANGED sendVars
  <2>1. NoCommand = -1 /\ MinCommand = 3 /\ MaxSize \in Nat
    BY RecvSideAssumption DEF NoCommand, MinCommand, HeaderSize, EofSize
  <2>2. \/ RecvToBuffer
        \/ still
        \/ /\ Found # NoCommand /\ recvReadPoint' = Move(recvReadPoint, Found)
           /\ UNCHANGED <<wire, recvBuffer, recvWritePoint>>
    BY <1>10, <2>1 DEF RecvNext, RecvCommand, NoMoreCommands, DropCommand, RejectCommand,
                       ExecCommand, RecvFails, EndOfReceiver, sendVars
  <2>3. QED
    BY <1>4, <1>7, <1>8, <1>10, <2>2 DEF sendVars
<1>11. CASE NetworkFailure \/ UNCHANGED vars
  BY <1>4, <1>11 DEF NetworkFailure, Break, vars, sendVars, recvVars
<1>12. QED
  BY <1>9, <1>10, <1>11 DEF Next

(***************************************************************************)
(* In the first lap the receive ring has room for all that is under way.   *)
(***************************************************************************)
LEMMA RoomInFirstLap ==
  ASSUME StreamInv, Flow, FirstLap
  PROVE  RingHolds
<1>1. /\ Unread \in Nat /\ Len(wire) \in Nat /\ Len(BytesUnsent) \in Nat
      /\ Len(InTransit) = Unread + Len(wire) + Len(BytesUnsent)
  BY InTransitLength DEF Flow
<1>2. /\ offset \in Seq(Nat) /\ Len(offset) = Len(sent) + 1 /\ Len(sent) \in Nat
      /\ Len(delivered) \in Nat /\ Len(delivered) <= Len(sent)
  BY FlowTypes DEF Flow
<1>3. offset[Len(delivered) + 1] \in Nat /\ offset[Len(sent) + 1] \in Nat
  BY <1>2
<1>4. Len(InTransit) = offset[Len(sent) + 1] - offset[Len(delivered) + 1]
  BY DEF Flow, Frames
<1>5. offset[Len(sent) + 1] < BufferSize
  BY <1>2 DEF FirstLap
<1>6. QED
  BY <1>1, <1>3, <1>4, <1>5, BufferSizeAssumption DEF RingHolds

LEMMA FirstLapInLine ==
  ASSUME MaxBacklog < BufferSize
  PROVE  Spec => [](StreamInv /\ (FirstLap => InLine))
<1>1. Init => InLine
  BY BufferSizeAssumption DEF Init, SendInit, RecvInit, WireInit, InLine, Cell
<1>2. StreamInv /\ (FirstLap => InLine) /\ [Next]_vars => (FirstLap => InLine)'
  <2>1. SUFFICES ASSUME StreamInv, FirstLap => InLine, [Next]_vars, FirstLap'
                 PROVE  InLine'
    OBVIOUS
  <2>2. FirstLap
    BY <2>1, StillFirstLap
  <2>3. QED
    BY <2>1, <2>2, InLineKept
<1>3. QED
  BY <1>1, <1>2, StreamInvHolds, PTL DEF Spec

\* In line the write point of the receiver is within the ring.
LEMMA LineEnds ==
  ASSUME StreamInv, FirstLap, InLine
  PROVE  recvWritePoint < BufferSize
<1>1. /\ recvWritePoint \in Nat /\ Len(wire) \in Nat /\ sendReadPoint \in Nat
      /\ sendWritePoint \in Nat
  BY BufferSizeAssumption
  DEF StreamInv, SendInv, SendTypeOK, RecvTypeOK, WireTypeOK, Point
<1>2. QED
  BY <1>1, BufferSizeAssumption DEF FirstLap, InLine

(***************************************************************************)
(* In the first lap RecvCommandSize (TC 272-303) returns in every state of *)
(* the ring, whatever the payloads (ScanEnds), and reports only commands   *)
(* that have arrived (OnlyArrivedCommands): the scan past the end of the   *)
(* ring, where stale terminators mislead it, is not reached.               *)
(***************************************************************************)
THEOREM FirstLapScans ==
  ASSUME MaxBacklog < BufferSize
  PROVE  Spec => [](FirstLap => OnlyArrivedCommands /\ ScanEnds)
<1>1. StreamInv /\ (FirstLap => InLine) => (FirstLap => OnlyArrivedCommands /\ ScanEnds)
  BY LineEnds, ArrivedInLine
<1>2. QED
  BY <1>1, FirstLapInLine, PTL

(***************************************************************************)
(* So in the first lap nothing more is assumed: plain commands are neither *)
(* lost nor left in the ring, nor does the number check close the          *)
(* connection, whatever the threads and wherever TCP cuts the stream.      *)
(***************************************************************************)
THEOREM FirstLapIsSafe ==
  ASSUME MaxBacklog < BufferSize
  PROVE  Spec => [](FirstLap /\ PlainSent => NothingLost /\ RingDrained /\ NoInternalError)
<1>1. Init => (FirstLap /\ PlainSent => Flow)
  BY FlowInitially
<1>2. StreamInv /\ (FirstLap => InLine) /\ (FirstLap /\ PlainSent => Flow) /\ [Next]_vars
        => (FirstLap /\ PlainSent => Flow)'
  <2>1. SUFFICES ASSUME StreamInv, FirstLap => InLine, FirstLap /\ PlainSent => Flow,
                        [Next]_vars, FirstLap', PlainSent'
                 PROVE  Flow'
    OBVIOUS
  <2>2. FirstLap
    BY <2>1, StillFirstLap
  <2>3. PlainSent /\ Flow
    BY <2>1, <2>2, PlainBefore DEF StreamInv
  <2>4. OnlyArrivedCommands
    BY <2>1, <2>2, LineEnds, ArrivedInLine
  <2>5. RecvToBuffer => RingHolds
    BY <2>1, <2>2, <2>3, RoomInFirstLap
  <2>6. QED
    BY <2>1, <2>3, <2>4, <2>5, FlowKept
<1>3. StreamInv /\ (FirstLap /\ PlainSent => Flow)
        => (FirstLap /\ PlainSent => NothingLost /\ RingDrained /\ NoInternalError)
  BY FlowLosesNothing, FlowDrainsTheRing DEF Flow, NoInternalError
<1>4. QED
  BY <1>1, <1>2, <1>3, FirstLapInLine, PTL DEF Spec

-----------------------------------------------------------------------------
(***************************************************************************)
(* In later laps the scan that passes the end of the ring ends for another *)
(* reason: the read point always stands behind a terminator, that of the   *)
(* command before.  A scan that finds nothing else finds this one, as long *)
(* as recv() does not write over it, that is, as long as RecvToBuffer      *)
(* leaves two bytes of the ring free.                                      *)
(***************************************************************************)
Behind(cells, r) ==
  \E i \in Cell : EofAt(cells, i) /\ 0 < r /\ (r = i + EofSize \/ r = i + EofSize - BufferSize)

BehindEof == recvReadPoint = 0 \/ Behind(recvBuffer, recvReadPoint)

LeavesTwo ==
  recvReadPoint \in Point /\ Unread + (Len(wire) - Len(wire')) + EofSize <= BufferSize

\* RecvCommandSize reports nothing but -1 and the places of terminators.
LEMMA FindsEof ==
  ASSUME NEW cells \in [Cell -> Int], NEW w \in Point, NEW r \in 0 .. BufferSize + 1,
         CommandSize(cells, w, r) \notin {NoCommand, Lost}
  PROVE  \E i \in Cell : EofAt(cells, i) /\ CommandSize(cells, w, r) = SizeTo(r, i)
<1>1. ASSUME NEW lo, NEW hi, ScanTo(cells, r, lo, hi) # NoCommand
      PROVE  \E i \in Cell : EofAt(cells, i) /\ ScanTo(cells, r, lo, hi) = SizeTo(r, i)
  <2>1. Eofs(cells, lo, hi) # {} /\ ScanTo(cells, r, lo, hi) = SizeTo(r, FirstOf(Eofs(cells, lo, hi)))
    BY <1>1 DEF ScanTo
  <2>2. Eofs(cells, lo, hi) \in SUBSET Cell
    BY DEF Eofs
  <2>3. FirstOf(Eofs(cells, lo, hi)) \in Eofs(cells, lo, hi)
    BY <2>1, <2>2, FirstOfCells
  <2>4. QED
    BY <2>1, <2>3 DEF Eofs
<1>2. \E lo, hi : CommandSize(cells, w, r) = ScanTo(cells, r, lo, hi)
  BY DEF CommandSize, ScanFromStart
<1>3. QED
  BY <1>1, <1>2

\* Where the read point moves to is behind the terminator found.
LEMMA MovesBehind ==
  ASSUME NEW cells \in [Cell -> Int], NEW w \in Point, NEW r \in 0 .. BufferSize + 1,
         CommandSize(cells, w, r) \notin {NoCommand, Lost}
  PROVE  Behind(cells, Move(r, CommandSize(cells, w, r)))
<1> USE BufferSizeAssumption
<1>1. PICK i \in Cell : EofAt(cells, i) /\ CommandSize(cells, w, r) = SizeTo(r, i)
  BY FindsEof
<1> DEFINE q == Move(r, SizeTo(r, i))
<1>2. 0 < q /\ (q = i + EofSize \/ q = i + EofSize - BufferSize)
  BY DEF Move, SizeTo, Distance, EofSize, Cell
<1>3. QED
  BY <1>1, <1>2 DEF Behind

\* Behind a terminator no scan is lost.
LEMMA NotLostBehind ==
  ASSUME NEW cells \in [Cell -> Int], NEW w \in Point, NEW r \in 0 .. BufferSize + 1,
         r = 0 \/ Behind(cells, r)
  PROVE  CommandSize(cells, w, r) # Lost
<1> USE BufferSizeAssumption
<1>1. ASSUME NEW lo, NEW hi
      PROVE  ScanTo(cells, r, lo, hi) # Lost
  <2>1. ScanTo(cells, r, lo, hi) \in {NoCommand} \cup Sizes(r)
    <3>1. Eofs(cells, lo, hi) \in SUBSET Cell
      BY DEF Eofs
    <3>2. QED
      BY <3>1, FirstOfCells DEF ScanTo, Sizes
  <2>2. Lost \notin Sizes(r)
    BY DEF Sizes, SizeTo, Distance, EofSize, Lost, Cell
  <2>3. QED
    BY <2>1, <2>2 DEF NoCommand, Lost
<1>2. ASSUME ~(r <= w), ~\E i \in Cell : i < w /\ cells[i] = LT
      PROVE  Eofs(cells, w, BufferSize) # {}
  <2>1. 0 < r
    BY <1>2 DEF Point
  <2>2. PICK i \in Cell : EofAt(cells, i) /\ (r = i + EofSize \/ r = i + EofSize - BufferSize)
    BY <2>1 DEF Behind
  <2>3. cells[i] = LT
    BY <2>2 DEF EofAt
  <2>4. w <= i
    BY <1>2, <2>3 DEF Cell, Point
  <2>5. QED
    BY <2>2, <2>4 DEF Eofs, Cell
<1>3. QED
  BY <1>1, <1>2 DEF CommandSize, ScanFromStart, NoCommand, Lost

\* What recv() writes into the room there is leaves the terminator alone.
LEMMA SpareCells ==
  ASSUME NEW w \in Point, NEW r \in Point, NEW n \in Nat,
         NEW start \in Point, start = IF w = BufferSize THEN 0 ELSE w,
         start + n <= BufferSize,
         Pending(w, r) + n + EofSize <= BufferSize,
         NEW i \in Cell, 0 < r, r = i + EofSize \/ r = i + EofSize - BufferSize
  PROVE  ~(Distance(start, i) < n) /\ ~(Distance(start, CellOf(i, 1)) < n)
BY BufferSizeAssumption DEF Pending, EofSize, Distance, CellOf, Cell, Point

LEMMA BehindEofKept ==
  ASSUME StreamInv, BehindEof, RecvToBuffer => LeavesTwo, [Next]_vars
  PROVE  BehindEof'
<1> USE BufferSizeAssumption
<1>1. /\ recvBuffer \in [Cell -> Int] /\ recvWritePoint \in Point
      /\ recvReadPoint \in 0 .. BufferSize + 1 /\ wire \in Seq(Int) /\ Len(wire) \in Nat
  BY DEF StreamInv, SendInv, RecvTypeOK, WireTypeOK
<1>2. ASSUME UNCHANGED <<recvBuffer, recvReadPoint>> PROVE BehindEof'
  BY <1>2 DEF BehindEof
<1>3. ASSUME UNCHANGED recvBuffer, recvReadPoint' = Move(recvReadPoint, Found),
             Found \notin {NoCommand, Lost}
      PROVE  BehindEof'
  <2>1. Behind(recvBuffer, Move(recvReadPoint, Found))
    BY <1>1, <1>3, MovesBehind DEF Found
  <2>2. QED
    BY <1>3, <2>1 DEF BehindEof
<1>4. ASSUME RecvToBuffer PROVE BehindEof'
  <2>1. PICK n \in Transfers(BufferSize - RecvStart, Len(wire)) :
          /\ recvBuffer' = Written(recvBuffer, RecvStart, SubSeq(wire, 1, n))
          /\ wire' = SubSeq(wire, n + 1, Len(wire))
          /\ UNCHANGED recvReadPoint
    BY <1>4 DEF RecvToBuffer
  <2>2. RecvStart \in Point /\ RecvStart = IF recvWritePoint = BufferSize THEN 0 ELSE recvWritePoint
    BY <1>1 DEF RecvStart, Point
  <2>3. n \in 1 .. BufferSize - RecvStart /\ n <= Len(wire) /\ n \in Nat
    BY <1>1, <2>1, <2>2, TransferRange DEF Point
  <2>4. Len(wire') = Len(wire) - n /\ Len(SubSeq(wire, 1, n)) = n
    BY <1>1, <2>1, <2>3
  <2>5. recvReadPoint \in Point /\ Pending(recvWritePoint, recvReadPoint) + n + EofSize <= BufferSize
    <3>1. recvReadPoint \in Point /\ Unread + (Len(wire) - Len(wire')) + EofSize <= BufferSize
      BY <1>4 DEF LeavesTwo
    <3>2. Len(wire) - Len(wire') = n
      BY <1>1, <2>3, <2>4
    <3>3. QED
      BY <3>1, <3>2 DEF Unread
  <2>6. RecvStart + n <= BufferSize
    BY <2>2, <2>3 DEF Point
  <2>7. ASSUME Behind(recvBuffer, recvReadPoint)
        PROVE  Behind(recvBuffer', recvReadPoint)
    <3>1. PICK i \in Cell :
            /\ EofAt(recvBuffer, i) /\ 0 < recvReadPoint
            /\ recvReadPoint = i + EofSize \/ recvReadPoint = i + EofSize - BufferSize
      BY <2>7 DEF Behind
    <3>2. ~(Distance(RecvStart, i) < n) /\ ~(Distance(RecvStart, CellOf(i, 1)) < n)
      BY <1>1, <2>2, <2>3, <2>5, <2>6, <3>1, SpareCells
    <3>3. CellOf(i, 1) \in Cell
      BY DEF CellOf, Cell
    <3>4. recvBuffer'[i] = recvBuffer[i] /\ recvBuffer'[CellOf(i, 1)] = recvBuffer[CellOf(i, 1)]
      BY <2>1, <2>4, <3>2, <3>3 DEF Written
    <3>5. QED
      BY <3>1, <3>4 DEF Behind, EofAt
  <2>8. QED
    BY <2>1, <2>7 DEF BehindEof
<1>5. CASE RecvNext /\ UNCHANGED sendVars
  <2>1. NoCommand = -1 /\ Lost = -2 /\ MinCommand = 3 /\ MaxSize \in Nat
    BY RecvSideAssumption DEF NoCommand, Lost, MinCommand, HeaderSize, EofSize
  <2>2. \/ RecvToBuffer
        \/ UNCHANGED <<recvBuffer, recvReadPoint>>
        \/ /\ Found \notin {NoCommand, Lost} /\ recvReadPoint' = Move(recvReadPoint, Found)
           /\ UNCHANGED recvBuffer
    BY <1>5, <2>1 DEF RecvNext, RecvCommand, NoMoreCommands, DropCommand, RejectCommand,
                      ExecCommand, RecvFails, EndOfReceiver
  <2>3. QED
    BY <1>2, <1>3, <1>4, <2>2
<1>6. CASE (SendNext /\ UNCHANGED recvVars) \/ NetworkFailure \/ UNCHANGED vars
  BY <1>2, <1>6 DEF NetworkFailure, vars, recvVars
<1>7. QED
  BY <1>5, <1>6 DEF Next

\* Plain commands leave the room, if the ring is larger than one of them and
\* all that the stream may hold.
LEMMA TwoLeft ==
  ASSUME MaxSize + WireCapacity < BufferSize, StreamInv, PlainSent, Flow, RecvToBuffer
  PROVE  LeavesTwo /\ RingHolds
<1> USE BufferSizeAssumption, RecvSideAssumption, WireAssumption
<1>1. Unread \in Nat /\ Len(wire) \in Nat /\ Unread + Len(wire) < MaxSize + WireCapacity
  BY InTransitLength, RoomWhenWaiting DEF Flow
<1>2. Len(wire') \in Nat
  <2>1. PICK n \in Transfers(BufferSize - RecvStart, Len(wire)) :
          wire' = SubSeq(wire, n + 1, Len(wire))
    BY DEF RecvToBuffer
  <2>2. n \in Nat \ {0}
    BY DEF Transfers
  <2>3. wire \in Seq(Int)
    BY DEF StreamInv, SendInv, WireTypeOK
  <2>4. QED
    BY <2>1, <2>2, <2>3
<1>3. QED
  BY <1>1, <1>2 DEF LeavesTwo, RingHolds, Flow, EofSize

LEMMA BehindEofScans ==
  ASSUME StreamInv, BehindEof
  PROVE  ScanEnds
BY NotLostBehind DEF StreamInv, RecvTypeOK, BehindEof, ScanEnds, Found

(***************************************************************************)
(* RecvCommandSize (TC 272-303) returns in every state of the ring         *)
(* (ScanEnds), whatever the payloads, whatever lies about in the ring and  *)
(* however often it has wrapped, as long as RecvToBuffer (TC 305-335),     *)
(* which does not test the room, leaves two bytes free.                    *)
(***************************************************************************)
THEOREM EveryScanEnds ==
  ASSUME MaxBacklog < BufferSize
  PROVE  Spec /\ [][RecvToBuffer => LeavesTwo]_vars => []ScanEnds
<1>1. Init => BehindEof
  BY DEF Init, RecvInit, BehindEof
<1>2. StreamInv /\ BehindEof /\ [RecvToBuffer => LeavesTwo]_vars /\ [Next]_vars => BehindEof'
  <2>1. ASSUME UNCHANGED vars, BehindEof PROVE BehindEof'
    BY <2>1 DEF vars, recvVars, BehindEof
  <2>2. QED
    BY <2>1, BehindEofKept
<1>3. StreamInv /\ BehindEof => ScanEnds
  BY BehindEofScans
<1>4. QED
  BY <1>1, <1>2, <1>3, StreamInvHolds, PTL DEF Spec

(***************************************************************************)
(* That room there is while the payloads are plain, as long as the ring is *)
(* larger than a command and all that the stream may hold, and nothing is  *)
(* reported that has not arrived.                                          *)
(***************************************************************************)
THEOREM PlainScansEnd ==
  ASSUME MaxBacklog < BufferSize, MaxSize + WireCapacity < BufferSize
  PROVE  Spec /\ []OnlyArrivedCommands => [](PlainSent => ScanEnds)
<1> USE BufferSizeAssumption, RecvSideAssumption, WireAssumption
<1>1. MaxSize + WireCapacity <= BufferSize
  OBVIOUS
<1>2. Init => BehindEof
  BY DEF Init, RecvInit, BehindEof
<1>3. StreamInv /\ (PlainSent => Flow) /\ (PlainSent => BehindEof) /\ [Next]_vars
        => (PlainSent => BehindEof)'
  <2>1. SUFFICES ASSUME StreamInv, PlainSent => Flow, PlainSent => BehindEof, [Next]_vars,
                        PlainSent'
                 PROVE  BehindEof'
    OBVIOUS
  <2>2. PlainSent /\ Flow /\ BehindEof
    BY <2>1, PlainBefore DEF StreamInv
  <2>3. RecvToBuffer => LeavesTwo
    BY <2>1, <2>2, TwoLeft
  <2>4. QED
    BY <2>1, <2>2, <2>3, BehindEofKept
<1>4. StreamInv /\ (PlainSent => BehindEof) => (PlainSent => ScanEnds)
  BY BehindEofScans
<1>5. QED
  BY <1>1, <1>2, <1>3, <1>4, FlowGoesOn, PTL DEF Spec

-----------------------------------------------------------------------------
(***************************************************************************)
(* When nothing is reported that has not arrived, in terms of the cuts     *)
(* alone: whenever the event thread looks at a piece of a command that is  *)
(* no shorter than a header and a terminator, the piece does not pass the  *)
(* end of the ring, and does not end in '<'.                               *)
(***************************************************************************)
CutsWell ==
  Executing /\ Unread >= MinCommand /\ WholeCommandSize(BytesUnread) = NoCommand
    => recvReadPoint <= recvWritePoint /\ BytesUnread[Unread] # LT

LEMMA EofPlacesFirst ==
  ASSUME NEW bytes \in Seq(Int), EofPlaces(bytes) # {}, Len(bytes) >= MinCommand
  PROVE  WholeCommandSize(bytes) # NoCommand
<1>1. EofPlaces(bytes) \in SUBSET Nat
  BY DEF EofPlaces
<1>2. FirstOf(EofPlaces(bytes)) \in Nat
  BY <1>1, FirstOfNats
<1>3. Len(bytes) \in Nat /\ MinCommand = 3
  BY DEF MinCommand, HeaderSize, EofSize
<1>4. QED
  BY <1>2, <1>3 DEF WholeCommandSize, NoCommand, EofSize

LEMMA PieceIsNoCommand ==
  ASSUME StreamInv, recvReadPoint <= recvWritePoint, recvReadPoint \in Point,
         Unread >= MinCommand, WholeCommandSize(BytesUnread) = NoCommand,
         BytesUnread[Unread] # LT
  PROVE  Found = NoCommand
<1> USE BufferSizeAssumption
<1> DEFINE w == recvWritePoint
           r == recvReadPoint
<1>1. /\ w \in Int /\ r \in Int /\ 0 <= r /\ r <= w /\ w <= BufferSize
      /\ r \in Point /\ w \in Point
      /\ recvBuffer \in [Cell -> Int]
  BY DEF StreamInv, RecvTypeOK, Point
<1>2. Unread = w - r /\ BytesUnread \in Seq(Int) /\ Len(BytesUnread) = w - r
      /\ \A k \in 1 .. w - r : BytesUnread[k] = recvBuffer[CellOf(r, k - 1)]
  <2>1. Unread = w - r
    BY <1>1 DEF Unread, Pending
  <2>2. QED
    BY <1>1, <2>1, PendingBytesType DEF BytesUnread, Unread
<1> HIDE DEF w, r
<1>3. EofPlaces(BytesUnread) = {}
  <2>1. Len(BytesUnread) >= MinCommand
    BY <1>2
  <2>2. QED
    BY <1>2, <2>1, EofPlacesFirst
<1>4. ASSUME NEW i \in Eofs(recvBuffer, r, w)
      PROVE  FALSE
  <2>1. i \in Cell /\ i \in Int /\ r <= i /\ i < w
        /\ recvBuffer[i] = LT /\ recvBuffer[CellOf(i, 1)] = GT
    BY DEF Eofs, EofAt, Cell
  <2> DEFINE k == i - r + 1
  <2>2. k \in 1 .. w - r /\ CellOf(r, k - 1) = i
    BY <1>1, <2>1 DEF CellOf
  <2>3. BytesUnread[k] = LT
    BY <1>2, <2>1, <2>2
  <2>4. i + 1 < w
    <3>1. k # w - r
      BY <1>2, <2>3
    <3>2. QED
      BY <1>1, <2>1, <3>1
  <2>5. k + 1 \in 1 .. w - r /\ CellOf(r, (k + 1) - 1) = i + 1 /\ CellOf(i, 1) = i + 1
    BY <1>1, <2>1, <2>4 DEF CellOf
  <2>6. BytesUnread[k + 1] = GT
    BY <1>2, <2>1, <2>5
  <2>7. k \in EofPlaces(BytesUnread)
    BY <1>1, <1>2, <2>2, <2>3, <2>5, <2>6 DEF EofPlaces
  <2>8. QED
    BY <1>3, <2>7
<1>5. Eofs(recvBuffer, r, w) = {}
  BY <1>4
<1>6. QED
  BY <1>1, <1>5 DEF Found, CommandSize, ScanTo, w, r

LEMMA WellCutArrives ==
  ASSUME StreamInv, PlainSent, Flow, CutsWell
  PROVE  OnlyArrivedCommands
<1>1. SUFFICES ASSUME Executing, Found >= MinCommand
               PROVE  Found = WholeCommandSize(BytesUnread)
  BY DEF OnlyArrivedCommands
<1>2. /\ Len(sent) \in Nat /\ Len(delivered) \in Nat /\ Len(delivered) <= Len(sent)
      /\ Unread \in Nat
  BY FlowTypes DEF Flow
<1>3. NoCommand = -1 /\ MinCommand = 3
  BY DEF NoCommand, MinCommand, HeaderSize, EofSize
<1>4. Unread >= MinCommand
  BY <1>1, <1>2, <1>3 DEF Found, CommandSize, Unread
<1>5. Len(delivered) < Len(sent)
  BY <1>2, <1>3, <1>4, NextCommandSeen
<1> DEFINE data == sent[Len(delivered) + 1]
           n == Len(data) + MinCommand
<1>6. /\ data \in Seq(Int)
      /\ Unread < n => WholeCommandSize(BytesUnread) = NoCommand
      /\ Unread >= n => WholeCommandSize(BytesUnread) = n /\ Found = n
  BY <1>5, NextCommandSeen
<1>7. CASE WholeCommandSize(BytesUnread) = NoCommand
  <2>1. recvReadPoint <= recvWritePoint /\ BytesUnread[Unread] # LT
    BY <1>1, <1>4, <1>7 DEF CutsWell
  <2>2. Found = NoCommand
    BY <1>4, <1>7, <2>1, PieceIsNoCommand DEF Flow
  <2>3. QED
    BY <1>1, <1>3, <2>2
<1>8. CASE Unread >= n
  BY <1>6, <1>8
<1>9. Len(data) \in Nat
  BY <1>6
<1> HIDE DEF data
<1>10. QED
  BY <1>2, <1>3, <1>6, <1>7, <1>8, <1>9

(***************************************************************************)
(* So the pieces TCP delivers are all that the receiver depends on: if     *)
(* they are cut well, RecvCommandSize reports only what has arrived, plain *)
(* commands are neither lost nor left behind, the number check never       *)
(* fires, and every scan ends, in every lap of the ring (TC 272-413,       *)
(* 465-534).                                                               *)
(***************************************************************************)
THEOREM WellCutIsSafe ==
  ASSUME MaxBacklog < BufferSize, MaxSize + WireCapacity < BufferSize
  PROVE  Spec /\ []CutsWell =>
           [](PlainSent => /\ OnlyArrivedCommands /\ ScanEnds
                           /\ NothingLost /\ RingDrained /\ NoInternalError)
<1>1. Init => Flow /\ BehindEof
  BY FlowInitially DEF Init, RecvInit, BehindEof
<1>2. StreamInv /\ (PlainSent => Flow /\ BehindEof) /\ CutsWell /\ [Next]_vars
        => (PlainSent => Flow /\ BehindEof)'
  <2>1. SUFFICES ASSUME StreamInv, PlainSent => Flow /\ BehindEof, CutsWell, [Next]_vars,
                        PlainSent'
                 PROVE  Flow' /\ BehindEof'
    OBVIOUS
  <2>2. PlainSent /\ Flow /\ BehindEof
    BY <2>1, PlainBefore DEF StreamInv
  <2>3. OnlyArrivedCommands
    BY <2>1, <2>2, WellCutArrives
  <2>4. RecvToBuffer => RingHolds /\ LeavesTwo
    BY <2>1, <2>2, TwoLeft
  <2>5. QED
    BY <2>1, <2>2, <2>3, <2>4, FlowKept, BehindEofKept
<1>3. StreamInv /\ (PlainSent => Flow /\ BehindEof) /\ CutsWell
        => (PlainSent => /\ OnlyArrivedCommands /\ ScanEnds
                         /\ NothingLost /\ RingDrained /\ NoInternalError)
  BY WellCutArrives, BehindEofScans, FlowLosesNothing, FlowDrainsTheRing
  DEF Flow, NoInternalError
<1>4. QED
  BY <1>1, <1>2, <1>3, StreamInvHolds, PTL DEF Spec

(***************************************************************************)
(* And so a connection over which only plain payloads are sent, in pieces  *)
(* that are cut well, implements the channel (ImplementsChannel).          *)
(***************************************************************************)
THEOREM WellCutIsChannel ==
  ASSUME MaxBacklog < BufferSize, MaxSize + WireCapacity < BufferSize,
         \A data \in Payloads : Plain(data)
  PROVE  Spec /\ []CutsWell => ImplementsChannel
<1>1. StreamInv => PlainSent
  BY DEF StreamInv, Numbered, PlainSent
<1>2. MaxSize + WireCapacity <= BufferSize
  BY BufferSizeAssumption, RecvSideAssumption, WireAssumption
<1>3. Spec /\ []OnlyArrivedCommands => ImplementsChannel
  BY <1>2, StreamIsChannel
<1>4. Spec /\ []CutsWell => []OnlyArrivedCommands
  BY <1>1, StreamInvHolds, WellCutIsSafe, PTL
<1>5. QED
  BY <1>3, <1>4, PTL
=============================================================================
