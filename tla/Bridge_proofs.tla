---------------------------- MODULE Bridge_proofs ---------------------------
(***************************************************************************)
(* The client's packet bridge, for any sets of PSPs, sizes of the tables,  *)
(* waiting times and numbers of threads: frames do not go round in a loop, *)
(* a frame goes into one connection at most once, and a PSP has no more    *)
(* entries than threads that capture at one time.                          *)
(***************************************************************************)
EXTENDS Bridge, FiniteSetTheorems, WellFoundedInduction, TLAPS

\* The number of active entries is bounded by the table.
LEMMA ActiveType ==
  ASSUME NEW table
  PROVE  Active(table) \in 0 .. MaxMac
<1> USE BridgeAssumption
<1>1. IsFiniteSet(Slots) /\ Cardinality(Slots) = MaxMac
  BY FS_Interval DEF Slots
<1>2. {i \in Slots : table[i].active} \in SUBSET Slots
  OBVIOUS
<1> QED
  BY <1>1, <1>2, FS_Subset, FS_CardinalityType DEF Active

\* There is a first one in every set of slots that is not empty.  The least
\* interval 1 .. n that belongs to one of them gives it.
LEMMA FirstType ==
  ASSUME NEW S, S \subseteq Slots, S # {}
  PROVE  First(S) \in S
<1> USE BridgeAssumption
<1> DEFINE Intervals == {1 .. n : n \in S}
<1>1. Intervals \subseteq FiniteSubsetsOf(Slots) /\ Intervals # {}
  <2>1. \A n \in S : 1 .. n \in SUBSET Slots
    BY DEF Slots
  <2>2. \A n \in S : IsFiniteSet(1 .. n)
    BY FS_Interval DEF Slots
  <2> QED
    BY <2>1, <2>2 DEF FiniteSubsetsOf
<1>2. PICK least \in Intervals :
        \A other \in Intervals : <<other, least>> \notin StrictSubsetOrdering(Slots)
  <2> HIDE DEF Intervals
  <2> QED
    BY <1>1, FS_StrictSubsetOrderingWellFounded, WFMin
<1>3. PICK n \in S : least = 1 .. n
  BY <1>2
<1>4. ASSUME NEW m \in S, m < n PROVE FALSE
  <2>1. (1 .. m) \subseteq (1 .. n) /\ n \in 1 .. n /\ n \notin 1 .. m
    BY <1>4 DEF Slots
  <2>2. (1 .. m) \in SUBSET Slots /\ (1 .. n) \in SUBSET Slots
    BY DEF Slots
  <2>3. <<(1 .. m), (1 .. n)>> \in StrictSubsetOrdering(Slots)
    <3>1. (1 .. m) # (1 .. n)
      BY <2>1
    <3> QED
      BY <2>1, <2>2, <3>1, Zenon DEF StrictSubsetOrdering
  <2> QED
    BY <1>2, <1>3, <2>3, Zenon
<1>5. \A m \in S : n <= m
  BY <1>4 DEF Slots
<1> QED
  BY <1>5 DEF First
-----------------------------------------------------------------------------
\* Whose steps change what the capture threads do.
LEMMA CaptureChanges ==
  ASSUME [Next]_vars
  PROVE  \/ UNCHANGED capture
         \/ LinkLost \/ LinkClosed \/ LinkRestored \/ LinkOpened
         \/ \E k \in Captures : CaptureThread(k)
         \/ \E m \in Monitors : StartCapture(m)
BY DEF Next, vars, threads, EventThread, MonitorThread, UserThread, LocalSends, Tick,
   FrameArrives, IgnoreSource, TestCapturing, Inject, MonitorLoop, Expire, TellExpired,
   AllExpired, StayPut, LeaveRoom, CloseCapture, Wake, EnterRoom, ScanWithoutAdapter, ScanFails,
   BeginCommand, ReleaseDevice, EndCloseDevice, OpenAdapter, StartMonitor, OpenFails

\* Whose steps change what the monitors do.
LEMMA MonitorChanges ==
  ASSUME [Next]_vars
  PROVE  \/ UNCHANGED monitor
         \/ StartMonitor
         \/ \E m \in Monitors : MonitorLoop(m) \/ Expire(m) \/ TellExpired(m) \/ AllExpired(m)
              \/ StayPut(m) \/ StartCapture(m) \/ LeaveRoom(m) \/ CloseCapture(m) \/ Wake(m) \/
              EnterRoom(m) \/ ScanWithoutAdapter(m) \/ ScanFails(m)
BY DEF Next, vars, threads, CaptureThread, EventThread, MonitorThread, UserThread, LinkChanges,
   LocalSends, Tick, LinkLost, LinkClosed, LinkRestored, LinkOpened, CaptureLoop, ReadNothing,
   ReadFrame, Recognise, TellActive, NotFound, Learn, Filter, SendFrame, TestConnected,
   FrameArrives, IgnoreSource, TestCapturing, Inject, BeginCommand, ReleaseDevice,
   EndCloseDevice, OpenAdapter, OpenFails

\* Whose steps change the table of the PSPs near by.
LEMMA MacChanges ==
  ASSUME [Next]_vars
  PROVE  \/ UNCHANGED mac
         \/ Tick
         \/ \E k \in Captures : Recognise(k) \/ Learn(k) \/ Filter(k)
         \/ \E m \in Monitors : Expire(m)
BY DEF Next, vars, tables, CaptureThread, EventThread, MonitorThread, UserThread, LinkChanges,
   LocalSends, LinkLost, LinkClosed, LinkRestored, LinkOpened, CaptureLoop, ReadNothing,
   ReadFrame, TellActive, NotFound, SendFrame, TestConnected, FrameArrives, IgnoreSource,
   TestCapturing, Inject, MonitorLoop, TellExpired, AllExpired, StayPut, StartCapture,
   LeaveRoom, CloseCapture, Wake, EnterRoom, ScanWithoutAdapter, ScanFails, BeginCommand,
   ReleaseDevice, EndCloseDevice, OpenAdapter, StartMonitor, OpenFails

\* The event thread alone ignores addresses.
LEMMA EventChanges ==
  ASSUME [Next]_vars
  PROVE  \/ UNCHANGED <<event, ignored>>
         \/ FrameArrives \/ IgnoreSource \/ TestCapturing \/ Inject
BY DEF Next, vars, tables, threads, CaptureThread, EventThread, MonitorThread, UserThread,
   LinkChanges, LocalSends, Tick, LinkLost, LinkClosed, LinkRestored, LinkOpened, CaptureLoop,
   ReadNothing, ReadFrame, Recognise, TellActive, NotFound, Learn, Filter, SendFrame,
   TestConnected, MonitorLoop, Expire, TellExpired, AllExpired, StayPut, StartCapture,
   LeaveRoom, CloseCapture, Wake, EnterRoom, ScanWithoutAdapter, ScanFails, BeginCommand,
   ReleaseDevice, EndCloseDevice, OpenAdapter, StartMonitor, OpenFails

\* Whose steps change what waits in the capture.
LEMMA BufferChanges ==
  ASSUME [Next]_vars
  PROVE  \/ UNCHANGED buffer
         \/ Inject \/ ReleaseDevice \/ OpenAdapter \/ OpenFails
         \/ \E l \in Locals, dst \in Psps \cup {Broadcast} : LocalSends(l, dst)
         \/ \E k \in Captures : ReadFrame(k)
         \/ \E m \in Monitors : CloseCapture(m)
BY DEF Next, vars, device, CaptureThread, EventThread, MonitorThread, UserThread, LinkChanges,
   Tick, LinkLost, LinkClosed, LinkRestored, LinkOpened, CaptureLoop, ReadNothing, Recognise,
   TellActive, NotFound, Learn, Filter, SendFrame, TestConnected, FrameArrives, IgnoreSource,
   TestCapturing, MonitorLoop, Expire, TellExpired, AllExpired, StayPut, StartCapture,
   LeaveRoom, Wake, EnterRoom, ScanWithoutAdapter, ScanFails, BeginCommand, EndCloseDevice,
   StartMonitor

\* Whose steps open and close the device: those of two kinds of threads.
LEMMA DeviceChanges ==
  ASSUME [Next]_vars
  PROVE  \/ UNCHANGED <<adapterStatus, adapter, handle>>
         \/ ReleaseDevice \/ EndCloseDevice \/ OpenAdapter \/ StartMonitor \/ OpenFails
         \/ \E open \in BOOLEAN : BeginCommand(open)
         \/ \E m \in Monitors : StartCapture(m) \/ LeaveRoom(m) \/ CloseCapture(m) \/
              EnterRoom(m) \/ ScanFails(m)
BY DEF Next, vars, device, CaptureThread, EventThread, MonitorThread, UserThread, LinkChanges,
   LocalSends, Tick, LinkLost, LinkClosed, LinkRestored, LinkOpened, CaptureLoop, ReadNothing,
   ReadFrame, Recognise, TellActive, NotFound, Learn, Filter, SendFrame, TestConnected,
   FrameArrives, IgnoreSource, TestCapturing, Inject, MonitorLoop, Expire, TellExpired,
   AllExpired, StayPut, Wake, ScanWithoutAdapter

\* Whose steps enter and leave the meeting place.
LEMMA RoomChanges ==
  ASSUME [Next]_vars
  PROVE  \/ UNCHANGED <<inTheRoom, quiet>>
         \/ Tick
         \/ \E k \in Captures : Recognise(k)
         \/ \E m \in Monitors : StartCapture(m) \/ CloseCapture(m) \/ EnterRoom(m)
BY DEF Next, vars, room, CaptureThread, EventThread, MonitorThread, UserThread, LinkChanges,
   LocalSends, LinkLost, LinkClosed, LinkRestored, LinkOpened, CaptureLoop, ReadNothing,
   ReadFrame, TellActive, NotFound, Learn, Filter, SendFrame, TestConnected, FrameArrives,
   IgnoreSource, TestCapturing, Inject, MonitorLoop, Expire, TellExpired, AllExpired, StayPut,
   LeaveRoom, Wake, ScanWithoutAdapter, ScanFails, BeginCommand, ReleaseDevice, EndCloseDevice,
   OpenAdapter, StartMonitor, OpenFails

\* The user alone types commands.
LEMMA UserChanges ==
  ASSUME [Next]_vars
  PROVE  \/ UNCHANGED <<user, left>>
         \/ ReleaseDevice \/ EndCloseDevice \/ OpenAdapter \/ StartMonitor \/ OpenFails
         \/ \E open \in BOOLEAN : BeginCommand(open)
BY DEF Next, vars, threads, CaptureThread, EventThread, MonitorThread, UserThread, LinkChanges,
   LocalSends, Tick, LinkLost, LinkClosed, LinkRestored, LinkOpened, CaptureLoop, ReadNothing,
   ReadFrame, Recognise, TellActive, NotFound, Learn, Filter, SendFrame, TestConnected,
   FrameArrives, IgnoreSource, TestCapturing, Inject, MonitorLoop, Expire, TellExpired,
   AllExpired, StayPut, StartCapture, LeaveRoom, CloseCapture, Wake, EnterRoom,
   ScanWithoutAdapter, ScanFails

\* Whose steps tell the server something.
LEMMA TunnelChanges ==
  ASSUME [Next]_vars
  PROVE  \/ UNCHANGED <<link, announced>>
         \/ LinkLost \/ LinkClosed \/ LinkRestored \/ LinkOpened
         \/ \E k \in Captures : TellActive(k)
         \/ \E m \in Monitors : TellExpired(m)
BY DEF Next, vars, tunnel, CaptureThread, EventThread, MonitorThread, UserThread, LocalSends,
   Tick, CaptureLoop, ReadNothing, ReadFrame, Recognise, NotFound, Learn, Filter, SendFrame,
   TestConnected, FrameArrives, IgnoreSource, TestCapturing, Inject, MonitorLoop, Expire,
   AllExpired, StayPut, StartCapture, LeaveRoom, CloseCapture, Wake, EnterRoom,
   ScanWithoutAdapter, ScanFails, BeginCommand, ReleaseDevice, EndCloseDevice, OpenAdapter,
   StartMonitor, OpenFails
-----------------------------------------------------------------------------
(***************************************************************************)
(* A capture thread has sent its frame only when it is about to look       *)
(* whether there is a connection, and only into the one there is.          *)
(***************************************************************************)
SentOnce ==
  \A k \in Captures :
    capture[k].sent # 0 => capture[k].sent = 1 /\ At(k, "test") /\ link = "connected"

LEMMA CaptureUpdate ==
  ASSUME CaptureType, NEW k \in Captures, NEW c \in CaptureStates,
         capture' = [capture EXCEPT ![k] = c]
  PROVE  CaptureType'
BY DEF CaptureType

LEMMA GotoType ==
  ASSUME CaptureType, NEW k \in Captures, NEW step \in CaptureSteps, Goto(k, step)
  PROVE  CaptureType'
<1>1. [capture[k] EXCEPT !.step = step] \in CaptureStates
  BY DEF CaptureType, CaptureStates
<1> QED
  BY <1>1, CaptureUpdate DEF Goto

LEMMA ReturnType ==
  ASSUME CaptureType, NEW k \in Captures, Return(k)
  PROVE  CaptureType'
<1>1. [NoCapture EXCEPT !.step = "loop"] \in CaptureStates
  BY BridgeAssumption DEF NoCapture, CaptureStates, CaptureSteps
<1> QED
  BY <1>1, CaptureUpdate DEF Return

LEMMA Started ==
  ASSUME TypeOK, NEW m \in Monitors, StartCapture(m)
  PROVE  \E k \in Captures : Return(k)
BY BridgeAssumption DEF StartCapture, TypeOK, UserType, Captures

LEMMA CaptureTypeStep ==
  ASSUME TypeOK, SentOnce, [Next]_vars
  PROVE  CaptureType'
<1>1. CASE UNCHANGED capture
  BY <1>1 DEF TypeOK, CaptureType
<1>2. ASSUME NEW to, LinkChanges(to) PROVE CaptureType'
  <2>1. \A k \in Captures : [capture[k] EXCEPT !.sent = 0] \in CaptureStates
    BY DEF TypeOK, CaptureType, CaptureStates
  <2> QED
    BY <1>2, <2>1 DEF LinkChanges, CaptureType
<1>3. ASSUME NEW k \in Captures, CaptureLoop(k) PROVE CaptureType'
  <2>1. NoCapture \in CaptureStates
    BY BridgeAssumption DEF NoCapture, CaptureStates, CaptureSteps
  <2>2. Goto(k, "read") \/ capture' = [capture EXCEPT ![k] = NoCapture]
    BY <1>3 DEF CaptureLoop
  <2> QED
    BY <2>1, <2>2, GotoType, CaptureUpdate DEF TypeOK, CaptureSteps
<1>4. ASSUME NEW k \in Captures, ReadFrame(k) PROVE CaptureType'
  <2>1. CASE Return(k)
    BY <2>1, ReturnType DEF TypeOK
  <2>2. CASE capture' = [capture EXCEPT ![k].step = "look", ![k].frame = Head(buffer)]
    <3>1. Head(buffer) \in Frames
      BY <1>4 DEF ReadFrame, TypeOK, DeviceType
    <3>2. [capture[k] EXCEPT !.step = "look", !.frame = Head(buffer)] \in CaptureStates
      BY <3>1 DEF TypeOK, CaptureType, CaptureStates, CaptureSteps
    <3>3. capture' = [capture EXCEPT ![k] =
                        [capture[k] EXCEPT !.step = "look", !.frame = Head(buffer)]]
      BY <2>2
    <3> QED
      BY <3>2, <3>3, CaptureUpdate DEF TypeOK
  <2> QED
    BY <1>4, <2>1, <2>2 DEF ReadFrame
<1>5. ASSUME NEW k \in Captures, Recognise(k) PROVE CaptureType'
  <2> DEFINE i == First(Source(k))
             next == IF mac[i].active THEN "filter" ELSE "tell"
             count == IF mac[i].active THEN 0 ELSE Active(mac')
  <2>1. i \in 0 .. MaxMac
    <3>1. Source(k) \subseteq Slots /\ Source(k) # {}
      BY <1>5 DEF Recognise, Source
    <3>2. i \in Slots
      BY <3>1, FirstType
    <3> QED
      BY <3>2 DEF Slots
  <2>2. next \in CaptureSteps
    BY DEF CaptureSteps
  <2>3. count \in 0 .. MaxMac
    BY ActiveType, BridgeAssumption
  <2>4. capture' = [capture EXCEPT ![k] =
                      [capture[k] EXCEPT !.slot = i, !.step = next, !.count = count]]
    BY <1>5 DEF Recognise
  <2> HIDE DEF i, next, count
  <2>5. [capture[k] EXCEPT !.slot = i, !.step = next, !.count = count] \in CaptureStates
    BY <2>1, <2>2, <2>3 DEF TypeOK, CaptureType, CaptureStates
  <2> QED
    BY <2>4, <2>5, CaptureUpdate DEF TypeOK
<1>6. ASSUME NEW k \in Captures, TellActive(k) PROVE CaptureType'
  <2>1. [capture[k] EXCEPT !.step = "filter", !.count = 0] \in CaptureStates
    <3>1. 0 \in 0 .. MaxMac /\ "filter" \in CaptureSteps
      BY BridgeAssumption DEF CaptureSteps
    <3> QED
      BY <3>1 DEF TypeOK, CaptureType, CaptureStates
  <2>2. capture' = [capture EXCEPT ![k] = [capture[k] EXCEPT !.step = "filter", !.count = 0]]
    BY <1>6 DEF TellActive
  <2> QED
    BY <2>1, <2>2, CaptureUpdate DEF TypeOK
<1>7. ASSUME NEW k \in Captures, NotFound(k) PROVE CaptureType'
  BY <1>7, GotoType DEF NotFound, TypeOK, CaptureSteps
<1>8. ASSUME NEW k \in Captures, ReadNothing(k) \/ Learn(k) PROVE CaptureType'
  BY <1>8, ReturnType DEF ReadNothing, Learn, TypeOK
<1>9. ASSUME NEW k \in Captures, Filter(k) PROVE CaptureType'
  <2>1. Goto(k, "send") \/ Return(k)
    BY <1>9 DEF Filter
  <2> QED
    BY <2>1, GotoType, ReturnType DEF TypeOK, CaptureSteps
<1>10. ASSUME NEW k \in Captures, SendFrame(k) PROVE CaptureType'
  <2> DEFINE sent == IF link = "connected" THEN capture[k].sent + 1 ELSE capture[k].sent
  <2>1. capture[k] \in CaptureStates /\ capture[k].sent = 0
    BY <1>10 DEF SendFrame, SentOnce, At, TypeOK, CaptureType
  <2>2. sent \in 0 .. 2
    BY <2>1
  <2>3. capture' = [capture EXCEPT ![k] = [capture[k] EXCEPT !.step = "test", !.sent = sent]]
    BY <1>10 DEF SendFrame
  <2> HIDE DEF sent
  <2>4. [capture[k] EXCEPT !.step = "test", !.sent = sent] \in CaptureStates
    BY <2>1, <2>2 DEF CaptureStates, CaptureSteps
  <2> QED
    BY <2>3, <2>4, CaptureUpdate DEF TypeOK
<1>11. ASSUME NEW k \in Captures, TestConnected(k) PROVE CaptureType'
  <2>1. Goto(k, "send") \/ Return(k)
    BY <1>11 DEF TestConnected
  <2> QED
    BY <2>1, GotoType, ReturnType DEF TypeOK, CaptureSteps
<1>12. ASSUME NEW m \in Monitors, StartCapture(m) PROVE CaptureType'
  BY <1>12, Started, ReturnType DEF TypeOK
<1> QED
  BY <1>1, <1>2, <1>3, <1>4, <1>5, <1>6, <1>7, <1>8, <1>9, <1>10, <1>11, <1>12, CaptureChanges
  DEF CaptureThread, LinkLost, LinkClosed, LinkRestored, LinkOpened

LEMMA SentUpdate ==
  ASSUME CaptureType, SentOnce, NEW k \in Captures, NEW c, c.sent = 0,
         capture' = [capture EXCEPT ![k] = c], UNCHANGED link
  PROVE  SentOnce'
<1>1. capture'[k] = c /\ \A j \in Captures \ {k} : capture'[j] = capture[j]
  BY DEF CaptureType
<1> QED
  BY <1>1 DEF SentOnce, At

LEMMA SentOnceStep ==
  ASSUME TypeOK, SentOnce, [Next]_vars
  PROVE  SentOnce'
<1>1. ASSUME NEW to, LinkChanges(to) PROVE SentOnce'
  BY <1>1 DEF LinkChanges, SentOnce, At, TypeOK, CaptureType, CaptureStates
<1>2. CASE UNCHANGED <<capture, link>>
  BY <1>2 DEF SentOnce, At
<1>3. ASSUME NEW k \in Captures, SendFrame(k) PROVE SentOnce'
  <2>1. capture[k] \in CaptureStates /\ capture[k].sent = 0
    BY <1>3 DEF SendFrame, SentOnce, At, TypeOK, CaptureType
  <2>2. /\ capture'[k].step = "test"
        /\ capture'[k].sent = IF link = "connected" THEN 1 ELSE 0
    BY <1>3, <2>1 DEF SendFrame, TypeOK, CaptureType, CaptureStates
  <2>3. \A j \in Captures \ {k} : capture'[j] = capture[j]
    BY <1>3 DEF SendFrame, TypeOK, CaptureType
  <2>4. UNCHANGED link
    BY <1>3 DEF SendFrame, tunnel
  <2> QED
    BY <2>2, <2>3, <2>4 DEF SentOnce, At
<1>4. ASSUME NEW k \in Captures, Return(k), UNCHANGED link PROVE SentOnce'
  <2>1. [NoCapture EXCEPT !.step = "loop"].sent = 0
    BY DEF NoCapture
  <2> QED
    BY <1>4, <2>1, SentUpdate DEF Return, TypeOK
<1>5. ASSUME NEW k \in Captures, NEW step, Goto(k, step), UNCHANGED link, capture[k].sent = 0
      PROVE  SentOnce'
  <2>1. [capture[k] EXCEPT !.step = step].sent = 0
    BY <1>5 DEF TypeOK, CaptureType, CaptureStates
  <2> QED
    BY <1>5, <2>1, SentUpdate DEF Goto, TypeOK
<1>6. ASSUME NEW k \in Captures, CaptureLoop(k) PROVE SentOnce'
  <2>1. capture[k].sent = 0 /\ UNCHANGED link
    BY <1>6 DEF CaptureLoop, SentOnce, At, tunnel
  <2>2. NoCapture.sent = 0
    BY DEF NoCapture
  <2>3. Goto(k, "read") \/ capture' = [capture EXCEPT ![k] = NoCapture]
    BY <1>6 DEF CaptureLoop
  <2> QED
    BY <1>5, <2>1, <2>2, <2>3, SentUpdate DEF TypeOK
<1>7. ASSUME NEW k \in Captures, ReadFrame(k) PROVE SentOnce'
  <2>1. capture[k].sent = 0 /\ UNCHANGED link
    BY <1>7 DEF ReadFrame, SentOnce, At, tunnel
  <2> DEFINE c == [capture[k] EXCEPT !.step = "look", !.frame = Head(buffer)]
  <2>2. c.sent = 0
    BY <2>1 DEF TypeOK, CaptureType, CaptureStates
  <2>3. Return(k) \/ capture' = [capture EXCEPT ![k] = c]
    BY <1>7 DEF ReadFrame
  <2> HIDE DEF c
  <2> QED
    BY <1>4, <2>1, <2>2, <2>3, SentUpdate DEF TypeOK
<1>8. ASSUME NEW k \in Captures, Recognise(k) PROVE SentOnce'
  <2>1. capture[k].sent = 0 /\ UNCHANGED link
    BY <1>8 DEF Recognise, SentOnce, At, tunnel
  <2> DEFINE i == First(Source(k))
             c == [capture[k] EXCEPT !.slot = i,
                     !.step = IF mac[i].active THEN "filter" ELSE "tell",
                     !.count = IF mac[i].active THEN 0 ELSE Active(mac')]
  <2>2. c.sent = 0
    BY <2>1 DEF TypeOK, CaptureType, CaptureStates
  <2>3. capture' = [capture EXCEPT ![k] = c]
    BY <1>8 DEF Recognise
  <2> HIDE DEF c
  <2> QED
    BY <2>1, <2>2, <2>3, SentUpdate DEF TypeOK
<1>9. ASSUME NEW k \in Captures, TellActive(k) PROVE SentOnce'
  <2>1. capture[k].sent = 0 /\ UNCHANGED link
    BY <1>9 DEF TellActive, SentOnce, At, tunnel
  <2> DEFINE c == [capture[k] EXCEPT !.step = "filter", !.count = 0]
  <2>2. c.sent = 0
    BY <2>1 DEF TypeOK, CaptureType, CaptureStates
  <2>3. capture' = [capture EXCEPT ![k] = c]
    BY <1>9 DEF TellActive
  <2> HIDE DEF c
  <2> QED
    BY <2>1, <2>2, <2>3, SentUpdate DEF TypeOK
<1>10. ASSUME NEW k \in Captures, ReadNothing(k) \/ Learn(k) PROVE SentOnce'
  BY <1>4, <1>10 DEF ReadNothing, Learn, tunnel
<1>11. ASSUME NEW k \in Captures, NotFound(k) PROVE SentOnce'
  <2>1. capture[k].sent = 0 /\ UNCHANGED link
    BY <1>11 DEF NotFound, SentOnce, At, tunnel
  <2> QED
    BY <1>5, <1>11, <2>1 DEF NotFound
<1>12. ASSUME NEW k \in Captures, Filter(k) PROVE SentOnce'
  <2>1. capture[k].sent = 0 /\ UNCHANGED link
    BY <1>12 DEF Filter, SentOnce, At, tunnel
  <2>2. Goto(k, "send") \/ Return(k)
    BY <1>12 DEF Filter
  <2> QED
    BY <1>4, <1>5, <2>1, <2>2
<1>13. ASSUME NEW k \in Captures, TestConnected(k) PROVE SentOnce'
  <2>1. UNCHANGED link /\ (link # "connected" => capture[k].sent = 0)
    BY <1>13 DEF TestConnected, SentOnce, At, tunnel
  <2>2. Return(k) \/ (link # "connected" /\ Goto(k, "send"))
    BY <1>13 DEF TestConnected
  <2> QED
    BY <1>4, <1>5, <2>1, <2>2
<1>14. ASSUME NEW m \in Monitors, StartCapture(m) PROVE SentOnce'
  BY <1>4, <1>14, Started DEF StartCapture, tunnel
<1>15. UNCHANGED link \/ \E to \in {"lost", "closed", "connected"} : LinkChanges(to)
  BY TunnelChanges DEF TellActive, TellExpired, LinkLost, LinkClosed, LinkRestored, LinkOpened
<1> QED
  BY <1>1, <1>2, <1>3, <1>6, <1>7, <1>8, <1>9, <1>10, <1>11, <1>12, <1>13, <1>14, <1>15,
     CaptureChanges
  DEF CaptureThread, LinkLost, LinkClosed, LinkRestored, LinkOpened
-----------------------------------------------------------------------------
(***************************************************************************)
(* The other types, variable by variable.                                  *)
(***************************************************************************)
LEMMA HeardType ==
  ASSUME DeviceType, NEW frame \in Frames, Heard(frame)
  PROVE  buffer' \in Seq(Frames) /\ Len(buffer') <= MaxBuffer
<1>1. /\ Append(buffer, frame) \in Seq(Frames)
      /\ Len(Append(buffer, frame)) = Len(buffer) + 1
      /\ Len(buffer) \in Nat
  BY DEF DeviceType
<1> QED
  BY <1>1, BridgeAssumption DEF DeviceType, Heard

LEMMA EventFrame ==
  ASSUME EventType, event.step # "none"
  PROVE  event.frame \in FarFrames
BY DEF EventType, NoEvent

LEMMA DeviceStep ==
  ASSUME TypeOK, [Next]_vars
  PROVE  DeviceType'
<1> DEFINE BufferType == buffer \in Seq(Frames) /\ Len(buffer) <= MaxBuffer
<1>1. BufferType'
  <2>1. CASE UNCHANGED buffer
    BY <2>1 DEF TypeOK, DeviceType
  <2>2. CASE buffer' = <<>>
    BY <2>2, BridgeAssumption
  <2>3. ASSUME NEW l \in Locals, NEW dst \in Psps \cup {Broadcast}, LocalSends(l, dst)
        PROVE BufferType'
    <3>1. [src |-> l, dst |-> dst, injected |-> FALSE] \in Frames
      BY DEF Frames, Psps
    <3> QED
      BY <2>3, <3>1, HeardType DEF LocalSends, TypeOK
  <2>4. CASE Inject
    <3>1. event.frame \in Frames
      BY <2>4, EventFrame DEF Inject, TypeOK, FarFrames, Frames, Psps
    <3> QED
      BY <2>4, <3>1, HeardType DEF Inject, TypeOK
  <2>5. ASSUME NEW k \in Captures, ReadFrame(k) PROVE BufferType'
    <3>1. /\ buffer \in Seq(Frames) /\ Len(buffer) <= MaxBuffer
          /\ buffer # <<>> /\ buffer' = Tail(buffer)
      BY <2>5 DEF ReadFrame, TypeOK, DeviceType
    <3>2. Tail(buffer) \in Seq(Frames) /\ Len(Tail(buffer)) = Len(buffer) - 1
      BY <3>1
    <3> QED
      BY <3>1, <3>2, BridgeAssumption
  <2>6. ReleaseDevice \/ OpenAdapter \/ (\E m \in Monitors : CloseCapture(m)) => buffer' = <<>>
    BY DEF ReleaseDevice, OpenAdapter, CloseCapture
  <2>7. OpenFails => buffer' = <<>> \/ UNCHANGED buffer
    BY DEF OpenFails
  <2> QED
    BY <2>1, <2>2, <2>3, <2>4, <2>5, <2>6, <2>7, BufferChanges
<1>2. adapterStatus' \in {adapterStatus, 0, 1, 2, 3}
  BY DeviceChanges
  DEF ReleaseDevice, EndCloseDevice, OpenAdapter, StartMonitor, OpenFails, BeginCommand,
      StartCapture, LeaveRoom, CloseCapture, EnterRoom, ScanFails
<1>3. adapter' = adapter \/ adapter' = TRUE \/ adapter' = FALSE
  BY DeviceChanges
  DEF ReleaseDevice, EndCloseDevice, OpenAdapter, StartMonitor, OpenFails, BeginCommand,
      StartCapture, LeaveRoom, CloseCapture, EnterRoom, ScanFails
<1>4. handle' = handle \/ handle' = TRUE \/ handle' = FALSE
  <2>1. ASSUME NEW m \in Monitors,
               StartCapture(m) \/ LeaveRoom(m) \/ CloseCapture(m) \/ EnterRoom(m) \/ ScanFails(m)
        PROVE  handle' = handle \/ handle' = TRUE \/ handle' = FALSE
    BY <2>1 DEF StartCapture, LeaveRoom, CloseCapture, EnterRoom, ScanFails
  <2>2. ASSUME NEW open \in BOOLEAN, BeginCommand(open) PROVE handle' = handle
    BY <2>2 DEF BeginCommand
  <2>3. ASSUME ReleaseDevice \/ EndCloseDevice \/ OpenAdapter \/ StartMonitor \/ OpenFails
        PROVE  handle' = handle \/ handle' = FALSE
    BY <2>3 DEF ReleaseDevice, EndCloseDevice, OpenAdapter, StartMonitor, OpenFails
  <2> QED
    BY <2>1, <2>2, <2>3, DeviceChanges
<1>5. adapterStatus' \in 0 .. 3
  BY <1>2 DEF TypeOK, DeviceType
<1>6. adapter \in BOOLEAN /\ handle \in BOOLEAN
  BY DEF TypeOK, DeviceType
<1>7. adapter' \in BOOLEAN /\ handle' \in BOOLEAN
  BY <1>3, <1>4, <1>6, Zenon
<1> QED
  BY <1>1, <1>5, <1>7 DEF DeviceType

LEMMA RoomStep ==
  ASSUME TypeOK, [Next]_vars
  PROVE  RoomType'
<1>1. 0 \in Ages /\ Older(quiet) \in Ages
  BY BridgeAssumption DEF Older, Ages, TypeOK, RoomType
<1>2. quiet' \in {quiet, 0, Older(quiet)} /\ inTheRoom' \in {inTheRoom, TRUE, FALSE}
  BY RoomChanges DEF Tick, Recognise, EnterRoom, StartCapture, CloseCapture
<1> QED
  BY <1>1, <1>2 DEF TypeOK, RoomType

LEMMA EntryUpdate ==
  ASSUME mac \in [Slots -> Entries], NEW i, NEW entry \in Entries,
         mac' = [mac EXCEPT ![i] = entry]
  PROVE  mac' \in [Slots -> Entries]
OBVIOUS

LEMMA MacStep ==
  ASSUME TypeOK, [Next]_vars
  PROVE  mac' \in [Slots -> Entries]
<1> DEFINE MacType == mac \in [Slots -> Entries]
<1>1. MacType /\ 0 \in Ages /\ RoomWait + 1 \in Ages
  BY BridgeAssumption DEF TypeOK, TablesType, Ages
<1>2. CASE UNCHANGED mac
  BY <1>1, <1>2
<1>3. CASE Tick
  <2>1. \A i \in Slots : [mac[i] EXCEPT !.age = Older(@)] \in Entries
    <3>1. \A age \in Ages : Older(age) \in Ages
      BY BridgeAssumption DEF Older, Ages
    <3> QED
      BY <1>1, <3>1 DEF Entries
  <2> QED
    BY <1>3, <2>1 DEF Tick
<1>4. ASSUME NEW k \in Captures, Recognise(k) PROVE MacType'
  <2> DEFINE i == First(Source(k))
             known == mac[i].addr \in Known
  <2>1. i \in Slots
    <3>1. Source(k) \subseteq Slots /\ Source(k) # {}
      BY <1>4 DEF Recognise, Source
    <3> QED
      BY <3>1, FirstType
  <2>2. mac' = [mac EXCEPT ![i] =
                  IF mac[i].active THEN [mac[i] EXCEPT !.age = 0]
                  ELSE [mac[i] EXCEPT !.age = 0, !.active = TRUE, !.doSend = known]]
    BY <1>4 DEF Recognise
  <2>3. known \in BOOLEAN
    OBVIOUS
  <2> HIDE DEF i, known
  <2>4. /\ [mac[i] EXCEPT !.age = 0] \in Entries
        /\ [mac[i] EXCEPT !.age = 0, !.active = TRUE, !.doSend = known] \in Entries
    BY <1>1, <2>1, <2>3 DEF Entries
  <2> QED
    BY <1>1, <2>1, <2>2, <2>4, EntryUpdate
<1>5. ASSUME NEW k \in Captures, Learn(k) PROVE MacType'
  <2> DEFINE src == capture[k].frame.src
  <2>1. src \in Psps \cup {Nobody}
    BY DEF TypeOK, CaptureType, CaptureStates, Frames, NoFrame
  <2>2. [Unused EXCEPT !.addr = src, !.age = 0] \in Entries
    BY <1>1, <2>1 DEF Unused, Entries
  <2>3. \/ UNCHANGED mac
        \/ mac' = [mac EXCEPT ![First(OldEntries)] = [Unused EXCEPT !.addr = src, !.age = 0]]
    BY <1>5 DEF Learn
  <2> HIDE DEF src
  <2> QED
    BY <1>1, <2>2, <2>3, EntryUpdate
<1>6. ASSUME NEW k \in Captures, Filter(k) PROVE MacType'
  <2> DEFINE i == capture[k].slot
  <2>1. UNCHANGED mac \/ mac' = [mac EXCEPT ![i] = [mac[i] EXCEPT !.age = 0]]
    BY <1>6 DEF Filter
  <2>2. i \in Slots => [mac[i] EXCEPT !.age = 0] \in Entries
    BY <1>1 DEF Entries
  <2>3. i \notin Slots => [mac EXCEPT ![i] = [mac[i] EXCEPT !.age = 0]] = mac
    BY <1>1
  <2> HIDE DEF i
  <2> QED
    BY <1>1, <2>1, <2>2, <2>3, EntryUpdate
<1>7. ASSUME NEW m \in Monitors, Expire(m) PROVE MacType'
  <2> DEFINE i == monitor[m].at
  <2>1. i \in Slots
    BY <1>7 DEF Expire
  <2>2. [mac[i] EXCEPT !.active = FALSE] \in Entries
    BY <1>1, <2>1 DEF Entries
  <2>3. UNCHANGED mac \/ mac' = [mac EXCEPT ![i] = [mac[i] EXCEPT !.active = FALSE]]
    BY <1>7 DEF Expire
  <2> HIDE DEF i
  <2> QED
    BY <1>1, <2>2, <2>3, EntryUpdate
<1> QED
  BY <1>2, <1>3, <1>4, <1>5, <1>6, <1>7, MacChanges

LEMMA IgnoredStep ==
  ASSUME TypeOK, IsFiniteSet(ignored), [Next]_vars
  PROVE  /\ ignored' \in SUBSET Remotes /\ Cardinality(ignored') < MaxIgnored
         /\ IsFiniteSet(ignored')
<1>1. ignored \in SUBSET Remotes /\ Cardinality(ignored) < MaxIgnored
  BY DEF TypeOK, TablesType
<1>2. CASE UNCHANGED ignored
  BY <1>1, <1>2
<1>3. CASE IgnoreSource /\ Cardinality(ignored) < MaxIgnored - 1
  <2> DEFINE src == event.frame.src
  <2>1. ignored' = ignored \cup {src}
    BY <1>3 DEF IgnoreSource
  <2>2. src \in Remotes
    BY <1>3, EventFrame DEF IgnoreSource, TypeOK, FarFrames
  <2> HIDE DEF src
  <2>3. IsFiniteSet(ignored') /\ Cardinality(ignored') <= Cardinality(ignored) + 1
    <3>1. /\ IsFiniteSet(ignored \cup {src})
          /\ Cardinality(ignored \cup {src}) = IF src \in ignored THEN Cardinality(ignored)
                                               ELSE Cardinality(ignored) + 1
      BY FS_AddElement
    <3>2. Cardinality(ignored) \in Nat
      BY FS_CardinalityType
    <3> QED
      BY <2>1, <3>1, <3>2
  <2>4. Cardinality(ignored) \in Nat /\ Cardinality(ignored') \in Nat
    BY <2>3, FS_CardinalityType
  <2> QED
    BY <1>1, <1>3, <2>1, <2>2, <2>3, <2>4, BridgeAssumption
<1>4. IgnoreSource /\ ~(Cardinality(ignored) < MaxIgnored - 1) => UNCHANGED ignored
  BY DEF IgnoreSource
<1>5. FrameArrives \/ TestCapturing \/ Inject => UNCHANGED ignored
  BY DEF FrameArrives, TestCapturing, Inject, tables
<1> QED
  BY <1>2, <1>3, <1>4, <1>5, EventChanges

LEMMA EventStep ==
  ASSUME TypeOK, [Next]_vars
  PROVE  EventType'
<1> USE DEF TypeOK, EventType
<1>1. CASE UNCHANGED event
  BY <1>1
<1>2. CASE FrameArrives
  BY <1>2 DEF FrameArrives, FarFrames
<1>3. ASSUME NEW step \in {"test", "inject"}, event' = [event EXCEPT !.step = step],
             event.step # "none"
      PROVE  EventType'
  <2>1. event \in [step : {"ignore", "test", "inject"}, frame : FarFrames]
    BY <1>3 DEF NoEvent
  <2> QED
    BY <1>3, <2>1
<1>4. CASE IgnoreSource \/ TestCapturing
  <2>1. event' = NoEvent \/ \E step \in {"test", "inject"} : event' = [event EXCEPT !.step = step]
    BY <1>4 DEF IgnoreSource, TestCapturing
  <2>2. event.step # "none"
    BY <1>4 DEF IgnoreSource, TestCapturing
  <2> QED
    BY <1>3, <2>1, <2>2
<1>5. CASE Inject
  BY <1>5 DEF Inject
<1> QED
  BY <1>1, <1>2, <1>3, <1>4, <1>5, EventChanges

(***************************************************************************)
(* A monitor that is about to tell how many are left is at a slot.         *)
(***************************************************************************)
TellsOfSlot == \A m \in Monitors : monitor[m].step = "tell" => monitor[m].at \in Slots

LEMMA MonitorUpdate ==
  ASSUME MonitorType, TellsOfSlot, NEW m \in Monitors, NEW n \in MonitorStates,
         n.step = "tell" => n.at \in Slots, monitor' = [monitor EXCEPT ![m] = n]
  PROVE  MonitorType' /\ TellsOfSlot'
BY DEF MonitorType, TellsOfSlot

LEMMA MonitorStep ==
  ASSUME TypeOK, TellsOfSlot, [Next]_vars
  PROVE  MonitorType' /\ TellsOfSlot'
<1> DEFINE Good == MonitorType /\ TellsOfSlot
<1>1. CASE UNCHANGED monitor
  BY <1>1 DEF TypeOK, MonitorType, TellsOfSlot
<1>2. ASSUME NEW m \in Monitors, NEW step \in MonitorSteps \ {"tell"},
             monitor' = [monitor EXCEPT ![m] = [NoMonitor EXCEPT !.step = step]]
      PROVE  Good'
  <2>1. 1 \in 1 .. MaxMac + 1 /\ 0 \in 0 .. MaxMac
    BY BridgeAssumption
  <2>2. [NoMonitor EXCEPT !.step = step] \in MonitorStates
    BY <2>1 DEF NoMonitor, MonitorStates
  <2>3. [NoMonitor EXCEPT !.step = step].step # "tell"
    BY DEF NoMonitor
  <2> QED
    BY <1>2, <2>2, <2>3, MonitorUpdate DEF TypeOK
<1>3. ASSUME NEW m \in Monitors, NEW step \in MonitorSteps \ {"tell"}, MonitorGoto(m, step)
      PROVE  Good'
  <2>1. [monitor[m] EXCEPT !.step = step] \in MonitorStates
    BY DEF TypeOK, MonitorType, MonitorStates
  <2>2. [monitor[m] EXCEPT !.step = step].step # "tell"
    BY DEF TypeOK, MonitorType, MonitorStates
  <2> QED
    BY <1>3, <2>1, <2>2, MonitorUpdate DEF MonitorGoto, TypeOK
<1>4. NoMonitor = [NoMonitor EXCEPT !.step = "none"]
  BY DEF NoMonitor
<1>5. ASSUME NEW m \in Monitors, Expire(m) PROVE Good'
  <2> DEFINE i == monitor[m].at
             count == Active(mac')
  <2>1. i \in Slots /\ i \in 1 .. MaxMac + 1 /\ i + 1 \in 1 .. MaxMac + 1
    BY <1>5, BridgeAssumption DEF Expire, Slots
  <2>2. count \in 0 .. MaxMac
    BY ActiveType
  <2>3. \/ monitor' = [monitor EXCEPT ![m] = [monitor[m] EXCEPT !.step = "tell", !.count = count]]
        \/ monitor' = [monitor EXCEPT ![m] = [monitor[m] EXCEPT !.at = i + 1]]
    BY <1>5 DEF Expire
  <2>4. monitor[m] \in MonitorStates /\ monitor[m].step = "expire" /\ monitor[m].at = i
    BY <1>5 DEF Expire, TypeOK, MonitorType
  <2> HIDE DEF i, count
  <2>5. /\ [monitor[m] EXCEPT !.step = "tell", !.count = count] \in MonitorStates
        /\ [monitor[m] EXCEPT !.step = "tell", !.count = count].at = i
    BY <2>2, <2>4 DEF MonitorStates, MonitorSteps
  <2>6. /\ [monitor[m] EXCEPT !.at = i + 1] \in MonitorStates
        /\ [monitor[m] EXCEPT !.at = i + 1].step = "expire"
    BY <2>1, <2>4 DEF MonitorStates
  <2> QED
    BY <2>1, <2>3, <2>5, <2>6, MonitorUpdate DEF TypeOK
<1>6. ASSUME NEW m \in Monitors, TellExpired(m) PROVE Good'
  <2> DEFINE i == monitor[m].at
             n == [step |-> "expire", at |-> i + 1, count |-> 0]
  <2>1. monitor' = [monitor EXCEPT ![m] = n]
    BY <1>6 DEF TellExpired
  <2>2. i + 1 \in 1 .. MaxMac + 1 /\ 0 \in 0 .. MaxMac
    BY <1>6, BridgeAssumption DEF TellExpired, TellsOfSlot, Slots
  <2> HIDE DEF i
  <2>3. n \in MonitorStates /\ n.step # "tell"
    BY <2>2 DEF MonitorStates, MonitorSteps
  <2> HIDE DEF n
  <2> QED
    BY <2>1, <2>3, MonitorUpdate DEF TypeOK
<1>7. ASSUME NEW m \in Monitors,
             MonitorLoop(m) \/ AllExpired(m) \/ Wake(m) \/ ScanWithoutAdapter(m) \/ ScanFails(m)
      PROVE  Good'
  <2>1. \E step \in {"none", "expire", "room", "loop"} :
          monitor' = [monitor EXCEPT ![m] = [NoMonitor EXCEPT !.step = step]]
    BY <1>4, <1>7 DEF MonitorLoop, AllExpired, Wake, ScanWithoutAdapter, ScanFails
  <2> QED
    BY <1>2, <2>1 DEF MonitorSteps
<1>8. ASSUME NEW m \in Monitors,
             StayPut(m) \/ EnterRoom(m) \/ StartCapture(m) \/ LeaveRoom(m) \/ CloseCapture(m)
      PROVE  Good'
  <2>1. \E step \in {"sleep", "status", "close"} : MonitorGoto(m, step)
    BY <1>8 DEF StayPut, EnterRoom, StartCapture, LeaveRoom, CloseCapture
  <2> QED
    BY <1>3, <2>1 DEF MonitorSteps
<1>9. CASE StartMonitor
  <2>1. \E m \in Monitors : monitor' = [monitor EXCEPT ![m] = [NoMonitor EXCEPT !.step = "loop"]]
    BY <1>9 DEF StartMonitor
  <2> QED
    BY <1>2, <2>1 DEF MonitorSteps
<1> QED
  BY <1>1, <1>5, <1>6, <1>7, <1>8, <1>9, MonitorChanges

LEMMA UserStep ==
  ASSUME TypeOK, [Next]_vars
  PROVE  UserType'
<1> USE DEF TypeOK, UserType
<1>1. CASE UNCHANGED <<user, left>>
  BY <1>1
<1>2. ASSUME NEW open \in BOOLEAN, BeginCommand(open) PROVE UserType'
  <2>1. left' \in [commands : Nat, captures : 1 .. MaxCaptures,
                    may : SUBSET {"lose", "close", "fail"}]
    BY <1>2 DEF BeginCommand
  <2>2. \E step \in {"release", "open", "idle"} : user' = [open |-> open, step |-> step]
    BY <1>2 DEF BeginCommand
  <2> QED
    BY <2>1, <2>2
<1>3. CASE ReleaseDevice \/ EndCloseDevice \/ OpenAdapter \/ OpenFails \/ StartMonitor
  <2>1. UNCHANGED left
    BY <1>3 DEF ReleaseDevice, EndCloseDevice, OpenAdapter, OpenFails, StartMonitor
  <2>2. \E step \in {"released", "open", "idle", "start"} : user' = [user EXCEPT !.step = step]
    BY <1>3 DEF ReleaseDevice, EndCloseDevice, OpenAdapter, OpenFails, StartMonitor
  <2> QED
    BY <2>1, <2>2
<1> QED
  BY <1>1, <1>2, <1>3, UserChanges

LEMMA TunnelStep ==
  ASSUME TypeOK, [Next]_vars
  PROVE  TunnelType'
<1>1. link' \in {link, "lost", "closed", "connected"}
  BY TunnelChanges
  DEF LinkLost, LinkClosed, LinkRestored, LinkOpened, LinkChanges, TellActive, TellExpired
<1>2. \/ announced' \in {announced, Active(mac)}
      \/ \E k \in Captures : announced' = capture[k].count
      \/ \E m \in Monitors : announced' = monitor[m].count
  BY TunnelChanges
  DEF LinkLost, LinkClosed, LinkRestored, LinkOpened, TellActive, TellExpired, Tell
<1>3. announced' \in 0 .. MaxMac
  BY <1>2, ActiveType
  DEF TypeOK, TunnelType, CaptureType, CaptureStates, MonitorType, MonitorStates
<1> QED
  BY <1>1, <1>3 DEF TypeOK, TunnelType

LEMMA SpokenStep ==
  ASSUME spoken \in SUBSET Locals, [Next]_vars
  PROVE  spoken' \in SUBSET Locals
<1>1. \/ UNCHANGED spoken
      \/ Tick
      \/ \E l \in Locals, dst \in Psps \cup {Broadcast} : LocalSends(l, dst)
  BY DEF Next, vars, CaptureThread, EventThread, MonitorThread, UserThread, LinkChanges,
     LinkLost, LinkClosed, LinkRestored, LinkOpened, CaptureLoop, ReadNothing, ReadFrame,
     Recognise, TellActive, NotFound, Learn, Filter, SendFrame, TestConnected, FrameArrives,
     IgnoreSource, TestCapturing, Inject, MonitorLoop, Expire, TellExpired, AllExpired, StayPut,
     EnterRoom, StartCapture, LeaveRoom, CloseCapture, Wake, ScanWithoutAdapter, ScanFails,
     BeginCommand, ReleaseDevice, EndCloseDevice, OpenAdapter, OpenFails, StartMonitor
<1> QED
  BY <1>1 DEF Tick, LocalSends
-----------------------------------------------------------------------------
(***************************************************************************)
(* The types are inductive together with three facts: what a thread has    *)
(* sent, where a monitor tells from, and that the ignored addresses are    *)
(* finitely many, else their number would mean nothing.                    *)
(***************************************************************************)
TypeInv == TypeOK /\ SentOnce /\ TellsOfSlot /\ IsFiniteSet(ignored)

LEMMA TypeInitially ==
  ASSUME Init
  PROVE  TypeInv
<1> USE DEF Init
<1>1. 0 \in 0 .. MaxMac /\ 1 \in 1 .. MaxMac + 1 /\ RoomWait \in Ages /\ RoomWait + 1 \in Ages
  BY BridgeAssumption DEF Ages
<1>2. DeviceType
  <2>1. Len(buffer) <= MaxBuffer
    BY BridgeAssumption
  <2>2. adapterStatus \in 0 .. 3 /\ buffer \in Seq(Frames)
    OBVIOUS
  <2>3. adapter \in BOOLEAN /\ handle \in BOOLEAN
    BY Zenon
  <2> QED
    BY <2>1, <2>2, <2>3 DEF DeviceType
<1>3. RoomType
  BY <1>1 DEF RoomType
<1>4. TablesType /\ IsFiniteSet(ignored)
  <2>1. Unused \in Entries
    BY <1>1 DEF Unused, Entries
  <2>2. IsFiniteSet({}) /\ Cardinality({}) = 0
    BY FS_EmptySet
  <2> QED
    BY <2>1, <2>2, BridgeAssumption DEF TablesType
<1>5. CaptureType /\ SentOnce
  <2>1. NoCapture \in CaptureStates /\ NoCapture.sent = 0
    BY <1>1 DEF NoCapture, CaptureStates, CaptureSteps
  <2> QED
    BY <2>1 DEF CaptureType, SentOnce
<1>6. MonitorType /\ TellsOfSlot
  <2>1. NoMonitor \in MonitorStates /\ NoMonitor.step # "tell"
    BY <1>1 DEF NoMonitor, MonitorStates, MonitorSteps
  <2> QED
    BY <2>1 DEF MonitorType, TellsOfSlot
<1>7. EventType
  BY DEF EventType
<1>8. UserType
  BY BridgeAssumption DEF UserType
<1>9. TunnelType
  BY <1>1 DEF TunnelType
<1> QED
  BY <1>2, <1>3, <1>4, <1>5, <1>6, <1>7, <1>8, <1>9 DEF TypeInv, TypeOK

LEMMA TypeStep ==
  ASSUME TypeInv, [Next]_vars
  PROVE  TypeInv'
<1>1. TypeOK /\ SentOnce /\ TellsOfSlot /\ IsFiniteSet(ignored) /\ spoken \in SUBSET Locals
  BY DEF TypeInv, TypeOK
<1>2. DeviceType' /\ RoomType' /\ UserType' /\ TunnelType' /\ EventType'
  BY <1>1, DeviceStep, RoomStep, UserStep, TunnelStep, EventStep
<1>3. TablesType' /\ IsFiniteSet(ignored)'
  BY <1>1, MacStep, IgnoredStep DEF TablesType
<1>4. CaptureType' /\ SentOnce'
  BY <1>1, CaptureTypeStep, SentOnceStep
<1>5. MonitorType' /\ TellsOfSlot'
  BY <1>1, MonitorStep
<1>6. spoken' \in SUBSET Locals
  BY <1>1, SpokenStep
<1> QED
  BY <1>2, <1>3, <1>4, <1>5, <1>6 DEF TypeInv, TypeOK

(***************************************************************************)
(* Every variable of the bridge keeps its type.                            *)
(***************************************************************************)
THEOREM TypeCorrect == Spec => []TypeOK
<1>1. Init => TypeInv
  BY TypeInitially
<1>2. TypeInv /\ [Next]_vars => TypeInv'
  BY TypeStep
<1>3. TypeInv => TypeOK
  BY DEF TypeInv
<1> QED
  BY <1>1, <1>2, <1>3, PTL DEF Spec

(***************************************************************************)
(* The loop that sends a frame until there is a connection (1886-1888)     *)
(* sends it at most once into any one connection, however often the        *)
(* connection is lost on the way.                                          *)
(***************************************************************************)
THEOREM SentAtMostOnce == Spec => []OncePerLink
<1>1. Init => TypeInv
  BY TypeInitially
<1>2. TypeInv /\ [Next]_vars => TypeInv'
  BY TypeStep
<1>3. TypeInv => OncePerLink
  BY DEF TypeInv, TypeOK, CaptureType, CaptureStates, SentOnce, OncePerLink
<1> QED
  BY <1>1, <1>2, <1>3, PTL DEF Spec
-----------------------------------------------------------------------------
(***************************************************************************)
(* Frames do not go round.  A frame that was injected has a source that    *)
(* was ignored before, wherever the frame is: about to be injected, in the *)
(* capture, or in a capture thread.  The table of the PSPs near by never   *)
(* holds such a source, as Learn leaves those out and they stay ignored.   *)
(***************************************************************************)
RemotesFit == IsFiniteSet(Remotes) /\ Cardinality(Remotes) < MaxIgnored

Accounted(frame) == IF frame.injected THEN frame.src \in ignored ELSE frame.src \in Locals

Holding == {"look", "tell", "learn", "filter", "send", "test"}
FromTable == {"tell", "filter", "send", "test"}

NearIsLocal == \A i \in Slots : mac[i].addr \in Locals \cup {Nobody}

BufferAccounted == \A n \in 1 .. Len(buffer) : Accounted(buffer[n])

EventAccounted == event.step \in {"test", "inject"} => event.frame.src \in ignored

CaptureAccounted ==
  \A k \in Captures :
    /\ capture[k].step \in Holding => Accounted(capture[k].frame)
    /\ capture[k].step \in FromTable => capture[k].frame.src \in Locals

LoopInv == TypeInv /\ NearIsLocal /\ BufferAccounted /\ EventAccounted /\ CaptureAccounted

LEMMA LoopInitially ==
  ASSUME Init
  PROVE  LoopInv
<1>1. TypeInv
  BY TypeInitially
<1>2. NearIsLocal
  BY DEF Init, NearIsLocal, Unused
<1>3. BufferAccounted
  BY DEF Init, BufferAccounted
<1>4. EventAccounted
  BY DEF Init, EventAccounted, NoEvent
<1>5. CaptureAccounted
  BY DEF Init, CaptureAccounted, NoCapture, Holding, FromTable
<1> QED
  BY <1>1, <1>2, <1>3, <1>4, <1>5 DEF LoopInv

\* The table never runs full, so that every address is ignored in the end.
LEMMA SourceIgnored ==
  ASSUME RemotesFit, TypeInv, IgnoreSource
  PROVE  event.frame.src \in ignored'
<1> DEFINE src == event.frame.src
<1>1. src \in Remotes
  BY EventFrame DEF TypeInv, TypeOK, IgnoreSource, FarFrames
<1>2. IsFiniteSet(ignored) /\ ignored \in SUBSET Remotes
  BY DEF TypeInv, TypeOK, TablesType
<1>3. CASE src \in ignored
  BY <1>3 DEF IgnoreSource
<1>4. CASE src \notin ignored
  <2>1. Cardinality(ignored) <= Cardinality(Remotes) /\ Cardinality(ignored) # Cardinality(Remotes)
    BY <1>1, <1>2, <1>4, FS_Subset DEF RemotesFit
  <2>2. Cardinality(ignored) \in Nat /\ Cardinality(Remotes) \in Nat
    BY <1>2, FS_CardinalityType DEF RemotesFit
  <2>3. Cardinality(ignored) < MaxIgnored - 1
    BY <2>1, <2>2, BridgeAssumption DEF RemotesFit
  <2> QED
    BY <2>3 DEF IgnoreSource
<1> QED
  BY <1>3, <1>4

LEMMA StayIgnored ==
  ASSUME [Next]_vars
  PROVE  ignored \subseteq ignored'
BY EventChanges DEF IgnoreSource, FrameArrives, TestCapturing, Inject, tables

LEMMA AccountedKept ==
  ASSUME [Next]_vars, NEW frame, Accounted(frame)
  PROVE  Accounted(frame)'
BY StayIgnored DEF Accounted

LEMMA AddressesKept ==
  ASSUME TypeInv, [Next]_vars
  PROVE  (\A i \in Slots : mac'[i].addr = mac[i].addr) \/ \E k \in Captures : Learn(k)
<1> DEFINE Kept == \A i \in Slots : mac'[i].addr = mac[i].addr
<1>1. mac \in [Slots -> Entries]
  BY DEF TypeInv, TypeOK, TablesType
<1>2. ASSUME NEW j, NEW e, mac' = [mac EXCEPT ![j] = e], j \in Slots => e.addr = mac[j].addr
      PROVE  Kept
  BY <1>1, <1>2
<1>3. CASE UNCHANGED mac
  BY <1>3
<1>4. CASE Tick
  BY <1>1, <1>4 DEF Tick, Entries
<1>5. ASSUME NEW k \in Captures, Recognise(k) PROVE Kept
  <2> DEFINE j == First(Source(k))
             e == IF mac[j].active THEN [mac[j] EXCEPT !.age = 0]
                  ELSE [mac[j] EXCEPT !.age = 0, !.active = TRUE,
                                      !.doSend = (mac[j].addr \in Known)]
  <2>1. mac' = [mac EXCEPT ![j] = e]
    BY <1>5 DEF Recognise
  <2> HIDE DEF j
  <2>2. j \in Slots => e.addr = mac[j].addr
    BY <1>1 DEF Entries
  <2> HIDE DEF e
  <2> QED
    BY <1>2, <2>1, <2>2
<1>6. ASSUME NEW k \in Captures, Filter(k) PROVE Kept
  <2> DEFINE j == capture[k].slot
             e == [mac[j] EXCEPT !.age = 0]
  <2>1. UNCHANGED mac \/ mac' = [mac EXCEPT ![j] = e]
    BY <1>6 DEF Filter
  <2> HIDE DEF j
  <2>2. j \in Slots => e.addr = mac[j].addr
    BY <1>1 DEF Entries
  <2> HIDE DEF e
  <2> QED
    BY <1>2, <1>3, <2>1, <2>2
<1>7. ASSUME NEW m \in Monitors, Expire(m) PROVE Kept
  BY <1>1, <1>7 DEF Expire, Entries
<1> QED
  BY <1>3, <1>4, <1>5, <1>6, <1>7, MacChanges

LEMMA NearStep ==
  ASSUME LoopInv, [Next]_vars
  PROVE  NearIsLocal'
<1>1. mac \in [Slots -> Entries] /\ NearIsLocal
  BY DEF LoopInv, TypeInv, TypeOK, TablesType
<1>2. CASE \A i \in Slots : mac'[i].addr = mac[i].addr
  BY <1>1, <1>2 DEF NearIsLocal
<1>3. ASSUME NEW k \in Captures, Learn(k) PROVE NearIsLocal'
  <2> DEFINE src == capture[k].frame.src
             new == [Unused EXCEPT !.addr = src, !.age = 0]
  <2>1. Accounted(capture[k].frame)
    BY <1>3 DEF Learn, At, LoopInv, CaptureAccounted, Holding
  <2>2. src \notin ignored => src \in Locals
    BY <2>1 DEF Accounted
  <2>3. new.addr = src
    BY DEF Unused
  <2>4. UNCHANGED mac \/ (src \notin ignored /\ mac' = [mac EXCEPT ![First(OldEntries)] = new])
    BY <1>3 DEF Learn
  <2> HIDE DEF src, new
  <2> QED
    BY <1>1, <2>2, <2>3, <2>4 DEF NearIsLocal
<1> QED
  BY <1>2, <1>3, AddressesKept DEF LoopInv

LEMMA BufferStep ==
  ASSUME LoopInv, [Next]_vars
  PROVE  BufferAccounted'
<1>1. buffer \in Seq(Frames) /\ BufferAccounted
  BY DEF LoopInv, TypeInv, TypeOK, DeviceType
<1>2. CASE UNCHANGED buffer
  BY <1>1, <1>2, AccountedKept DEF BufferAccounted
<1>3. CASE buffer' = <<>>
  BY <1>3 DEF BufferAccounted
<1>4. ASSUME NEW frame, Accounted(frame), Heard(frame) PROVE BufferAccounted'
  <2>1. CASE buffer' = Append(buffer, frame)
    <3>1. ASSUME NEW n \in 1 .. Len(buffer') PROVE Accounted(buffer'[n])
      BY <1>1, <1>4, <2>1 DEF BufferAccounted
    <3> QED
      BY <3>1, AccountedKept DEF BufferAccounted
  <2> QED
    BY <1>2, <1>4, <2>1 DEF Heard
<1>5. ASSUME NEW l \in Locals, NEW dst \in Psps \cup {Broadcast}, LocalSends(l, dst)
      PROVE  BufferAccounted'
  BY <1>4, <1>5 DEF LocalSends, Accounted
<1>6. CASE Inject
  <2>1. event.frame \in FarFrames /\ event.frame.src \in ignored
    BY <1>6, EventFrame DEF Inject, LoopInv, EventAccounted, TypeInv, TypeOK
  <2>2. Accounted(event.frame)
    BY <2>1 DEF Accounted, FarFrames
  <2> QED
    BY <1>4, <1>6, <2>2 DEF Inject
<1>7. ASSUME NEW k \in Captures, ReadFrame(k) PROVE BufferAccounted'
  <2>1. buffer # <<>> /\ buffer' = Tail(buffer)
    BY <1>7 DEF ReadFrame
  <2>2. ASSUME NEW n \in 1 .. Len(buffer') PROVE Accounted(buffer'[n])
    BY <1>1, <2>1 DEF BufferAccounted
  <2> QED
    BY <2>2, AccountedKept DEF BufferAccounted
<1>8. ReleaseDevice \/ OpenAdapter \/ (\E m \in Monitors : CloseCapture(m)) => buffer' = <<>>
  BY DEF ReleaseDevice, OpenAdapter, CloseCapture
<1>9. OpenFails => buffer' = <<>> \/ UNCHANGED buffer
  BY DEF OpenFails
<1> QED
  BY <1>2, <1>3, <1>5, <1>6, <1>7, <1>8, <1>9, BufferChanges

LEMMA EventAccountedStep ==
  ASSUME RemotesFit, LoopInv, [Next]_vars
  PROVE  EventAccounted'
<1>1. EventAccounted /\ EventType
  BY DEF LoopInv, TypeInv, TypeOK
<1>2. CASE UNCHANGED event
  BY <1>1, <1>2, StayIgnored DEF EventAccounted
<1>3. CASE FrameArrives
  BY <1>3 DEF FrameArrives, EventAccounted
<1>4. CASE IgnoreSource
  <2>1. event'.frame = event.frame
    BY <1>1, <1>4 DEF IgnoreSource, EventType, NoEvent
  <2> QED
    BY <1>4, <2>1, SourceIgnored DEF LoopInv, EventAccounted
<1>5. CASE TestCapturing
  <2>1. event' = NoEvent \/ event'.frame = event.frame
    BY <1>1, <1>5 DEF TestCapturing, EventType
  <2>2. event.frame.src \in ignored /\ UNCHANGED ignored
    BY <1>1, <1>5 DEF TestCapturing, EventAccounted, tables
  <2> QED
    BY <2>1, <2>2 DEF EventAccounted, NoEvent
<1>6. CASE Inject
  BY <1>6 DEF Inject, EventAccounted, NoEvent
<1> QED
  BY <1>2, <1>3, <1>4, <1>5, <1>6, EventChanges

\* What has to be shown of the one thread that moves.
LEMMA CaptureAccountedUpdate ==
  ASSUME LoopInv, [Next]_vars, NEW k \in Captures, NEW c, capture' = [capture EXCEPT ![k] = c],
         c.step \in Holding => Accounted(c.frame),
         c.step \in FromTable => c.frame.src \in Locals
  PROVE  CaptureAccounted'
<1>1. capture \in [Captures -> CaptureStates] /\ CaptureAccounted
  BY DEF LoopInv, TypeInv, TypeOK, CaptureType
<1>2. capture'[k] = c /\ \A j \in Captures \ {k} : capture'[j] = capture[j]
  BY <1>1
<1>3. ASSUME NEW j \in Captures
      PROVE  /\ capture'[j].step \in Holding => Accounted(capture'[j].frame)
             /\ capture'[j].step \in FromTable => capture'[j].frame.src \in Locals
  BY <1>1, <1>2 DEF CaptureAccounted
<1> QED
  BY <1>3, AccountedKept DEF CaptureAccounted

LEMMA CaptureAccountedStep ==
  ASSUME LoopInv, [Next]_vars
  PROVE  CaptureAccounted'
<1>1. capture \in [Captures -> CaptureStates] /\ CaptureAccounted
  BY DEF LoopInv, TypeInv, TypeOK, CaptureType
<1>2. CASE UNCHANGED capture
  BY <1>1, <1>2, AccountedKept DEF CaptureAccounted
<1>3. ASSUME NEW to, LinkChanges(to) PROVE CaptureAccounted'
  <2>1. \A k \in Captures :
          capture'[k].step = capture[k].step /\ capture'[k].frame = capture[k].frame
    BY <1>1, <1>3 DEF LinkChanges, CaptureStates
  <2>2. ASSUME NEW k \in Captures, capture'[k].step \in Holding PROVE Accounted(capture'[k].frame)
    BY <1>1, <2>1, <2>2 DEF CaptureAccounted
  <2> QED
    BY <1>1, <2>1, <2>2, AccountedKept DEF CaptureAccounted
<1>4. ASSUME NEW k \in Captures, Return(k) \/ capture' = [capture EXCEPT ![k] = NoCapture]
      PROVE  CaptureAccounted'
  <2>1. /\ NoCapture.step \notin Holding \cup FromTable
        /\ [NoCapture EXCEPT !.step = "loop"].step \notin Holding \cup FromTable
    BY DEF NoCapture, Holding, FromTable
  <2> QED
    BY <1>4, <2>1, CaptureAccountedUpdate DEF Return
<1>5. ASSUME NEW k \in Captures, NEW c, capture' = [capture EXCEPT ![k] = c],
             c.frame = capture[k].frame, capture[k].step \in Holding,
             c.step \in FromTable => capture[k].step \in FromTable
      PROVE  CaptureAccounted'
  BY <1>1, <1>5, CaptureAccountedUpdate DEF CaptureAccounted
<1>6. ASSUME NEW k \in Captures, NEW step, Goto(k, step), capture[k].step \in Holding,
             step \in FromTable => capture[k].step \in FromTable
      PROVE  CaptureAccounted'
  <2> DEFINE c == [capture[k] EXCEPT !.step = step]
  <2>1. c.frame = capture[k].frame /\ c.step = step
    BY <1>1 DEF CaptureStates
  <2> HIDE DEF c
  <2>2. capture' = [capture EXCEPT ![k] = c]
    BY <1>6 DEF Goto, c
  <2> QED
    BY <1>5, <1>6, <2>1, <2>2
<1>7. ASSUME NEW k \in Captures, CaptureLoop(k) PROVE CaptureAccounted'
  <2>1. CASE Goto(k, "read")
    <3>1. [capture[k] EXCEPT !.step = "read"].step \notin Holding \cup FromTable
      BY <1>1 DEF CaptureStates, Holding, FromTable
    <3> QED
      BY <2>1, <3>1, CaptureAccountedUpdate DEF Goto
  <2> QED
    BY <1>4, <1>7, <2>1 DEF CaptureLoop
<1>8. ASSUME NEW k \in Captures, ReadFrame(k) PROVE CaptureAccounted'
  <2> DEFINE c == [capture[k] EXCEPT !.step = "look", !.frame = Head(buffer)]
  <2>1. Accounted(Head(buffer))
    BY <1>8 DEF ReadFrame, LoopInv, BufferAccounted, TypeInv, TypeOK, DeviceType
  <2>2. c.step \notin FromTable /\ c.frame = Head(buffer)
    BY <1>1 DEF CaptureStates, FromTable
  <2>3. Return(k) \/ capture' = [capture EXCEPT ![k] = c]
    BY <1>8 DEF ReadFrame
  <2> HIDE DEF c
  <2> QED
    BY <1>4, <2>1, <2>2, <2>3, CaptureAccountedUpdate
<1>9. ASSUME NEW k \in Captures, Recognise(k) PROVE CaptureAccounted'
  <2> DEFINE i == First(Source(k))
             c == [capture[k] EXCEPT !.slot = i,
                     !.step = IF mac[i].active THEN "filter" ELSE "tell",
                     !.count = IF mac[i].active THEN 0 ELSE Active(mac')]
  <2>1. Accounted(capture[k].frame)
    BY <1>1, <1>9 DEF Recognise, At, CaptureAccounted, Holding
  <2>2. capture[k].frame.src \in Locals
    <3>1. Source(k) \subseteq Slots /\ Source(k) # {}
      BY <1>9 DEF Recognise, Source
    <3>2. PICK j \in Slots : mac[j].addr = capture[k].frame.src
      BY <3>1 DEF Source
    <3>3. capture[k].frame.src \in Locals \cup {Nobody}
      BY <3>2 DEF LoopInv, NearIsLocal
    <3>4. ignored \subseteq Remotes
      BY DEF LoopInv, TypeInv, TypeOK, TablesType
    <3> QED
      BY <2>1, <3>3, <3>4, BridgeAssumption DEF Accounted
  <2>3. capture' = [capture EXCEPT ![k] = c]
    BY <1>9 DEF Recognise
  <2>4. c.frame = capture[k].frame
    BY <1>1 DEF CaptureStates
  <2> HIDE DEF c
  <2> QED
    BY <2>1, <2>2, <2>3, <2>4, CaptureAccountedUpdate
<1>10. ASSUME NEW k \in Captures, TellActive(k) PROVE CaptureAccounted'
  <2> DEFINE c == [capture[k] EXCEPT !.step = "filter", !.count = 0]
  <2>1. c.frame = capture[k].frame
    BY <1>1 DEF CaptureStates
  <2>2. capture[k].step \in Holding /\ capture[k].step \in FromTable
    BY <1>10 DEF TellActive, At, Holding, FromTable
  <2>3. capture' = [capture EXCEPT ![k] = c]
    BY <1>10 DEF TellActive
  <2> HIDE DEF c
  <2> QED
    BY <1>5, <2>1, <2>2, <2>3
<1>11. ASSUME NEW k \in Captures, ReadNothing(k) \/ Learn(k) PROVE CaptureAccounted'
  BY <1>4, <1>11 DEF ReadNothing, Learn
<1>12. ASSUME NEW k \in Captures, NotFound(k) PROVE CaptureAccounted'
  <2>1. Goto(k, "learn") /\ capture[k].step \in Holding /\ "learn" \notin FromTable
    BY <1>12 DEF NotFound, At, Holding, FromTable
  <2> QED
    BY <1>6, <2>1
<1>13. ASSUME NEW k \in Captures, Filter(k) \/ TestConnected(k) PROVE CaptureAccounted'
  <2>1. Goto(k, "send") \/ Return(k)
    BY <1>13 DEF Filter, TestConnected
  <2>2. capture[k].step \in Holding /\ capture[k].step \in FromTable
    BY <1>13 DEF Filter, TestConnected, At, Holding, FromTable
  <2> QED
    BY <1>4, <1>6, <2>1, <2>2
<1>14. ASSUME NEW k \in Captures, SendFrame(k) PROVE CaptureAccounted'
  <2> DEFINE c == [capture[k] EXCEPT !.step = "test",
                     !.sent = IF link = "connected" THEN @ + 1 ELSE @]
  <2>1. c.frame = capture[k].frame
    BY <1>1 DEF CaptureStates
  <2>2. capture[k].step \in Holding /\ capture[k].step \in FromTable
    BY <1>14 DEF SendFrame, At, Holding, FromTable
  <2>3. capture' = [capture EXCEPT ![k] = c]
    BY <1>14 DEF SendFrame
  <2> HIDE DEF c
  <2> QED
    BY <1>5, <2>1, <2>2, <2>3
<1>15. ASSUME NEW m \in Monitors, StartCapture(m) PROVE CaptureAccounted'
  BY <1>4, <1>15, Started DEF StartCapture, LoopInv, TypeInv
<1> QED
  BY <1>2, <1>3, <1>7, <1>8, <1>9, <1>10, <1>11, <1>12, <1>13, <1>14, <1>15, CaptureChanges
  DEF CaptureThread, LinkLost, LinkClosed, LinkRestored, LinkOpened

(***************************************************************************)
(* "(To prevent loops) a list of MAC addresses that do not tunnel" (87):   *)
(* while all the PSPs far away fit in that list, no frame that came        *)
(* through the tunnel is sent into it again.                               *)
(***************************************************************************)
THEOREM NoLoops ==
  ASSUME RemotesFit
  PROVE  Spec => []NoLoop
<1>1. Init => LoopInv
  BY LoopInitially
<1>2. LoopInv /\ [Next]_vars => LoopInv'
  <2> SUFFICES ASSUME LoopInv, [Next]_vars PROVE LoopInv'
    OBVIOUS
  <2>1. TypeInv'
    BY TypeStep DEF LoopInv
  <2>2. NearIsLocal' /\ BufferAccounted' /\ CaptureAccounted'
    BY NearStep, BufferStep, CaptureAccountedStep
  <2>3. EventAccounted'
    BY EventAccountedStep
  <2> QED
    BY <2>1, <2>2, <2>3 DEF LoopInv
<1>3. LoopInv => NoLoop
  <2> SUFFICES ASSUME LoopInv, NEW k \in Captures, At(k, "send"), capture[k].frame.injected
               PROVE  FALSE
    BY DEF NoLoop
  <2>1. capture[k].frame.src \in Locals /\ capture[k].frame.src \in ignored
    BY DEF LoopInv, CaptureAccounted, Accounted, At, Holding, FromTable
  <2>2. ignored \subseteq Remotes
    BY DEF LoopInv, TypeInv, TypeOK, TablesType
  <2> QED
    BY <2>1, <2>2, BridgeAssumption
<1> QED
  BY <1>1, <1>2, <1>3, PTL DEF Spec
-----------------------------------------------------------------------------
(***************************************************************************)
(* The capture threads there are at one time are the first ones, and no    *)
(* more of them look for a PSP, or are about to enter it.                  *)
(***************************************************************************)
CapturesAllowed == \A k \in Captures : k > left.captures => At(k, "none")

RaceInv == TypeInv /\ EntriesByRace /\ CapturesAllowed

LEMMA AllowedStep ==
  ASSUME RaceInv, [Next]_vars
  PROVE  CapturesAllowed' /\ left'.captures = left.captures
<1>1. capture \in [Captures -> CaptureStates] /\ left.captures \in Nat
  BY DEF RaceInv, TypeInv, TypeOK, CaptureType, UserType
<1>2. left'.captures = left.captures
  BY UserChanges
  DEF RaceInv, TypeInv, TypeOK, UserType, ReleaseDevice, EndCloseDevice, OpenAdapter,
      StartMonitor, OpenFails, BeginCommand
<1>3. ASSUME NEW k \in Captures, capture[k].step = "none", capture'[k].step # "none"
      PROVE  k <= left.captures
  <2>1. capture' # capture
    BY <1>3
  <2>2. ASSUME NEW to, LinkChanges(to) PROVE FALSE
    BY <1>1, <1>3, <2>2 DEF LinkChanges, CaptureStates
  <2>3. ASSUME NEW j \in Captures, CaptureThread(j) PROVE FALSE
    <3>1. j # k
      BY <1>3, <2>3
      DEF CaptureThread, CaptureLoop, ReadNothing, ReadFrame, Recognise, TellActive, NotFound,
          Learn, Filter, SendFrame, TestConnected, At
    <3>2. capture'[k] = capture[k]
      BY <1>1, <2>3, <3>1
      DEF CaptureThread, CaptureLoop, ReadNothing, ReadFrame, Recognise, TellActive, NotFound,
          Learn, Filter, SendFrame, TestConnected, Goto, Return
    <3> QED
      BY <1>3, <3>2
  <2>4. PICK m \in Monitors : StartCapture(m)
    BY <2>1, <2>2, <2>3, CaptureChanges DEF LinkLost, LinkClosed, LinkRestored, LinkOpened
  <2>5. PICK j \in 1 .. left.captures : Return(j)
    BY <2>4 DEF StartCapture
  <2> QED
    BY <1>1, <1>3, <2>5 DEF Return
<1>4. CapturesAllowed'
  <2> SUFFICES ASSUME NEW k \in Captures, k > left.captures PROVE capture'[k].step = "none"
    BY <1>2 DEF CapturesAllowed, At
  <2>1. capture[k].step = "none" /\ ~(k <= left.captures)
    BY <1>1 DEF RaceInv, CapturesAllowed, At, Captures
  <2> QED
    BY <1>3, <2>1
<1> QED
  BY <1>2, <1>4

\* Who is about to enter p did not find it.
LEMMA LearningStep ==
  ASSUME TypeInv, [Next]_vars, NEW p
  PROVE  \/ Learning(p)' \subseteq Learning(p)
         \/ \E k \in Captures : NotFound(k) /\ capture[k].frame.src = p
<1>1. capture \in [Captures -> CaptureStates]
  BY DEF TypeInv, TypeOK, CaptureType
<1> SUFFICES ASSUME NEW k \in Captures, At(k, "learn")', capture'[k].frame.src = p,
                    ~(NotFound(k) /\ capture[k].frame.src = p)
             PROVE  At(k, "learn") /\ capture[k].frame.src = p
  BY DEF Learning
<1>2. CASE capture'[k] = capture[k]
  BY <1>2 DEF At
<1>3. ASSUME NEW to, LinkChanges(to)
      PROVE  At(k, "learn") /\ capture[k].frame.src = p
  BY <1>1, <1>3 DEF LinkChanges, At, CaptureStates
<1>4. ASSUME NEW j \in Captures, j # k, CaptureThread(j) PROVE capture'[k] = capture[k]
  BY <1>1, <1>4
  DEF CaptureThread, CaptureLoop, ReadNothing, ReadFrame, Recognise, TellActive, NotFound,
      Learn, Filter, SendFrame, TestConnected, Goto, Return
<1>5. ~Return(k) /\ ~(capture' = [capture EXCEPT ![k] = NoCapture])
  BY <1>1 DEF Return, NoCapture, At
<1>6. ~CaptureLoop(k) /\ ~ReadNothing(k) /\ ~ReadFrame(k)
  BY <1>1, <1>5 DEF CaptureLoop, ReadNothing, ReadFrame, Goto, At, CaptureStates
<1>7. ~Recognise(k) /\ ~TellActive(k) /\ ~Filter(k) /\ ~SendFrame(k) /\ ~TestConnected(k)
  BY <1>1, <1>5
  DEF Recognise, TellActive, Filter, SendFrame, TestConnected, Goto, At, CaptureStates
<1>8. ~NotFound(k) /\ ~Learn(k)
  BY <1>1, <1>5 DEF NotFound, Learn, Goto, CaptureStates
<1>9. ASSUME NEW m \in Monitors, StartCapture(m)
      PROVE  capture'[k] = capture[k]
  <2>1. PICK j \in 1 .. left.captures : Return(j)
    BY <1>9 DEF StartCapture
  <2> QED
    BY <1>1, <1>5, <2>1 DEF Return
<1> QED
  BY <1>2, <1>3, <1>4, <1>6, <1>7, <1>8, <1>9, CaptureChanges
  DEF CaptureThread, LinkLost, LinkClosed, LinkRestored, LinkOpened

\* Only an entry that is made adds to the entries of p, and whoever makes it
\* is no longer about to.
LEMMA EntriesStep ==
  ASSUME TypeInv, [Next]_vars, NEW p \in Psps
  PROVE  \/ EntriesOf(p)' \subseteq EntriesOf(p)
         \/ \E k \in Learning(p) : /\ Learning(p)' \subseteq Learning(p) \ {k}
                                   /\ \E i : EntriesOf(p)' \subseteq EntriesOf(p) \cup {i}
<1>1. CASE \A i \in Slots : mac'[i].addr = mac[i].addr
  BY <1>1 DEF EntriesOf
<1>2. ASSUME NEW k \in Captures, Learn(k)
      PROVE  \/ EntriesOf(p)' \subseteq EntriesOf(p)
             \/ /\ k \in Learning(p) /\ Learning(p)' \subseteq Learning(p) \ {k}
                /\ \E i : EntriesOf(p)' \subseteq EntriesOf(p) \cup {i}
  <2> DEFINE src == capture[k].frame.src
             new == [Unused EXCEPT !.addr = src, !.age = 0]
             i == First(OldEntries)
  <2>1. mac \in [Slots -> Entries] /\ capture \in [Captures -> CaptureStates]
    BY DEF TypeInv, TypeOK, TablesType, CaptureType
  <2>2. new.addr = src
    BY DEF Unused
  <2>3. UNCHANGED mac \/ mac' = [mac EXCEPT ![i] = new]
    BY <1>2 DEF Learn
  <2>4. At(k, "learn") /\ capture' = [capture EXCEPT ![k] = [NoCapture EXCEPT !.step = "loop"]]
    BY <1>2 DEF Learn, Return
  <2> HIDE DEF src, new, i
  <2>5. EntriesOf(p)' \subseteq EntriesOf(p) \cup {i}
    BY <2>1, <2>3 DEF EntriesOf
  <2>6. src # p => EntriesOf(p)' \subseteq EntriesOf(p)
    BY <2>1, <2>2, <2>3 DEF EntriesOf
  <2>7. src = p => k \in Learning(p) /\ Learning(p)' \subseteq Learning(p) \ {k}
    BY <2>1, <2>4 DEF src, Learning, At, NoCapture
  <2> QED
    BY <2>5, <2>6, <2>7
<1> QED
  BY <1>1, <1>2, AddressesKept

LEMMA CountsFinite ==
  ASSUME NEW p
  PROVE  /\ IsFiniteSet(EntriesOf(p)) /\ IsFiniteSet(Learning(p))
         /\ Cardinality(EntriesOf(p)) \in Nat /\ Cardinality(Learning(p)) \in Nat
<1>1. IsFiniteSet(Slots) /\ IsFiniteSet(Captures)
  BY FS_Interval, BridgeAssumption DEF Slots, Captures
<1>2. EntriesOf(p) \subseteq Slots /\ Learning(p) \subseteq Captures
  BY DEF EntriesOf, Learning
<1> QED
  BY <1>1, <1>2, FS_Subset, FS_CardinalityType

\* Who does not find p is one of as many threads as there may be.
LEMMA NobodyElse ==
  ASSUME RaceInv, [Next]_vars, NEW k \in Captures, NotFound(k), NEW p,
         capture[k].frame.src = p
  PROVE  /\ EntriesOf(p)' = {}
         /\ Cardinality(Learning(p)') \in Nat /\ Cardinality(Learning(p)') <= left.captures
<1>1. left.captures \in Nat
  BY DEF RaceInv, TypeInv, TypeOK, UserType
<1>2. EntriesOf(p)' = {}
  BY DEF NotFound, Source, EntriesOf, tables
<1>3. Learning(p)' \subseteq 1 .. left.captures
  <2>1. \A j \in Captures : At(j, "learn")' => j <= left'.captures
    BY AllowedStep, <1>1 DEF CapturesAllowed, At, Captures
  <2> QED
    BY <2>1, AllowedStep, <1>1 DEF Learning, Captures
<1>4. IsFiniteSet(1 .. left.captures) /\ Cardinality(1 .. left.captures) = left.captures
  BY <1>1, FS_Interval
<1> QED
  BY <1>2, <1>3, <1>4, FS_Subset, FS_CardinalityType

LEMMA EntriesByRaceStep ==
  ASSUME RaceInv, [Next]_vars
  PROVE  EntriesByRace'
<1> SUFFICES ASSUME NEW p \in Psps
             PROVE  Cardinality(EntriesOf(p)') + Cardinality(Learning(p)') <= left.captures
  BY AllowedStep DEF EntriesByRace
<1>1. TypeInv /\ Cardinality(EntriesOf(p)) + Cardinality(Learning(p)) <= left.captures
  BY DEF RaceInv, EntriesByRace
<1>2. left.captures \in Nat
  BY DEF RaceInv, TypeInv, TypeOK, UserType
<1>3. /\ IsFiniteSet(EntriesOf(p)) /\ IsFiniteSet(Learning(p))
      /\ Cardinality(EntriesOf(p)) \in Nat /\ Cardinality(Learning(p)) \in Nat
  BY CountsFinite
<1>4. CASE \E k \in Captures : NotFound(k) /\ capture[k].frame.src = p
  <2>1. /\ EntriesOf(p)' = {}
        /\ Cardinality(Learning(p)') \in Nat /\ Cardinality(Learning(p)') <= left.captures
    BY <1>4, NobodyElse
  <2>2. Cardinality(EntriesOf(p)') = 0
    BY <2>1, FS_EmptySet
  <2> QED
    BY <1>2, <2>1, <2>2
<1>5. CASE EntriesOf(p)' \subseteq EntriesOf(p) /\ Learning(p)' \subseteq Learning(p)
  <2>1. /\ Cardinality(EntriesOf(p)') <= Cardinality(EntriesOf(p))
        /\ Cardinality(Learning(p)') <= Cardinality(Learning(p))
        /\ Cardinality(EntriesOf(p)') \in Nat /\ Cardinality(Learning(p)') \in Nat
    BY <1>3, <1>5, FS_Subset, FS_CardinalityType
  <2> QED
    BY <1>1, <1>2, <1>3, <2>1
<1>6. ASSUME NEW k \in Learning(p), Learning(p)' \subseteq Learning(p) \ {k},
             NEW i, EntriesOf(p)' \subseteq EntriesOf(p) \cup {i}
      PROVE  Cardinality(EntriesOf(p)') + Cardinality(Learning(p)') <= left.captures
  <2> DEFINE more == EntriesOf(p) \cup {i}
             fewer == Learning(p) \ {k}
  <2>1. IsFiniteSet(more) /\ Cardinality(more) <= Cardinality(EntriesOf(p)) + 1
    <3>1. /\ IsFiniteSet(more)
          /\ Cardinality(more) = IF i \in EntriesOf(p) THEN Cardinality(EntriesOf(p))
                                 ELSE Cardinality(EntriesOf(p)) + 1
      BY <1>3, FS_AddElement, Zenon
    <3> QED
      BY <1>3, <3>1
  <2>2. IsFiniteSet(fewer) /\ Cardinality(fewer) = Cardinality(Learning(p)) - 1
    BY <1>3, FS_RemoveElement
  <2>3. EntriesOf(p)' \subseteq more /\ Learning(p)' \subseteq fewer
    BY <1>6
  <2> HIDE DEF more, fewer
  <2>4. /\ Cardinality(EntriesOf(p)') <= Cardinality(more)
        /\ Cardinality(Learning(p)') <= Cardinality(fewer)
        /\ Cardinality(EntriesOf(p)') \in Nat /\ Cardinality(Learning(p)') \in Nat
        /\ Cardinality(more) \in Nat
    BY <2>1, <2>2, <2>3, FS_Subset, FS_CardinalityType
  <2> QED
    BY <1>1, <1>2, <1>3, <2>1, <2>2, <2>4
<1> QED
  BY <1>1, <1>4, <1>5, <1>6, LearningStep, EntriesStep

(***************************************************************************)
(* A PSP has no more entries in the table, with those about to be made,    *)
(* than threads that capture at one time, however entries are replaced.    *)
(***************************************************************************)
THEOREM NoMoreEntriesThanThreads == Spec => []EntriesByRace
<1>1. Init => RaceInv
  <2> SUFFICES ASSUME Init PROVE RaceInv
    OBVIOUS
  <2>1. CapturesAllowed
    BY DEF Init, CapturesAllowed, At, NoCapture
  <2>2. ASSUME NEW p \in Psps
        PROVE  Cardinality(EntriesOf(p)) + Cardinality(Learning(p)) <= left.captures
    <3>1. EntriesOf(p) = {} /\ Learning(p) = {}
      BY <2>2, BridgeAssumption DEF Init, EntriesOf, Learning, Unused, At, NoCapture, Psps
    <3>2. left.captures \in Nat
      BY BridgeAssumption DEF Init
    <3> QED
      BY <3>1, <3>2, FS_EmptySet
  <2> QED
    BY <2>1, <2>2, TypeInitially DEF RaceInv, EntriesByRace
<1>2. RaceInv /\ [Next]_vars => RaceInv'
  BY TypeStep, AllowedStep, EntriesByRaceStep DEF RaceInv
<1>3. RaceInv => EntriesByRace
  BY DEF RaceInv
<1> QED
  BY <1>1, <1>2, <1>3, PTL DEF Spec
=============================================================================
