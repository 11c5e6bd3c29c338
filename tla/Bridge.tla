------------------------------- MODULE Bridge -------------------------------
(***************************************************************************)
(* The client between the air and the tunnel (tunnel-client.cpp): the      *)
(* thread that captures frames and hands those of the PSPs near by to the  *)
(* tunnel (PacketCapture 489-517, packet_handler 1772-1892), the event     *)
(* thread that injects the frames of the PSPs far away (1141-1169), the    *)
(* thread that enters and leaves the meeting place (MonitorSSID 914-1126)  *)
(* and the commands /opendevice and /closedevice (519-537, 625-697).  They *)
(* share the tables of addresses, the adapter and the handle of the        *)
(* capture without a lock.                                                 *)
(*                                                                         *)
(* Time is counted in ticks and an age says how long ago something was,    *)
(* up to the longest the code asks for.  All frames are of the game's      *)
(* type, 88 C8; others from addresses not in the table are ignored.        *)
(***************************************************************************)
EXTENDS Integers, Sequences, FiniteSets

CONSTANTS
  Locals,       \* the PSPs the adapter hears
  Remotes,      \* the PSPs whose frames come through the tunnel
  Broadcast,    \* a destination that is no PSP
  Nobody,       \* an address of zeros
  MaxMac,       \* maxMacAddr, 8
  MaxIgnored,   \* maxiMacAddr, 200
  Known,        \* the PSPs GetMACSetting finds; all with pspAutoSence
  ReplaceWait,  \* one second, in ticks: an entry older than that may be replaced
  RoomWait,     \* roomWait, in ticks
  MaxBuffer,    \* bound: frames in the buffer of the capture
  MaxCaptures,  \* bound: capture threads at one time
  MaxMonitors,  \* bound: MonitorSSID threads at one time
  Budgets,      \* bound: what may happen in a behaviour: commands the user types,
                \*   capture threads at one time, and whether the connection to the
                \*   server is lost, is closed by the user, and the adapter fails
  Prompt        \* whether PSPs send, and are heard, at least once in a tick

ASSUME BridgeAssumption ==
  /\ MaxMac \in Nat \ {0} /\ MaxIgnored \in Nat \ {0}
  /\ ReplaceWait \in Nat /\ RoomWait \in Nat /\ ReplaceWait <= RoomWait
  /\ MaxBuffer \in Nat \ {0}
  /\ MaxCaptures \in Nat \ {0} /\ MaxMonitors \in Nat \ {0}
  /\ Nobody \notin Locals \cup Remotes /\ Locals \cap Remotes = {}
  /\ Budgets \subseteq [commands : Nat, captures : 1 .. MaxCaptures,
                        may : SUBSET {"lose", "close", "fail"}]
  /\ Prompt \in BOOLEAN

Psps == Locals \cup Remotes
Slots == 1 .. MaxMac
Captures == 1 .. MaxCaptures
Monitors == 1 .. MaxMonitors
Ages == 0 .. RoomWait + 1

\* A frame; injected tells those that the client put on the air itself.
Frames == [src : Psps, dst : Psps \cup {Broadcast}, injected : BOOLEAN]
FarFrames == [src : Remotes, dst : {Broadcast}, injected : {TRUE}]
NoFrame == [src |-> Nobody, dst |-> Nobody, injected |-> FALSE]

VARIABLES
  adapterStatus, \* 0 closed, 1 opening or closing, 2 open, 3 capturing
  adapter,       \* whether m_lpAdapter is open
  handle,        \* whether adhandle is open
  buffer,        \* the frames captured and not read
  inTheRoom,
  quiet,         \* the age of last_psp_packet
  mac,           \* the table of PSPs near by
  ignored,       \* the addresses in ignoreMac; its first entry is that of zeros
  capture,       \* the threads in PacketCapture
  monitor,       \* the threads in MonitorSSID
  event,         \* the event thread of the connection
  user,          \* what the user's thread is doing
  left,          \* what may happen from now on
  link,          \* "closed", "lost" or "connected": clientStatus and gsd.state
  announced,     \* the pspCount of the last SSID message that was sent
  spoken         \* with Prompt, the PSPs that have sent since the last tick

device == <<adapterStatus, adapter, handle, buffer>>
room == <<inTheRoom, quiet>>
tables == <<mac, ignored>>
threads == <<capture, monitor, event, user, left>>
tunnel == <<link, announced>>
vars == <<device, room, tables, threads, tunnel, spoken>>

Unused == [addr |-> Nobody, age |-> RoomWait + 1, active |-> FALSE, doSend |-> FALSE]

NoCapture == [step |-> "none", frame |-> NoFrame, slot |-> 0, count |-> 0, sent |-> 0]
NoMonitor == [step |-> "none", at |-> 1, count |-> 0]
NoEvent == [step |-> "none", frame |-> NoFrame]

DeviceType ==
  /\ adapterStatus \in 0 .. 3
  /\ adapter \in BOOLEAN /\ handle \in BOOLEAN
  /\ buffer \in Seq(Frames) /\ Len(buffer) <= MaxBuffer

RoomType == inTheRoom \in BOOLEAN /\ quiet \in Ages

Entries == [addr : Psps \cup {Nobody}, age : Ages, active : BOOLEAN, doSend : BOOLEAN]

TablesType ==
  /\ mac \in [Slots -> Entries]
  /\ ignored \in SUBSET Remotes /\ Cardinality(ignored) < MaxIgnored

CaptureSteps == {"none", "loop", "read", "look", "tell", "learn", "filter", "send", "test"}

CaptureStates == [step : CaptureSteps, frame : Frames \cup {NoFrame}, slot : 0 .. MaxMac,
                  count : 0 .. MaxMac, sent : 0 .. 2]

CaptureType == capture \in [Captures -> CaptureStates]

MonitorSteps == {"none", "loop", "expire", "tell", "room", "status", "close", "sleep"}

MonitorStates == [step : MonitorSteps, at : 1 .. MaxMac + 1, count : 0 .. MaxMac]

MonitorType == monitor \in [Monitors -> MonitorStates]

EventType ==
  event \in {NoEvent} \cup [step : {"ignore", "test", "inject"}, frame : FarFrames]

UserType ==
  /\ user \in [step : {"idle", "release", "released", "open", "start"}, open : BOOLEAN]
  /\ left \in [commands : Nat, captures : 1 .. MaxCaptures,
              may : SUBSET {"lose", "close", "fail"}]

TunnelType == link \in {"closed", "lost", "connected"} /\ announced \in 0 .. MaxMac

TypeOK ==
  /\ DeviceType /\ RoomType /\ TablesType
  /\ CaptureType /\ MonitorType /\ EventType /\ UserType
  /\ TunnelType /\ spoken \in SUBSET Locals

Init ==
  /\ adapterStatus = 0 /\ adapter = FALSE /\ handle = FALSE /\ buffer = <<>>
  /\ inTheRoom = FALSE /\ quiet = RoomWait
  /\ mac = [i \in Slots |-> Unused]
  /\ ignored = {}
  /\ capture = [k \in Captures |-> NoCapture]
  /\ monitor = [m \in Monitors |-> NoMonitor]
  /\ event = NoEvent
  /\ user = [step |-> "idle", open |-> FALSE] /\ left \in Budgets
  /\ link = "connected" /\ announced = 0
  /\ spoken = {}

First(S) == CHOOSE i \in S : \A j \in S : i <= j
-----------------------------------------------------------------------------
(***************************************************************************)
(* The world: PSPs send, time passes, the connection is lost and made      *)
(* again (ClientLink is about how).                                        *)
(***************************************************************************)
Capturing == adapterStatus = 3 /\ handle /\ \E k \in Captures : capture[k].step # "none"

Heard(frame) ==
  /\ Capturing => Len(buffer) < MaxBuffer
  /\ buffer' = IF handle /\ Len(buffer) < MaxBuffer THEN Append(buffer, frame) ELSE buffer

LocalSends(l, dst) ==
  /\ dst # l
  /\ Heard([src |-> l, dst |-> dst, injected |-> FALSE])
  /\ spoken' = IF Prompt THEN spoken \cup {l} ELSE spoken
  /\ UNCHANGED <<adapterStatus, adapter, handle, room, tables, threads, tunnel>>

Older(age) == IF age <= RoomWait THEN age + 1 ELSE age

Busy(k) == capture[k].step \notin {"none", "loop", "read"}

Tick ==
  /\ Prompt => spoken = Locals
  /\ Prompt /\ Capturing => buffer = <<>> /\ \A k \in Captures : ~Busy(k)
  /\ quiet' = Older(quiet)
  /\ mac' = [i \in Slots |-> [mac[i] EXCEPT !.age = Older(@)]]
  /\ spoken' = {}
  /\ UNCHANGED <<device, inTheRoom, ignored, threads, tunnel>>

\* SendSSID: the active entries are counted, then the command is sent.
Active(table) == Cardinality({i \in Slots : table[i].active})

Tell(count) == announced' = IF link = "connected" THEN count ELSE announced

\* What a thread has sent counts for one connection.
LinkChanges(to) ==
  /\ link' = to
  /\ capture' = [k \in Captures |-> [capture[k] EXCEPT !.sent = 0]]
  /\ UNCHANGED <<device, room, tables, monitor, event, user, left, spoken>>

LinkLost == "lose" \in left.may /\ link = "connected" /\ LinkChanges("lost") /\ UNCHANGED announced
LinkClosed == "close" \in left.may /\ link # "closed" /\ LinkChanges("closed") /\ UNCHANGED announced

\* doClientConnect announces the PSPs of the time.
LinkRestored == link = "lost" /\ LinkChanges("connected") /\ announced' = Active(mac)
LinkOpened == link = "closed" /\ LinkChanges("connected") /\ announced' = Active(mac)
-----------------------------------------------------------------------------
(***************************************************************************)
(* PacketCapture and packet_handler in capture thread k.                   *)
(***************************************************************************)
At(k, step) == capture[k].step = step

Goto(k, step) == capture' = [capture EXCEPT ![k].step = step]

Return(k) == capture' = [capture EXCEPT ![k] = [NoCapture EXCEPT !.step = "loop"]]

CaptureLoop(k) ==
  /\ At(k, "loop")
  /\ IF adapterStatus = 3 THEN Goto(k, "read") ELSE capture' = [capture EXCEPT ![k] = NoCapture]
  /\ UNCHANGED <<device, room, tables, monitor, event, user, left, tunnel, spoken>>

\* pcap_next_ex times out or fails.
ReadNothing(k) ==
  /\ At(k, "read")
  /\ buffer = <<>>
  /\ Return(k)
  /\ UNCHANGED <<device, room, tables, monitor, event, user, left, tunnel, spoken>>

ReadFrame(k) ==
  /\ At(k, "read")
  /\ buffer # <<>>
  /\ buffer' = Tail(buffer)
  /\ IF link = "closed" THEN Return(k)
     ELSE capture' = [capture EXCEPT ![k].step = "look", ![k].frame = Head(buffer)]
  /\ UNCHANGED <<adapterStatus, adapter, handle, room, tables, monitor, event, user,
                 left, tunnel, spoken>>

\* Wrong: only the entries that are active are looked at.
ActiveSource(k) == {i \in Slots : mac[i].active /\ mac[i].addr = capture[k].frame.src}

Source(k) == {i \in Slots : mac[i].addr = capture[k].frame.src}

\* The source is in the table; it is announced if it was not active.
Recognise(k) ==
  LET i == First(Source(k)) IN
  /\ At(k, "look")
  /\ Source(k) # {}
  /\ quiet' = 0
  /\ mac' = [mac EXCEPT ![i] =
       IF @.active THEN [@ EXCEPT !.age = 0]
       ELSE [@ EXCEPT !.age = 0, !.active = TRUE, !.doSend = (mac[i].addr \in Known)]]
  /\ capture' = [capture EXCEPT ![k].slot = i,
                   ![k].step = IF mac[i].active THEN "filter" ELSE "tell",
                   ![k].count = IF mac[i].active THEN 0 ELSE Active(mac')]
  /\ UNCHANGED <<device, inTheRoom, ignored, monitor, event, user, left, tunnel, spoken>>

TellActive(k) ==
  /\ At(k, "tell")
  /\ Tell(capture[k].count)
  /\ capture' = [capture EXCEPT ![k].step = "filter", ![k].count = 0]
  /\ UNCHANGED <<device, room, tables, monitor, event, user, left, link, spoken>>

NotFound(k) ==
  /\ At(k, "look")
  /\ Source(k) = {}
  /\ Goto(k, "learn")
  /\ UNCHANGED <<device, room, tables, monitor, event, user, left, tunnel, spoken>>

\* Wrong: an entry is replaced however new it is.
AnyEntry == Slots

\* The entries that may be replaced; of two that may, the first is, though the
\* second has never been used.
OldEntries == {i \in Slots : mac[i].age > ReplaceWait}

Learn(k) ==
  LET src == capture[k].frame.src IN
  /\ At(k, "learn")
  /\ mac' = IF src \in ignored \/ OldEntries = {} THEN mac
            ELSE [mac EXCEPT ![First(OldEntries)] = [Unused EXCEPT !.addr = src, !.age = 0]]
  /\ Return(k)
  /\ UNCHANGED <<device, room, ignored, monitor, event, user, left, tunnel, spoken>>

\* A frame for a PSP near by stays here.
Filter(k) ==
  LET i == capture[k].slot
      near == \E j \in Slots : mac[j].addr = capture[k].frame.dst IN
  /\ At(k, "filter")
  /\ IF ~near /\ mac[i].doSend
     THEN Goto(k, "send") /\ mac' = [mac EXCEPT ![i].age = 0]
     ELSE Return(k) /\ UNCHANGED mac
  /\ UNCHANGED <<device, room, ignored, monitor, event, user, left, tunnel, spoken>>

\* SendCommand, which does nothing while there is no connection,
SendFrame(k) ==
  /\ At(k, "send")
  /\ capture' = [capture EXCEPT ![k].step = "test",
                   ![k].sent = IF link = "connected" THEN @ + 1 ELSE @]
  /\ UNCHANGED <<device, room, tables, monitor, event, user, left, tunnel, spoken>>

\* Wrong: the condition of the loop is the wrong way round.
TestNotConnected(k) ==
  /\ At(k, "test")
  /\ IF link = "connected" THEN Goto(k, "send") ELSE Return(k)
  /\ UNCHANGED <<device, room, tables, monitor, event, user, left, tunnel, spoken>>

\* and once more until there is one.
TestConnected(k) ==
  /\ At(k, "test")
  /\ IF link = "connected" THEN Return(k) ELSE Goto(k, "send")
  /\ UNCHANGED <<device, room, tables, monitor, event, user, left, tunnel, spoken>>

CaptureThread(k) ==
  \/ CaptureLoop(k) \/ ReadNothing(k) \/ ReadFrame(k)
  \/ Recognise(k) \/ TellActive(k) \/ NotFound(k) \/ Learn(k) \/ Filter(k)
  \/ SendFrame(k) \/ TestConnected(k)
-----------------------------------------------------------------------------
(***************************************************************************)
(* doClientCommand with a frame from the tunnel: its source is ignored     *)
(* from now on, then the frame is put on the air, where the capture hears  *)
(* it as well.                                                             *)
(***************************************************************************)
FrameArrives ==
  \E r \in Remotes :
    /\ event.step = "none"
    /\ link = "connected"
    /\ event' = [step |-> "ignore", frame |-> [src |-> r, dst |-> Broadcast, injected |-> TRUE]]
    /\ UNCHANGED <<device, room, tables, capture, monitor, user, left, tunnel, spoken>>

\* Wrong: only the frames that are injected are remembered.
IgnoreWhileCapturing ==
  LET src == event.frame.src IN
  /\ event.step = "ignore"
  /\ ignored' = IF adapterStatus > 2 /\ Cardinality(ignored) < MaxIgnored - 1
                THEN ignored \cup {src} ELSE ignored
  /\ event' = [event EXCEPT !.step = "test"]
  /\ UNCHANGED <<device, room, mac, capture, monitor, user, left, tunnel, spoken>>

IgnoreSource ==
  LET src == event.frame.src IN
  /\ event.step = "ignore"
  /\ ignored' = IF Cardinality(ignored) < MaxIgnored - 1 THEN ignored \cup {src} ELSE ignored
  /\ event' = [event EXCEPT !.step = "test"]
  /\ UNCHANGED <<device, room, mac, capture, monitor, user, left, tunnel, spoken>>

TestCapturing ==
  /\ event.step = "test"
  /\ event' = IF adapterStatus > 2 THEN [event EXCEPT !.step = "inject"] ELSE NoEvent
  /\ UNCHANGED <<device, room, tables, capture, monitor, user, left, tunnel, spoken>>

Inject ==
  /\ event.step = "inject"
  /\ Heard(event.frame)
  /\ event' = NoEvent
  /\ UNCHANGED <<adapterStatus, adapter, handle, room, tables, capture, monitor, user,
                 left, tunnel, spoken>>

EventThread == IgnoreSource \/ TestCapturing \/ Inject
-----------------------------------------------------------------------------
(***************************************************************************)
(* MonitorSSID in thread m.                                                *)
(***************************************************************************)
MonitorGoto(m, step) == monitor' = [monitor EXCEPT ![m].step = step]

MonitorLoop(m) ==
  /\ monitor[m].step = "loop"
  /\ monitor' = [monitor EXCEPT ![m] =
       IF adapterStatus > 1 THEN [NoMonitor EXCEPT !.step = "expire"] ELSE NoMonitor]
  /\ UNCHANGED <<device, room, tables, capture, event, user, left, tunnel, spoken>>

\* The entries that have been silent for too long are no longer active.
Silent(i) == mac[i].age >= RoomWait /\ mac[i].active

Expire(m) ==
  LET i == monitor[m].at IN
  /\ monitor[m].step = "expire"
  /\ i \in Slots
  /\ mac' = IF Silent(i) THEN [mac EXCEPT ![i].active = FALSE] ELSE mac
  /\ monitor' = [monitor EXCEPT ![m] =
       IF Silent(i) THEN [@ EXCEPT !.step = "tell", !.count = Active(mac')]
       ELSE [@ EXCEPT !.at = i + 1]]
  /\ UNCHANGED <<device, room, ignored, capture, event, user, left, tunnel, spoken>>

TellExpired(m) ==
  /\ monitor[m].step = "tell"
  /\ Tell(monitor[m].count)
  /\ monitor' = [monitor EXCEPT ![m] = [step |-> "expire", at |-> @.at + 1, count |-> 0]]
  /\ UNCHANGED <<device, room, tables, capture, event, user, left, link, spoken>>

AllExpired(m) ==
  /\ monitor[m].step = "expire"
  /\ monitor[m].at \notin Slots
  /\ monitor' = [monitor EXCEPT ![m] = [NoMonitor EXCEPT !.step = "room"]]
  /\ UNCHANGED <<device, room, tables, capture, event, user, left, tunnel, spoken>>

\* No meeting place in reach, or frames were heard not long ago.
StayPut(m) ==
  /\ monitor[m].step = "room"
  /\ inTheRoom => quiet <= RoomWait
  /\ MonitorGoto(m, "sleep")
  /\ UNCHANGED <<device, room, tables, capture, event, user, left, tunnel, spoken>>

\* The capture is started even if it could not be opened.
EnterRoom(m) ==
  /\ monitor[m].step = "room"
  /\ ~inTheRoom
  /\ inTheRoom' = TRUE
  /\ handle' \in IF "fail" \in left.may THEN BOOLEAN ELSE {TRUE}
  /\ MonitorGoto(m, "status")
  /\ UNCHANGED <<adapterStatus, adapter, buffer, quiet, tables, capture, event, user,
                 left, tunnel, spoken>>

\* It does not wait for the thread it started the last time.
StartCapture(m) ==
  \E k \in 1 .. left.captures :
    /\ monitor[m].step = "status"
    /\ At(k, "none")
    /\ \A j \in 1 .. left.captures : At(j, "none") => k <= j
    /\ adapterStatus' = 3
    /\ quiet' = 0
    /\ Return(k)
    /\ MonitorGoto(m, "sleep")
    /\ UNCHANGED <<adapter, handle, buffer, inTheRoom, tables, event, user, left, tunnel, spoken>>

LeaveRoom(m) ==
  /\ monitor[m].step = "room"
  /\ inTheRoom
  /\ quiet > RoomWait
  /\ adapterStatus' = 2
  /\ MonitorGoto(m, "close")
  /\ UNCHANGED <<adapter, handle, buffer, room, tables, capture, event, user, left,
                 tunnel, spoken>>

CloseCapture(m) ==
  /\ monitor[m].step = "close"
  /\ handle' = FALSE /\ buffer' = <<>>
  /\ inTheRoom' = FALSE
  /\ MonitorGoto(m, "sleep")
  /\ UNCHANGED <<adapterStatus, adapter, quiet, tables, capture, event, user, left,
                 tunnel, spoken>>

\* The pause at the end of the loop, and the scan for a meeting place.
Wake(m) ==
  /\ monitor[m].step = "sleep"
  /\ monitor' = [monitor EXCEPT ![m] = [NoMonitor EXCEPT !.step = "loop"]]
  /\ UNCHANGED <<device, room, tables, capture, event, user, left, tunnel, spoken>>

\* With ssidAutoSence the thread ends when it finds the adapter closed.
ScanWithoutAdapter(m) ==
  /\ monitor[m].step = "sleep"
  /\ ~inTheRoom /\ ~adapter
  /\ monitor' = [monitor EXCEPT ![m] = NoMonitor]
  /\ UNCHANGED <<device, room, tables, capture, event, user, left, tunnel, spoken>>

\* A scan that fails closes the adapter and opens it again.
ScanFails(m) ==
  /\ "fail" \in left.may
  /\ monitor[m].step = "sleep"
  /\ ~inTheRoom /\ adapter
  /\ adapter' \in BOOLEAN
  /\ monitor' = [monitor EXCEPT ![m] = [NoMonitor EXCEPT !.step = "loop"]]
  /\ UNCHANGED <<adapterStatus, handle, buffer, room, tables, capture, event, user, left,
                 tunnel, spoken>>

MonitorThread(m) ==
  \/ MonitorLoop(m) \/ Expire(m) \/ TellExpired(m) \/ AllExpired(m) \/ StayPut(m)
  \/ StartCapture(m) \/ LeaveRoom(m) \/ CloseCapture(m) \/ Wake(m)
-----------------------------------------------------------------------------
(***************************************************************************)
(* /opendevice and /closedevice.  CloseDevice is three steps; OpenDevice   *)
(* runs it first if the device is open.                                    *)
(***************************************************************************)
\* The first step of CloseDevice, if the device is open; if not, OpenDevice
\* goes on and /closedevice is over.
BeginCommand(open) ==
  /\ user.step = "idle"
  /\ left.commands > 0
  /\ left' = [left EXCEPT !.commands = @ - 1]
  /\ adapterStatus' = IF adapterStatus = 0 THEN 0 ELSE 1
  /\ user' = [open |-> open, step |-> IF adapterStatus > 0 THEN "release"
                                     ELSE IF open THEN "open" ELSE "idle"]
  /\ UNCHANGED <<adapter, handle, buffer, room, tables, capture, monitor, event,
                 tunnel, spoken>>

\* It does not wait for the two threads it started.
ReleaseDevice ==
  /\ user.step = "release"
  /\ adapter' = FALSE /\ handle' = FALSE /\ buffer' = <<>>
  /\ user' = [user EXCEPT !.step = "released"]
  /\ UNCHANGED <<adapterStatus, room, tables, capture, monitor, event, left, tunnel, spoken>>

EndCloseDevice ==
  /\ user.step = "released"
  /\ adapterStatus' = 0
  /\ user' = [user EXCEPT !.step = IF user.open THEN "open" ELSE "idle"]
  /\ UNCHANGED <<adapter, handle, buffer, room, tables, capture, monitor, event, left,
                 tunnel, spoken>>

OpenAdapter ==
  /\ user.step = "open"
  /\ adapterStatus' = 1
  /\ adapter' = TRUE /\ handle' = FALSE /\ buffer' = <<>>
  /\ user' = [user EXCEPT !.step = "start"]
  /\ UNCHANGED <<room, tables, capture, monitor, event, left, tunnel, spoken>>

\* The adapter cannot be opened, or put into ad hoc mode; m_lpAdapter is not
\* reset in the second case.
OpenFails ==
  /\ "fail" \in left.may
  /\ user.step \in {"open", "start"}
  /\ adapterStatus' = 0
  /\ IF user.step = "start" THEN UNCHANGED <<adapter, handle, buffer>>
     ELSE adapter' = FALSE /\ handle' = FALSE /\ buffer' = <<>>
  /\ user' = [user EXCEPT !.step = "idle"]
  /\ UNCHANGED <<room, tables, capture, monitor, event, left, tunnel, spoken>>

StartMonitor ==
  \E m \in Monitors :
    /\ user.step = "start"
    /\ monitor[m].step = "none"
    /\ \A n \in Monitors : monitor[n].step = "none" => m <= n
    /\ adapterStatus' = 2
    /\ monitor' = [monitor EXCEPT ![m] = [NoMonitor EXCEPT !.step = "loop"]]
    /\ user' = [user EXCEPT !.step = "idle"]
    /\ UNCHANGED <<adapter, handle, buffer, room, tables, capture, event, left, tunnel, spoken>>

UserThread == ReleaseDevice \/ EndCloseDevice \/ OpenAdapter \/ StartMonitor
-----------------------------------------------------------------------------
Next ==
  \/ \E l \in Locals, dst \in Psps \cup {Broadcast} : LocalSends(l, dst)
  \/ Tick
  \/ LinkLost \/ LinkClosed \/ LinkRestored \/ LinkOpened
  \/ \E k \in Captures : CaptureThread(k)
  \/ FrameArrives \/ EventThread
  \/ \E m \in Monitors : MonitorThread(m) \/ EnterRoom(m)
                          \/ ScanWithoutAdapter(m) \/ ScanFails(m)
  \/ \E open \in BOOLEAN : BeginCommand(open)
  \/ UserThread \/ OpenFails

Spec == Init /\ [][Next]_vars

(***************************************************************************)
(* Every thread is scheduled and time passes.  Whoever looks for a meeting *)
(* place again and again finds one, a PSP that broadcasts again and again  *)
(* is heard, and a connection that was lost is made again (LoopReconnects).*)
(***************************************************************************)
Fairness ==
  /\ \A k \in Captures : WF_vars(CaptureThread(k))
  /\ \A m \in Monitors : WF_vars(MonitorThread(m)) /\ SF_vars(EnterRoom(m))
  /\ WF_vars(EventThread) /\ WF_vars(UserThread)
  /\ WF_vars(LinkRestored)
  /\ SF_vars(Tick)
  /\ \A l \in Locals : SF_vars(LocalSends(l, Broadcast))

FairSpec == Spec /\ Fairness
-----------------------------------------------------------------------------
(***************************************************************************)
(* "(To prevent loops) a list of MAC addresses that do not tunnel"         *)
(* (tunnel-client.cpp 87): a frame that came through the tunnel and was    *)
(* put on the air is never sent into the tunnel again.                     *)
(***************************************************************************)
NoLoop == \A k \in Captures : At(k, "send") => ~capture[k].frame.injected

(***************************************************************************)
(* The loop that sends a frame until there is a connection sends it at     *)
(* most once into any one connection.                                      *)
(***************************************************************************)
OncePerLink == \A k \in Captures : capture[k].sent <= 1

(***************************************************************************)
(* A second entry for a PSP, which goes silent while the first is in use,  *)
(* comes only from capture threads that look for it at the same time:      *)
(* there are never more entries, with those about to be made, than threads *)
(* that capture at one time, however long the table fills, expires and is  *)
(* overwritten.                                                            *)
(***************************************************************************)
EntriesOf(p) == {i \in Slots : mac[i].addr = p}

Learning(p) == {k \in Captures : At(k, "learn") /\ capture[k].frame.src = p}

EntriesByRace ==
  \A p \in Psps : Cardinality(EntriesOf(p)) + Cardinality(Learning(p)) <= left.captures

(***************************************************************************)
(* No PSP has two entries in the table.                                    *)
(***************************************************************************)
SlotsDistinct ==
  \A i, j \in Slots : i # j /\ mac[i].addr = mac[j].addr => mac[i].addr = Nobody

(***************************************************************************)
(* The frames of every PSP that the client knows are tunnelled while the   *)
(* adapter is open: the PSPs do not push each other out of the table.      *)
(***************************************************************************)
Tunnelling(l) == \E k \in Captures : At(k, "send") /\ capture[k].frame.src = l

LocalIsTunnelled ==
  \A l \in Locals \cap Known :
    adapterStatus > 1 /\ user.open ~>
      (Tunnelling(l) \/ adapterStatus < 2 \/ ~user.open \/ link = "closed")

(***************************************************************************)
(* "I closed the connection device" (tunnel-client.cpp 1563): the device   *)
(* stays closed until it is opened again.                                  *)
(***************************************************************************)
DeviceStaysClosed == user.step = "idle" /\ ~user.open => adapterStatus = 0

(***************************************************************************)
(* No thread reads from a capture that was closed.                         *)
(***************************************************************************)
HandleInUse == \A k \in Captures : At(k, "read") => handle

(***************************************************************************)
(* The number of PSPs the arena shows for this client is put right again   *)
(* and again.                                                              *)
(***************************************************************************)
CountFollows == []<>(announced = Active(mac))
=============================================================================
