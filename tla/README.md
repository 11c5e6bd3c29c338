# A verification project for Monster Hunter Portable Tunnel

The repository holds a tunnel that lets the ad-hoc wireless games of PSP
handhelds be played over the Internet: an *arena server* relays Ethernet frames
and chat between *tunnel clients*, each of which bridges the wireless adapter of
a PC to one TCP connection. This directory holds TLA+ models of the current
core, `src/MHPTunnel074core`, of the parts of its window that follow the core
(`src/07source`) and of the release 0.5 the repository keeps
(`src/MHPTunnel05src`), the TLC instances that check them, and proofs checked by
TLAPS.

Abbreviations used below: TC = `tunnel-common.cpp`, TS = `tunnel-server.cpp`,
TCL = `tunnel-client.cpp`, all under `src/MHPTunnel074core/`; GUI =
`src/07source/MHPTunnelMain.CPP`; TC5, TS5, TCL5 = the files of the same names under
`src/MHPTunnel05src/src/`.

    tlc -workers 2 -config MCStream_laps.cfg MCStream      # a run
    tlapm Stream_proofs.tla                                # a proof

## 1. Inventory

| Component | Code | State it keeps | Operations |
|---|---|---|---|
| Ring buffers and framing | TC 230-610, `tunnel-common.h` 57-100 | per connection (`SOCKET_EX`): send and receive ring with their points, `sendCount`, `sendCountBefore`, `sendState` | `SendCommand`, `SendFromBuffer`, `RecvToBuffer`, `RecvCommandSize`, `RecvCommand`, `RecvAndExecCommand` |
| Connection life | TC 615-851 | `state`, `sd`, two threads per connection | `AcceptConnection`, `EstablishConnection`, `StartConnection`, `CloseConnection`, `SocketEventHandler`, `PingAction` |
| Arena server | TS | `sessions[]` with `info` (meeting place, nickname) and `mac` (addresses learnt) | `DoListening`, `GetIdolSession`, `doServerCommand` |
| Client connection | TCL 542-623, 1316-1345 | `gsd`, `needReconnect`, `clientStatus` | `OpenConnect`, `CloseConnect`, `doClientConnect`, `doClientClose` |
| Client packet bridge | TCL 489-517, 1141-1169, 1772-1892 | tables of the addresses near by (`macInfo`) and of those to ignore (`ignoreMac`) | `packet_handler`, the `'t'` branch of `doClientCommand` |
| Client user list | TCL 1233-1307, 1397-1447 | `users[]`, `user_active[]` | the `'a'` branch of `doClientCommand`; `/u`, `/userinfo` |
| Wireless adapter, SSID monitor | TCL 519-537, 625-697, 914-1126; `pktOidRequest.cpp` | `adapterStatus`, `m_lpAdapter`, `adhandle`, `inTheRoom` | `OpenDevice`, `CloseDevice`, `MonitorSSID` |
| Console log, command results | TCL 192-340 | linked lists | `AddConsoleLog`, `AddCommandResult` |
| Text commands | TCL 1347-1770, `07source/cTextCommand.cpp` | settings | `/connect`, `/close`, chat, `/ssid`... |
| Window of the client | GUI | `ListUsers`, `ListPSP`, `userPSP`; `history`, `historyIndex`, `historyTemp` | `UpdateUserList`, `MenuDisconnectClick`; `AddHistory`, `CommandBoxKeyDown`, `CommandBoxKeyUp` |
| Release 0.5, relay | TS5 40-304, TCL5 58-122, 209-283 | `sessions[]` with `mac`; per client `mac`, `ignoreMac` | `DoMain`, `DoCommand` of the server and of the client, `packet_handler`, `ConsoleSender` |
| Release 0.5, client connection | TC5 407-808, TCL5 124-204, 377-463 | one `SOCKET_EX` `gsd`, `needReconnect` | `SendCommand`, `EstablishConnection`, `CloseConnection`, `DoClose`, `RecvPacketThread`, `PingAction`, `/logout` |
| Console programs, hashing, settings | `tunnel-*-cui.cpp`, `MakeMD5.cpp`, `07source` | — | — |

**How they interact.** Both ends of a TCP connection run the same `SOCKET_EX`
code. Every connection has an *event thread* (`SocketEventHandler`), which waits
for network events without a timeout, receives, executes commands through the
callback `CallbackOfCommand` and flushes the send ring, and a *ping thread*, which
sends a ping every three seconds. `SendCommand` may be called from any thread: on
the server the event thread of *each* client sends to the rings of all others.
`CloseConnection` may be called by the event thread, by any thread whose
`SendCommand` failed, by the ping thread and by the user. The server's
`sessions[]` and the client's `gsd` are shared by all of these threads; only
the two rings have critical sections.

**What is hard here**, and therefore what the models keep:

* rings whose points wrap only when they *exceed* the size, so that two points
  name the first cell and a full ring looks empty; commands cut by TCP anywhere,
  within the terminator and across the end of the ring; a scan that goes on over
  stale bytes;
* `sendState`, written inside and read outside the critical section;
* `CloseConnection` (test, `closesocket`, `STATE_IDOL`) without a lock; old ping
  threads and late closers that act on whatever connection the `SOCKET_EX` holds
  *now*; `WSAEnumNetworkEvents(sd, ...)` on the present socket by the event
  thread of an earlier one;
* reconnecting inside `CloseConnection`, in whichever thread noticed the loss;
* handlers that walk over `sessions[]` while sessions close and are reused;
* lists copied at one time and sent at another;
* the adapter, the handle of the capture and both tables of addresses, shared
  without a lock by the capture thread, the monitor, the event thread and the user;
* a table of users whose entries outlive their users, and two lists in a window that
  are refreshed from it by two threads at once;
* an array whose loops visit one cell past its end, which is another field;
* in release 0.5, a client that is back in a second session while the server still
  works on its commands in the first, and a `/logout` that races a thread which waits for
  the connection.

**What makes each component correct.** Rings and framing: what is executed is
what was sent, in order, and every command arrives while the connection lives.
Sessions: one client per session, no socket and no session lost. Client link:
commands return, the reconnect loop succeeds, a connected client is served.
Arena: commands reach those they are meant for, once and in order, nobody else;
user lists converge. Bridge: a frame that came through the tunnel is not sent
into it again, a frame is sent once, the PSPs near by do not push each other out of the
table. User list: `users[]` holds whom the last list names, as it names them; the
window shows them. Command box: the commands entered last come back, and so does what was being
typed. Release 0.5: frames do not go round, a frame for one PSP is not given to
everybody, whoever asks for the users is answered by all; a connected client is
served, a captured frame leaves the client.

`PROJECT.json` lists every component with its status, and under `hazards` the
places in the code that are hard to test, each with the properties that cover it.

## 2. Plan

In the order of what matters most; only I is to be done.

| | Module | Composes | Abstract specification | Worth proving |
|---|---|---|---|---|
| A | `Ring` | | `WholeCommandSize` as the reference of `CommandSize` | round trip, moves, pending bytes, what `CommandSize` may return (done) |
| B | `Wire`, `SendSide`, `RecvSide`, `Stream` | A | `Channel` | types of both halves, `BlockedIsWatched`, `ExecutedInOrder`, `BytesInOrder`; `NothingLost`, `RingDrained`, `NoInternalErrorIfPlain`, `ScanEnds`, the refinement of `Channel`, each with what it needs (done) |
| C | `Session` | | | types, `LostByAcceptOnly`; `NoSocketForgotten` and `ClosesWhatFailed` for one listener (done) |
| D | `ClientLink` | | | types, `ConnectedIsServed` (done) |
| E | `Arena` | | | types and the table bound, `SendersInOrder`, `NothingMissed`, `MacsOwned`, `KeptInGroup` (done) |
| F | `Bridge` (with the adapter: open, close, capture thread, SSID monitor) | | | types, `NoLoop`, `OncePerLink`, `EntriesByRace` (done) |
| G | `UserList`, and `UserView` on top of it; `History` | `UserView` extends `UserList` | `Roster` | types, `FirstIsActive`, the refinement of `Roster`; `ViewFollows`; `KeptUnlessTemp`, `TypedComesBack` (done) |
| H | `Tunnel05`, `Client05` | `Tunnel05`: server and clients | | `Tunnel05`: types, `NoLoop`, `EchoOnlyByReconnect`, `UnicastToOwner`; `Client05`: types, `ConnectedIsServed` (done) |
| I | `Flush`: both directions of one connection, with nobody pinging | B | `Channel`, twice | — |

Each component has its theorems in a module of its own, `..._proofs`; `Stream_proofs` begins
with the lemmas about `Ring`, and `Window_proofs` holds those of `UserList`, `UserView` and
`History`.

## 3. The modules and the code

Names are the source's wherever TLA+ allows it; `PROJECT.json` maps every
definition to its lines.

### Ring
The pointer arithmetic of TC 230-360. A ring is a function on
`0..BufferSize-1`, a point lies in `0..BufferSize`, both included, as in the
code. A byte is an integer; the code tells apart the terminator `<E>\0`
(modelled by the two bytes `LT`, `GT`, so that it can be cut), the header
(one byte that holds `sendCount`), and payload. `CommandSize` is `RecvCommandSize`
with its three scans, including the one past the end of the ring with the length
`size - last`, which is negative in the code and thus unbounded; its outcome
`Lost` is a scan that does not end well.

### Wire, SendSide, RecvSide, Stream, Channel
`Wire` is one direction of TCP (external; modelled as the code uses it): a
bounded sequence of bytes, cut anywhere unless `WholeSegments`. `SendSide` is
`SendCommand`, `SendFromBuffer` and the events that lead to them; one action per
stretch of code between two places where another thread may run: the section of
`SendCommand`, the second look at `sendState` outside of it, the start of the
flush, every `send()`, the return. The critical section is held over a whole
`SendFromBuffer`, as in the code. `RecvSide` is the event thread's other half:
`RecvToBuffer`, and `RecvCommand` with one disjunct per return. `Stream` composes
the two halves over a wire. `Channel` is what a connection promises: commands
are executed in order, each once, unchanged. `ImplementsChannel` is the
refinement; the mapping is the identity on the two history variables `sent` and
`delivered`. `offset` is history too: where in the stream each command begins. It lets
`NothingLost` speak of the place of every command in what is under way (`InTransit`: unread, on the
wire, unsent) without joining them up.

A stale terminator makes `CommandSize` larger than what the ring holds. `RecvCommand` then
leaves `recvReadPoint` past the end of the ring, by one byte at most, as `MoveRingBuffer` wraps
once; `RecvTypeOK` allows for that, and `BytesInOrder` does not speak of it.

Left out: `recvCount` in the header and the `localConnect` shortcut, which
nothing uses.

### Session
`sessions[]`, one `DoListening` thread per local address, and the two threads of
every connection. `CloseConnection` is three actions (`CheckIdol`, `CloseSocket`,
`SetIdol`) that every thread runs for itself; `call` remembers where it goes on.
A network event is recorded for a socket and signals the event object that was
registered for it; `EnumEvents` takes the events of the socket the session holds
*then*. `accept()` may fail (`AcceptFails`), which leaves its session in
`STATE_WAITTOCONNECT`; `refused` remembers for which. A behaviour meets one of the
`Adversities`: a number of connections and of failures of `accept()`, and the kinds of threads that
may find a connection broken while sending. With none of these (`AllWell`) only event threads
close connections; the properties that need it say so.

### ClientLink
The same threads on the client, where `CloseConnection` ends in
`doClientClose`, which reconnects. One set of actions serves both the reconnect
loop and `OpenConnect`; `back` is the return address. There is one `sd`, and every
thread reads it when it needs a socket, as the code does: `CreateSocket`
(`InitConnection`, `socket()` and the assignments around it, in one step) puts a new socket into `sd`;
`connect()` takes whatever `sd` holds by then. If that is a socket nobody has connected
(`Joinable`), `ConnectSucceeds` starts the two threads of *that* socket; if another thread has connected,
closed or given it up, `connect()` fails, and `ConnectFails` sets `sd` to `INVALID_SOCKET` (TC 715),
whosever socket it held. The new event thread registers its event object for the socket
that `sd` holds when it gets there (`Register`), so `watcher` says whose event thread is told of the events of a
socket, and `EnumEvents` takes the events of the socket in `sd`, as in `Session`.

The number of a socket that nothing refers to any more serves again (`Unused`), also if it was never connected and
`sd` was overwritten, so that `MaxConnections` bounds what exists at one time, not the length of a
behaviour. Each behaviour follows one of the `Courses`: how often the connection is lost and
the user types a command, and what may fail.

A client may thus be `CONNECTED` with no socket in `sd`: A and B are both in the loop, A connects the socket that B has
just made, B's `connect()` fails because it is connected, and `sd` is given up. `ConnectedHasSocket` states the
opposite and is refuted. `ConnectedIsServed` says what is true: a socket that is held is waited for, and some ping
thread runs, through which a client that holds none finds out. As `CreateSocket` is one step,
the moment between `socket()` and `STATE_WAITTOCONNECT` (TC 702-713), in which another thread may set `CONNECTED`, is not in
the model.

### Arena
`doServerCommand`. A handler takes one session per step, and the test of a
session and the sending are separate steps, as other threads run between them.
`SendToSession` goes to whoever holds the session by then.
`StartConnection` is two steps (`Publish`, `ClearInfo`), as the code sets
`STATE_CONNECTED` before it clears `info`. Each behaviour follows one of the
`Courses`: how many sessions, connections and commands there are, which types of command, meeting
places and addresses occur, and whether ping threads close sessions. `KeptInGroup` is about
clients whose session has had no other client (`Alone`), as a session hands on its `info` for a moment;
`NothingMissed` is about those for whom nothing changes while a handler runs: who owes whom a
command is history (`entitled`), which `ClearInfo` and `Announce` end. Clients have the server's
version and use SSIDs (`useSSID` at its default); the version notice, the answer to `'P'`,
the counting loop before the list and the log are left out.

### Bridge
The client between the air and the tunnel. Four kinds of threads and what they
share without a lock:

| Actions | Code |
|---|---|
| `CaptureLoop`, `ReadNothing`, `ReadFrame` | `PacketCapture`, TCL 489-517, and the first test of `packet_handler` |
| `Recognise`, `TellActive`, `NotFound`, `Learn`, `Filter` | `packet_handler`, TCL 1772-1892: the search of the source, `SendSSID`, the new entry, the search of the destination |
| `SendFrame`, `TestConnected` | the loop around `SendCommand` at its end |
| `FrameArrives`, `IgnoreSource`, `TestCapturing`, `Inject` | the `'t'` branch of `doClientCommand`, TCL 1141-1169 |
| `MonitorLoop`, `Expire`, `TellExpired`, `AllExpired` | `MonitorSSID`, TCL 914-1126: the entries that have been silent |
| `StayPut`, `EnterRoom`, `StartCapture`, `LeaveRoom`, `CloseCapture`, `Wake`, `ScanWithoutAdapter`, `ScanFails` | the rest of it: the meeting place, the capture and its thread |
| `BeginCommand`, `ReleaseDevice`, `EndCloseDevice`, `OpenAdapter`, `OpenFails`, `StartMonitor` | `/opendevice`, `/closedevice` with `OpenDevice` (TCL 625-697) and `CloseDevice` (519-537) |
| `LocalSends`, `Heard`, `Tick`, `LinkLost`, `LinkRestored`, `LinkClosed`, `LinkOpened` | the world: PSPs, WinPcap's buffer, time, and what `ClientLink` does in detail |

A test of shared state and what follows it are separate steps where another thread
can change the state between them. Times are ages in ticks, up to the longest
the code asks for. A frame carries `injected`, which the program does not know; the
properties do. `Known` holds the PSPs `GetMACSetting` finds, which are all of them with
`pspAutoSence`. Both of these settings are off by default; `ScanWithoutAdapter` and
`ScanFails` happen with `ssidAutoSence` only, and the model allows them at any time.

Left out: frames of other types than 88 C8 (sent like these if
their source is in the table, never learnt), the choice
between several meeting places, and the packet counters. `SendSSID` counts the active entries in one step. A
`pcap_open_live` that fails leaves no handle, and the capture is started all the same (TCL 968-976). The monitor starts a
thread without waiting for the one before; each behaviour draws one of the `Budgets`, which bounds how many
commands the user types, how many threads capture at one time, and what may fail.

### UserList, Roster
`UserList` is the client's table: the `'a'` branch of `doClientCommand`, one entry of
the list per step (`UpdateUser`, `LogIn`, `NoRoom`), framed by `ReceiveList` and `LogOutRest`.
An entry whose user has gone keeps its contents: `/u` looks at `user_active`, `/userinfo`
does not. `Roster` is what the table promises, one step per list; its mapping takes the table
of before as long as a list is being handled. Left out: the notices "logged
in" and "logged out", and every field of `USER_INFO` but the identity and `pspCount`.

### UserView
The two lists of the window and `UpdateUserList`, which refreshes them in the event
thread after each list of the arena (one step per user and per look at the table) and in
the window's own thread after "disconnect" (`Close`, `UpdateAtOnce`). VCL rows belong to
the window's thread, so what it does is one step for the event thread. A row that has gone between
`AddItem` and the second look at it is a NULL pointer (`RowHasGone`); the
behaviour ends there. Left out: selection, icons, captions.

### History
The command box: `Send` with `AddHistory`, the keys up and down. The array has
`historyMax` cells and three loops visit the cell after them, which is the next field of the
class, `historyTemp`; the model's `history` therefore has that cell too.

### Tunnel05
Release 0.5 from end to end: the server's sessions, one event thread per connection
(`RecvCommand`, `LearnSource`, then `ChooseSession` or `PassSession` and `ForwardCommand` for each
session), the clients' event threads (`ReceiveFrame`, `SendPacket`, `ReceiveQuestion`,
`ReceiveAnswer`) and their capture loops (`Capture`, `SendCaptured`, `TestConnected`). A
connection is a pair of queues, whose two ends are closed at different times
(`LoseClient`, `LoseSession`, then `ClientNotices`, `CloseSession`). A budget names the frames PSPs may send, the losses and the lines typed. An event thread of the server
that has not noticed the end of its connection receives from, and sends to, whatever
connection the session holds now. `connect()` and `accept()` are one step. Left out: rings and
framing (as in the later release), pings, the text of chat and answers.

### Client05
The threads around the one `SOCKET_EX` of a client of release 0.5: `DoMain`
(connect, log in, capture), `ConsoleSender`, and event and ping thread of every connection.
All of them run the same `SendCommand`, `CloseConnection` and `EstablishConnection`, which are
modelled once for a thread `t`; `back` is the return address. `unrepaired` is history:
`DoClose` has returned at once before any `/logout`, as `needReconnect` was not
set yet. The budgets bound losses, refusals, data, lines, and say whose ping threads may
meet a broken connection. Left out: the choice of a device, the ring buffers.

## 4. The runs

All runs have `CHECK_DEADLOCK FALSE`: every instance really stops when its bound
on commands or connections is used up, or when its link is closed.

| Run | What is checked | What it shows |
|---|---|---|
| `stream_laps` | `NothingLost`, `RingDrained`, `BlockedIsWatched`, `ImplementsChannel` | Two threads send three commands through rings of 8 bytes, which wrap at every second command, over a wire of 4 bytes that blocks and may break. |
| `stream_cuts` | `NoInternalErrorIfPlain`, `ChannelIfPlain`, `ExecutedInOrder`, `ScanEnds`, `BytesInOrder` | A stream that is cut at any byte. Two threads send plain payloads, and the number check never fires; or one thread sends payloads with terminators in them and commands over `MaxSize`, which are cut up or dropped, but nothing is executed twice or late, no byte overtakes another, and the scan ends. |
| `stream_live` | `CommandsArrive` | Under fairness every command arrives, from any `sendState` left by an earlier connection. |
| `session` | `NoSocketForgotten`, `ClosesWhatFailed`, `LostByAcceptOnly`, `SessionsComeBack`, `NoSessionLeak` | One listener over two sessions. Three connections, so that a session is reused while the ping thread of its last client still exists; or `accept()` fails; or all the late closers exist, and still no session stays taken when everybody has left. |
| `clientlink` | `ConnectedIsServed`, `LoopReconnects`, `CommandsReturn` | Two losses and refused attempts, several threads in the reconnect loop at once, which connect, register for and give up each other's sockets; or `/connect` and `/close` against event and ping threads that close as well. |
| `arena` | `SendersInOrder`, `NothingMissed`, `KeptInGroup`, `MacsOwned`, `ListsConverge` | Every relayed command over three sessions while clients leave, are closed by ping threads, and are replaced; tables that are full; changes of the meeting place, and user lists that overtake each other. |
| `bridge_relay` | `TypeOK`, `NoLoop`, `OncePerLink`, `EntriesByRace` | A PSP near by and one far away, while the connection is lost, closed and made again and the user opens and closes an adapter, which may fail, as may the capture; or two threads that capture at one time, one of them left over from an earlier stay at the meeting place. |
| `bridge_live` | `LocalIsTunnelled` | Under fairness two PSPs in a table of two entries are both tunnelled: neither is pushed out for good. |
| `window` | `FirstIsActive`, `ImplementsRoster`, `ViewFollows`, `PspRowsSettle`, `KeptUnlessTemp`, `TypedComesBack` | The user list through lists with too many users and with one user twice, and the window that follows it while the user disconnects; or the command box, with every text in every order. |
| `tunnel05` | `NoLoop`, `EchoOnlyByReconnect`, `UnicastToOwner`, `AskedIsAnswered` | Three clients, a PSP near each of two of them, and two sessions: one client can hold both for a while, or a session goes to the third client while a frame is on its way to the second. PSPs send one frame to everybody and the answer to it; or a user types a line. |
| `client05` | `ConnectedIsServed`, `FrameLeaves` | Four kinds of trouble for the client of 0.5, with up to four threads in `CloseConnection` and the reconnect loop. |
| `logout05` | `LogoutEnds` (violated) | Nothing fails and the user types `/logout`: the client may never end. |

Every module states its types. That they hold is proved for all of them; a run checks those of
`Bridge`.

**The disagreement.** "To quit, enter /logout" (in Japanese) says the client of 0.5 (TCL5 407).
`packet_handler` repeats a frame `while (gsd.state != STATE_CONNECTED)` (TCL5 279) and looks at
`needReconnect` nowhere. When a frame is captured just before `/logout` closes the connection, nothing
will connect again and `DoMain` stays in that loop: it never gets to the test that would end it.
`logout05` shows it with one line typed and no failure at all.

### The bounds and why they are enough

* **Rings of 6, 8 and 12 bytes, commands of 3 and 4, `MaxSize` 4 or 6.** The shortest command is
  header and terminator. With 8 and three commands of 3 or 4 bytes the points reach the
  end exactly, pass it, and stop before it with every part of a command on either
  side. In `stream_cuts` the ring is 12: with less, the scan meets bytes of the
  lap before (see the table of refuted statements) and the properties do not hold.
* **`MaxBacklog` = `BufferSize` - 1.** Beyond it `SendCommand` overwrites what waits.
  It stands for an assumption: the network drains 64 KB before they fill.
* **Two senders and the event thread** are the three roles there are: a thread in
  the section, one that looks at `sendState` outside, and the one that events wake.
* **Courses, adversities, budgets.** A behaviour of `session`, `clientlink`, `arena`, `bridge_relay`,
  `tunnel05` and `client05` draws one of several bundles of bounds. The instances are those the MC
  modules list; what is in two different bundles is not combined, as the product is
  out of reach. `CutsNext` does the same for `stream_cuts`.
* **Two sessions, three connections**: one is reused while the other is busy. A
  third session matters only where a walk over the sessions may skip one, so
  one course of `arena` has three.
* **Two connections in ClientLink and Client05** are the old one, with threads left, and the
  new one; their numbers are used again. The liveness properties except
  states in which both are held by threads (`Exhausted`): there the instance, not
  the program, has nothing left to connect with.
* **Tables of two entries and a buffer of one frame in Bridge.** With one PSP near by
  and one far away an entry is free, in use, silent, or replaced; both may be in the
  table of PSPs near by. One buffered frame and one in the handler are what the order of hearing,
  ignoring and recognising depends on.
* **`MaxIgnored` 2** in `Bridge` is the entry of zeros and one remote PSP: as many as there are. The
  theorem `NoLoops` needs no more than that. In `Tunnel05` it is both PSPs: a client's own get into
  the table too, when a frame comes back.
* **One monitor, one or two capture threads.** The code may have several, as neither `CloseDevice`
  nor the monitor waits for them. Two capture threads are enough for both to look for the same PSP; they come with one
  command and no failure, as the product is out of reach. The safety properties are proved for any number.
* **Two commands in Bridge**: opened, closed (or opened again over an open one).
* **Ages up to 2**: `ReplaceWait` 0 and `RoomWait` 1 keep their order, and three ages
  tell apart new, replaceable and silent.
* **Two or three commands in Arena**: two overlapping handlers, or a change of
  place with a frame before and after.
* **A user table of two entries and three users; four changes of the list, one disconnect.** A list
  may be too long, exchange everybody, and leave two stale rows of PSPs, which take two refreshes to
  go. `PspRowsSettle` is about the time after the last change.
* **A history of three cells, four commands and the empty text**: full, with a repetition at either
  end or in the middle, and with every value `historyTemp` can have.
* **Two sessions, three clients, three connections, one loss, two frames or one line in Tunnel05.** One
  reconnection is what separates the two ends of a connection. The frame to everybody is what teaches
  the server whom a frame for one PSP is for; the second is such a frame, and the loss
  hands its session to another client before, while, or after it is sent there.

### Fairness

* *Threads run.* Every thread that has a step takes one in the end (weak
  fairness): Windows schedules threads.
* *A flush gets the section.* `FlushRuns` is strongly fair: several threads may
  alternate in the section, and Windows queues the waiters of a critical section.
* *`FD_READ` comes again and again* (`EventsRun`): the peer's `PingAction` sends a
  command every three seconds (TC 683), and the handler of `FD_READ` calls
  `SendFromBuffer`. `CommandsArrive` depends on it: its mutant, in which `FD_READ` only
  receives, leaves the part of the ring beyond its end unsent.
* *`connect()` succeeds in the end* if it is tried for ever (`SF` of
  `ConnectSucceeds`), else the loop of `doClientClose` would have no exit.
* *Clients answer pings* (`ReceivePing`, in `Arena`).
* *The bridge's world goes on*: time passes (`SF` of `Tick`), who scans again and again
  finds a meeting place (`SF` of `EnterRoom`), a PSP that broadcasts is heard again and again
  (`SF` of `LocalSends`), a lost connection is made again (`LoopReconnects`).
* *Threads are faster than the clock* (`Prompt`, in `bridge_live` only): every PSP sends
  in each tick and what was heard is handled within it. The code's `ReplaceWait` is a second, games
  send many frames in one. Without it `LocalIsTunnelled` fails (see below).
* *The arena sends its list again and again* (`ViewFairness`): clients report themselves every few
  seconds, and each report is answered by the list.
* *Client05 assumes nothing but that threads run*; a refused `connect()` is bounded by the
  budget. That `TestConnected` and `SendFrame` repeat for ever is not progress, which is how
  `logout05` fails. `Tunnel05` needs the handlers of the server and the event threads of the clients.
* Nothing is assumed of clients that send, leave or are lost, nor of the user,
  nor of failures; and an event thread whose event is not signalled stays in its wait.

### Statements the models refute

These are stated in the modules but not among the runs. To see one violated, take
the named configuration, make the changes, and give the statement as its only
`INVARIANT` (`StaysConnected`, `LocalIsTunnelled`, `CountFollows`: `PROPERTY`). A *course*
replaces the set of courses (adversities, budgets) in the MC module by that one. Where a statement
is also a run's property, the run has it under a condition, which the change takes away.

| Statement | Configuration and changes | What happens |
|---|---|---|
| `OnlyArrivedCommands` | `MCStream_laps`: `WholeSegments` FALSE, `Senders` `{"handler"}`, `MayBreak` FALSE | The scan past the end of the ring (TC 291) reports a terminator of an earlier lap; the comment on its result says "there is no '<'" (TC 293). |
| `SkipIsHarmless` | `MCStream_laps`: `Senders` `{"handler"}`, `Payloads <- AllPayloads`, `MaxSize` 5, `MayBreak` FALSE | A command that was too long is skipped (TC 355) without its number being taken over, so the next one closes the connection. |
| `RingDrained` | `MCStream_laps`: `Senders` `{"handler"}`, `Payloads <- AllPayloads`, `MayBreak` FALSE | A terminator in the payload leaves a rest shorter than a header, on which `RecvCommand` (TC 347) returns for ever. |
| `ExecutedInOrder` | `MCStream_laps`: `BufferSize` 12, `MaxSize` 3, `MaxBacklog` 11, `Senders` `{"handler"}`, `Payloads <- NumberZero`, `MayBreak` FALSE | A piece of payload between two terminators that spells the number 0 passes for a command (TC 381), as a `sendCountBefore` of 0 stands for none: whatever comes next is executed, in whatever order. |
| `NoSendOverflow` | `MCStream_laps`: `Senders` `{"handler"}`, `MaxCommands` 4, `MaxBacklog` 12, `MayBreak` FALSE | `SendCommand` (TC 449) does not compare what it writes with the room there is. |
| `ClosesWhatFailed`, `NoSocketForgotten` | `MCSession`: course `Adverse(3, 0, {"ping", "event"})`, `AllWell == TRUE` | A thread waits ten milliseconds (TC 456) and then closes the next client. |
| `SessionsExclusive` (which `NoSocketForgotten` implies) | `MCSession`: `Listeners` `{"ip1", "ip2"}` | Two listeners pick one session (TS 454). |
| `StaysConnected` | `MCClientLink` as it is | `needReconnect` is set (TCL 1340) after the threads were started; a loss before that is not made good. |
| `OneReceiver` | `MCClientLink` as it is | "There 's no reason to compete, because there is only one receiver thread" (TC 490). The event thread of a closed connection tests `gsd.state` after the reconnect, finds `CONNECTED`, and receives from the new socket next to the new connection's own thread. |
| `CloseDisconnects` | `MCClientLink` as it is | `/close` finds nothing to close while another thread is in the reconnect loop, which then connects. |
| `ConnectedHasSocket` | `MCClientLink` as it is | A thread connects the socket another one has just put into `sd` (TC 714); the other's `connect()` then fails, and `sd` becomes `INVALID_SOCKET` (TC 715) while the state is `CONNECTED`. |
| `KeptInGroup` | `MCArena`: the third course with three connections and `pingCloses` FALSE, `Alone(c) == TRUE` | "SSID to tunnel packets are equal to each other" (TS 227). `StartConnection` sets `STATE_CONNECTED` (TC 787) before it clears `info`: a handler that walks by in between gives the new client a frame of the meeting place of the last one. |
| `MacsOwned` | `MCArena`: the third course with `pingCloses` TRUE, which the statement then does not except | A handler that outlives its connection learns its address into the table of the next client. |
| `NoLoop` | `MCBridge_relay`: `MaxIgnored` 1 | With a full `ignoreMac` (TCL 1147) a remote source is not remembered; its frames are heard, learnt as those of a PSP near by, and sent back. |
| `NoLoop` of `Tunnel05` | `MCTunnel05`: `MaxIgnored` 0, `Roomy == TRUE` | The same in 0.5 (TCL5 75), whose table has eight entries: with fewer entries than PSPs far away a source is not noted. |
| `SlotsDistinct` | `MCBridge_relay` as it is | Two capture threads both find no entry for a source and both make one. |
| `DeviceStaysClosed` | `MCBridge_relay` as it is | "I closed the connection device" (TCL 1563). The monitor tested `adapterStatus` before, enters a meeting place and sets it to 3. |
| `HandleInUse` | `MCBridge_relay` as it is | `CloseDevice` and the monitor close the handle (TCL 530) a capture thread is about to read from. |
| `CountFollows` | `MCBridge_live` as it is | The monitor and the capture thread count at one time and send at another; the older count may be sent last, and nothing sends a newer one until the set of PSPs changes. |
| `LocalIsTunnelled` | `MCBridge_live`: `MaxMac` 1, or `Prompt` FALSE | More PSPs than entries, or PSPs that are not heard within `ReplaceWait`, replace one another in turn; a new entry is not yet active, so no frame is sent. |

## 5. The proofs

`tlapm` checks the eight modules to the last leaf; there is nothing it is asked to
take on trust. Facts used in several places are lemmas; a theorem `Spec => []Inv` rests on an inductive
invariant, which is named below.

**`Stream_proofs`**, for every ring size, any set of threads, any payloads, any capacity of the
wire. *About the rings*: `RoundTrip` — what `SendBufferCopy` writes at any point
`RecvBufferCopy` reads back, across the end too; `WriteKeepsPending` — appending what fits does not
disturb what waits; `AppendsToPending`, `TakesFromPending` — what waits in a ring, as a sequence, grows at
its end and shrinks at its beginning; `CommandSizeType` — what `CommandSize` may return for *any*
content of the ring. *About the threads and bytes*: `StreamTypeCorrect`, `BytesStayInOrder`
(`BytesInOrder`), `ExecutesInOrder` (`ExecutedInOrder`), and `Watched` (`BlockedIsWatched`): a thread that
calls `SendCommand` and sees `sendState` 1 goes away; `Watched` says that it may. *About the commands*:

| Theorem | Says | Supposes |
|---|---|---|
| `NothingIsLost`, `RingIsDrained`, `NoErrorWhilePlain`, `StepsOfTheChannel` | `NothingLost`, `RingDrained`, `NoInternalErrorIfPlain`, `ChannelIfPlain`, while plain payloads are sent | room; `OnlyArrivedCommands` throughout |
| `StreamIsChannel` | `ImplementsChannel` | the same, and plain payloads |
| `FirstLapIsSafe` | `NothingLost`, `RingDrained` and no internal error, while fewer bytes were sent than the ring holds and all payloads so far were plain | nothing |
| `FirstLapScans` | `OnlyArrivedCommands` and `ScanEnds` in that lap, for all payloads | nothing |
| `EveryScanEnds` | `ScanEnds`, for all payloads in all laps | `RecvToBuffer` leaves two bytes free (`LeavesTwo`) |
| `PlainScansEnd` | the same, while plain payloads are sent | room for one byte more; `OnlyArrivedCommands` |
| `WellCutIsSafe`, `WellCutIsChannel` | all of it in all laps while plain payloads are sent, `OnlyArrivedCommands` included; `ImplementsChannel` for plain payloads | room for one byte more; `CutsWell` |

*The argument.* `BlockedIsWatched` is not inductive: it does not say who is in the
section, or that there is anything left to send. `SendInv` adds `OneInLoop` (the
thread in the loop of `SendFromBuffer` is the owner of the section, and before
`send()` `sendState` is 1), `ChunkUnsent` (its chunk starts at the read point, does not pass
the end of the ring and is part of the backlog), `NeverFull`, and `LeftToSomebody` (when `sendState` is 1
and nobody is in the section there is a backlog, and `FD_WRITE` is due or a thread
is about to flush). The backlog is needed because a flush that finds the ring empty returns
without resetting `sendState`: it is what makes that harmless. `ChunkUnsent` is also why the bytes stay
in order: the chunk is a beginning of what waits, although other threads append to the ring between
its choice and the `send()`. On the receiving side everything depends on what the scan may find:
`FirstOf` chooses a least cell, which exists since cells are numbers (`FirstOfCells`, from `WFMin`), so
a size is the distance of a cell plus the terminator, and no more is known of it. For
`ExecutedInOrder` the invariant is that `sendCountBefore` is the number of the last command
executed while the connection lives.

`NothingLost` is not inductive either, because the receiver does not know where a command ends: it
looks for a terminator. `StreamInv` says, for any payloads, that `offset` is the sum of what was sent
(`Numbered`). `Flow` says that the bytes under way are the commands `Len(delivered) + 1` to `Len(sent)`,
each at its offset, that the receiver expects the number of the first, and that after its
loop nothing whole is left. That RecvCommand takes the first command off and nothing else is a fact about bytes:
in a plain frame the first terminator is its last two bytes, so `WholeCommandSize` of what is unread is either the size of the next frame or
nothing, according to whether the whole of it has arrived (`FindsTheNext`, `NextIsPartial`). It remains
that the three scans of `CommandSize` find what `WholeCommandSize` finds. They do not always:
past the end of the ring they meet the terminators of earlier laps.

Hence three answers. *The first lap*: until a point wraps the cells behind the write point hold no
terminator (`InLine`), and the scans are right whatever is sent. *Whether the scan ends* has a reason of
its own: the read point, unless it is 0, stands behind a terminator (`BehindEof`), that of the last command. A scan
that meets nothing else meets this one, provided that `recv` has not written over it, which is what
`LeavesTwo` asks. *Which report is right*: if a whole command has arrived the scans find it, for any
content of the rest of the ring (`FindsWhatArrived`); so only a piece of a command can mislead them, and one shorter than
a header and a terminator cannot (TC 272), nor can one that neither passes the end of the ring nor ends in `<` (`PieceIsNoCommand`).
This is `CutsWell`, which speaks of bytes and places only.

*The assumptions*, beyond those on the constants: `MaxBacklog < BufferSize` — a ring filled to
the last byte counts as empty and the theorems fail. `Watched` needs `1 \notin LeftStates` — the
connection does not start with the `sendState` 1 that an earlier connection left, which
`InitConnection` does not reset. `stream_live` checks that commands arrive in that case
too. `ExecutesInOrder` is about the time in which no command numbered 0 has been executed:
`SendCommand` numbers from 1, but a payload with two terminators may spell one, and then the order is
lost (see the refuted statements). `stream_cuts` has terminators in its payloads, and no such number.

The theorems about commands suppose in addition:

* *Room*, `MaxSize + WireCapacity <= BufferSize`: one command that is not whole yet and all that
  one `recv` may find fit the receive ring. `RecvToBuffer` (TC 313) does not test it. In the code it is
  4096 bytes and what the network holds in one direction, against 65536.
* *`OnlyArrivedCommands` throughout, or `CutsWell`*. Without it the properties fail (see the refuted
  statements); the run `stream_laps` satisfies it because TCP does not cut commands there, with commands
  across the end of the ring in every lap.
* *Plain payloads* (`PlainSent`): no terminator inside, no command longer than `MaxSize`. The
  protocol does not escape, so a captured frame may hold a terminator, and is then cut in two. `BytesInOrder`,
  `Watched`, `ExecutesInOrder`, `FirstLapScans` and `EveryScanEnds` do not suppose it.

**`Session_proofs`**, for any numbers of sessions and connections. With any listeners and any threads
that close: `SessionType`, `OnlyAcceptLosesSessions` (`LostByAcceptOnly`). With one listener:
`SocketsStayInTheirSession` (`NoSocketForgotten`), `OneClientPerSession`, `ClosesItsOwnConnection`
(`ClosesWhatFailed`).

*The argument.* `Held` is what one thread per session would have for nothing: from `accept()`
until its event thread ends a connection is in `sd` of its session (`Placed`); the socket is open until
that thread closes it (`Opened`), the session is `CONNECTED` or in the error that this thread met until then, and it is told of the
events of its own socket (`Served`); a call of
`CloseConnection` is the one of the connection's own event thread and closes that connection
(`ClosesItself`); a connection without threads is the one the listener is about to start
(`Unspawned`); and the session that the listener picked is picked by nobody else and has no
threads left (`ListenerHolds`). The last is what two listeners break, and what a late closer breaks is
`ClosesItself`: hence *the assumptions* `OneListener` and, within the properties, `AllWell`. Each is
needed: see the refuted statements.

**`Arena_proofs`**, for any numbers of sessions and connections, any places and addresses, tables of any
size: `ArenaType`, `SendersKeepOrder` (`SendersInOrder`), `WalkSkipsNobody` (`NothingMissed`),
`TablesAreOwned` (`MacsOwned`) and `PlacesAreKeptApart` (`KeptInGroup`). None of them has an assumption.

*The argument.* `Structure` says who holds what: a session has one holder, connections to come have
nothing yet, one listener opens one session. *Order*: `OrderInv` says of every handler that a client
behind its place in the walk (`Behind`) has got at most what it relays, and a client before it only
what its sender gave earlier. That a session is given to a new client during the walk does no harm, as
a connection keeps the number of its session. *Nobody skipped*: `Owes` carries what a handler owes
from the step that begins it to its return — both clients present, wanted as before, and served if
the walk has passed them; a step of anybody else either leaves this or ends the debt. *Tables*:
while no ping thread closes sessions a handler that works has its client present, and a session
being opened has an empty table (`MacsInv`). *Places*: a session that nobody has had
names no place; the `info` of a client alone in its session is what it announced last, or empty
(`PlacesInv`); a handler's command carries the place its sender's `info` still names, since only that
handler could change it unless the session goes to another client (`SendersInv`); and whoever passed the test has announced that place
(`PassedInv`). `groups` keeps every place announced, so it may change again before the sending.

**`ClientLink_proofs`**, for any number of connections and any course: `LinkTypeCorrect`,
`LinkIsServed` (`ConnectedIsServed`). **`Client05_proofs`**, the same for release 0.5:
`Client05TypeCorrect`, `ClientIsServed` (`ConnectedIsServed`).

*The argument.* Any number of threads may be in `CloseConnection` and in the reconnect loop for the
one `SOCKET_EX`, and any of them may connect, register for, close or give up the socket that
another has made. What holds it together is the order of the code: every thread sets `STATE_IDOL` or
`STATE_WAITTOCONNECT` before it connects, and a socket not connected yet has no threads (`NotStarted`), so
that `connect()` starts threads that did not run. From then on, as long as `gsd` is `CONNECTED`, the socket
it holds is waited for, or closed, by the event thread it tells its events (`watcher`), or its own event thread is
about to register (`Watched`); and in `ClientLink` the ping thread started last is in its
loop, as it leaves it only when it finds a state other than `CONNECTED` or sets one (`Pinged`). In 0.5 one
needs in addition that the console is started once (`ConsoleOnce`), so that `SendCommand` has one
return address for each thread.

**`Bridge_proofs`**, for any sets of PSPs, table sizes, waits and numbers of threads:
`TypeCorrect` (`TypeOK`), `SentAtMostOnce` (`OncePerLink`), `NoLoops` (`NoLoop`) and
`NoMoreEntriesThanThreads` (`EntriesByRace`).

*The argument.* `TypeOK` is inductive; it is proved part by part, from lemmas that say which
threads change which variables. `OncePerLink` needs in addition how many times a thread has sent at
each step of the loop: never before, and once at the test if there is a connection. `NoLoop` looks
at one place, the sending, and its cause lies far from it. `LoopInv` follows a frame the whole
way: every injected frame that is in the buffer or held by a capture thread has a source in
`ignored`, and so has the one the event thread is about to put on the air (that the source is
ignored *first* is what makes this hold); therefore `mac` holds PSPs near by only, and what was
found in `mac` is no injected frame. `EntriesByRace` counts the entries of a PSP together with the threads
that are about to make one. Only a search that finds none (`NotFound`) adds to the sum, and then there is no
entry, so that the sum is a number of threads; an entry that is made replaces a thread by
an entry, and overwrites at most another. No thread beyond `left.captures` ever starts (`CapturesAllowed`).

*The assumption*, of `NoLoops` only: `RemotesFit`, that `ignoreMac` has room for every remote PSP (the code has
200, the arena fewer clients). It is needed: see the refuted statements.

**`Window_proofs`**, for tables, lists and histories of any size. *The user list*: `ListTypeCorrect`,
`CommandsAgree` (`FirstIsActive`), `ListImplementsRoster` (`ImplementsRoster`). *The window*: `ViewType`,
`WindowFollowsTheTable` (`ViewFollows`), `RowsStayWhileConnected`: a refresh finds a row gone, which is
a NULL pointer in the code, only after it found the connection closed. *The command box*: `BoxType`,
`TypingComesBack` (`TypedComesBack`), `CommandsAreKept` (`KeptUnlessTemp`).

*The argument.* `FirstIsActive` is inductive together with the types: a new user gets the *first* free
entry, so no entry before it that is out of use can have the identity of one that is in use after
it. For the refinement `HandlingInv` says what holds in the middle of a list: every active entry that
is no longer marked for the logout holds what the list said last about its user (`Current`, the
later of two entries with one identity), every marked one belongs to somebody the list has not
named so far and who was there before, everybody who was there before still has an entry, and who is named
has one unless all are in use. At the last step this is `Receive` of `Roster`; all others stutter. Only in the
last case, a list with no room for somebody, is the number of entries counted.

The window is refreshed between lists, so the table rests while `ViewInv` follows a
refresh: the identities copied at its start are those of the active users (`CopyInv`); the rows
before the present one are filled with what the table says (`FillInv`); the present row exists
(`RowInv`); and after the last one the window shows the table (`ShownInv`). The window's own
thread may refresh in between, in one step; as long as the connection is not found closed it adds and
fills rows of the same users and takes out none of them. For the command box `TempIsKept` is enough:
while a cell is shown, `historyTemp` is what was being typed, so that the walk's end brings it back, whichever key or
loop ends it; that the loops reach it as the cell
after the last one does not change it, because it is in use then. `CommandsAreKept` needs that
the cells in use are the first ones (`UsedFirst`) and hold each command once. The first loop of
`AddHistory` then stops at the command's only cell, at the first free one, at `historyTemp`, or nowhere; in
all but the third case the first cells hold afterwards what they held without one of them, and the box
behind it (`Entered`), from which set, order and uniqueness follow once for all (`EnteredIsLast`).

**`Tunnel05_proofs`**, for any number of sessions, clients, PSPs, connections and failures:
`TunnelTypeCorrect` (`TypeOK`), `FramesDoNotGoRound` (`NoLoop`), `EchoNeedsReconnect`
(`EchoOnlyByReconnect`) and `UnicastStaysTogether` (`UnicastToOwner`).

*The argument.* `Types` adds to `TypeOK` which kinds of command are in which queue and that nothing refers
to a connection not yet made. `LoopInv` follows what one client hears: every frame at its adapter
is its own PSPs' or has a source in `ignoreMac`, since that is noted before `SendPacket`; so it learns
and sends frames of its own PSPs only. `RouteInv` follows a frame through the server: what is in a
queue to the server was sent by the owner of the connection (`UpInv`); the table of a session
names only PSPs of clients that have been in that session (`TablesInv`); what an event thread
works on came from a client that was in its session, not necessarily through this connection (`DoingInv`); what it has
chosen passed the tests (`ChosenInv`); so what is on its way from the server (`DownInv`) and about to go on
the air (`InjectingInv`) was `Routed`: through another session than the one it left by, and to
everybody or to a session of the destination's client. If such a frame comes back to its own client, that
client has been in two sessions. Connections are never forgotten by the history `owner` and `place`, and
`RouteStays` says that what held of them goes on to hold.

*The assumption* of the last three is `Roomy`: `ignoreMac` has room for all PSPs. Without it `NoLoop` fails (below).

*What is only model-checked*: all liveness (`CommandsArrive`, `SessionsComeBack`, `NoSessionLeak`,
`LoopReconnects`, `CommandsReturn`, `ListsConverge`, `LocalIsTunnelled`, `PspRowsSettle`, `AskedIsAnswered`,
`FrameLeaves`), which is beyond the prover. Every invariant and every action property that a
run checks is the statement of a theorem. Those of the stream hold for all rings and payloads only
under the suppositions above; without these they are facts about the instances.

## 6. What is not modelled

* *Pure I/O and data*: settings, the console programs, the driver requests of `pktOidRequest.cpp` (what
  they find is an input of the monitor), the forms of the window and its menus, hashing, and the binaries
  and editor history in the repository.
* *Dead code*: nothing calls `AddConsoleLog`, so the queue of `GetConsoleLog` stays empty at this commit.
* *Text commands that only read or set a setting.* Those that change the state of a component are actions
  of that component.
* *Memory*: the list of users is counted in one loop and copied in another (TS 267), log lines share one
  buffer (TS 36), `userPSP` has 200 entries (GUI 784).
* *`CloseServer`*, which only the server's console program calls, as it ends.
* *Release 0.5*: its ring buffers and framing, the predecessors of those `Stream` models, its choice of a device, its
  pings as messages.
* *Other threads of the window*: `UserView` has one event thread, as a client has with one connection. An event thread of
  an earlier connection might be in `UpdateUserList` too; see `OneReceiver` above.
