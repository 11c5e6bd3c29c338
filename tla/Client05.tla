------------------------------ MODULE Client05 ------------------------------
(***************************************************************************)
(* The client of version 0.5 (MHPTunnel05src/src): its one SOCKET_EX, gsd, *)
(* and the threads that use it.  DoMain connects, logs in and captures     *)
(* frames (tunnel-client.cpp 377-463); ConsoleSender takes the user's      *)
(* lines (146-204); every connection has a thread RecvPacketThread and a   *)
(* thread PingAction (tunnel-common.cpp 591-665).  Each of them may find   *)
(* the connection broken and call CloseConnection (778-808), whose         *)
(* callback DoClose (tunnel-client.cpp 124-141) connects again.            *)
(***************************************************************************)
EXTENDS Integers, FiniteSets

CONSTANTS
  MaxConnections, \* bound: sockets that are in use at a time
  Budgets         \* bound: how often a connection may end, connect() fail, the
                  \* server send and the user type, and whose ping threads
                  \* may meet a broken connection: one of these

Connections == 1 .. MaxConnections

Budget ==
  [losses : Nat, refusals : Nat, data : Nat, lines : Nat, pingFails : SUBSET Connections]

ASSUME Client05Assumption ==
  /\ MaxConnections \in Nat \ {0}
  /\ Budgets \subseteq Budget

Invalid == 0 \* INVALID_SOCKET

Main == <<0, "main">>
Console == <<0, "console">>
Event(c) == <<c, "event">>
Ping(c) == <<c, "ping">>
Threads == {Main, Console} \cup (Connections \X {"event", "ping"})

VARIABLES
  state,      \* gsd.state
  sd,         \* gsd.sd
  open,       \* the sockets that are open
  joined,     \* those that connect() has succeeded for
  lost,       \* those among them whose connection has ended
  watcher,    \* the connection whose event thread is told of a socket's events
  events,     \* what each socket has to tell: "READ", "CLOSE"
  signalled,  \* the event threads whose event object is set
  needReconnect,
  pc,
  back,       \* where a thread goes on after SendCommand, EstablishConnection
              \* or CloseConnection
  logout,     \* the user has typed /logout
  unrepaired, \* history: DoClose has returned at once before any /logout
  left        \* what remains of the budget

socket == <<sd, open, joined, lost, watcher, events, signalled>>
vars == <<state, socket, needReconnect, pc, back, logout, unrepaired, left>>

Steps ==
  {"none", "done", "sending", "check", "socket", "close", "establish", "connect",
   "again", "start", "begin", "login", "users", "console", "capture", "send", "test", "idle", "bye",
   "register", "loop", "wait", "serve", "sleep"}

InCall == {"sending", "check", "socket", "close", "establish", "connect", "again"}

\* Types; and only a thread inside a function has somewhere to return to.
TypeOK ==
  /\ state \in {"IDOL", "WAITTOCONNECT", "CONNECTED", "ERROR"}
  /\ sd \in Connections \cup {Invalid}
  /\ open \in SUBSET Connections /\ joined \in SUBSET open /\ lost \in SUBSET Connections
  /\ watcher \in [Connections -> Connections]
  /\ events \in [Connections -> SUBSET {"READ", "CLOSE"}]
  /\ signalled \in SUBSET Connections
  /\ needReconnect \in BOOLEAN
  /\ pc \in [Threads -> Steps] /\ back \in [Threads -> Steps]
  /\ \A t \in Threads : back[t] # "done" => pc[t] \in InCall
  /\ logout \in BOOLEAN /\ unrepaired \in BOOLEAN
  /\ left \in Budget

Init ==
  /\ state = "IDOL" /\ sd = Invalid /\ open = {} /\ joined = {} /\ lost = {}
  /\ watcher = [c \in Connections |-> c]
  /\ events = [c \in Connections |-> {}]
  /\ signalled = {}
  /\ needReconnect = FALSE
  /\ pc = [t \in Threads |-> IF t = Main THEN "start" ELSE "none"]
  /\ back = [t \in Threads |-> "done"]
  /\ logout = FALSE /\ unrepaired = FALSE
  /\ left \in Budgets

Goto(t, step) == pc' = [pc EXCEPT ![t] = step]

Call(t, step, next) ==
  /\ Goto(t, step)
  /\ back' = [back EXCEPT ![t] = next]

Return(t) ==
  /\ Goto(t, back[t])
  /\ back' = [back EXCEPT ![t] = "done"]
-----------------------------------------------------------------------------
(***************************************************************************)
(* SendCommand(&gsd, ...) in thread t: the look at the state, and send().  *)
(* A connection that has ended may still take what is sent.                *)
(***************************************************************************)
Send(t, next) ==
  IF state = "CONNECTED" THEN Call(t, "sending", next) ELSE Goto(t, next) /\ UNCHANGED back

SendSucceeds(t) ==
  /\ pc[t] = "sending"
  /\ sd \in joined
  /\ Return(t)
  /\ UNCHANGED <<state, socket, needReconnect, logout, unrepaired, left>>

SendFails(t) ==
  /\ pc[t] = "sending"
  /\ sd \notin joined \/ sd \in lost
  /\ state' = "ERROR"
  /\ Goto(t, "check")
  /\ UNCHANGED <<socket, needReconnect, back, logout, unrepaired, left>>

(***************************************************************************)
(* CloseConnection(&gsd) in thread t.                                      *)
(***************************************************************************)
CheckIdol(t) ==
  /\ pc[t] = "check"
  /\ IF state = "IDOL" THEN Return(t) ELSE Goto(t, "socket") /\ UNCHANGED back
  /\ UNCHANGED <<state, socket, needReconnect, logout, unrepaired, left>>

CloseSocket(t) ==
  /\ pc[t] = "socket"
  /\ open' = open \ {sd} /\ joined' = joined \ {sd}
  /\ Goto(t, "close")
  /\ UNCHANGED <<state, sd, lost, watcher, events, signalled, needReconnect, back, logout,
                 unrepaired, left>>

\* STATE_IDOL, then DoClose.
CallDoClose(t) ==
  /\ pc[t] = "close"
  /\ state' = "IDOL"
  /\ IF needReconnect
     THEN Goto(t, "establish") /\ UNCHANGED <<back, unrepaired>>
     ELSE Return(t) /\ unrepaired' = (unrepaired \/ ~logout)
  /\ UNCHANGED <<socket, needReconnect, logout, left>>

Closing(t) == CheckIdol(t) \/ CloseSocket(t) \/ CallDoClose(t)
-----------------------------------------------------------------------------
(***************************************************************************)
(* EstablishConnection(&gsd) in thread t: DoMain calls it before it begins *)
(* and asks the user for another address when it fails; DoClose calls it   *)
(* until gsd is CONNECTED.                                                 *)
(***************************************************************************)
Starting(t) == back[t] = "begin"

\* A socket nothing refers to any more; its number serves again.
Unused(c) ==
  /\ c \notin joined /\ c # sd
  /\ pc[Ping(c)] \in {"none", "done"}
  /\ \/ pc[Event(c)] \in {"none", "done"}
     \/ pc[Event(c)] = "wait" /\ c \notin signalled
  /\ \A d \in open : d # c => watcher[d] # c

\* InitConnection, and a new socket that is to be connected.
CreateSocket(t) ==
  /\ pc[t] = "establish"
  /\ \E c \in Connections :
       /\ Unused(c) /\ \A d \in Connections : Unused(d) => c <= d
       /\ sd' = c /\ open' = open \cup {c} /\ lost' = lost \ {c}
       /\ events' = [events EXCEPT ![c] = {}]
       /\ watcher' = [watcher EXCEPT ![c] = c]
       /\ signalled' = signalled \ {c}
       /\ pc' = [u \in Threads |-> IF u = t THEN "connect"
                                   ELSE IF u \in {Event(c), Ping(c)} THEN "none" ELSE pc[u]]
  /\ state' = "WAITTOCONNECT"
  /\ UNCHANGED <<joined, needReconnect, back, logout, unrepaired, left>>

\* connect() fails for a socket that was closed or connected meanwhile, and
\* when the server does not take it.
Joinable == sd \in open \ joined

Refused ==
  \/ ~Joinable /\ UNCHANGED left
  \/ left.refusals > 0 /\ left' = [left EXCEPT !.refusals = @ - 1]

\* Wrong: DoClose gives up when connect() fails.
ConnectGivesUp(t) ==
  /\ pc[t] = "connect"
  /\ Refused
  /\ sd' = Invalid
  /\ IF Starting(t) THEN Call(t, "start", "done") ELSE Return(t)
  /\ UNCHANGED <<state, open, joined, lost, watcher, events, signalled, needReconnect, logout,
                 unrepaired>>

\* The socket that connect() failed for is forgotten; nobody hears of it.
ConnectFails(t) ==
  /\ pc[t] = "connect"
  /\ Refused
  /\ sd' = Invalid
  /\ IF Starting(t) THEN Call(t, "start", "done") ELSE Goto(t, "again") /\ UNCHANGED back
  /\ UNCHANGED <<state, open, joined, lost, watcher, events, signalled, needReconnect, logout,
                 unrepaired>>

\* StartConnection: STATE_CONNECTED and the two threads.
ConnectSucceeds(t) ==
  /\ pc[t] = "connect"
  /\ Joinable
  /\ joined' = joined \cup {sd}
  /\ state' = "CONNECTED"
  /\ LET next == IF Starting(t) THEN "begin" ELSE "again" IN
     pc' = [u \in Threads |-> IF u = t THEN next
                              ELSE IF u = Event(sd) THEN "register"
                              ELSE IF u = Ping(sd) THEN "loop" ELSE pc[u]]
  /\ back' = IF Starting(t) THEN [back EXCEPT ![t] = "done"] ELSE back
  /\ UNCHANGED <<sd, open, lost, watcher, events, signalled, needReconnect, logout, unrepaired,
                 left>>

TryAgain(t) ==
  /\ pc[t] = "again"
  /\ IF state = "CONNECTED" THEN Return(t) ELSE Goto(t, "establish") /\ UNCHANGED back
  /\ UNCHANGED <<state, socket, needReconnect, logout, unrepaired, left>>

Establishing(t) ==
  CreateSocket(t) \/ ConnectSucceeds(t) \/ TryAgain(t)
-----------------------------------------------------------------------------
(***************************************************************************)
(* RecvPacketThread of connection c.                                       *)
(***************************************************************************)
\* WSAEventSelect for the socket that gsd holds by now.  It can be written to.
Register(c) ==
  /\ pc[Event(c)] = "register"
  /\ IF sd \in open
     THEN /\ watcher' = [watcher EXCEPT ![sd] = c]
          /\ signalled' = signalled \cup {c}
          /\ events' = [events EXCEPT ![sd] = {"READ"} \cup (IF sd \in lost THEN {"CLOSE"} ELSE {})]
     ELSE UNCHANGED <<watcher, signalled, events>>
  /\ Goto(Event(c), "loop")
  /\ UNCHANGED <<state, sd, open, joined, lost, needReconnect, back, logout, unrepaired, left>>

TestState(c) ==
  /\ pc[Event(c)] = "loop"
  /\ IF state = "CONNECTED" THEN Goto(Event(c), "wait") /\ UNCHANGED back
                            ELSE Call(Event(c), "check", "done")
  /\ UNCHANGED <<state, socket, needReconnect, logout, unrepaired, left>>

\* Wrong: the thread of a connection that was closed just ends.
EnumEventsOnly(c) ==
  /\ pc[Event(c)] = "wait" /\ c \in signalled
  /\ signalled' = signalled \ {c}
  /\ Goto(Event(c), IF sd \notin open \/ "CLOSE" \in events[sd] THEN "done"
                    ELSE IF events[sd] = {} THEN "loop" ELSE "serve")
  /\ events' = [d \in Connections |-> IF d = sd THEN {} ELSE events[d]]
  /\ UNCHANGED <<state, sd, open, joined, lost, watcher, needReconnect, back, logout,
                 unrepaired, left>>

EnumEvents(c) ==
  /\ pc[Event(c)] = "wait" /\ c \in signalled
  /\ signalled' = signalled \ {c}
  /\ IF sd \notin open \/ "CLOSE" \in events[sd]
     THEN Call(Event(c), "check", "done")
     ELSE Goto(Event(c), IF events[sd] = {} THEN "loop" ELSE "serve") /\ UNCHANGED back
  /\ events' = [d \in Connections |-> IF d = sd THEN {} ELSE events[d]]
  /\ UNCHANGED <<state, sd, open, joined, lost, watcher, needReconnect, logout, unrepaired, left>>

\* RecvToBuffer and SendFromBuffer,
Serve(c) ==
  /\ pc[Event(c)] = "serve"
  /\ Goto(Event(c), "loop")
  /\ UNCHANGED <<state, socket, needReconnect, back, logout, unrepaired, left>>

\* which may find the connection broken.
ServeFails(c) ==
  /\ pc[Event(c)] = "serve"
  /\ sd \notin joined \/ sd \in lost
  /\ state' = "ERROR"
  /\ Goto(Event(c), "loop")
  /\ UNCHANGED <<socket, needReconnect, back, logout, unrepaired, left>>

EventThread(c) == Register(c) \/ TestState(c) \/ EnumEvents(c) \/ Serve(c) \/ ServeFails(c)

(***************************************************************************)
(* PingAction of connection c.                                             *)
(***************************************************************************)
PingLoop(c) ==
  /\ pc[Ping(c)] = "loop"
  /\ Goto(Ping(c), IF state = "CONNECTED" THEN "sleep" ELSE "done")
  /\ UNCHANGED <<state, socket, needReconnect, back, logout, unrepaired, left>>

PingSends(c) ==
  /\ pc[Ping(c)] = "sleep"
  /\ IF c \in left.pingFails THEN Send(Ping(c), "loop") ELSE Goto(Ping(c), "loop") /\ UNCHANGED back
  /\ UNCHANGED <<state, socket, needReconnect, logout, unrepaired, left>>
-----------------------------------------------------------------------------
(***************************************************************************)
(* DoMain.                                                                 *)
(***************************************************************************)
Start ==
  /\ pc[Main] = "start"
  /\ Call(Main, "establish", "begin")
  /\ UNCHANGED <<state, socket, needReconnect, logout, unrepaired, left>>

\* Only now may a lost connection be repaired.
Begin ==
  /\ pc[Main] = "begin"
  /\ needReconnect' = TRUE
  /\ Goto(Main, "login")
  /\ UNCHANGED <<state, socket, back, logout, unrepaired, left>>

\* "... has logged in" and the request for the users; then the console.
LogIn ==
  /\ pc[Main] = "login"
  /\ Send(Main, "users")
  /\ UNCHANGED <<state, socket, needReconnect, logout, unrepaired, left>>

AskUsers ==
  /\ pc[Main] = "users"
  /\ Send(Main, "console")
  /\ UNCHANGED <<state, socket, needReconnect, logout, unrepaired, left>>

StartConsole ==
  /\ pc[Main] = "console"
  /\ pc' = [pc EXCEPT ![Main] = "capture", ![Console] = "idle"]
  /\ UNCHANGED <<state, socket, needReconnect, back, logout, unrepaired, left>>

\* The capture loop; a frame is sent "while (gsd.state != STATE_CONNECTED)".
CaptureFrame ==
  /\ pc[Main] = "capture" /\ needReconnect
  /\ Goto(Main, "send")
  /\ UNCHANGED <<state, socket, needReconnect, back, logout, unrepaired, left>>

StopCapturing ==
  /\ pc[Main] = "capture" /\ ~needReconnect
  /\ Goto(Main, "done")
  /\ UNCHANGED <<state, socket, needReconnect, back, logout, unrepaired, left>>

SendFrame ==
  /\ pc[Main] = "send"
  /\ Send(Main, "test")
  /\ UNCHANGED <<state, socket, needReconnect, logout, unrepaired, left>>

TestConnected ==
  /\ pc[Main] = "test"
  /\ Goto(Main, IF state = "CONNECTED" THEN "capture" ELSE "send")
  /\ UNCHANGED <<state, socket, needReconnect, back, logout, unrepaired, left>>

DoMain ==
  Start \/ Begin \/ LogIn \/ AskUsers \/ StartConsole \/ StopCapturing \/ SendFrame \/ TestConnected

(***************************************************************************)
(* ConsoleSender: a line of chat or /users, or /logout.                    *)
(***************************************************************************)
TypeLine ==
  /\ pc[Console] = "idle" /\ left.lines > 0
  /\ left' = [left EXCEPT !.lines = @ - 1]
  /\ Send(Console, "idle")
  /\ UNCHANGED <<state, socket, needReconnect, logout, unrepaired>>

LogOut ==
  /\ pc[Console] = "idle" /\ left.lines > 0
  /\ left' = [left EXCEPT !.lines = @ - 1]
  /\ logout' = TRUE /\ needReconnect' = FALSE
  /\ Send(Console, "bye")
  /\ UNCHANGED <<state, socket, unrepaired>>

Disconnect ==
  /\ pc[Console] = "bye"
  /\ Call(Console, "check", "done")
  /\ UNCHANGED <<state, socket, needReconnect, logout, unrepaired, left>>
-----------------------------------------------------------------------------
\* The server sends, or a connection ends.
Notify(c, what) ==
  /\ events' = [events EXCEPT ![c] = @ \cup {what}]
  /\ signalled' = IF watcher[c] = c /\ pc[Event(c)] = "register"
                  THEN signalled ELSE signalled \cup {watcher[c]}
  /\ UNCHANGED <<state, sd, open, joined, watcher, needReconnect, pc, back, logout, unrepaired>>

DataArrives(c) ==
  /\ c \in joined \ lost /\ events[c] = {} /\ left.data > 0
  /\ left' = [left EXCEPT !.data = @ - 1]
  /\ Notify(c, "READ")
  /\ UNCHANGED lost

ConnectionEnds(c) ==
  /\ c \in joined \ lost /\ left.losses > 0
  /\ left' = [left EXCEPT !.losses = @ - 1]
  /\ lost' = lost \cup {c}
  /\ Notify(c, "CLOSE")

Next ==
  \/ \E t \in Threads :
       SendSucceeds(t) \/ SendFails(t) \/ Closing(t) \/ Establishing(t) \/ ConnectFails(t)
  \/ \E c \in Connections :
       EventThread(c) \/ PingLoop(c) \/ PingSends(c) \/ DataArrives(c) \/ ConnectionEnds(c)
  \/ DoMain \/ CaptureFrame \/ TypeLine \/ LogOut \/ Disconnect

Spec == Init /\ [][Next]_vars

\* Every thread is scheduled; a line and a frame come or do not come.
Runs(t) ==
  \/ SendSucceeds(t) \/ SendFails(t) \/ Closing(t) \/ Establishing(t) \/ ConnectFails(t)

Fairness ==
  /\ \A t \in Threads : WF_vars(Runs(t))
  /\ \A c \in Connections :
       WF_vars(EventThread(c)) /\ WF_vars(PingLoop(c)) /\ WF_vars(PingSends(c))
  /\ WF_vars(DoMain) /\ WF_vars(Disconnect)

FairSpec == Spec /\ Fairness
-----------------------------------------------------------------------------
(***************************************************************************)
(* "To quit, enter /logout" (tunnel-client.cpp 407): once the user has     *)
(* done so, DoMain returns.                                                *)
(***************************************************************************)
LogoutEnds == logout ~> pc[Main] = "done"

(***************************************************************************)
(* A frame that was captured leaves packet_handler, whatever becomes of    *)
(* the connection meanwhile: some thread or other connects again.  Not     *)
(* after /logout, and not when the connection ended before DoMain had set  *)
(* needReconnect: then nobody does.                                        *)
(***************************************************************************)
Exhausted == \A c \in Connections : ~Unused(c)

FrameLeaves ==
  pc[Main] \in {"send", "test"}
    ~> (pc[Main] = "capture" \/ logout \/ unrepaired \/ Exhausted)

(***************************************************************************)
(* A client that is CONNECTED is served: somebody waits for the events of  *)
(* the socket it holds, or is about to.                                    *)
(***************************************************************************)
ConnectedIsServed ==
  state = "CONNECTED" /\ sd \in open =>
    pc[Event(sd)] = "register" \/ pc[Event(watcher[sd])] \notin {"none", "done"}
=============================================================================
