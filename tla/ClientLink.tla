----------------------------- MODULE ClientLink -----------------------------
(***************************************************************************)
(* The client's one connection to the arena server, gsd, and the threads   *)
(* that open, lose, reopen and close it: the user's thread in OpenConnect  *)
(* and CloseConnect (tunnel-client.cpp 542-623), the SocketEventHandler    *)
(* and PingAction threads of every connection there has been               *)
(* (tunnel-common.cpp 615-690), and the reconnect loop of doClientClose    *)
(* (tunnel-client.cpp 1316-1336), which runs in whichever of these threads *)
(* called CloseConnection.                                                 *)
(*                                                                         *)
(* Every one of them reads gsd.sd when it needs a socket, so that it may   *)
(* connect, register for, ask about or close the socket of another.        *)
(* WinSock events are modelled as far as the code depends on that: a       *)
(* socket records its network events, tells them to the event object that  *)
(* was registered for it last, and WSAEnumNetworkEvents takes the events   *)
(* of the socket it is given.                                              *)
(***************************************************************************)
EXTENDS Integers, FiniteSets

CONSTANTS
  MaxConnections, \* bound: sockets that are in use at a time
  Courses         \* what may happen, one of these: how many connections the
                  \* server or a number check closes, how many commands the
                  \* user types, the first one /connect, what else ("refuse"
                  \* if connect() may fail, "talk" if the server sends
                  \* anything), and whose ping threads may meet a failing send()

Connections == 1 .. MaxConnections

Course ==
  [losses : Nat, commands : Nat, may : SUBSET {"refuse", "talk"}, pingFails : SUBSET Connections]

ASSUME ClientLinkAssumption ==
  /\ MaxConnections \in Nat \ {0}
  /\ Courses \subseteq Course

None == 0

User == <<0, "user">>
Event(c) == <<c, "event">>
Ping(c) == <<c, "ping">>
EventThreads == Connections \X {"event"}
PingThreads == Connections \X {"ping"}
Threads == EventThreads \cup PingThreads \cup {User}

VARIABLES
  state,         \* gsd.state
  sd,            \* gsd.sd
  open,          \* client sockets not closed
  joined,        \* those that connect() has succeeded for
  lost,          \* those among them that the server has closed
  watcher,       \* the connection whose event thread is told of a socket's events
  events,        \* the network events recorded for each socket
  signalled,     \* the connections whose event object is signalled
  losses,        \* how often a connection was lost
  needReconnect, clientStatus,
  pc,
  back,          \* where a thread goes on after CloseConnection
  command,       \* the last command of the user: "none", "connect", "close"
  typed,         \* how many commands there have been
  course         \* what may happen

sock == <<sd, open, joined, lost, watcher, events, signalled>>
flags == <<needReconnect, clientStatus>>
user == <<command, typed, course>>
vars == <<state, sock, flags, pc, back, user, losses>>

Steps == {"none", "idle", "loop", "wait", "recv", "sleep", "check", "socket", "close",
          "establish", "connect", "started", "again", "closed", "opening",
          "opened", "refused", "register", "done"}

TypeOK ==
  /\ state \in {"IDOL", "WAITTOCONNECT", "CONNECTED", "ERROR"}
  /\ sd \in Connections \cup {None}
  /\ open \in SUBSET Connections /\ joined \in SUBSET open /\ lost \in SUBSET Connections
  /\ watcher \in [Connections -> Connections]
  /\ events \in [Connections -> SUBSET {"DATA", "CLOSE"}]
  /\ signalled \in SUBSET Connections
  /\ losses \in 0 .. course.losses
  /\ needReconnect \in BOOLEAN
  /\ clientStatus \in 0 .. 2
  /\ pc \in [Threads -> Steps]
  /\ back \in [Threads -> Steps]
  /\ command \in {"none", "connect", "close"}
  /\ typed \in 0 .. course.commands
  /\ course \in Course

Init ==
  /\ state = "IDOL"
  /\ sd = None /\ open = {} /\ joined = {} /\ lost = {} /\ losses = 0
  /\ watcher = [c \in Connections |-> c]
  /\ events = [c \in Connections |-> {}]
  /\ signalled = {}
  /\ needReconnect = FALSE /\ clientStatus = 0
  /\ pc = [t \in Threads |-> IF t = User THEN "idle" ELSE "none"]
  /\ back = [t \in Threads |-> "done"]
  /\ command = "none" /\ typed = 0
  /\ course \in Courses

Goto(t, step) == pc' = [pc EXCEPT ![t] = step]
-----------------------------------------------------------------------------
\* Wrong: the thread goes on without CloseConnection.
CallNothing(t, next) == Goto(t, next) /\ UNCHANGED back

(***************************************************************************)
(* CloseConnection(&gsd) in thread t, which goes on at next.               *)
(***************************************************************************)
CallClose(t, next) ==
  /\ Goto(t, "check")
  /\ back' = [back EXCEPT ![t] = next]

Return(t) ==
  /\ Goto(t, back[t])
  /\ back' = [back EXCEPT ![t] = "done"]

CheckIdol(t) ==
  /\ pc[t] = "check"
  /\ IF state = "IDOL" THEN Return(t) ELSE Goto(t, "socket") /\ UNCHANGED back
  /\ UNCHANGED <<state, sock, flags, user, losses>>

\* closesocket takes the event object off the socket.
CloseSocket(t) ==
  /\ pc[t] = "socket"
  /\ open' = open \ {sd} /\ joined' = joined \ {sd}
  /\ events' = [c \in Connections |-> IF c = sd THEN {} ELSE events[c]]
  /\ Goto(t, "close")
  /\ UNCHANGED <<state, sd, lost, watcher, signalled, flags, back, user, losses>>

\* STATE_IDOL, then doClientClose looks at needReconnect.
CallDoClose(t) ==
  /\ pc[t] = "close"
  /\ state' = "IDOL"
  /\ IF needReconnect THEN Goto(t, "establish") /\ UNCHANGED back ELSE Return(t)
  /\ UNCHANGED <<sock, flags, user, losses>>
-----------------------------------------------------------------------------
(***************************************************************************)
(* EstablishConnection(&gsd): InitConnection and socket(), then connect(). *)
(* The same steps serve the reconnect loop of doClientClose, which tries   *)
(* again until gsd is CONNECTED, and OpenConnect, which does not.          *)
(***************************************************************************)
Opening(t) == t = User /\ command = "connect"

\* A socket that nothing refers to any more: its threads have ended or wait
\* for an event that cannot come.  Its number serves again.
Unused(c) ==
  /\ c \notin joined
  /\ pc[Ping(c)] \in {"none", "done"}
  /\ pc[Event(c)] \in {"none", "done"} \/ (pc[Event(c)] = "wait" /\ c \notin signalled)
  /\ \A d \in open : d # c => watcher[d] # c

\* InitConnection, and a new socket in gsd.sd that is to be connected.
CreateSocket(t) ==
  /\ pc[t] = "establish"
  /\ \E c \in Connections :
       /\ Unused(c) /\ \A d \in Connections : Unused(d) => c <= d
       /\ sd' = c /\ open' = open \cup {c} /\ lost' = lost \ {c}
       /\ watcher' = [watcher EXCEPT ![c] = c]
       /\ events' = [events EXCEPT ![c] = {}]
       /\ signalled' = signalled \ {c}
       /\ pc' = [u \in Threads |-> IF u = t THEN "connect"
                                   ELSE IF u \in {Event(c), Ping(c)} THEN "none" ELSE pc[u]]
  /\ state' = "WAITTOCONNECT"
  /\ UNCHANGED <<joined, flags, back, user, losses>>

\* connect(gsd.sd), which another thread may have closed, connected, given up
\* or replaced since.
Joinable == sd \in open \ joined

Refused == ~Joinable \/ "refuse" \in course.may

\* Wrong: the reconnect loop gives up when connect() fails.
ConnectGivesUp(t) ==
  /\ pc[t] = "connect"
  /\ Refused
  /\ sd' = None
  /\ IF Opening(t) THEN Goto(t, "refused") /\ UNCHANGED back ELSE Return(t)
  /\ UNCHANGED <<state, open, joined, lost, watcher, events, signalled, flags, user, losses>>

\* gsd.sd is given up, whosever socket it is by now.
ConnectFails(t) ==
  /\ pc[t] = "connect"
  /\ Refused
  /\ sd' = None
  /\ Goto(t, IF Opening(t) THEN "refused" ELSE "again")
  /\ UNCHANGED <<state, open, joined, lost, watcher, events, signalled, flags, back, user, losses>>

\* StartConnection: STATE_CONNECTED and the two threads.
ConnectSucceeds(t) ==
  /\ pc[t] = "connect"
  /\ Joinable
  /\ joined' = joined \cup {sd}
  /\ state' = "CONNECTED"
  /\ pc' = [u \in Threads |-> IF u = t THEN "started"
                              ELSE IF u = Event(sd) THEN "register"
                              ELSE IF u = Ping(sd) THEN "loop" ELSE pc[u]]
  /\ UNCHANGED <<sd, open, lost, watcher, events, signalled, flags, back, user, losses>>

\* doClientConnect.
CallDoConnect(t) ==
  /\ pc[t] = "started"
  /\ needReconnect' = TRUE
  /\ clientStatus' = 2
  /\ Goto(t, IF Opening(t) THEN "opened" ELSE "again")
  /\ UNCHANGED <<state, sock, back, user, losses>>

\* The end of the reconnect loop's body.
TryAgain(t) ==
  /\ pc[t] = "again"
  /\ IF state = "CONNECTED" THEN Return(t) ELSE Goto(t, "establish") /\ UNCHANGED back
  /\ UNCHANGED <<state, sock, flags, user, losses>>
-----------------------------------------------------------------------------
(***************************************************************************)
(* SocketEventHandler of connection c.                                     *)
(***************************************************************************)
\* WSAEventSelect for the socket that gsd holds by now.  It can be written to.
Register(c) ==
  /\ pc[Event(c)] = "register"
  /\ IF sd \in open
     THEN /\ watcher' = [watcher EXCEPT ![sd] = c]
          /\ events' = [events EXCEPT ![sd] = {"DATA"} \cup (IF sd \in lost THEN {"CLOSE"} ELSE {})]
          /\ signalled' = signalled \cup {c}
     ELSE UNCHANGED <<watcher, events, signalled>>
  /\ Goto(Event(c), "loop")
  /\ UNCHANGED <<state, sd, open, joined, lost, flags, back, user, losses>>

TestState(c) ==
  /\ pc[Event(c)] = "loop"
  /\ IF state = "CONNECTED" THEN Goto(Event(c), "wait") /\ UNCHANGED back
                            ELSE CallClose(Event(c), "done")
  /\ UNCHANGED <<state, sock, flags, user, losses>>

\* WSAEnumNetworkEvents(gsd.sd, hEvent), which fails for a closed socket.
EnumEvents(c) ==
  /\ pc[Event(c)] = "wait" /\ c \in signalled
  /\ signalled' = signalled \ {c}
  /\ IF sd \notin open \/ "CLOSE" \in events[sd]
     THEN CallClose(Event(c), "done")
     ELSE Goto(Event(c), IF events[sd] = {} THEN "loop" ELSE "recv") /\ UNCHANGED back
  /\ events' = [d \in Connections |-> IF d = sd THEN {} ELSE events[d]]
  /\ UNCHANGED <<state, sd, open, joined, lost, watcher, flags, user, losses>>

\* RecvToBuffer and SendFromBuffer: all is well,
ReceiveData(c) ==
  /\ pc[Event(c)] = "recv"
  /\ Goto(Event(c), "loop")
  /\ UNCHANGED <<state, sock, flags, back, user, losses>>

\* or the socket fails,
ReceiveFails(c) ==
  /\ pc[Event(c)] = "recv"
  /\ sd \notin joined \/ sd \in lost
  /\ state' = "ERROR"
  /\ Goto(Event(c), "loop")
  /\ UNCHANGED <<sock, flags, back, user, losses>>

\* or a command is out of order and RecvCommand closes the connection.
ReceiveRejects(c) ==
  /\ pc[Event(c)] = "recv"
  /\ losses < course.losses
  /\ losses' = losses + 1
  /\ state = "CONNECTED"
  /\ CallClose(Event(c), "loop")
  /\ UNCHANGED <<state, sock, flags, user>>

EventThread(c) ==
  \/ Register(c) \/ TestState(c) \/ EnumEvents(c)
  \/ ReceiveData(c) \/ ReceiveFails(c) \/ ReceiveRejects(c)
-----------------------------------------------------------------------------
(***************************************************************************)
(* PingAction of connection c.                                             *)
(***************************************************************************)
PingLoop(c) ==
  /\ pc[Ping(c)] = "loop"
  /\ Goto(Ping(c), IF state = "CONNECTED" THEN "sleep" ELSE "done")
  /\ UNCHANGED <<state, sock, flags, back, user, losses>>

PingSent(c) ==
  /\ pc[Ping(c)] = "sleep"
  /\ Goto(Ping(c), "loop")
  /\ UNCHANGED <<state, sock, flags, back, user, losses>>

SendFails(c) ==
  /\ c \in course.pingFails
  /\ pc[Ping(c)] = "sleep"
  /\ state = "CONNECTED"
  /\ sd \notin joined \/ sd \in lost
  /\ state' = "ERROR"
  /\ CallClose(Ping(c), "loop")
  /\ UNCHANGED <<sock, flags, user, losses>>

PingThread(c) == PingLoop(c) \/ PingSent(c) \/ SendFails(c)
-----------------------------------------------------------------------------
(***************************************************************************)
(* The user's commands /connect and /close.                                *)
(***************************************************************************)
\* CloseConnect as a command, or as the first thing OpenConnect does.
BeginCloseConnect(word, next) ==
  /\ typed < course.commands
  /\ typed' = typed + 1
  /\ command' = word
  /\ IF clientStatus > 1
     THEN needReconnect' = FALSE /\ CallClose(User, next)
     ELSE UNCHANGED <<needReconnect, back>> /\ Goto(User, next)

Close ==
  /\ pc[User] = "idle"
  /\ command # "none"
  /\ BeginCloseConnect("close", "closed")
  /\ UNCHANGED <<state, sock, clientStatus, losses, course>>

\* Wrong: the command waits for the threads of the connection to end.
EndCloseJoins ==
  /\ pc[User] = "closed"
  /\ \A c \in Connections : pc[Event(c)] \in {"none", "done"}
  /\ clientStatus' = 0
  /\ Goto(User, "idle")
  /\ UNCHANGED <<state, sock, needReconnect, back, user, losses>>

EndClose ==
  /\ pc[User] = "closed"
  /\ clientStatus' = 0
  /\ Goto(User, "idle")
  /\ UNCHANGED <<state, sock, needReconnect, back, user, losses>>

\* OpenConnect closes an open connection first, then sets clientStatus to 1.
Open ==
  /\ pc[User] = "idle"
  /\ BeginCloseConnect("connect", "opening")
  /\ UNCHANGED <<state, sock, clientStatus, losses, course>>

Establish ==
  /\ pc[User] = "opening"
  /\ clientStatus' = 1
  /\ Goto(User, "establish")
  /\ UNCHANGED <<state, sock, needReconnect, back, user, losses>>

EndOpen ==
  /\ pc[User] \in {"opened", "refused"}
  /\ clientStatus' = IF pc[User] = "opened" THEN 2 ELSE 0
  /\ Goto(User, "idle")
  /\ UNCHANGED <<state, sock, needReconnect, back, user, losses>>

UserThread == EndClose \/ Establish \/ EndOpen
-----------------------------------------------------------------------------
(***************************************************************************)
(* The server sends, or closes a connection.                               *)
(***************************************************************************)
Notify(c, event) ==
  /\ events' = [events EXCEPT ![c] = @ \cup {event}]
  /\ signalled' = IF watcher[c] = c /\ pc[Event(c)] = "register"
                  THEN signalled ELSE signalled \cup {watcher[c]}
  /\ UNCHANGED <<state, sd, open, joined, watcher, flags, pc, back, user>>

DataArrives(c) ==
  /\ "talk" \in course.may
  /\ c \in joined \ lost /\ events[c] = {}
  /\ Notify(c, "DATA")
  /\ UNCHANGED <<lost, losses>>

ServerCloses(c) ==
  /\ c \in joined \ lost
  /\ losses < course.losses
  /\ losses' = losses + 1
  /\ lost' = lost \cup {c}
  /\ Notify(c, "CLOSE")

Closing(t) == CheckIdol(t) \/ CloseSocket(t) \/ CallDoClose(t)

Establishing(t) ==
  CreateSocket(t) \/ ConnectSucceeds(t) \/ CallDoConnect(t) \/ TryAgain(t)

Next ==
  \/ \E t \in Threads : Closing(t) \/ Establishing(t) \/ ConnectFails(t)
  \/ \E c \in Connections :
       EventThread(c) \/ PingThread(c) \/ DataArrives(c) \/ ServerCloses(c)
  \/ Open \/ Close \/ UserThread

Spec == Init /\ [][Next]_vars

(***************************************************************************)
(* Every thread is scheduled; a server that is asked again and again       *)
(* accepts in the end.                                                     *)
(***************************************************************************)
Fairness ==
  /\ \A t \in Threads : WF_vars(Closing(t) \/ Establishing(t) \/ ConnectFails(t))
  /\ \A t \in Threads : SF_vars(ConnectSucceeds(t))
  /\ \A c \in Connections : WF_vars(EventThread(c)) /\ WF_vars(PingThread(c))
  /\ WF_vars(UserThread)

FairSpec == Spec /\ Fairness
-----------------------------------------------------------------------------
(***************************************************************************)
(* "There 's no reason to compete, because there is only one receiver      *)
(* thread" (tunnel-common.cpp 490): never are two threads inside           *)
(* RecvToBuffer of gsd.                                                    *)
(***************************************************************************)
OneReceiver == Cardinality({c \in Connections : pc[Event(c)] = "recv"}) <= 1

(***************************************************************************)
(* "/close   Disconnected from the (arena) server" (tunnel-client.cpp      *)
(* 1381): once the command has returned, the client does not become        *)
(* connected before the next /connect.                                     *)
(***************************************************************************)
CloseDisconnects ==
  command = "close" /\ pc[User] = "idle" => state # "CONNECTED"

(***************************************************************************)
(* "I reconnect" (tunnel-client.cpp 1325): a user who has connected and    *)
(* typed nothing since is connected again after every loss.                *)
(***************************************************************************)
Lost == needReconnect /\ pc[User] = "idle" /\ command = "connect"

StaysConnected == Lost ~> (state = "CONNECTED" \/ pc[User] # "idle")

(***************************************************************************)
(* The reconnect loop of doClientClose gets the client connected, whatever *)
(* the other threads do to gsd meanwhile.  Exhausted is the bound: every   *)
(* connection the instance has is in use.                                  *)
(***************************************************************************)
Exhausted == \A c \in Connections : ~Unused(c)

Reconnecting(t) == pc[t] \in {"establish", "connect", "started", "again"}

LoopReconnects ==
  (\E t \in EventThreads \cup PingThreads : Reconnecting(t))
    ~> (state = "CONNECTED" \/ pc[User] # "idle" \/ Exhausted)

(***************************************************************************)
(* A client that says it is connected holds a socket.  A failing           *)
(* EstablishConnection gives up gsd.sd (tunnel-common.cpp 715), which may  *)
(* be the socket that another thread has connected meanwhile.              *)
(***************************************************************************)
ConnectedHasSocket == state = "CONNECTED" => sd # None

(***************************************************************************)
(* A client that says it is connected is served: an event thread waits for *)
(* the events of the socket it holds, or is about to register for it,      *)
(* whichever threads closed and reopened gsd at the same time and although *)
(* they connect, and register for, each other's sockets.  And somebody     *)
(* pings: that is how a client that has given up its socket, or waits for  *)
(* a server that has gone, finds out.                                      *)
(***************************************************************************)
ConnectedIsServed ==
  state = "CONNECTED" =>
    /\ sd \in open =>
         pc[Event(sd)] = "register" \/ pc[Event(watcher[sd])] \notin {"none", "done"}
    /\ \E c \in Connections : pc[Ping(c)] \in {"loop", "sleep"}

(***************************************************************************)
(* A command of the user returns, also when its own CloseConnection is     *)
(* caught in the reconnect loop because another thread has just set        *)
(* needReconnect: it runs in the thread of the user interface.             *)
(***************************************************************************)
CommandsReturn == pc[User] # "idle" ~> (pc[User] = "idle" \/ Exhausted)
=============================================================================
