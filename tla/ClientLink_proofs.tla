-------------------------- MODULE ClientLink_proofs -------------------------
(***************************************************************************)
(* The client's connection, for any number of connections, of losses and   *)
(* of commands: while gsd is CONNECTED somebody waits for the events of    *)
(* the socket it holds, and somebody pings.                                *)
(***************************************************************************)
EXTENDS ClientLink, TLAPS

LEMMA ThreadsDiffer ==
  /\ User \in Threads
  /\ \A c \in Connections : /\ Event(c) \in Threads /\ Ping(c) \in Threads
                            /\ Event(c) # User /\ Ping(c) # User
  /\ \A c, d \in Connections : /\ Event(c) # Ping(d)
                               /\ Event(c) = Event(d) => c = d
                               /\ Ping(c) = Ping(d) => c = d
BY DEF Threads, User, Event, Ping, EventThreads, PingThreads, Connections

(***************************************************************************)
(* The inductive invariant.  A socket that is not connected yet has no     *)
(* threads, so that the threads that connect() starts are new ones.  Since *)
(* then gsd has been CONNECTED without a break, as every other connect()   *)
(* is preceded by STATE_WAITTOCONNECT; therefore the thread that watches   *)
(* the socket is in its loop, or is closing that very socket, and the      *)
(* thread that pings has met no failure.                                   *)
(***************************************************************************)
NotStarted ==
  \A c \in open \ joined : pc[Event(c)] = "none" /\ pc[Ping(c)] = "none"

Watching == {"loop", "wait", "recv", "check", "socket"}

Watched ==
  state = "CONNECTED" /\ sd \in open =>
    pc[Event(sd)] = "register" \/ pc[Event(watcher[sd])] \in Watching

Pinged == state = "CONNECTED" => \E c \in Connections : pc[Ping(c)] \in {"loop", "sleep"}

LinkInv == TypeOK /\ NotStarted /\ Watched /\ Pinged

Sockets ==
  /\ state \in {"IDOL", "WAITTOCONNECT", "CONNECTED", "ERROR"}
  /\ sd \in Connections \cup {None}
  /\ open \in SUBSET Connections /\ joined \in SUBSET open /\ lost \in SUBSET Connections
  /\ watcher \in [Connections -> Connections]
  /\ events \in [Connections -> SUBSET {"DATA", "CLOSE"}]
  /\ signalled \in SUBSET Connections

Counts ==
  /\ losses \in 0 .. course.losses
  /\ needReconnect \in BOOLEAN /\ clientStatus \in 0 .. 2
  /\ command \in {"none", "connect", "close"}
  /\ typed \in 0 .. course.commands
  /\ course \in Course

Places == pc \in [Threads -> Steps] /\ back \in [Threads -> Steps]

LEMMA TypeParts == TypeOK <=> Sockets /\ Counts /\ Places
BY DEF TypeOK, Sockets, Counts, Places

LEMMA Initially == Init => LinkInv
<1> SUFFICES ASSUME Init PROVE LinkInv
  OBVIOUS
<1>1. TypeOK
  <2>1. course \in Course
    BY ClientLinkAssumption DEF Init
  <2>2. losses \in 0 .. course.losses /\ typed \in 0 .. course.commands
    BY <2>1 DEF Init, Course
  <2>3. pc \in [Threads -> Steps] /\ back \in [Threads -> Steps]
    BY DEF Init, Steps
  <2>4. /\ state = "IDOL" /\ sd = None /\ open = {} /\ joined = {} /\ lost = {} /\ signalled = {}
        /\ events \in [Connections -> SUBSET {"DATA", "CLOSE"}]
        /\ watcher \in [Connections -> Connections]
    BY DEF Init
  <2>5. needReconnect = FALSE /\ clientStatus = 0 /\ command = "none"
    BY DEF Init
  <2>6. Sockets
    BY <2>4 DEF Sockets
  <2>7. /\ needReconnect \in BOOLEAN /\ clientStatus \in 0 .. 2
        /\ command \in {"none", "connect", "close"}
    <3>1. 0 \in 0 .. 2
      BY SMT
    <3>2. QED
      BY <2>5, <3>1, Zenon
  <2>8. Counts
    BY <2>1, <2>2, <2>7 DEF Counts
  <2>9. Places
    BY <2>3 DEF Places
  <2>10. QED
    BY <2>6, <2>8, <2>9, TypeParts
<1>2. NotStarted /\ Watched /\ Pinged
  BY DEF Init, NotStarted, Watched, Pinged
<1>3. QED
  BY <1>1, <1>2 DEF LinkInv

(***************************************************************************)
(* Types, for the steps of CloseConnection and EstablishConnection, which  *)
(* any thread may take; of the threads of a connection; of the user; and   *)
(* of the server.                                                          *)
(***************************************************************************)
LEMMA CallTypes ==
  ASSUME Sockets, Counts, Places, NEW t \in Threads,
         Closing(t) \/ Establishing(t) \/ ConnectFails(t)
  PROVE  Sockets' /\ Counts' /\ Places'
<1>1. Sockets'
  <2>1. CASE Closing(t)
    BY <2>1 DEF Closing, CheckIdol, CloseSocket, CallDoClose, Sockets, sock
  <2>2. CASE ConnectSucceeds(t)
    BY <2>2 DEF ConnectSucceeds, Joinable, Sockets
  <2>3. CASE CreateSocket(t) \/ CallDoConnect(t) \/ TryAgain(t) \/ ConnectFails(t)
    BY <2>3 DEF CreateSocket, CallDoConnect, TryAgain, ConnectFails, Sockets, sock
  <2>4. QED
    BY <2>1, <2>2, <2>3 DEF Establishing
<1>2. Counts'
  <2>1. UNCHANGED <<losses, command, typed, course>>
    BY DEF Closing, CheckIdol, CloseSocket, CallDoClose, Establishing, CreateSocket,
           ConnectSucceeds, CallDoConnect, TryAgain, ConnectFails, user
  <2>2. needReconnect' \in BOOLEAN /\ clientStatus' \in 0 .. 2
    <3>1. CASE CallDoConnect(t)
      BY <3>1 DEF CallDoConnect
    <3>2. CASE ~CallDoConnect(t)
      BY <3>2 DEF Closing, CheckIdol, CloseSocket, CallDoClose, Establishing, CreateSocket,
                  ConnectSucceeds, TryAgain, ConnectFails, Counts, flags
    <3>3. QED
      BY <3>1, <3>2
  <2>3. QED
    BY <2>1, <2>2 DEF Counts
<1>3. Places'
  <2>1. CASE Closing(t)
    BY <2>1 DEF Closing, CheckIdol, CloseSocket, CallDoClose, Goto, Return, Places, Steps
  <2>2. CASE ConnectSucceeds(t)
    BY <2>2 DEF ConnectSucceeds, Places, Steps, user
  <2>3. CASE CreateSocket(t) \/ CallDoConnect(t) \/ TryAgain(t) \/ ConnectFails(t)
    BY <2>3 DEF CreateSocket, CallDoConnect, TryAgain, ConnectFails, Goto, Return, Places, Steps
  <2>4. QED
    BY <2>1, <2>2, <2>3 DEF Establishing
<1>4. QED
  BY <1>1, <1>2, <1>3

LEMMA ConnectionTypes ==
  ASSUME Sockets, Counts, Places, NEW c \in Connections,
         EventThread(c) \/ PingThread(c) \/ DataArrives(c) \/ ServerCloses(c)
  PROVE  Sockets' /\ Counts' /\ Places'
<1>1. Sockets'
  <2>1. CASE EventThread(c) \/ PingThread(c)
    BY <2>1 DEF EventThread, Register, TestState, EnumEvents, ReceiveData, ReceiveFails, ReceiveRejects,
                PingThread, PingLoop, PingSent, SendFails, Sockets, sock
  <2>2. CASE DataArrives(c) \/ ServerCloses(c)
    <3>1. Notify(c, "DATA") \/ Notify(c, "CLOSE")
      BY <2>2 DEF DataArrives, ServerCloses
    <3>2. lost' \in SUBSET Connections
      BY <2>2 DEF DataArrives, ServerCloses, Sockets
    <3>3. events' \in [Connections -> SUBSET {"DATA", "CLOSE"}]
      BY <3>1 DEF Notify, Sockets
    <3>4. QED
      BY <3>1, <3>2, <3>3 DEF Notify, Sockets
  <2>3. QED
    BY <2>1, <2>2
<1>2. Counts'
  <2>1. UNCHANGED <<course, command, typed, needReconnect, clientStatus>>
    BY DEF EventThread, Register, TestState, EnumEvents, ReceiveData, ReceiveFails, ReceiveRejects,
           PingThread, PingLoop, PingSent, SendFails, DataArrives, ServerCloses, Notify,
           flags, user
  <2>2. losses' = losses \/ (losses < course.losses /\ losses' = losses + 1)
    BY DEF EventThread, Register, TestState, EnumEvents, ReceiveData, ReceiveFails, ReceiveRejects,
           PingThread, PingLoop, PingSent, SendFails, DataArrives, ServerCloses
  <2>3. course.losses \in Nat
    BY DEF Counts, Course
  <2>4. QED
    BY <2>1, <2>2, <2>3 DEF Counts
<1>3. Places'
  BY DEF EventThread, Register, TestState, EnumEvents, ReceiveData, ReceiveFails, ReceiveRejects,
         PingThread, PingLoop, PingSent, SendFails, DataArrives, ServerCloses, Notify,
         CallClose, Goto, Places, Steps
<1>4. QED
  BY <1>1, <1>2, <1>3

LEMMA UserTypes ==
  ASSUME Sockets, Counts, Places, Open \/ Close \/ UserThread
  PROVE  Sockets' /\ Counts' /\ Places'
<1>1. Sockets'
  BY DEF Open, Close, UserThread, EndClose, Establish, EndOpen, Sockets, sock
<1>2. Counts'
  <2>1. UNCHANGED <<course, losses>>
    BY DEF Open, Close, UserThread, EndClose, Establish, EndOpen, user
  <2>2. typed' = typed \/ (typed < course.commands /\ typed' = typed + 1)
    BY DEF Open, Close, BeginCloseConnect, UserThread, EndClose, Establish, EndOpen, user
  <2>3. course.commands \in Nat
    BY DEF Counts, Course
  <2>4. /\ needReconnect' \in BOOLEAN /\ clientStatus' \in 0 .. 2
        /\ command' \in {"none", "connect", "close"}
    <3>1. CASE Open \/ Close
      BY <3>1 DEF Open, Close, BeginCloseConnect, Counts
    <3>2. CASE UserThread
      BY <3>2 DEF UserThread, EndClose, Establish, EndOpen, Counts, user
    <3>3. QED
      BY <3>1, <3>2
  <2>5. QED
    BY <2>1, <2>2, <2>3, <2>4 DEF Counts
<1>3. Places'
  BY DEF Open, Close, BeginCloseConnect, CallClose, UserThread, EndClose, Establish, EndOpen,
         Goto, Places, Steps
<1>4. QED
  BY <1>1, <1>2, <1>3

(***************************************************************************)
(* Threads start only when their socket is connected.                      *)
(***************************************************************************)
LEMMA NotStartedKept ==
  ASSUME Sockets, Places, NotStarted, Next
  PROVE  NotStarted'
<1> USE ThreadsDiffer
<1>1. ASSUME open' \ joined' \subseteq open \ joined,
             NEW t \in Threads, pc[t] # "none", \A u \in Threads : u # t => pc'[u] = pc[u]
      PROVE  NotStarted'
  <2>1. SUFFICES ASSUME NEW c \in open' \ joined'
                 PROVE  pc'[Event(c)] = "none" /\ pc'[Ping(c)] = "none"
    BY DEF NotStarted
  <2>2. c \in open \ joined /\ c \in Connections
    BY <1>1, <2>1 DEF Sockets
  <2>3. pc[Event(c)] = "none" /\ pc[Ping(c)] = "none"
    BY <2>2 DEF NotStarted
  <2>4. QED
    BY <1>1, <2>2, <2>3
<1>2. ASSUME NEW t \in Threads, Closing(t) \/ CallDoConnect(t) \/ TryAgain(t) \/ ConnectFails(t)
      PROVE  NotStarted'
  <2>1. pc[t] # "none" /\ \A u \in Threads : u # t => pc'[u] = pc[u]
    BY <1>2 DEF Closing, CheckIdol, CloseSocket, CallDoClose, CallDoConnect, TryAgain,
                ConnectFails, Places, Goto, Return
  <2>2. open' \ joined' \subseteq open \ joined
    BY <1>2 DEF Closing, CheckIdol, CloseSocket, CallDoClose, CallDoConnect, TryAgain,
                ConnectFails, sock
  <2>3. QED
    BY <1>1, <2>1, <2>2
<1>3. ASSUME NEW t \in Threads, CreateSocket(t)
      PROVE  NotStarted'
  <2>1. PICK c \in Connections :
          /\ Unused(c) /\ open' = open \cup {c}
          /\ pc' = [u \in Threads |-> IF u = t THEN "connect"
                                      ELSE IF u \in {Event(c), Ping(c)} THEN "none" ELSE pc[u]]
    BY <1>3 DEF CreateSocket
  <2>2. pc[t] = "establish" /\ joined' = joined
    BY <1>3 DEF CreateSocket
  <2>3. SUFFICES ASSUME NEW d \in open' \ joined'
                 PROVE  pc'[Event(d)] = "none" /\ pc'[Ping(d)] = "none"
    BY DEF NotStarted
  <2>4. CASE d = c
    BY <2>1, <2>2, <2>4 DEF Unused
  <2>5. CASE d # c
    <3>1. d \in open \ joined /\ d \in Connections
      BY <2>1, <2>2, <2>3, <2>5 DEF Sockets
    <3>2. pc[Event(d)] = "none" /\ pc[Ping(d)] = "none"
      BY <3>1 DEF NotStarted
    <3>3. QED
      BY <2>1, <2>2, <3>1, <3>2
  <2>6. QED
    BY <2>4, <2>5
<1>4. ASSUME NEW t \in Threads, ConnectSucceeds(t)
      PROVE  NotStarted'
  <2>1. sd \in Connections /\ open' = open /\ joined' = joined \cup {sd} /\ pc[t] = "connect"
    BY <1>4 DEF ConnectSucceeds, Joinable, Sockets
  <2>2. \A u \in Threads : u \notin {t, Event(sd), Ping(sd)} => pc'[u] = pc[u]
    BY <1>4 DEF ConnectSucceeds
  <2>3. SUFFICES ASSUME NEW d \in open' \ joined'
                 PROVE  pc'[Event(d)] = "none" /\ pc'[Ping(d)] = "none"
    BY DEF NotStarted
  <2>4. d \in open \ joined /\ d \in Connections /\ d # sd
    BY <2>1 DEF Sockets
  <2>5. pc[Event(d)] = "none" /\ pc[Ping(d)] = "none"
    BY <2>4 DEF NotStarted
  <2>6. QED
    BY <2>1, <2>2, <2>4, <2>5
<1>5. ASSUME NEW c \in Connections, EventThread(c)
      PROVE  NotStarted'
  <2>1. /\ pc[Event(c)] # "none" /\ open' = open /\ joined' = joined
        /\ \A u \in Threads : u # Event(c) => pc'[u] = pc[u]
    BY <1>5 DEF EventThread, Register, TestState, EnumEvents, ReceiveData, ReceiveFails,
                ReceiveRejects, Goto, CallClose, Places, sock
  <2>2. QED
    BY <1>1, <2>1
<1>6. ASSUME NEW c \in Connections, PingThread(c)
      PROVE  NotStarted'
  <2>1. /\ pc[Ping(c)] # "none" /\ open' = open /\ joined' = joined
        /\ \A u \in Threads : u # Ping(c) => pc'[u] = pc[u]
    BY <1>6 DEF PingThread, PingLoop, PingSent, SendFails, Goto, CallClose, Places, sock
  <2>2. QED
    BY <1>1, <2>1
<1>7. ASSUME NEW c \in Connections, DataArrives(c) \/ ServerCloses(c)
      PROVE  NotStarted'
  BY <1>7 DEF DataArrives, ServerCloses, Notify, NotStarted
<1>8. CASE Open \/ Close \/ UserThread
  <2>1. /\ pc[User] # "none" /\ open' = open /\ joined' = joined
        /\ \A u \in Threads : u # User => pc'[u] = pc[u]
    BY <1>8 DEF Open, Close, BeginCloseConnect, CallClose, UserThread, EndClose, Establish,
                EndOpen, Goto, Places, sock
  <2>2. QED
    BY <1>1, <2>1
<1>9. QED
  BY <1>2, <1>3, <1>4, <1>5, <1>6, <1>7, <1>8 DEF Next, Establishing

(***************************************************************************)
(* The event thread that watches gsd's socket, and the thread that pings.  *)
(***************************************************************************)
LEMMA WatchedKept ==
  ASSUME Sockets, Places, NotStarted, Watched, Next
  PROVE  Watched'
<1> USE ThreadsDiffer
<1>0. SUFFICES ASSUME state' = "CONNECTED", sd' \in open'
               PROVE  pc'[Event(sd')] = "register" \/ pc'[Event(watcher'[sd'])] \in Watching
  BY DEF Watched
\* A step that takes no event thread out of its loop.
<1>1. ASSUME UNCHANGED <<state, sd, open, watcher>>,
             \A c \in Connections :
               /\ pc[Event(c)] = "register" => pc'[Event(c)] = "register"
               /\ pc[Event(c)] \in Watching => pc'[Event(c)] \in Watching
      PROVE  Watched'
  <2>1. sd \in Connections /\ watcher[sd] \in Connections
    BY <1>0, <1>1 DEF Sockets
  <2>2. QED
    BY <1>0, <1>1, <2>1 DEF Watched
<1>2. ASSUME NEW t \in Threads, CheckIdol(t)
      PROVE  Watched'
  <2>1. /\ UNCHANGED <<state, sd, open, watcher>> /\ pc[t] = "check" /\ pc'[t] = "socket"
        /\ \A u \in Threads : u # t => pc'[u] = pc[u]
    BY <1>0, <1>2 DEF CheckIdol, Goto, Places, sock
  <2>2. QED
    BY <1>1, <2>1 DEF Watching
<1>3. ASSUME NEW t \in Threads, CloseSocket(t) \/ ConnectFails(t)
      PROVE  Watched'
  BY <1>0, <1>3 DEF CloseSocket, ConnectFails, Sockets, None, Connections
<1>4. ASSUME NEW t \in Threads, CallDoClose(t) \/ CreateSocket(t)
      PROVE  Watched'
  BY <1>0, <1>4 DEF CallDoClose, CreateSocket
<1>5. ASSUME NEW t \in Threads, CallDoConnect(t) \/ TryAgain(t)
      PROVE  Watched'
  <2>1. /\ UNCHANGED <<state, sd, open, watcher>> /\ pc[t] \in {"started", "again"}
        /\ \A u \in Threads : u # t => pc'[u] = pc[u]
    BY <1>5 DEF CallDoConnect, TryAgain, Return, Goto, Places, sock
  <2>2. QED
    BY <1>1, <2>1 DEF Watching
<1>6. ASSUME NEW t \in Threads, ConnectSucceeds(t)
      PROVE  Watched'
  <2>1. sd \in open \ joined /\ sd \in Connections /\ sd' = sd
    BY <1>6 DEF ConnectSucceeds, Joinable, Sockets
  <2>2. pc[t] = "connect" /\ t # Event(sd)
    BY <1>6, <2>1 DEF ConnectSucceeds, NotStarted
  <2>3. pc'[Event(sd)] = "register"
    BY <1>6, <2>1, <2>2 DEF ConnectSucceeds
  <2>4. QED
    BY <2>1, <2>3 DEF Watched
\* The event thread that registers watches gsd.sd from now on.
<1>7. ASSUME NEW c \in Connections, Register(c)
      PROVE  Watched'
  <2>1. sd' = sd /\ sd \in open /\ sd \in Connections
    BY <1>0, <1>7 DEF Register, Sockets
  <2>2. watcher'[sd] = c /\ pc'[Event(c)] = "loop"
    BY <1>7, <2>1 DEF Register, Goto, Sockets, Places
  <2>3. QED
    BY <2>1, <2>2 DEF Watched, Watching
<1>8. ASSUME NEW c \in Connections,
             TestState(c) \/ EnumEvents(c) \/ ReceiveData(c) \/ ReceiveRejects(c)
      PROVE  Watched'
  <2>1. /\ UNCHANGED <<state, sd, open, watcher>>
        /\ \A u \in Threads : u # Event(c) => pc'[u] = pc[u]
        /\ pc[Event(c)] \in Watching /\ pc'[Event(c)] \in Watching
    BY <1>0, <1>8 DEF TestState, EnumEvents, ReceiveData, ReceiveRejects, Goto, CallClose,
                      Places, sock, Watching
  <2>2. QED
    BY <1>1, <2>1 DEF Watching
<1>9. ASSUME NEW c \in Connections, ReceiveFails(c) \/ SendFails(c)
      PROVE  Watched'
  BY <1>0, <1>9 DEF ReceiveFails, SendFails
<1>10. ASSUME NEW c \in Connections, PingLoop(c) \/ PingSent(c) \/ DataArrives(c) \/ ServerCloses(c)
       PROVE  Watched'
  <2>1. /\ UNCHANGED <<state, sd, open, watcher>>
        /\ \A u \in Threads : u # Ping(c) => pc'[u] = pc[u]
    BY <1>10 DEF PingLoop, PingSent, DataArrives, ServerCloses, Notify, Goto, Places, sock
  <2>2. QED
    BY <1>1, <2>1
<1>11. ASSUME Open \/ Close \/ UserThread
       PROVE  Watched'
  <2>1. /\ UNCHANGED <<state, sd, open, watcher>>
        /\ \A u \in Threads : u # User => pc'[u] = pc[u]
    BY <1>11 DEF Open, Close, BeginCloseConnect, CallClose, UserThread, EndClose, Establish,
                 EndOpen, Goto, Places, sock
  <2>2. \A c \in Connections : pc'[Event(c)] = pc[Event(c)]
    BY <2>1
  <2>3. QED
    BY <1>1, <2>1, <2>2
<1>12. Watched'
  BY <1>2, <1>3, <1>4, <1>5, <1>6, <1>7, <1>8, <1>9, <1>10, <1>11
  DEF Next, Closing, Establishing, EventThread, PingThread
<1>13. QED
  BY <1>0, <1>12 DEF Watched

LEMMA PingedKept ==
  ASSUME Sockets, Places, NotStarted, Pinged, Next
  PROVE  Pinged'
<1> USE ThreadsDiffer
<1>0. SUFFICES ASSUME state' = "CONNECTED"
               PROVE  \E c \in Connections : pc'[Ping(c)] \in {"loop", "sleep"}
  BY DEF Pinged
<1>1. ASSUME state = "CONNECTED",
             \A c \in Connections :
               pc[Ping(c)] \in {"loop", "sleep"} => pc'[Ping(c)] \in {"loop", "sleep"}
      PROVE  Pinged'
  BY <1>1 DEF Pinged
<1>2. ASSUME NEW t \in Threads, Closing(t) \/ CallDoConnect(t) \/ TryAgain(t) \/ ConnectFails(t)
      PROVE  Pinged'
  <2>1. state = "CONNECTED" /\ pc[t] \notin {"loop", "sleep"}
    BY <1>0, <1>2 DEF Closing, CheckIdol, CloseSocket, CallDoClose, CallDoConnect, TryAgain,
                      ConnectFails
  <2>2. \A u \in Threads : u # t => pc'[u] = pc[u]
    BY <1>2 DEF Closing, CheckIdol, CloseSocket, CallDoClose, CallDoConnect, TryAgain,
                ConnectFails, Places, Goto, Return
  <2>3. QED
    BY <1>1, <2>1, <2>2
<1>3. ASSUME NEW t \in Threads, CreateSocket(t)
      PROVE  Pinged'
  BY <1>0, <1>3 DEF CreateSocket
<1>4. ASSUME NEW t \in Threads, ConnectSucceeds(t)
      PROVE  Pinged'
  <2>1. sd \in open \ joined /\ sd \in Connections
    BY <1>4 DEF ConnectSucceeds, Joinable, Sockets
  <2>2. pc[t] = "connect" /\ t # Ping(sd)
    BY <1>4, <2>1 DEF ConnectSucceeds, NotStarted
  <2>3. pc'[Ping(sd)] = "loop"
    BY <1>4, <2>1, <2>2 DEF ConnectSucceeds
  <2>4. QED
    BY <2>1, <2>3 DEF Pinged
<1>5. ASSUME NEW c \in Connections, EventThread(c) \/ DataArrives(c) \/ ServerCloses(c)
      PROVE  Pinged'
  <2>1. state = "CONNECTED" /\ \A u \in Threads : u # Event(c) => pc'[u] = pc[u]
    BY <1>0, <1>5 DEF EventThread, Register, TestState, EnumEvents, ReceiveData, ReceiveFails,
                      ReceiveRejects, DataArrives, ServerCloses, Notify, Goto, CallClose, Places
  <2>2. QED
    BY <1>1, <2>1
<1>6. ASSUME NEW c \in Connections, PingThread(c)
      PROVE  Pinged'
  <2>1. /\ state = "CONNECTED" /\ pc'[Ping(c)] \in {"loop", "sleep"}
        /\ \A u \in Threads : u # Ping(c) => pc'[u] = pc[u]
    BY <1>0, <1>6 DEF PingThread, PingLoop, PingSent, SendFails, Goto, Places
  <2>2. QED
    BY <1>1, <2>1
<1>7. ASSUME Open \/ Close \/ UserThread
      PROVE  Pinged'
  <2>1. state = "CONNECTED" /\ \A u \in Threads : u # User => pc'[u] = pc[u]
    BY <1>0, <1>7 DEF Open, Close, BeginCloseConnect, CallClose, UserThread, EndClose, Establish,
                      EndOpen, Goto, Places
  <2>2. QED
    BY <1>1, <2>1
<1>8. Pinged'
  BY <1>2, <1>3, <1>4, <1>5, <1>6, <1>7 DEF Next, Establishing
<1>9. QED
  BY <1>0, <1>8 DEF Pinged
-----------------------------------------------------------------------------
LEMMA LinkInvHolds == Spec => []LinkInv
<1>1. LinkInv /\ [Next]_vars => LinkInv'
  <2> SUFFICES ASSUME LinkInv, [Next]_vars PROVE LinkInv'
    OBVIOUS
  <2>1. CASE Next
    <3>1. Sockets /\ Counts /\ Places /\ NotStarted /\ Watched /\ Pinged
      BY TypeParts DEF LinkInv
    <3>2. Sockets' /\ Counts' /\ Places'
      BY <2>1, <3>1, CallTypes, ConnectionTypes, UserTypes DEF Next
    <3>3. TypeOK'
      BY <3>2 DEF TypeOK, Sockets, Counts, Places
    <3>4. QED
      BY <2>1, <3>1, <3>3, NotStartedKept, WatchedKept, PingedKept DEF LinkInv
  <2>2. CASE UNCHANGED vars
    BY <2>2 DEF vars, sock, flags, user, LinkInv, TypeOK, NotStarted, Watched, Pinged
  <2>3. QED
    BY <2>1, <2>2
<1>2. QED
  BY <1>1, Initially, PTL DEF Spec

(***************************************************************************)
(* The client's connection keeps its types.                                *)
(***************************************************************************)
THEOREM LinkTypeCorrect == Spec => []TypeOK
<1>1. LinkInv => TypeOK
  BY DEF LinkInv
<1>2. QED
  BY <1>1, LinkInvHolds, PTL

(***************************************************************************)
(* A client that is CONNECTED is served, however many threads close and    *)
(* reconnect the one SOCKET_EX at the same time, and although they connect *)
(* and register for each other's sockets; and somebody pings, also when    *)
(* one of them has given up the socket that another had connected.         *)
(***************************************************************************)
THEOREM LinkIsServed == Spec => []ConnectedIsServed
<1>1. LinkInv => ConnectedIsServed
  BY DEF LinkInv, Watched, Watching, Pinged, ConnectedIsServed
<1>2. QED
  BY <1>1, LinkInvHolds, PTL
=============================================================================
