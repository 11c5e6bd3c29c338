--------------------------- MODULE Client05_proofs --------------------------
(***************************************************************************)
(* The client of version 0.5, for any number of connections and whatever   *)
(* fails: while gsd is CONNECTED somebody waits for the events of the      *)
(* socket it holds.                                                        *)
(***************************************************************************)
EXTENDS Client05, TLAPS

LEMMA ThreadsDiffer ==
  /\ Main \in Threads /\ Console \in Threads
  /\ \A c \in Connections : Event(c) \in Threads /\ Ping(c) \in Threads
  /\ \A c, d \in Connections : /\ Event(c) = Event(d) => c = d
                               /\ Ping(c) = Ping(d) => c = d
                               /\ Event(c) # Ping(d)
  /\ \A c \in Connections : /\ Event(c) # Main /\ Event(c) # Console
                            /\ Ping(c) # Main /\ Ping(c) # Console
  /\ Main # Console
BY DEF Threads, Main, Console, Event, Ping

(***************************************************************************)
(* The inductive invariant.  A socket that is not connected yet has no     *)
(* threads, so that the event thread that connect() starts is a new one.   *)
(* Since then gsd has been CONNECTED without a break, as every other       *)
(* connect() is preceded by STATE_WAITTOCONNECT; therefore the thread that *)
(* watches the socket is in its loop, or is closing that very socket.      *)
(***************************************************************************)
NotStarted ==
  \A c \in open \ joined : pc[Event(c)] = "none" /\ pc[Ping(c)] = "none"

Watching == {"loop", "wait", "serve", "check", "socket"}

Watched ==
  state = "CONNECTED" /\ sd \in open =>
    pc[Event(sd)] = "register" \/ pc[Event(watcher[sd])] \in Watching

\* The console is not started twice.
ConsoleOnce ==
  \/ pc[Console] = "none"
  \/ pc[Main] \in {"capture", "send", "test", "done"}
  \/ pc[Main] \in InCall /\ back[Main] = "test"

ServedInv == TypeOK /\ NotStarted /\ ConsoleOnce /\ Watched

LEMMA Initially == Init => ServedInv
<1> SUFFICES ASSUME Init PROVE ServedInv
  OBVIOUS
<1>1. TypeOK
  <2>1. pc \in [Threads -> Steps] /\ back \in [Threads -> Steps]
    BY DEF Init, Steps
  <2>2. left \in Budget
    BY Client05Assumption DEF Init
  <2>3. \A t \in Threads : back[t] # "done" => pc[t] \in InCall
    BY DEF Init
  <2>4. QED
    BY <2>1, <2>2, <2>3 DEF Init, TypeOK, Connections, Invalid
<1>2. NotStarted /\ ConsoleOnce /\ Watched
  BY ThreadsDiffer DEF Init, NotStarted, ConsoleOnce, Watched
<1>3. QED
  BY <1>1, <1>2 DEF ServedInv

(***************************************************************************)
(* Types.  What a thread does with pc and back:                            *)
(***************************************************************************)
PcTypes ==
  /\ pc \in [Threads -> Steps] /\ back \in [Threads -> Steps]
  /\ \A t \in Threads : back[t] # "done" => pc[t] \in InCall

SocketTypes ==
  /\ state \in {"IDOL", "WAITTOCONNECT", "CONNECTED", "ERROR"}
  /\ sd \in Connections \cup {Invalid}
  /\ open \in SUBSET Connections /\ joined \in SUBSET open /\ lost \in SUBSET Connections
  /\ watcher \in [Connections -> Connections]
  /\ events \in [Connections -> SUBSET {"READ", "CLOSE"}]
  /\ signalled \in SUBSET Connections

UserTypes ==
  needReconnect \in BOOLEAN /\ logout \in BOOLEAN /\ unrepaired \in BOOLEAN /\ left \in Budget

LEMMA TypeParts == TypeOK <=> PcTypes /\ SocketTypes /\ UserTypes
BY DEF TypeOK, PcTypes, SocketTypes, UserTypes

LEMMA GotoTypes ==
  ASSUME PcTypes, NEW t \in Threads, NEW step \in Steps,
         Goto(t, step), UNCHANGED back, step \in InCall \/ pc[t] \notin InCall
  PROVE  PcTypes'
BY DEF PcTypes, Goto

LEMMA CallTypes ==
  ASSUME PcTypes, NEW t \in Threads, NEW step \in Steps, NEW next \in Steps,
         Call(t, step, next), step \in InCall \/ next = "done"
  PROVE  PcTypes'
BY DEF PcTypes, Call, Goto

LEMMA ReturnTypes ==
  ASSUME PcTypes, NEW t \in Threads, Return(t)
  PROVE  PcTypes'
BY DEF PcTypes, Return, Goto, Steps

LEMMA SendTypes ==
  ASSUME PcTypes, NEW t \in Threads, NEW next \in Steps, Send(t, next), pc[t] \notin InCall
  PROVE  PcTypes'
BY GotoTypes, CallTypes DEF Send, Steps, InCall

LEMMA PcKept ==
  ASSUME PcTypes, SocketTypes, NotStarted, ConsoleOnce, Next
  PROVE  PcTypes'
<1> USE ThreadsDiffer
<1>0. /\ \A step \in InCall : step \in Steps
      /\ {"done", "begin", "start", "login", "users", "console", "capture", "send", "test",
          "idle", "bye", "loop", "wait", "serve", "sleep", "register"} \subseteq Steps
      /\ {"done", "begin", "start", "login", "users", "console", "capture", "send", "test",
          "idle", "bye", "loop", "wait", "serve", "sleep", "register", "none"} \cap InCall = {}
      /\ {"sending", "check", "socket", "close", "establish", "connect", "again"} = InCall
  BY DEF Steps, InCall
<1>1. ASSUME NEW t \in Threads, SendSucceeds(t) \/ SendFails(t) \/ Closing(t) \/ TryAgain(t)
      PROVE  PcTypes'
  <2>1. Return(t) \/ \E step \in InCall : Goto(t, step) /\ UNCHANGED back
    BY <1>0, <1>1
    DEF SendSucceeds, SendFails, Closing, CheckIdol, CloseSocket, CallDoClose, TryAgain
  <2>2. QED
    BY <1>0, <2>1, ReturnTypes, GotoTypes
<1>2. ASSUME NEW t \in Threads, ConnectFails(t)
      PROVE  PcTypes'
  BY <1>0, <1>2, CallTypes, GotoTypes DEF ConnectFails
<1>3. ASSUME NEW t \in Threads, CreateSocket(t)
      PROVE  PcTypes'
  <2>1. PICK c \in Connections :
          /\ Unused(c)
          /\ pc' = [u \in Threads |-> IF u = t THEN "connect"
                                      ELSE IF u \in {Event(c), Ping(c)} THEN "none" ELSE pc[u]]
    BY <1>3 DEF CreateSocket
  <2>2. pc[Ping(c)] \notin InCall /\ pc[Event(c)] \notin InCall
    BY <2>1 DEF Unused, InCall
  <2>3. back' = back
    BY <1>3 DEF CreateSocket
  <2>4. QED
    BY <2>1, <2>2, <2>3 DEF PcTypes, Steps, InCall
<1>4. ASSUME NEW t \in Threads, ConnectSucceeds(t)
      PROVE  PcTypes'
  <2>1. sd \in open \ joined /\ sd \in Connections
    BY <1>4 DEF ConnectSucceeds, Joinable, SocketTypes
  <2>2. pc[Event(sd)] \notin InCall /\ pc[Ping(sd)] \notin InCall
    BY <2>1 DEF NotStarted, InCall
  <2>3. back[Event(sd)] = "done" /\ back[Ping(sd)] = "done"
    BY <2>1, <2>2 DEF PcTypes
  <2>4. \A u \in Threads \ {t} : back'[u] = back[u]
    BY <1>4 DEF ConnectSucceeds, PcTypes
  <2>5. pc' = [u \in Threads |-> IF u = t THEN IF Starting(t) THEN "begin" ELSE "again"
                                 ELSE IF u = Event(sd) THEN "register"
                                 ELSE IF u = Ping(sd) THEN "loop" ELSE pc[u]]
    BY <1>4 DEF ConnectSucceeds
  <2>6. pc' \in [Threads -> Steps] /\ back' \in [Threads -> Steps]
    BY <1>4, <2>5 DEF ConnectSucceeds, PcTypes, Steps
  <2>7. ASSUME NEW u \in Threads, back'[u] # "done"
        PROVE  pc'[u] \in InCall
    <3>1. CASE u = t
      <4>1. ~Starting(t)
        BY <1>4, <2>7, <3>1 DEF ConnectSucceeds, PcTypes
      <4>2. QED
        BY <1>0, <2>5, <3>1, <4>1 DEF InCall
    <3>2. CASE u # t
      BY <2>3, <2>4, <2>5, <2>7, <3>2 DEF PcTypes
    <3>3. QED
      BY <3>1, <3>2
  <2>8. QED
    BY <2>6, <2>7 DEF PcTypes
<1>5. ASSUME NEW c \in Connections, Register(c) \/ Serve(c) \/ ServeFails(c) \/ PingLoop(c)
      PROVE  PcTypes'
  BY <1>0, <1>5, GotoTypes DEF Register, Serve, ServeFails, PingLoop
<1>6. ASSUME NEW c \in Connections, TestState(c) \/ EnumEvents(c) \/ PingSends(c)
      PROVE  PcTypes'
  BY <1>0, <1>6, GotoTypes, CallTypes, SendTypes DEF TestState, EnumEvents, PingSends
<1>7. CASE DoMain \/ CaptureFrame
  <2>1. CASE Start \/ Begin \/ StopCapturing \/ TestConnected \/ CaptureFrame
    BY <1>0, <2>1, GotoTypes, CallTypes DEF Start, Begin, StopCapturing, TestConnected, CaptureFrame
  <2>2. CASE LogIn \/ AskUsers \/ SendFrame
    BY <1>0, <2>2, SendTypes DEF LogIn, AskUsers, SendFrame
  <2>3. CASE StartConsole
    <3>1. pc' = [pc EXCEPT ![Main] = "capture", ![Console] = "idle"] /\ back' = back
      BY <2>3 DEF StartConsole
    <3>2. pc[Main] = "console" /\ pc[Console] = "none"
      BY <2>3 DEF StartConsole, ConsoleOnce, InCall
    <3>3. QED
      BY <1>0, <3>1, <3>2 DEF PcTypes
  <2>4. QED
    BY <1>7, <2>1, <2>2, <2>3 DEF DoMain
<1>8. CASE TypeLine \/ LogOut
  BY <1>0, <1>8, SendTypes DEF TypeLine, LogOut
<1>9. CASE Disconnect
  BY <1>0, <1>9, CallTypes DEF Disconnect
<1>10. ASSUME NEW c \in Connections, DataArrives(c) \/ ConnectionEnds(c)
       PROVE  PcTypes'
  BY <1>10 DEF DataArrives, ConnectionEnds, Notify, PcTypes
<1>11. QED
  BY <1>1, <1>2, <1>3, <1>4, <1>5, <1>6, <1>7, <1>8, <1>9, <1>10
  DEF Next, Establishing, EventThread

LEMMA SocketTypesKept ==
  ASSUME PcTypes, SocketTypes, UserTypes, Next
  PROVE  SocketTypes' /\ UserTypes'
<1>1. ASSUME NEW t \in Threads,
             SendSucceeds(t) \/ SendFails(t) \/ Closing(t) \/ TryAgain(t) \/ ConnectFails(t)
      PROVE  SocketTypes' /\ UserTypes'
  <2>1. CASE SendSucceeds(t) \/ SendFails(t) \/ CheckIdol(t) \/ TryAgain(t)
    BY <2>1 DEF SendSucceeds, SendFails, CheckIdol, TryAgain, SocketTypes, UserTypes, socket
  <2>2. CASE CloseSocket(t)
    <3>1. open' \in SUBSET Connections /\ joined' \in SUBSET open'
      BY <2>2 DEF CloseSocket, SocketTypes
    <3>2. QED
      BY <2>2, <3>1 DEF CloseSocket, SocketTypes, UserTypes
  <2>3. CASE CallDoClose(t)
    <3>1. unrepaired' \in BOOLEAN
      BY <2>3 DEF CallDoClose, UserTypes
    <3>2. QED
      BY <2>3, <3>1 DEF CallDoClose, SocketTypes, UserTypes, socket
  <2>4. CASE ConnectFails(t)
    <3>1. left' \in Budget
      BY <2>4 DEF ConnectFails, Refused, UserTypes, Budget
    <3>2. QED
      BY <2>4, <3>1 DEF ConnectFails, SocketTypes, UserTypes
  <2>5. QED
    BY <1>1, <2>1, <2>2, <2>3, <2>4 DEF Closing
<1>2. ASSUME NEW t \in Threads, CreateSocket(t) \/ ConnectSucceeds(t)
      PROVE  SocketTypes' /\ UserTypes'
  BY <1>2 DEF CreateSocket, ConnectSucceeds, Joinable, SocketTypes, UserTypes, socket
<1>3. ASSUME NEW c \in Connections, EventThread(c) \/ PingLoop(c) \/ PingSends(c)
      PROVE  SocketTypes' /\ UserTypes'
  BY <1>3 DEF EventThread, Register, TestState, EnumEvents, Serve, ServeFails, PingLoop,
              PingSends, SocketTypes, UserTypes, socket
<1>4. ASSUME NEW c \in Connections, DataArrives(c) \/ ConnectionEnds(c)
      PROVE  SocketTypes' /\ UserTypes'
  <2>1. Notify(c, "READ") \/ Notify(c, "CLOSE")
    BY <1>4 DEF DataArrives, ConnectionEnds
  <2>2. events' \in [Connections -> SUBSET {"READ", "CLOSE"}] /\ signalled' \in SUBSET Connections
    BY <2>1 DEF Notify, SocketTypes
  <2>3. lost' \in SUBSET Connections /\ left' \in Budget
    BY <1>4 DEF DataArrives, ConnectionEnds, SocketTypes, UserTypes, Budget
  <2>4. QED
    BY <2>1, <2>2, <2>3 DEF Notify, SocketTypes, UserTypes
<1>5. CASE DoMain \/ CaptureFrame \/ TypeLine \/ LogOut \/ Disconnect
  <2>1. UNCHANGED <<state, socket, unrepaired>>
    BY <1>5 DEF DoMain, Start, Begin, LogIn, AskUsers, StartConsole, StopCapturing, SendFrame,
                TestConnected, CaptureFrame, TypeLine, LogOut, Disconnect
  <2>2. needReconnect' \in BOOLEAN /\ logout' \in BOOLEAN
    BY <1>5 DEF DoMain, Start, Begin, LogIn, AskUsers, StartConsole, StopCapturing, SendFrame,
                TestConnected, CaptureFrame, TypeLine, LogOut, Disconnect, UserTypes
  <2>3. left' \in Budget
    BY <1>5 DEF DoMain, Start, Begin, LogIn, AskUsers, StartConsole, StopCapturing, SendFrame,
                TestConnected, CaptureFrame, TypeLine, LogOut, Disconnect, UserTypes, Budget
  <2>4. QED
    BY <2>1, <2>2, <2>3 DEF SocketTypes, UserTypes, socket
<1>6. QED
  BY <1>1, <1>2, <1>3, <1>4, <1>5 DEF Next, Establishing

(***************************************************************************)
(* A step runs one thread, or connects a socket, or creates one.           *)
(***************************************************************************)
LEMMA ConsoleKept ==
  ASSUME PcTypes, SocketTypes, ConsoleOnce, Next
  PROVE  ConsoleOnce'
<1> USE ThreadsDiffer
<1> DEFINE Same == pc'[Main] = pc[Main] /\ back'[Main] = back[Main]
           Waits == pc'[Console] = pc[Console]
<1>1. ASSUME NEW t \in Threads,
             \/ SendSucceeds(t) \/ SendFails(t) \/ Closing(t) \/ ConnectFails(t)
             \/ CreateSocket(t) \/ ConnectSucceeds(t) \/ TryAgain(t)
      PROVE  ConsoleOnce'
  <2>1. pc[t] \in InCall
    BY <1>1 DEF SendSucceeds, SendFails, Closing, CheckIdol, CloseSocket, CallDoClose,
                ConnectFails, CreateSocket, ConnectSucceeds, TryAgain, InCall
  <2>2. sd \in Connections \cup {Invalid}
    BY DEF SocketTypes
  <2>3. \A u \in {Main, Console} : u # t => pc'[u] = pc[u] /\ back'[u] = back[u]
    BY <1>1, <2>2
    DEF SendSucceeds, SendFails, Closing, CheckIdol, CloseSocket, CallDoClose, ConnectFails,
        CreateSocket, ConnectSucceeds, Joinable, TryAgain, PcTypes, SocketTypes, Goto, Call, Return
  <2>4. CASE t # Main
    <3>1. pc[Console] = "none" => t # Console
      BY <2>1 DEF InCall
    <3>2. QED
      BY <2>3, <2>4, <3>1 DEF ConsoleOnce
  <2>5. CASE t = Main /\ back[Main] = "test"
    BY <1>1, <2>5
    DEF SendSucceeds, SendFails, Closing, CheckIdol, CloseSocket, CallDoClose, ConnectFails,
        CreateSocket, ConnectSucceeds, TryAgain, Starting, PcTypes, Goto, Call, Return,
        ConsoleOnce, InCall
  <2>6. CASE t = Main /\ back[Main] # "test"
    <3>1. pc[Console] = "none"
      BY <2>1, <2>6 DEF ConsoleOnce, InCall
    <3>2. QED
      BY <2>3, <2>6, <3>1 DEF ConsoleOnce
  <2>7. QED
    BY <2>4, <2>5, <2>6
<1>2. ASSUME NEW c \in Connections,
             \/ EventThread(c) \/ PingLoop(c) \/ PingSends(c)
             \/ DataArrives(c) \/ ConnectionEnds(c)
      PROVE  ConsoleOnce'
  <2>1. Same /\ Waits
    BY <1>2 DEF EventThread, Register, TestState, EnumEvents, Serve, ServeFails, PingLoop,
                PingSends, DataArrives, ConnectionEnds, Notify, Send, Goto, Call, PcTypes
  <2>2. QED
    BY <2>1 DEF ConsoleOnce
<1>3. CASE Start \/ Begin \/ LogIn \/ AskUsers
  <2>1. pc[Main] \notin InCall \cup {"capture", "send", "test", "done"}
    BY <1>3 DEF Start, Begin, LogIn, AskUsers, InCall
  <2>2. Waits
    BY <1>3 DEF Start, Begin, LogIn, AskUsers, Send, Goto, Call, PcTypes
  <2>3. QED
    BY <2>1, <2>2 DEF ConsoleOnce
<1>4. CASE StartConsole \/ StopCapturing \/ SendFrame \/ TestConnected \/ CaptureFrame
  BY <1>4 DEF StartConsole, StopCapturing, SendFrame, TestConnected, CaptureFrame, Send, Goto,
              Call, PcTypes, ConsoleOnce, InCall
<1>5. CASE TypeLine \/ LogOut \/ Disconnect
  <2>1. pc[Console] # "none"
    BY <1>5 DEF TypeLine, LogOut, Disconnect
  <2>2. Same
    BY <1>5 DEF TypeLine, LogOut, Disconnect, Send, Goto, Call, PcTypes
  <2>3. QED
    BY <2>1, <2>2 DEF ConsoleOnce
<1>6. QED
  BY <1>1, <1>2, <1>3, <1>4, <1>5 DEF Next, Establishing, DoMain

LEMMA NotStartedKept ==
  ASSUME PcTypes, SocketTypes, NotStarted, Next
  PROVE  NotStarted'
<1> USE ThreadsDiffer
<1> DEFINE Idle(c) == pc[Event(c)] = "none" /\ pc[Ping(c)] = "none"
<1>1. ASSUME open' \ joined' \subseteq open \ joined,
             NEW t \in Threads, pc[t] # "none", \A u \in Threads : u # t => pc'[u] = pc[u]
      PROVE  NotStarted'
  <2>1. SUFFICES ASSUME NEW c \in open' \ joined'
                 PROVE  pc'[Event(c)] = "none" /\ pc'[Ping(c)] = "none"
    BY DEF NotStarted
  <2>2. c \in Connections /\ Idle(c)
    BY <1>1 DEF NotStarted, SocketTypes
  <2>3. Event(c) # t /\ Ping(c) # t /\ Event(c) \in Threads /\ Ping(c) \in Threads
    BY <1>1, <2>2
  <2>4. QED
    BY <1>1, <2>2, <2>3
<1>2. ASSUME NEW t \in Threads,
             SendSucceeds(t) \/ SendFails(t) \/ Closing(t) \/ ConnectFails(t) \/ TryAgain(t)
      PROVE  NotStarted'
  <2>1. pc[t] # "none" /\ \A u \in Threads : u # t => pc'[u] = pc[u]
    BY <1>2 DEF SendSucceeds, SendFails, Closing, CheckIdol, CloseSocket, CallDoClose,
                ConnectFails, TryAgain, PcTypes, Goto, Call, Return
  <2>2. open' \ joined' \subseteq open \ joined
    BY <1>2 DEF SendSucceeds, SendFails, Closing, CheckIdol, CloseSocket, CallDoClose,
                ConnectFails, TryAgain, socket
  <2>3. QED
    BY <1>1, <2>1, <2>2
<1>3. ASSUME NEW t \in Threads, CreateSocket(t)
      PROVE  NotStarted'
  <2>1. PICK c \in Connections :
          /\ Unused(c) /\ open' = open \cup {c}
          /\ pc' = [u \in Threads |-> IF u = t THEN "connect"
                                      ELSE IF u \in {Event(c), Ping(c)} THEN "none" ELSE pc[u]]
    BY <1>3 DEF CreateSocket
  <2>2. pc[t] = "establish" /\ joined' = joined
    BY <1>3 DEF CreateSocket
  <2>3. SUFFICES ASSUME NEW d \in open' \ joined'
                 PROVE  pc'[Event(d)] = "none" /\ pc'[Ping(d)] = "none"
    BY DEF NotStarted
  <2>4. CASE d = c
    BY <2>1, <2>2, <2>4 DEF Unused
  <2>5. CASE d # c
    <3>1. d \in open \ joined /\ d \in Connections
      BY <2>1, <2>2, <2>3, <2>5 DEF SocketTypes
    <3>2. Idle(d)
      BY <3>1 DEF NotStarted
    <3>3. QED
      BY <2>1, <2>2, <3>1, <3>2
  <2>6. QED
    BY <2>4, <2>5
<1>4. ASSUME NEW t \in Threads, ConnectSucceeds(t)
      PROVE  NotStarted'
  <2>1. sd \in Connections /\ open' = open /\ joined' = joined \cup {sd} /\ pc[t] = "connect"
    BY <1>4 DEF ConnectSucceeds, Joinable, SocketTypes
  <2>2. \A u \in Threads : u \notin {t, Event(sd), Ping(sd)} => pc'[u] = pc[u]
    BY <1>4 DEF ConnectSucceeds
  <2>3. SUFFICES ASSUME NEW d \in open' \ joined'
                 PROVE  pc'[Event(d)] = "none" /\ pc'[Ping(d)] = "none"
    BY DEF NotStarted
  <2>4. d \in open \ joined /\ d \in Connections /\ d # sd
    BY <2>1 DEF SocketTypes
  <2>5. Idle(d)
    BY <2>4 DEF NotStarted
  <2>6. QED
    BY <2>1, <2>2, <2>4, <2>5
<1>5. ASSUME NEW c \in Connections, EventThread(c)
      PROVE  NotStarted'
  <2>1. /\ pc[Event(c)] # "none" /\ open' = open /\ joined' = joined
        /\ \A u \in Threads : u # Event(c) => pc'[u] = pc[u]
    BY <1>5 DEF EventThread, Register, TestState, EnumEvents, Serve, ServeFails, Goto, Call,
                PcTypes, socket
  <2>2. QED
    BY <1>1, <2>1
<1>6. ASSUME NEW c \in Connections, PingLoop(c) \/ PingSends(c)
      PROVE  NotStarted'
  <2>1. /\ pc[Ping(c)] # "none" /\ open' = open /\ joined' = joined
        /\ \A u \in Threads : u # Ping(c) => pc'[u] = pc[u]
    BY <1>6 DEF PingLoop, PingSends, Send, Goto, Call, PcTypes, socket
  <2>2. QED
    BY <1>1, <2>1
<1>7. ASSUME NEW c \in Connections, DataArrives(c) \/ ConnectionEnds(c)
      PROVE  NotStarted'
  BY <1>7 DEF DataArrives, ConnectionEnds, Notify, NotStarted
<1>8. CASE DoMain \/ CaptureFrame \/ TypeLine \/ LogOut \/ Disconnect
  <2>1. /\ open' = open /\ joined' = joined
        /\ \A u \in Threads : u \notin {Main, Console} => pc'[u] = pc[u]
    BY <1>8 DEF DoMain, Start, Begin, LogIn, AskUsers, StartConsole, StopCapturing, SendFrame,
                TestConnected, CaptureFrame, TypeLine, LogOut, Disconnect, Send, Goto, Call,
                PcTypes, socket
  <2>2. \A c \in open : c \in Connections
    BY DEF SocketTypes
  <2>3. QED
    BY <2>1, <2>2 DEF NotStarted
<1>9. QED
  BY <1>2, <1>3, <1>4, <1>5, <1>6, <1>7, <1>8 DEF Next, Establishing

LEMMA WatchedKept ==
  ASSUME PcTypes, SocketTypes, NotStarted, Watched, Next
  PROVE  Watched'
<1> USE ThreadsDiffer
<1>0. SUFFICES ASSUME state' = "CONNECTED", sd' \in open'
               PROVE  pc'[Event(sd')] = "register" \/ pc'[Event(watcher'[sd'])] \in Watching
  BY DEF Watched
\* A step of a thread that neither waits for the events of sd nor is to.
<1>1. ASSUME UNCHANGED <<state, sd, open, watcher>>,
             \A c \in Connections :
               /\ pc[Event(c)] = "register" => pc'[Event(c)] = "register"
               /\ pc[Event(c)] \in Watching => pc'[Event(c)] \in Watching
      PROVE  Watched'
  <2>1. sd \in Connections /\ watcher[sd] \in Connections
    BY <1>0, <1>1 DEF SocketTypes
  <2>2. QED
    BY <1>0, <1>1, <2>1 DEF Watched
<1>2. ASSUME NEW t \in Threads, SendSucceeds(t) \/ TryAgain(t)
      PROVE  Watched'
  <2>1. /\ UNCHANGED <<state, sd, open, watcher>> /\ pc[t] \in {"sending", "again"}
        /\ \A u \in Threads : u # t => pc'[u] = pc[u]
    BY <1>2 DEF SendSucceeds, TryAgain, Return, Goto, PcTypes, socket
  <2>2. QED
    BY <1>1, <2>1 DEF Watching
<1>3. ASSUME NEW t \in Threads, SendFails(t) \/ CallDoClose(t) \/ CreateSocket(t)
      PROVE  Watched'
  BY <1>0, <1>3 DEF SendFails, CallDoClose, CreateSocket
<1>4. ASSUME NEW t \in Threads, CheckIdol(t)
      PROVE  Watched'
  <2>1. /\ UNCHANGED <<state, sd, open, watcher>> /\ pc[t] = "check" /\ pc'[t] = "socket"
        /\ \A u \in Threads : u # t => pc'[u] = pc[u]
    BY <1>0, <1>4 DEF CheckIdol, Goto, PcTypes, socket
  <2>2. QED
    BY <1>1, <2>1 DEF Watching
<1>5. ASSUME NEW t \in Threads, CloseSocket(t) \/ ConnectFails(t)
      PROVE  Watched'
  BY <1>0, <1>5 DEF CloseSocket, ConnectFails, SocketTypes, Invalid, Connections
<1>6. ASSUME NEW t \in Threads, ConnectSucceeds(t)
      PROVE  Watched'
  <2>1. sd \in open \ joined /\ sd \in Connections /\ sd' = sd
    BY <1>6 DEF ConnectSucceeds, Joinable, SocketTypes
  <2>2. pc[t] = "connect" /\ t # Event(sd)
    BY <1>6, <2>1 DEF ConnectSucceeds, NotStarted
  <2>3. pc'[Event(sd)] = "register"
    BY <1>6, <2>1, <2>2 DEF ConnectSucceeds
  <2>4. QED
    BY <2>1, <2>3 DEF Watched
\* The event thread that registers watches gsd.sd from now on.
<1>7. ASSUME NEW c \in Connections, Register(c)
      PROVE  Watched'
  <2>1. sd' = sd /\ sd \in open /\ sd \in Connections
    BY <1>0, <1>7 DEF Register, SocketTypes
  <2>2. watcher'[sd] = c /\ pc'[Event(c)] = "loop"
    BY <1>7, <2>1 DEF Register, Goto, SocketTypes, PcTypes
  <2>3. QED
    BY <2>1, <2>2 DEF Watched, Watching
<1>8. ASSUME NEW c \in Connections, TestState(c) \/ EnumEvents(c) \/ Serve(c)
      PROVE  Watched'
  <2>1. /\ UNCHANGED <<state, sd, open, watcher>>
        /\ \A u \in Threads : u # Event(c) => pc'[u] = pc[u]
        /\ pc[Event(c)] \in Watching /\ pc'[Event(c)] \in Watching
    BY <1>0, <1>8 DEF TestState, EnumEvents, Serve, Goto, Call, PcTypes, socket, Watching
  <2>2. QED
    BY <1>1, <2>1 DEF Watching
<1>9. ASSUME NEW c \in Connections, ServeFails(c)
      PROVE  Watched'
  BY <1>0, <1>9 DEF ServeFails
<1>10. ASSUME NEW c \in Connections,
              PingLoop(c) \/ PingSends(c) \/ DataArrives(c) \/ ConnectionEnds(c)
       PROVE  Watched'
  <2>1. /\ UNCHANGED <<state, sd, open, watcher>>
        /\ \A u \in Threads : u # Ping(c) => pc'[u] = pc[u]
    BY <1>10 DEF PingLoop, PingSends, Send, DataArrives, ConnectionEnds, Notify, Goto, Call,
                 PcTypes, socket
  <2>2. QED
    BY <1>1, <2>1
<1>11. ASSUME DoMain \/ CaptureFrame \/ TypeLine \/ LogOut \/ Disconnect
       PROVE  Watched'
  <2>1. /\ UNCHANGED <<state, sd, open, watcher>>
        /\ \A u \in Threads : u \notin {Main, Console} => pc'[u] = pc[u]
    BY <1>11 DEF DoMain, Start, Begin, LogIn, AskUsers, StartConsole, StopCapturing, SendFrame,
                 TestConnected, CaptureFrame, TypeLine, LogOut, Disconnect, Send, Goto, Call,
                 PcTypes, socket
  <2>2. \A c \in Connections : pc'[Event(c)] = pc[Event(c)]
    BY <2>1
  <2>3. QED
    BY <1>1, <2>1, <2>2
<1>12. Watched'
  BY <1>2, <1>3, <1>4, <1>5, <1>6, <1>7, <1>8, <1>9, <1>10, <1>11
  DEF Next, Establishing, Closing, EventThread
<1>13. QED
  BY <1>0, <1>12 DEF Watched
-----------------------------------------------------------------------------
LEMMA ServedInvHolds == Spec => []ServedInv
<1>1. ServedInv /\ [Next]_vars => ServedInv'
  <2> SUFFICES ASSUME ServedInv, [Next]_vars PROVE ServedInv'
    OBVIOUS
  <2>1. CASE Next
    <3>1. PcTypes /\ SocketTypes /\ UserTypes /\ NotStarted /\ ConsoleOnce /\ Watched
      BY TypeParts DEF ServedInv
    <3>2. PcTypes' /\ SocketTypes' /\ UserTypes'
      BY <2>1, <3>1, PcKept, SocketTypesKept
    <3>3. TypeOK'
      BY <3>2 DEF TypeOK, PcTypes, SocketTypes, UserTypes
    <3>4. QED
      BY <2>1, <3>1, <3>3, NotStartedKept, ConsoleKept, WatchedKept DEF ServedInv
  <2>2. CASE UNCHANGED vars
    BY <2>2 DEF vars, socket, ServedInv, TypeOK, NotStarted, ConsoleOnce, Watched
  <2>3. QED
    BY <2>1, <2>2
<1>2. QED
  BY <1>1, Initially, PTL DEF Spec

(***************************************************************************)
(* The client keeps its types: in particular a thread has somewhere to     *)
(* return to only while it is inside a function.                           *)
(***************************************************************************)
THEOREM Client05TypeCorrect == Spec => []TypeOK
<1>1. ServedInv => TypeOK
  BY DEF ServedInv
<1>2. QED
  BY <1>1, ServedInvHolds, PTL

(***************************************************************************)
(* A client that is CONNECTED is served, however many of its threads find  *)
(* connections broken, close and reconnect the one SOCKET_EX at the same   *)
(* time, and although event threads register for each other's sockets.     *)
(***************************************************************************)
THEOREM ClientIsServed == Spec => []ConnectedIsServed
<1>1. ServedInv => ConnectedIsServed
  BY DEF ServedInv, Watched, Watching, ConnectedIsServed
<1>2. QED
  BY <1>1, ServedInvHolds, PTL
=============================================================================
