---------------------------- MODULE Session_proofs --------------------------
(***************************************************************************)
(* The sessions of the arena server, for any number of sessions, listeners *)
(* and connections: how a session is lost, and, while no send fails and no *)
(* number is wrong, that a session serves one client at a time.            *)
(***************************************************************************)
EXTENDS Session, TLAPS

\* The threads of the connections are all different.
LEMMA ThreadsDiffer ==
  /\ \A c \in Connections : Event(c) \in Threads /\ Ping(c) \in Threads
  /\ \A c, d \in Connections :
       /\ Event(c) # Ping(d)
       /\ Event(c) = Event(d) => c = d
       /\ Ping(c) = Ping(d) => c = d
BY DEF Threads, Kinds, Event, Ping

\* The constants, as the steps below use them.
LEMMA Bounds ==
  /\ 1 \in Sessions /\ None \notin Connections /\ None \notin Sessions
  /\ Connections \subseteq Nat /\ MaxConnections \in Nat
BY SessionAssumption DEF Sessions, Connections, None

-----------------------------------------------------------------------------
\* A session that a listener or a connection has picked is one of the table,
\* as soon as it is used.
Assigned ==
  /\ \A c \in Connections : pc[Event(c)] # "none" \/ pc[Ping(c)] # "none" =>
       session[c] \in Sessions
  /\ \A l \in Listeners : lpc[l] \in {"start", "spawn"} =>
       client[l] \in Connections /\ session[client[l]] \in Sessions

Typed == TypeOK /\ Assigned

LEMMA TypeInit == Init => Typed
<1> SUFFICES ASSUME Init PROVE Typed
  OBVIOUS
<1>1. NoCall \in [target : Sessions, meant : Connections \cup {None},
                  back : {"loop", "serve", "done"}]
  BY Bounds DEF NoCall
<1>2. TypeOK
  BY <1>1, SessionAssumption, Bounds DEF Init, TypeOK
<1>3. Assigned
  BY ThreadsDiffer DEF Init, Assigned
<1> QED
  BY <1>2, <1>3 DEF Typed

LEMMA ListenerTyped ==
  ASSUME Typed, NEW l \in Listeners, Listener(l)
  PROVE  Typed'
<1> USE Bounds, ThreadsDiffer DEF Typed, TypeOK, Assigned, LGoto, clients, events, closing, bounds
<1>1. CASE GetIdolSession(l)
  BY <1>1 DEF GetIdolSession, Idol
<1>2. CASE InitSession(l)
  BY <1>2 DEF InitSession
<1>3. CASE Accept(l)
  <2>1. accepted + 1 \in Connections
    BY <1>3, SessionAssumption DEF Accept, Adversity, Connections
  <2> QED
    BY <1>3, <2>1, SessionAssumption DEF Accept, Connections, Adversity
<1>4. CASE AcceptFails(l)
  <2>1. left' \in Adversity
    <3>1. left \in Adversity /\ left.refusals \in Nat /\ left.refusals - 1 \in Nat
      BY <1>4 DEF AcceptFails, Adversity
    <3> QED
      BY <1>4, <3>1, Zenon DEF AcceptFails, Adversity
  <2> QED
    BY <1>4, <2>1 DEF AcceptFails
<1>5. CASE StartSession(l)
  BY <1>5 DEF StartSession
<1>6. CASE SpawnThreads(l)
  BY <1>6 DEF SpawnThreads
<1> QED
  BY <1>1, <1>2, <1>3, <1>4, <1>5, <1>6 DEF Listener

LEMMA ClosingTyped ==
  ASSUME Typed, NEW t \in Threads, Closing(t)
  PROVE  Typed'
<1> USE Bounds, ThreadsDiffer
    DEF Typed, TypeOK, Assigned, listening, clients, events, closing, bounds, Return, NoCall
<1>1. CASE CheckIdol(t)
  BY <1>1, SMTT(30) DEF CheckIdol
<1>2. CASE CloseSocket(t)
  BY <1>2 DEF CloseSocket
<1>3. CASE SetIdol(t)
  BY <1>3 DEF SetIdol
<1> QED
  BY <1>1, <1>2, <1>3 DEF Closing

\* A call of CloseConnection keeps the types, whatever else the step does.
LEMMA CallTyped ==
  ASSUME Typed, NEW t \in Threads, NEW i \in Sessions, NEW conn \in Connections \cup {None},
         NEW next \in {"loop", "serve", "done"}, CallClose(t, i, conn, next),
         pc[t] # "none",
         state' \in [Sessions -> {"IDOL", "WAITTOCONNECT", "CONNECTED", "ERROR"}],
         signalled' \in SUBSET Connections, fdClose' \in SUBSET Connections
  PROVE  Typed'
BY ThreadsDiffer DEF Typed, TypeOK, Assigned, CallClose, listening, clients, bounds

LEMMA SendFailsTyped ==
  ASSUME Typed, NEW t \in Threads, NEW i \in Sessions, NEW next \in {"loop", "serve", "done"},
         SendFails(t, i, next), pc[t] # "none"
  PROVE  Typed'
<1>1. sd[i] \in Connections \cup {None} /\ CallClose(t, i, sd[i], next)
  BY DEF Typed, TypeOK, SendFails
<1>2. /\ state' \in [Sessions -> {"IDOL", "WAITTOCONNECT", "CONNECTED", "ERROR"}]
      /\ signalled' \in SUBSET Connections /\ fdClose' \in SUBSET Connections
  BY DEF Typed, TypeOK, SendFails, events
<1> QED
  BY <1>1, <1>2, CallTyped

LEMMA EventThreadTyped ==
  ASSUME Typed, NEW c \in Connections, EventThread(c)
  PROVE  Typed'
<1> USE Bounds, ThreadsDiffer
<1>1. CASE Closing(Event(c))
  BY <1>1, ClosingTyped
<1>2. ASSUME pc[Event(c)] \in {"loop", "wait", "serve"}
      PROVE  /\ Own(c) \in Sessions /\ sd[Own(c)] \in Connections \cup {None}
             /\ watched[c] \in Connections \cup {None}
             /\ signalled \in SUBSET Connections /\ fdClose \in SUBSET Connections
             /\ state \in [Sessions -> {"IDOL", "WAITTOCONNECT", "CONNECTED", "ERROR"}]
  BY <1>2 DEF Typed, TypeOK, Assigned, Own
<1>3. CASE TestState(c)
  <2>1. CASE state[Own(c)] = "CONNECTED"
    BY <1>3, <2>1 DEF TestState, Typed, TypeOK, Assigned, listening, clients, closing, bounds,
       events
  <2>2. CASE state[Own(c)] # "CONNECTED"
    BY <1>2, <1>3, <2>2, CallTyped DEF TestState, events
  <2> QED
    BY <2>1, <2>2
<1>4. CASE EnumEvents(c)
  <2>1. CASE pc' = [pc EXCEPT ![Event(c)] = "serve"] /\ UNCHANGED closing
    BY <1>4, <2>1 DEF EnumEvents, CallClose, Typed, TypeOK, Assigned, listening, clients, closing,
       bounds
  <2>2. CASE CallClose(Event(c), Own(c), sd[Own(c)], "done")
    BY <1>2, <1>4, <2>2, CallTyped DEF EnumEvents
  <2> QED
    BY <1>4, <2>1, <2>2 DEF EnumEvents
<1>5. CASE Serve(c)
  BY <1>5 DEF Serve, Typed, TypeOK, Assigned, listening, clients, closing, bounds, events
<1>6. CASE ReceiveFails(c)
  BY <1>6 DEF ReceiveFails, Typed, TypeOK, Assigned, listening, clients, closing, bounds, events
<1>7. CASE ReceiveRejects(c)
  BY <1>2, <1>7, CallTyped DEF ReceiveRejects, events
<1>8. CASE RelayFails(c)
  BY <1>8, SendFailsTyped DEF RelayFails
<1> QED
  BY <1>1, <1>3, <1>4, <1>5, <1>6, <1>7, <1>8 DEF EventThread

LEMMA PingThreadTyped ==
  ASSUME Typed, NEW c \in Connections, PingThread(c)
  PROVE  Typed'
<1> USE Bounds, ThreadsDiffer
<1>1. CASE Closing(Ping(c))
  BY <1>1, ClosingTyped
<1>2. CASE PingLoop(c)
  BY <1>2 DEF PingLoop, Typed, TypeOK, Assigned, listening, clients, closing, bounds, events
<1>3. CASE PingSent(c)
  BY <1>3 DEF PingSent, Typed, TypeOK, Assigned, listening, clients, closing, bounds, events
<1>4. CASE PingFails(c)
  <2>1. Own(c) \in Sessions
    BY <1>4 DEF PingFails, Typed, Assigned, Own
  <2> QED
    BY <1>4, <2>1, SendFailsTyped DEF PingFails
<1> QED
  BY <1>1, <1>2, <1>3, <1>4 DEF PingThread

LEMMA ClientTyped ==
  ASSUME Typed, NEW c \in Connections, DataArrives(c) \/ Leave(c)
  PROVE  Typed'
BY DEF DataArrives, Leave, Watchers, Typed, TypeOK, Assigned, listening, clients, closing, bounds

LEMMA TypeStep == Typed /\ [Next]_vars => Typed'
<1> SUFFICES ASSUME Typed, [Next]_vars PROVE Typed'
  OBVIOUS
<1>1. CASE UNCHANGED vars
  BY <1>1 DEF vars, Typed, TypeOK, Assigned, listening, clients, closing, bounds, events
<1>2. CASE Next
  BY <1>2, ListenerTyped, EventThreadTyped, PingThreadTyped, ClientTyped DEF Next
<1> QED
  BY <1>1, <1>2

(***************************************************************************)
(* Types: the sessions, connections and calls that the threads work with   *)
(* are always ones that exist (tunnel-server.cpp 443-473).                 *)
(***************************************************************************)
THEOREM SessionType == Spec => []TypeOK
<1>1. Spec => []Typed
  BY TypeInit, TypeStep, PTL DEF Spec
<1> QED
  BY <1>1, PTL DEF Typed
-----------------------------------------------------------------------------
(***************************************************************************)
(* How a session is lost.  The threads of the connections never put one in *)
(* STATE_WAITTOCONNECT, and leave the listeners alone.                     *)
(***************************************************************************)
Waits(i) == state[i] = "WAITTOCONNECT"

LEMMA ThreadsMakeNoneWait ==
  ASSUME Typed, NEW c \in Connections,
         EventThread(c) \/ PingThread(c) \/ DataArrives(c) \/ Leave(c)
  PROVE  UNCHANGED <<refused, listening>> /\ \A i \in Sessions : Waits(i)' => Waits(i)
<1> USE DEF Typed, TypeOK, Waits, bounds, CallClose
<1>1. CASE EventThread(c) \/ PingThread(c)
  BY <1>1 DEF EventThread, PingThread, Closing, CheckIdol, CloseSocket, SetIdol, TestState,
     EnumEvents, Serve, ReceiveFails, ReceiveRejects, RelayFails, PingLoop, PingSent, PingFails,
     SendFails
<1>2. CASE DataArrives(c) \/ Leave(c)
  BY <1>2 DEF DataArrives, Leave
<1> QED
  BY <1>1, <1>2

\* The listener that waits for a client in session i, or has just got one.
WaitedFor(i) == \E l \in Listeners : picked[l] = i /\ lpc[l] \in {"accept", "start"}

LostInv == \A i \in Sessions : Waits(i) => i \in refused \/ WaitedFor(i)

LEMMA LostStep == Typed /\ LostInv /\ [Next]_vars => LostInv'
<1> SUFFICES ASSUME Typed, LostInv, [Next]_vars, NEW i \in Sessions, Waits(i)'
             PROVE  i \in refused' \/ WaitedFor(i)'
  BY DEF LostInv
<1>1. CASE UNCHANGED vars
  BY <1>1 DEF LostInv, Waits, WaitedFor, vars, listening, bounds
<1>2. ASSUME NEW c \in Connections,
             EventThread(c) \/ PingThread(c) \/ DataArrives(c) \/ Leave(c)
      PROVE  i \in refused' \/ WaitedFor(i)'
  BY <1>2, ThreadsMakeNoneWait DEF LostInv, WaitedFor, listening
<1>3. ASSUME NEW l \in Listeners, Listener(l)
      PROVE  i \in refused' \/ WaitedFor(i)'
  <2>0. /\ state \in [Sessions -> {"IDOL", "WAITTOCONNECT", "CONNECTED", "ERROR"}]
        /\ lpc \in [Listeners -> {"pick", "init", "accept", "start", "spawn"}]
        /\ picked \in [Listeners -> Sessions]
    BY DEF Typed, TypeOK
  <2> USE <2>0 DEF LostInv, Waits, WaitedFor, LGoto, bounds
  <2>1. CASE GetIdolSession(l)
    BY <2>1 DEF GetIdolSession
  <2>2. CASE InitSession(l)
    BY <2>2 DEF InitSession
  <2>3. CASE Accept(l)
    BY <2>3 DEF Accept
  <2>4. CASE AcceptFails(l)
    BY <2>4 DEF AcceptFails
  <2>5. CASE StartSession(l)
    BY <2>5 DEF StartSession
  <2>6. CASE SpawnThreads(l)
    BY <2>6 DEF SpawnThreads
  <2> QED
    BY <1>3, <2>1, <2>2, <2>3, <2>4, <2>5, <2>6 DEF Listener
<1> QED
  BY <1>1, <1>2, <1>3 DEF Next

(***************************************************************************)
(* Any listeners, any adversity: a session waits for a client only while a *)
(* listener waits for it, or because accept() failed for it; no close, no  *)
(* failed send and no race takes one out of service for good               *)
(* (AcceptConnection, tunnel-common.cpp 725-738).                          *)
(***************************************************************************)
THEOREM OnlyAcceptLosesSessions == Spec => []LostByAcceptOnly
<1>1. Init => Typed /\ LostInv
  BY TypeInit DEF Init, LostInv, Waits
<1>2. Typed /\ LostInv /\ [Next]_vars => (Typed /\ LostInv)'
  BY TypeStep, LostStep
<1>3. LostInv => LostByAcceptOnly
  BY DEF LostInv, LostByAcceptOnly, Waits, WaitedFor
<1> QED
  BY <1>1, <1>2, <1>3, PTL DEF Spec
-----------------------------------------------------------------------------
(***************************************************************************)
(* One client at a time, with a single listener and as long as no thread   *)
(* finds a connection failing by itself: two listeners may pick the same   *)
(* idle session, and a failed send may close the next client's socket.     *)
(***************************************************************************)
OneListener == \A l, m \in Listeners : l = m

Alive(c) == c <= accepted /\ pc[Event(c)] # "done"
Accepting(l) == lpc[l] \in {"start", "spawn"}

Working == {"loop", "wait", "serve", "check", "socket"}

\* The connections to come: nothing of them is there yet.
Fresh ==
  \A c \in Connections : c > accepted =>
    c \notin open /\ pc[Event(c)] = "none" /\ pc[Ping(c)] = "none"

\* A ping thread never closes anything, and only a ping thread sleeps.
PingsOnly ==
  \A c \in Connections :
    pc[Ping(c)] \in {"none", "loop", "sleep", "done"} /\ pc[Event(c)] # "sleep"

\* A connection keeps its session until its event thread ends,
Placed == \A c \in Connections : Alive(c) => session[c] \in Sessions /\ sd[session[c]] = c

\* and its socket until that thread closes it.
Opened ==
  \A c \in Connections : c <= accepted =>
    (c \in open <=> pc[Event(c)] \in Working \cup {"none"})

\* The session of a connection that has its threads is not given to another,
\* and the event thread waits for its own socket.
Served ==
  \A c \in Connections : pc[Event(c)] \in Working \cup {"idol"} =>
    state[session[c]] \in {"CONNECTED", "ERROR"} /\ watched[c] = c

\* Its event thread closes the connection itself, and ends.
ClosesItself ==
  \A c \in Connections : pc[Event(c)] \in {"check", "socket", "idol"} =>
    call[Event(c)] = [target |-> session[c], meant |-> c, back |-> "done"]

\* A connection without threads is the one a listener is about to start.
Unspawned ==
  \A c \in Connections : c <= accepted /\ pc[Event(c)] = "none" =>
    \E l \in Listeners : Accepting(l) /\ client[l] = c

\* The session a listener has picked is its own.
ListenerHolds ==
  \A l \in Listeners :
    /\ lpc[l] = "init" => state[picked[l]] = "IDOL"
    /\ lpc[l] = "accept" =>
         /\ state[picked[l]] = "WAITTOCONNECT"
         /\ \A c \in Connections : Alive(c) => session[c] # picked[l]
    /\ Accepting(l) =>
         /\ client[l] <= accepted
         /\ session[client[l]] = picked[l]
         /\ pc[Event(client[l])] = "none"
         /\ lpc[l] = "start" => state[picked[l]] = "WAITTOCONNECT"
         /\ lpc[l] = "spawn" => state[picked[l]] = "CONNECTED"

Held ==
  /\ Fresh /\ PingsOnly /\ Placed /\ Opened /\ Served /\ ClosesItself
  /\ Unspawned /\ ListenerHolds /\ misclosed = {}

\* The types that the steps below use.
LEMMA Shapes ==
  ASSUME Typed
  PROVE  /\ state \in [Sessions -> {"IDOL", "WAITTOCONNECT", "CONNECTED", "ERROR"}]
         /\ sd \in [Sessions -> Connections \cup {None}]
         /\ accepted \in 0 .. MaxConnections
         /\ session \in [Connections -> Sessions \cup {None}]
         /\ open \in SUBSET Connections
         /\ lpc \in [Listeners -> {"pick", "init", "accept", "start", "spawn"}]
         /\ picked \in [Listeners -> Sessions]
         /\ client \in [Listeners -> Connections \cup {None}]
         /\ pc \in [Threads -> {"none", "loop", "wait", "serve", "sleep", "check",
                               "socket", "idol", "done"}]
         /\ call \in [Threads -> [target : Sessions, meant : Connections \cup {None},
                                 back : {"loop", "serve", "done"}]]
         /\ \A l \in Listeners : Accepting(l) => client[l] \in Connections
BY DEF Typed, TypeOK, Assigned, Accepting

LEMMA HeldInit == Init => Held
<1> SUFFICES ASSUME Init PROVE Held
  OBVIOUS
<1> USE ThreadsDiffer, Bounds DEF Init, Alive, Accepting, Working
<1>1. \A c \in Connections : c > 0 /\ ~(c <= 0)
  BY DEF Connections
<1>2. Fresh /\ PingsOnly /\ Placed /\ Opened
  BY <1>1 DEF Fresh, PingsOnly, Placed, Opened
<1>3. Served /\ ClosesItself /\ Unspawned /\ ListenerHolds
  BY <1>1 DEF Served, ClosesItself, Unspawned, ListenerHolds
<1> QED
  BY <1>2, <1>3 DEF Held

LEMMA ListenerStep ==
  ASSUME OneListener, Typed, Held, NEW l \in Listeners, Listener(l)
  PROVE  Held'
<1> USE ThreadsDiffer, Bounds, Shapes DEF OneListener, LGoto, Held, Alive, Accepting, Working, clients, closing, bounds, events
<1>1. CASE GetIdolSession(l)
  <2> USE <1>1 DEF GetIdolSession, Idol
  <2>1. Fresh' /\ PingsOnly' /\ Placed' /\ Opened' /\ Served' /\ ClosesItself'
    BY DEF Fresh, PingsOnly, Placed, Opened, Served, ClosesItself
  <2>2. Unspawned'
    BY DEF Unspawned
  <2>3. ListenerHolds'
    BY DEF ListenerHolds
  <2> QED
    BY <2>1, <2>2, <2>3
<1>2. CASE InitSession(l)
  <2> USE <1>2 DEF InitSession
  <2>1. Fresh' /\ PingsOnly' /\ Placed' /\ Opened' /\ ClosesItself'
    BY DEF Fresh, PingsOnly, Placed, Opened, ClosesItself
  <2>2. \A c \in Connections : Alive(c) => session[c] # picked[l]
    BY DEF Unspawned, Served, ListenerHolds, PingsOnly
  <2>3. Served'
    BY <2>2 DEF Served, Fresh
  <2>4. Unspawned'
    BY DEF Unspawned
  <2>5. ListenerHolds'
    BY <2>2 DEF ListenerHolds
  <2> QED
    BY <2>1, <2>3, <2>4, <2>5
<1>3. CASE Accept(l)
  <2> DEFINE c == accepted + 1
  <2>0. c \in Connections
    BY <1>3, SessionAssumption DEF Accept, Adversity, Typed, TypeOK, Connections
  <2> USE <1>3, <2>0 DEF Accept
  <2>1. Fresh' /\ PingsOnly'
    BY DEF Fresh, PingsOnly
  <2>2. Placed'
    BY DEF Placed, Fresh, ListenerHolds
  <2>3. Opened'
    BY DEF Opened, Fresh
  <2>4. Served' /\ ClosesItself'
    BY DEF Served, ClosesItself, Fresh
  <2>5. Unspawned'
    BY DEF Unspawned
  <2>6. ListenerHolds'
    BY DEF ListenerHolds, Fresh
  <2> QED
    BY <2>1, <2>2, <2>3, <2>4, <2>5, <2>6
<1>4. CASE AcceptFails(l)
  <2> USE <1>4 DEF AcceptFails
  <2>1. Fresh' /\ PingsOnly' /\ Opened' /\ Served' /\ ClosesItself'
    BY DEF Fresh, PingsOnly, Opened, Served, ClosesItself
  <2>2. Placed'
    BY DEF Placed, ListenerHolds
  <2>3. Unspawned'
    BY DEF Unspawned
  <2>4. ListenerHolds'
    BY DEF ListenerHolds
  <2> QED
    BY <2>1, <2>2, <2>3, <2>4
<1>5. CASE StartSession(l)
  <2> USE <1>5 DEF StartSession
  <2>1. Fresh' /\ PingsOnly' /\ Placed' /\ Opened' /\ Served' /\ ClosesItself'
    BY DEF Fresh, PingsOnly, Placed, Opened, Served, ClosesItself
  <2>2. Unspawned'
    BY DEF Unspawned
  <2>3. ListenerHolds'
    BY DEF ListenerHolds
  <2> QED
    BY <2>1, <2>2, <2>3
<1>6. CASE SpawnThreads(l)
  <2> DEFINE c == client[l]
  <2> USE <1>6 DEF SpawnThreads
  <2>0. /\ c \in Connections /\ c <= accepted /\ session[c] = picked[l]
        /\ pc[Event(c)] = "none" /\ state[session[c]] = "CONNECTED"
        /\ \A d \in Connections : pc'[Event(d)] = IF d = c THEN "loop" ELSE pc[Event(d)]
        /\ \A d \in Connections : pc'[Ping(d)] = IF d = c THEN "loop" ELSE pc[Ping(d)]
    <3>1. c \in Connections
      OBVIOUS
    <3>2. /\ c <= accepted /\ session[c] = picked[l]
          /\ pc[Event(c)] = "none" /\ state[session[c]] = "CONNECTED"
      BY DEF ListenerHolds
    <3>3. \A d \in Connections : pc'[Event(d)] = IF d = c THEN "loop" ELSE pc[Event(d)]
      BY <3>1
    <3>4. \A d \in Connections : pc'[Ping(d)] = IF d = c THEN "loop" ELSE pc[Ping(d)]
      BY <3>1
    <3> QED
      BY <3>1, <3>2, <3>3, <3>4
  <2>1. Fresh' /\ PingsOnly' /\ Opened'
    BY <2>0 DEF Fresh, PingsOnly, Opened
  <2>2. Placed' /\ ClosesItself'
    BY <2>0 DEF Placed, ClosesItself
  <2>5. Served'
    <3>1. watched \in [Connections -> Connections \cup {None}] /\ sd[picked[l]] = c
      BY <2>0 DEF Placed, Typed, TypeOK
    <3> QED
      BY <2>0, <3>1 DEF Served
  <2>3. Unspawned'
    BY <2>0 DEF Unspawned
  <2>4. ListenerHolds'
    BY <2>0 DEF ListenerHolds
  <2> QED
    BY <2>1, <2>2, <2>3, <2>4, <2>5
<1> QED
  BY <1>1, <1>2, <1>3, <1>4, <1>5, <1>6 DEF Listener

\* What an event thread has called CloseConnection for.
LEMMA CallOfItself ==
  ASSUME Held, NEW c \in Connections, pc[Event(c)] \in {"check", "socket", "idol"}
  PROVE  /\ call[Event(c)].target = session[c]
         /\ call[Event(c)].meant = c
         /\ call[Event(c)].back = "done"
<1>1. call[Event(c)] = [target |-> session[c], meant |-> c, back |-> "done"]
  BY DEF Held, ClosesItself
<1> QED
  BY <1>1

\* A step of an event thread: only the thread, its session and its socket
\* change, and the listeners see no more than a session that becomes idle.
LEMMA EventThreadStep ==
  ASSUME AllWell, Typed, Held, NEW c \in Connections, EventThread(c)
  PROVE  Held'
<1> USE ThreadsDiffer, Bounds, Shapes
    DEF Held, Alive, Accepting, Working, listening, clients, closing, bounds, events
<1>0. \A d \in Connections : session[d] \in Sessions => state[session[d]] \in
        {"IDOL", "WAITTOCONNECT", "CONNECTED", "ERROR"}
  OBVIOUS
<1>1. ASSUME pc[Event(c)] \in Working \cup {"idol"}
      PROVE  /\ c <= accepted /\ Alive(c) /\ session[c] \in Sessions /\ sd[session[c]] = c
             /\ state[session[c]] \in {"CONNECTED", "ERROR"} /\ watched[c] = c
             /\ c \in open <=> pc[Event(c)] # "idol"
             /\ \A d \in Connections : d # c /\ Alive(d) => session[d] # session[c]
  <2>1. c <= accepted /\ Alive(c)
    BY <1>1 DEF Fresh
  <2> QED
    BY <1>1, <2>1 DEF Placed, Served, Opened
<1>c. ASSUME pc[Event(c)] \in {"check", "socket", "idol"}
      PROVE  /\ call[Event(c)].target = session[c]
             /\ call[Event(c)].meant = c
             /\ call[Event(c)].back = "done"
  BY <1>c, CallOfItself
<1>2. CASE CheckIdol(Event(c))
  <2> USE <1>1, <1>2 DEF CheckIdol
  <2>1. /\ pc' = [pc EXCEPT ![Event(c)] = "socket"]
        /\ UNCHANGED <<state, sd, open, call, misclosed, listening, clients, bounds>>
    BY <1>c
  <2>2. Fresh' /\ PingsOnly' /\ Placed' /\ Opened' /\ Served' /\ ClosesItself'
    BY <2>1 DEF Fresh, PingsOnly, Placed, Opened, Served, ClosesItself
  <2>3. Unspawned' /\ ListenerHolds'
    BY <2>1 DEF Unspawned, ListenerHolds
  <2> QED
    BY <2>1, <2>2, <2>3
<1>3. CASE CloseSocket(Event(c))
  <2> USE <1>1, <1>3 DEF CloseSocket
  <2>1. /\ open' = open \ {c} /\ misclosed' = {}
        /\ pc' = [pc EXCEPT ![Event(c)] = "idol"]
        /\ UNCHANGED <<state, sd, call, listening, clients, bounds>>
    BY <1>c
  <2>2. Fresh' /\ PingsOnly' /\ Placed' /\ Opened' /\ Served' /\ ClosesItself'
    BY <2>1 DEF Fresh, PingsOnly, Placed, Opened, Served, ClosesItself
  <2>3. Unspawned' /\ ListenerHolds'
    BY <2>1 DEF Unspawned, ListenerHolds
  <2> QED
    BY <2>1, <2>2, <2>3
<1>4. CASE SetIdol(Event(c))
  <2> USE <1>1, <1>4 DEF SetIdol, Return
  <2>1. /\ state' = [state EXCEPT ![session[c]] = "IDOL"]
        /\ pc' = [pc EXCEPT ![Event(c)] = "done"]
        /\ call' = [call EXCEPT ![Event(c)] = NoCall]
        /\ UNCHANGED <<sd, open, misclosed, listening, clients, bounds>>
    BY <1>c
  <2>2. Fresh' /\ PingsOnly' /\ Placed' /\ Opened' /\ ClosesItself'
    BY <2>1 DEF Fresh, PingsOnly, Placed, Opened, ClosesItself
  <2>3. Served'
    BY <2>1 DEF Served, Fresh
  <2>4. Unspawned'
    BY <2>1 DEF Unspawned
  <2>5. ListenerHolds'
    <3>1. ASSUME NEW l \in Listeners, Accepting(l), picked[l] = session[c] PROVE FALSE
      <4>1. client[l] \in Connections /\ client[l] <= accepted /\ session[client[l]] = session[c]
            /\ pc[Event(client[l])] = "none"
        BY <3>1 DEF ListenerHolds
      <4>2. Alive(client[l]) /\ client[l] # c
        BY <4>1
      <4> QED
        BY <4>1, <4>2
    <3> QED
      BY <2>1, <3>1 DEF ListenerHolds
  <2> QED
    BY <2>1, <2>2, <2>3, <2>4, <2>5
<1>5. ASSUME pc[Event(c)] \in {"loop", "wait", "serve"}, NEW step \in {"wait", "serve", "loop"},
             pc' = [pc EXCEPT ![Event(c)] = step],
             UNCHANGED <<state, sd, open, call, misclosed, listening, clients, bounds>>
      PROVE  Held'
  <2>1. Fresh' /\ PingsOnly' /\ Placed' /\ Opened' /\ Served' /\ ClosesItself'
    BY <1>1, <1>5 DEF Fresh, PingsOnly, Placed, Opened, Served, ClosesItself
  <2>2. Unspawned' /\ ListenerHolds'
    BY <1>1, <1>5 DEF Unspawned, ListenerHolds
  <2> QED
    BY <1>5, <2>1, <2>2
<1>b. ASSUME pc[Event(c)] \in {"loop", "wait"}, UNCHANGED state,
             CallClose(Event(c), session[c], c, "done")
      PROVE  Held'
  <2> USE <1>1, <1>b DEF CallClose
  <2>1. /\ pc' = [pc EXCEPT ![Event(c)] = "check"]
        /\ call' = [call EXCEPT ![Event(c)] =
                      [target |-> session[c], meant |-> c, back |-> "done"]]
        /\ UNCHANGED <<state, sd, open, misclosed, listening, clients, bounds>>
    OBVIOUS
  <2>2. Fresh' /\ PingsOnly' /\ Placed' /\ Opened' /\ Served' /\ ClosesItself'
    BY <2>1 DEF Fresh, PingsOnly, Placed, Opened, Served, ClosesItself
  <2>3. Unspawned' /\ ListenerHolds'
    BY <2>1 DEF Unspawned, ListenerHolds
  <2> QED
    BY <2>1, <2>2, <2>3
<1>6. CASE TestState(c)
  <2>1. CASE state[session[c]] = "CONNECTED"
    BY <1>1, <1>5, <1>6, <2>1 DEF TestState, Own
  <2>2. CASE state[session[c]] # "CONNECTED"
    BY <1>1, <1>b, <1>6, <2>2 DEF TestState, Own
  <2> QED
    BY <2>1, <2>2
<1>7. CASE EnumEvents(c)
  <2>1. CASE pc' = [pc EXCEPT ![Event(c)] = "serve"] /\ UNCHANGED <<sd, open, listening, clients, closing, bounds>>
    BY <1>1, <1>5, <1>7, <2>1 DEF EnumEvents
  <2>2. CASE CallClose(Event(c), session[c], c, "done")
    BY <1>b, <1>7, <2>2 DEF EnumEvents
  <2> QED
    BY <1>1, <1>7, <2>1, <2>2 DEF EnumEvents, Own
<1>8. CASE Serve(c)
  BY <1>5, <1>8 DEF Serve
<1>9. CASE ReceiveFails(c)
  <2> USE <1>1, <1>9 DEF ReceiveFails, Own
  <2>1. /\ pc[Event(c)] = "serve"
        /\ state' = [state EXCEPT ![session[c]] = "ERROR"]
        /\ pc' = [pc EXCEPT ![Event(c)] = "loop"]
        /\ UNCHANGED <<sd, open, call, misclosed, listening, clients, bounds>>
    OBVIOUS
  <2>2. Fresh' /\ PingsOnly' /\ Placed' /\ Opened' /\ Served' /\ ClosesItself'
    BY <2>1 DEF Fresh, PingsOnly, Placed, Opened, Served, ClosesItself
  <2>3. Unspawned'
    BY <2>1 DEF Unspawned
  <2>4. ListenerHolds'
    <3>1. ASSUME NEW l \in Listeners, Accepting(l), picked[l] = session[c] PROVE FALSE
      <4>1. client[l] \in Connections /\ client[l] <= accepted /\ session[client[l]] = session[c]
            /\ pc[Event(client[l])] = "none"
        BY <3>1 DEF ListenerHolds
      <4>2. Alive(client[l]) /\ client[l] # c
        BY <2>1, <4>1
      <4> QED
        BY <2>1, <4>1, <4>2
    <3> QED
      BY <2>1, <3>1 DEF ListenerHolds
  <2> QED
    BY <2>1, <2>2, <2>3, <2>4
<1>10. CASE ReceiveRejects(c) \/ RelayFails(c)
  BY <1>10 DEF AllWell, ReceiveRejects, RelayFails, SendFails, Event
<1> QED
  BY <1>2, <1>3, <1>4, <1>6, <1>7, <1>8, <1>9, <1>10 DEF EventThread, Closing

LEMMA PingThreadStep ==
  ASSUME AllWell, Typed, Held, NEW c \in Connections, PingThread(c)
  PROVE  Held'
<1> USE ThreadsDiffer, Bounds, Shapes
    DEF Held, Alive, Accepting, Working, listening, clients, closing, bounds, events
<1>1. CASE Closing(Ping(c))
  BY <1>1 DEF Closing, CheckIdol, CloseSocket, SetIdol, PingsOnly
<1>2. CASE PingLoop(c) \/ PingSent(c)
  <2>1. /\ \E step \in {"sleep", "done", "loop"} : pc' = [pc EXCEPT ![Ping(c)] = step]
        /\ pc[Ping(c)] # "none"
        /\ UNCHANGED <<state, sd, open, call, misclosed, listening, clients, bounds>>
    BY <1>2 DEF PingLoop, PingSent
  <2>2. Fresh' /\ PingsOnly' /\ Placed' /\ Opened' /\ Served' /\ ClosesItself'
    BY <2>1 DEF Fresh, PingsOnly, Placed, Opened, Served, ClosesItself
  <2>3. Unspawned' /\ ListenerHolds'
    BY <2>1 DEF Unspawned, ListenerHolds
  <2> QED
    BY <2>1, <2>2, <2>3
<1>3. CASE PingFails(c)
  BY <1>3 DEF PingFails, SendFails, AllWell
<1> QED
  BY <1>1, <1>2, <1>3 DEF PingThread

\* Nothing that Held speaks of is the clients'.
LEMMA ClientStep ==
  ASSUME Held, (\E c \in Connections : DataArrives(c) \/ Leave(c)) \/ UNCHANGED vars
  PROVE  Held'
<1>1. UNCHANGED <<state, sd, open, pc, call, misclosed, accepted, session, watched, lpc, picked,
                client>>
  BY DEF DataArrives, Leave, vars, listening, clients, closing, bounds
<1> QED
  BY <1>1 DEF Held, Fresh, PingsOnly, Placed, Opened, Served, ClosesItself, Unspawned,
     ListenerHolds, Alive, Accepting, Event, Ping
\* No step changes which threads may find a connection failing.
LEMMA SendersStay ==
  ASSUME Typed, [Next]_vars
  PROVE  left'.senders = left.senders
<1>1. ASSUME NEW l \in Listeners, Listener(l) PROVE left'.senders = left.senders
  <2>1. left \in [connections : 0 .. MaxConnections, refusals : Nat, senders : SUBSET Kinds]
    BY DEF Typed, TypeOK, Adversity
  <2> QED
    BY <1>1, <2>1 DEF Listener, GetIdolSession, InitSession, Accept, AcceptFails, StartSession,
       SpawnThreads, bounds
<1>2. ASSUME NEW c \in Connections, EventThread(c) PROVE left' = left
  BY <1>2 DEF EventThread, Closing, CheckIdol, CloseSocket, SetIdol, TestState, EnumEvents, Serve,
     ReceiveFails, ReceiveRejects, RelayFails, SendFails, CallClose, bounds
<1>3. ASSUME NEW c \in Connections, PingThread(c) \/ DataArrives(c) \/ Leave(c) PROVE left' = left
  BY <1>3 DEF PingThread, Closing, CheckIdol, CloseSocket, SetIdol, PingLoop, PingSent, PingFails,
     SendFails, CallClose, DataArrives, Leave, bounds
<1> QED
  BY <1>1, <1>2, <1>3 DEF Next, vars, bounds

HeldInv == Typed /\ (AllWell => Held)

LEMMA HeldStep ==
  ASSUME OneListener
  PROVE  HeldInv /\ [Next]_vars => HeldInv'
<1> SUFFICES ASSUME Typed, AllWell => Held, [Next]_vars PROVE HeldInv'
  BY DEF HeldInv
<1>1. Typed'
  BY TypeStep
<1>2. AllWell' => AllWell
  BY SendersStay DEF AllWell
<1>3. AllWell /\ Held => Held'
  <2>1. CASE Next
    BY <2>1, ListenerStep, EventThreadStep, PingThreadStep, ClientStep DEF Next
  <2>2. CASE UNCHANGED vars
    BY <2>2, ClientStep
  <2> QED
    BY <2>1, <2>2
<1> QED
  BY <1>1, <1>2, <1>3 DEF HeldInv

LEMMA HeldAlways ==
  ASSUME OneListener
  PROVE  Spec => []HeldInv
<1>1. Init => HeldInv
  BY TypeInit, HeldInit DEF HeldInv
<1> QED
  BY <1>1, HeldStep, PTL DEF Spec

\* What Held says of the open sockets.
LEMMA HeldKeepsSockets ==
  ASSUME HeldInv
  PROVE  NoSocketForgotten /\ SessionsExclusive /\ ClosesWhatFailed
<1>1. ASSUME AllWell, NEW c \in open
      PROVE  sd[session[c]] = c /\ state[session[c]] # "IDOL"
  <2>1. Held /\ Typed /\ c \in Connections
    BY <1>1 DEF HeldInv, Typed, TypeOK
  <2>2. c <= accepted
    BY <2>1, Shapes, <1>1 DEF Held, Fresh, Connections
  <2>3. Alive(c) /\ pc[Event(c)] \in Working \cup {"none"}
    BY <1>1, <2>1, <2>2 DEF Held, Opened, Alive, Working
  <2>4. CASE pc[Event(c)] = "none"
    <3>1. PICK l \in Listeners : Accepting(l) /\ client[l] = c
      BY <2>1, <2>2, <2>4 DEF Held, Unspawned
    <3> QED
      BY <2>1, <2>3, <3>1 DEF Held, Placed, ListenerHolds, Accepting
  <2>5. CASE pc[Event(c)] \in Working
    BY <2>1, <2>3, <2>5 DEF Held, Placed, Served
  <2> QED
    BY <2>3, <2>4, <2>5
<1>2. AllWell => misclosed = {}
  BY DEF HeldInv, Held
<1> QED
  BY <1>1, <1>2 DEF NoSocketForgotten, SessionsExclusive, ClosesWhatFailed

(***************************************************************************)
(* With one listener no open socket is forgotten: it is the one its        *)
(* session holds, and that session is not given to another client before   *)
(* it is closed (tunnel-common.cpp 615-690, 725-738).                      *)
(***************************************************************************)
THEOREM SocketsStayInTheirSession ==
  OneListener => (Spec => []NoSocketForgotten)
<1> SUFFICES ASSUME OneListener PROVE Spec => []NoSocketForgotten
  OBVIOUS
<1> QED
  BY HeldAlways, HeldKeepsSockets, PTL

(***************************************************************************)
(* With one listener a session serves one client: two open sockets are     *)
(* never in the same session (tunnel-server.cpp 63-72).                    *)
(***************************************************************************)
THEOREM OneClientPerSession ==
  OneListener => (Spec => []SessionsExclusive)
<1> SUFFICES ASSUME OneListener PROVE Spec => []SessionsExclusive
  OBVIOUS
<1> QED
  BY HeldAlways, HeldKeepsSockets, PTL

(***************************************************************************)
(* With one listener CloseConnection closes the connection whose end the   *)
(* thread has seen, never the next client in the same session              *)
(* (tunnel-common.cpp 816-851).                                            *)
(***************************************************************************)
THEOREM ClosesItsOwnConnection ==
  OneListener => (Spec => []ClosesWhatFailed)
<1> SUFFICES ASSUME OneListener PROVE Spec => []ClosesWhatFailed
  OBVIOUS
<1> QED
  BY HeldAlways, HeldKeepsSockets, PTL
=============================================================================
