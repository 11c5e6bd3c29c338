------------------------------- MODULE Session ------------------------------
(***************************************************************************)
(* The life of the sessions of the arena server: the table sessions[],     *)
(* the DoListening threads that take a free session and accept a client    *)
(* into it (tunnel-server.cpp 65-72, 443-473; AcceptConnection,            *)
(* InitConnection and StartConnection of tunnel-common.cpp 725-814), and   *)
(* the two threads of each connection, SocketEventHandler and PingAction,  *)
(* either of which may call CloseConnection (615-690, 816-851).            *)
(*                                                                         *)
(* The table has no lock: every step below that the code does not guard    *)
(* with a critical section may interleave with every other.                *)
(***************************************************************************)
EXTENDS Integers, FiniteSets

CONSTANTS
  NumSessions,    \* maxOfSessions, 100
  Listeners,      \* one DoListening thread per local IP address
  MaxConnections, \* bound: connections accepted in all
  Adversities     \* what may go wrong, one of these: how many connections are
                  \* accepted, how often accept() fails, and the kinds of
                  \* threads that may find a connection failing: "ping" in
                  \* send(), "event" also by the number check

Kinds == {"event", "ping"}
Adversity ==
  [connections : 0 .. MaxConnections, refusals : Nat, senders : SUBSET Kinds]

ASSUME SessionAssumption ==
  /\ NumSessions \in Nat \ {0}
  /\ MaxConnections \in Nat
  /\ Adversities \subseteq Adversity

Sessions == 1 .. NumSessions
Connections == 1 .. MaxConnections
None == 0

Threads == Connections \X Kinds
Event(c) == <<c, "event">>
Ping(c) == <<c, "ping">>

VARIABLES
  state,    \* sessions[i].state
  sd,       \* sessions[i].sd, the connection whose socket it holds
  accepted, \* how many connections have been accepted; they are numbered
  session,  \* the session a connection was accepted into
  watched,  \* the connection whose events its event thread waits for
  signalled, \* the event threads whose event object is set
  fdClose,  \* the connections with an FD_CLOSE recorded and not yet taken
  open,     \* connections whose server socket is open
  gone,     \* clients that closed their socket
  lpc,      \* where each listener is
  picked,   \* the session it has picked
  client,   \* the connection it has accepted
  pc,       \* where each thread of each connection is
  call,     \* its call of CloseConnection: the session it works on, where it
            \* goes on after that and, as history, the connection it is meant for
  misclosed, \* history: connections closed by a call made for another one
  refused,  \* history: the sessions accept() has failed for
  left      \* what may still go wrong

listening == <<lpc, picked, client>>
clients == <<accepted, session, watched, gone>>
events == <<signalled, fdClose>>
closing == <<call, misclosed>>

bounds == <<refused, left>>

vars == <<state, sd, open, pc, events, listening, clients, closing, bounds>>

TypeOK ==
  /\ state \in [Sessions -> {"IDOL", "WAITTOCONNECT", "CONNECTED", "ERROR"}]
  /\ sd \in [Sessions -> Connections \cup {None}]
  /\ accepted \in 0 .. MaxConnections
  /\ session \in [Connections -> Sessions \cup {None}]
  /\ watched \in [Connections -> Connections \cup {None}]
  /\ open \in SUBSET Connections
  /\ gone \in SUBSET Connections
  /\ signalled \in SUBSET Connections /\ fdClose \in SUBSET Connections
  /\ lpc \in [Listeners -> {"pick", "init", "accept", "start", "spawn"}]
  /\ picked \in [Listeners -> Sessions]
  /\ client \in [Listeners -> Connections \cup {None}]
  /\ pc \in [Threads ->
              {"none", "loop", "wait", "serve", "sleep", "check",
               "socket", "idol", "done"}]
  /\ call \in [Threads -> [target : Sessions, meant : Connections \cup {None},
                          back : {"loop", "serve", "done"}]]
  /\ misclosed \in SUBSET Connections
  /\ refused \in SUBSET Sessions
  /\ left \in Adversity

NoCall == [target |-> 1, meant |-> None, back |-> "loop"]

Init ==
  /\ state = [i \in Sessions |-> "IDOL"]
  /\ sd = [i \in Sessions |-> None]
  /\ accepted = 0
  /\ session = [c \in Connections |-> None]
  /\ watched = [c \in Connections |-> None]
  /\ open = {} /\ gone = {} /\ signalled = {} /\ fdClose = {}
  /\ lpc = [l \in Listeners |-> "pick"]
  /\ picked = [l \in Listeners |-> 1]
  /\ client = [l \in Listeners |-> None]
  /\ pc = [t \in Threads |-> "none"]
  /\ call = [t \in Threads |-> NoCall]
  /\ misclosed = {} /\ refused = {}
  /\ left \in Adversities
-----------------------------------------------------------------------------
(***************************************************************************)
(* DoListening.                                                            *)
(***************************************************************************)
Idol == {i \in Sessions : state[i] = "IDOL"}

LGoto(l, step) == lpc' = [lpc EXCEPT ![l] = step]

\* GetIdolSession: the first idle session; the listener waits while there is
\* none.
GetIdolSession(l) ==
  \E i \in Idol :
    /\ lpc[l] = "pick"
    /\ \A j \in Idol : i <= j
    /\ picked' = [picked EXCEPT ![l] = i]
    /\ LGoto(l, "init")
    /\ UNCHANGED <<state, sd, open, pc, client, clients, closing, bounds, events>>

\* InitConnection, and the state AcceptConnection sets before it waits.
InitSession(l) ==
  /\ lpc[l] = "init"
  /\ state' = [state EXCEPT ![picked[l]] = "WAITTOCONNECT"]
  /\ LGoto(l, "accept")
  /\ UNCHANGED <<sd, open, pc, picked, client, clients, closing, bounds, events>>

\* Wrong: the session of a new client is not started.
AcceptOnly(l) ==
  LET c == accepted + 1 IN
  /\ lpc[l] = "accept"
  /\ accepted < left.connections
  /\ accepted' = c
  /\ client' = [client EXCEPT ![l] = c]
  /\ sd' = [sd EXCEPT ![picked[l]] = c]
  /\ session' = [session EXCEPT ![c] = picked[l]]
  /\ open' = open \cup {c}
  /\ LGoto(l, "pick")
  /\ UNCHANGED <<state, pc, picked, watched, gone, closing, events, bounds>>

\* accept() returns the socket of a new client,
Accept(l) ==
  LET c == accepted + 1 IN
  /\ lpc[l] = "accept"
  /\ accepted < left.connections
  /\ accepted' = c
  /\ client' = [client EXCEPT ![l] = c]
  /\ sd' = [sd EXCEPT ![picked[l]] = c]
  /\ session' = [session EXCEPT ![c] = picked[l]]
  /\ open' = open \cup {c}
  /\ LGoto(l, "start")
  /\ UNCHANGED <<state, pc, picked, watched, gone, closing, bounds, events>>

\* or fails: the listener goes on with another session and leaves this one
\* in STATE_WAITTOCONNECT.
AcceptFails(l) ==
  /\ lpc[l] = "accept"
  /\ left.refusals > 0
  /\ left' = [left EXCEPT !.refusals = @ - 1]
  /\ refused' = refused \cup {picked[l]}
  /\ sd' = [sd EXCEPT ![picked[l]] = None]
  /\ LGoto(l, "pick")
  /\ UNCHANGED <<state, open, pc, picked, client, clients, closing, events>>

\* StartConnection: the session is CONNECTED before its threads exist.
StartSession(l) ==
  /\ lpc[l] = "start"
  /\ state' = [state EXCEPT ![picked[l]] = "CONNECTED"]
  /\ LGoto(l, "spawn")
  /\ UNCHANGED <<sd, open, pc, picked, client, clients, closing, bounds, events>>

\* Wrong: nothing wakes the event thread for what happened before it existed.
SpawnSleepers(l) ==
  LET c == client[l] IN
  /\ lpc[l] = "spawn"
  /\ pc' = [pc EXCEPT ![Event(c)] = "loop", ![Ping(c)] = "loop"]
  /\ watched' = [watched EXCEPT ![c] = sd[picked[l]]]
  /\ LGoto(l, "pick")
  /\ UNCHANGED <<state, sd, open, signalled, fdClose, picked, client, accepted, session,
                 gone, closing, bounds>>

\* The two threads.  The event thread registers for the socket it finds, and
\* is told that it can be written to.
SpawnThreads(l) ==
  LET c == client[l]
      started == {Event(c), Ping(c)} IN
  /\ lpc[l] = "spawn"
  /\ pc' = [t \in Threads |-> IF t \in started THEN "loop" ELSE pc[t]]
  /\ watched' = [watched EXCEPT ![c] = sd[picked[l]]]
  /\ signalled' = signalled \cup {c}
  /\ LGoto(l, "pick")
  /\ UNCHANGED <<state, sd, open, fdClose, picked, client, accepted, session, gone,
                 closing, bounds>>
-----------------------------------------------------------------------------
(***************************************************************************)
(* CloseConnection(&sessions[i]), in the three steps that others can get   *)
(* between: the look at the state, closesocket, and STATE_IDOL.  A thread  *)
(* enters it with "check", for the connection whose end it has seen.       *)
(***************************************************************************)
CallClose(t, i, conn, next) ==
  /\ pc' = [pc EXCEPT ![t] = "check"]
  /\ call' = [call EXCEPT ![t] = [target |-> i, meant |-> conn, back |-> next]]
  /\ UNCHANGED <<sd, open, misclosed, listening, clients, bounds>>

Return(t) ==
  /\ pc' = [pc EXCEPT ![t] = call[t].back]
  /\ call' = [call EXCEPT ![t] = NoCall]

\* Wrong: STATE_IDOL is set before the socket is closed.
CheckIdolEarly(t) ==
  /\ pc[t] = "check"
  /\ IF state[call[t].target] = "IDOL"
     THEN Return(t)
     ELSE pc' = [pc EXCEPT ![t] = "socket"] /\ UNCHANGED call
  /\ state' = [state EXCEPT ![call[t].target] = "IDOL"]
  /\ UNCHANGED <<sd, open, events, misclosed, listening, clients, bounds>>

CheckIdol(t) ==
  /\ pc[t] = "check"
  /\ IF state[call[t].target] = "IDOL"
     THEN Return(t)
     ELSE pc' = [pc EXCEPT ![t] = "socket"] /\ UNCHANGED call
  /\ UNCHANGED <<state, sd, open, events, misclosed, listening, clients, bounds>>

CloseSocket(t) ==
  LET c == sd[call[t].target] IN
  /\ pc[t] = "socket"
  /\ open' = open \ {c}
  /\ fdClose' = fdClose \ {c}
  /\ misclosed' = misclosed \cup ({c} \cap (open \ {call[t].meant}))
  /\ pc' = [pc EXCEPT ![t] = "idol"]
  /\ UNCHANGED <<state, sd, signalled, listening, clients, call, bounds>>

SetIdol(t) ==
  /\ pc[t] = "idol"
  /\ state' = [state EXCEPT ![call[t].target] = "IDOL"]
  /\ Return(t)
  /\ UNCHANGED <<sd, open, events, misclosed, listening, clients, bounds>>
-----------------------------------------------------------------------------
(***************************************************************************)
(* SocketEventHandler of connection c.                                     *)
(***************************************************************************)
Own(c) == session[c]

\* Wrong: the thread ends with its loop, nothing closes the connection.
TestStateOnly(c) ==
  /\ pc[Event(c)] = "loop"
  /\ pc' = [pc EXCEPT ![Event(c)] =
               IF state[Own(c)] = "CONNECTED" THEN "wait" ELSE "done"]
  /\ UNCHANGED <<state, sd, open, events, listening, clients, closing, bounds>>

\* The test of its loop, and the call of CloseConnection after it.
TestState(c) ==
  /\ pc[Event(c)] = "loop"
  /\ IF state[Own(c)] = "CONNECTED"
     THEN /\ pc' = [pc EXCEPT ![Event(c)] = "wait"]
          /\ UNCHANGED <<sd, open, listening, clients, closing, bounds>>
     ELSE CallClose(Event(c), Own(c), watched[c], "done")
  /\ UNCHANGED <<state, events>>

(***************************************************************************)
(* Its event object is set, and WSAEnumNetworkEvents takes the events of   *)
(* the socket the session holds NOW: FD_CLOSE, the error of a closed       *)
(* socket, or something to receive or send.                                *)
(***************************************************************************)
EnumEvents(c) ==
  LET d == sd[Own(c)] IN
  /\ pc[Event(c)] = "wait"
  /\ c \in signalled
  /\ signalled' = signalled \ {c}
  /\ fdClose' = fdClose \ {d}
  /\ IF d \in fdClose \/ d \notin open
     THEN CallClose(Event(c), Own(c), d, "done")
     ELSE /\ pc' = [pc EXCEPT ![Event(c)] = "serve"]
          /\ UNCHANGED <<sd, open, listening, clients, closing, bounds>>
  /\ UNCHANGED state

\* RecvToBuffer and SendFromBuffer.
Serve(c) ==
  /\ pc[Event(c)] = "serve"
  /\ pc' = [pc EXCEPT ![Event(c)] = "loop"]
  /\ UNCHANGED <<state, sd, open, events, listening, clients, closing, bounds>>

\* recv() finds the socket closed by another thread, or the client gone.
ReceiveFails(c) ==
  /\ pc[Event(c)] = "serve"
  /\ sd[Own(c)] \notin open \/ sd[Own(c)] \in gone
  /\ state' = [state EXCEPT ![Own(c)] = "ERROR"]
  /\ pc' = [pc EXCEPT ![Event(c)] = "loop"]
  /\ UNCHANGED <<sd, open, events, listening, clients, closing, bounds>>

\* A command is out of order: RecvCommand closes the connection.
ReceiveRejects(c) ==
  /\ "event" \in left.senders
  /\ pc[Event(c)] = "serve"
  /\ state[Own(c)] = "CONNECTED"
  /\ sd[Own(c)] \in open
  /\ CallClose(Event(c), Own(c), sd[Own(c)], "loop")
  /\ UNCHANGED <<state, events>>

(***************************************************************************)
(* The SendCommand of a thread to session i fails, its client gone or its  *)
(* socket closed: SendFromBuffer sets STATE_ERROR, and SendCommand closes  *)
(* the connection ten milliseconds later.                                  *)
(***************************************************************************)
SendFails(t, i, next) ==
  /\ t[2] \in left.senders
  /\ state[i] = "CONNECTED"
  /\ sd[i] \in gone \/ sd[i] \notin open
  /\ state' = [state EXCEPT ![i] = "ERROR"]
  /\ CallClose(t, i, sd[i], next)
  /\ UNCHANGED events

\* A handler of doServerCommand sends to any of the sessions.
RelayFails(c) ==
  /\ pc[Event(c)] = "serve"
  /\ state[Own(c)] = "CONNECTED"
  /\ \E i \in Sessions : SendFails(Event(c), i, "serve")
-----------------------------------------------------------------------------
(***************************************************************************)
(* PingAction of connection c: sleep while the session is CONNECTED, then  *)
(* send a ping to whoever holds the session by then.                       *)
(***************************************************************************)
PingLoop(c) ==
  /\ pc[Ping(c)] = "loop"
  /\ pc' = [pc EXCEPT ![Ping(c)] =
              IF state[Own(c)] = "CONNECTED" THEN "sleep" ELSE "done"]
  /\ UNCHANGED <<state, sd, open, events, listening, clients, closing, bounds>>

PingSent(c) ==
  /\ pc[Ping(c)] = "sleep"
  /\ state[Own(c)] = "CONNECTED" /\ "ping" \in left.senders => sd[Own(c)] \in open
  /\ pc' = [pc EXCEPT ![Ping(c)] = "loop"]
  /\ UNCHANGED <<state, sd, open, events, listening, clients, closing, bounds>>

PingFails(c) ==
  /\ pc[Ping(c)] = "sleep"
  /\ SendFails(Ping(c), Own(c), "loop")
-----------------------------------------------------------------------------
Watchers(c) == {d \in Connections : watched[d] = c /\ pc[Event(d)] # "done"}

\* A client sends something.
DataArrives(c) ==
  /\ c \in open \ gone
  /\ signalled' = signalled \cup Watchers(c)
  /\ signalled' # signalled
  /\ UNCHANGED <<state, sd, open, pc, fdClose, clients, listening, closing, bounds>>

\* A client closes its socket, or its host goes away.
Leave(c) ==
  /\ c \in open \ gone
  /\ gone' = gone \cup {c}
  /\ fdClose' = fdClose \cup {c}
  /\ signalled' = signalled \cup Watchers(c)
  /\ UNCHANGED <<state, sd, open, pc, accepted, session, watched, listening, closing, bounds>>

Closing(t) == CheckIdol(t) \/ CloseSocket(t) \/ SetIdol(t)

EventThread(c) ==
  \/ Closing(Event(c)) \/ TestState(c) \/ EnumEvents(c)
  \/ Serve(c) \/ ReceiveFails(c) \/ ReceiveRejects(c) \/ RelayFails(c)

PingThread(c) == Closing(Ping(c)) \/ PingLoop(c) \/ PingSent(c) \/ PingFails(c)

Listener(l) ==
  \/ GetIdolSession(l) \/ InitSession(l) \/ Accept(l) \/ AcceptFails(l)
  \/ StartSession(l) \/ SpawnThreads(l)

Next ==
  \/ \E l \in Listeners : Listener(l)
  \/ \E c \in Connections :
       EventThread(c) \/ PingThread(c) \/ DataArrives(c) \/ Leave(c)

Spec == Init /\ [][Next]_vars

(***************************************************************************)
(* Every thread is scheduled.  Clients send and leave when they like, and  *)
(* an event thread that nothing wakes stays in its wait.                   *)
(***************************************************************************)
Fairness ==
  /\ \A l \in Listeners : WF_vars(Listener(l))
  /\ \A c \in Connections : WF_vars(EventThread(c)) /\ WF_vars(PingThread(c))

FairSpec == Spec /\ Fairness
-----------------------------------------------------------------------------
(***************************************************************************)
(* A session serves one client: two connections with an open socket are    *)
(* never in the same session ("To get the free session",                   *)
(* tunnel-server.cpp 63).  This, and the two below, as long as no send     *)
(* fails and no number is wrong; else a thread may close the next client.  *)
(***************************************************************************)
AllWell == left.senders = {}

SessionsExclusive ==
  AllWell => \A c, d \in open : c # d => session[c] # session[d]

(***************************************************************************)
(* No socket is forgotten: every open one is in its session's sd, and the  *)
(* session is not free for another client.                                 *)
(***************************************************************************)
NoSocketForgotten ==
  AllWell => \A c \in open : sd[session[c]] = c /\ state[session[c]] # "IDOL"

(***************************************************************************)
(* CloseConnection closes the connection whose failure it was called for:  *)
(* the session "Failure to transfer. Be disconnected" names                *)
(* (tunnel-server.cpp 254), not the next client in the same session.       *)
(***************************************************************************)
ClosesWhatFailed == AllWell => misclosed = {}

(***************************************************************************)
(* A session waits for a client only while a listener waits for it; all    *)
(* others that stay in STATE_WAITTOCONNECT are those that accept() failed  *)
(* for, and no other course of events takes one out of service.            *)
(***************************************************************************)
LostByAcceptOnly ==
  \A i \in Sessions : state[i] = "WAITTOCONNECT" =>
    i \in refused \/ \E l \in Listeners : picked[l] = i /\ lpc[l] # "pick"

(***************************************************************************)
(* Clients that leave give their sessions back: sooner or later there is   *)
(* none whose connection the server still has open.                        *)
(***************************************************************************)
SessionsComeBack == (AllWell /\ gone # {}) ~> gone \cap open = {}

(***************************************************************************)
(* Once all clients have left no session stays taken, whoever closed what: *)
(* only the listeners hold one each, waiting in accept(), and the failed   *)
(* accepts one each.                                                       *)
(***************************************************************************)
NoSessionLeak ==
  (accepted = left.connections /\ 1 .. accepted \subseteq gone)
    ~> (\A i \in Sessions : state[i] \in {"IDOL", "WAITTOCONNECT"})
=============================================================================
