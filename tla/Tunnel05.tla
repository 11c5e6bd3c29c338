------------------------------ MODULE Tunnel05 ------------------------------
(***************************************************************************)
(* Version 0.5 as a whole (MHPTunnel05src/src): the server that relays     *)
(* commands between its sessions (tunnel-server.cpp 85-236), and clients   *)
(* that tunnel the frames of the PSPs near by and put those of the others  *)
(* on the air (tunnel-client.cpp 58-122 and 209-283).                      *)
(*                                                                         *)
(* A connection is a pair of queues.  Its two ends are closed at different *)
(* times: a client may be back in a second session while the server still  *)
(* works for it in the first.                                              *)
(***************************************************************************)
EXTENDS Integers, Sequences, FiniteSets

CONSTANTS
  NumSessions,    \* maxOfSessions, 64
  Clients,
  PSPs,           \* addresses
  Near,           \* the client near which each PSP is
  Broadcast,
  MaxMac,         \* maxMacAddr, 8: addresses in each of the tables mac
  MaxIgnored,     \* maxiMacAddr, 8: addresses in ignoreMac
  NoFrame, NoCommand,
  MaxConnections, \* bound: connections in all
  Budgets         \* bound: how many ends of connections may fail, which frames
                  \* PSPs may send and how many lines be typed: one of these

Frames == [src : PSPs, dst : PSPs \cup {Broadcast}]

ASSUME Tunnel05Assumption ==
  /\ {NumSessions, MaxConnections} \subseteq Nat \ {0}
  /\ {MaxMac, MaxIgnored} \subseteq Nat
  /\ Budgets \subseteq [losses : Nat, frames : SUBSET Frames, lines : Nat]
  /\ IsFiniteSet(PSPs) /\ Near \in [PSPs -> Clients]
  /\ Broadcast \notin PSPs

Sessions == 0 .. NumSessions - 1
Connections == 1 .. MaxConnections
None == 0    \* no connection
NoSession == -1

\* option is the number of a session, or not set.
Commands == [type : {"T", "C", "U", "I", "t", "c", "u", "i"},
             frame : Frames \cup {NoFrame}, option : Sessions \cup {NoSession}]

ASSUME NothingAssumption == NoFrame \notin Frames /\ NoCommand \notin Commands

VARIABLES
  \* the server
  held,    \* the connection in each session that is CONNECTED
  picked,  \* the session that DoMain waits for a client with
  smac,    \* sessions[i].mac
  running, \* the connections whose event thread runs
  doing,   \* the command each event thread works on
  next,    \* the session its loop is at; -1 before the source is learned
  chosen,  \* whether that session has passed the tests
  \* the connections
  made,    \* how many there have been
  owner,   \* the client of each
  place,   \* the session of each
  up, down, \* what is on the way to and from the server
  \* the clients
  gsd,       \* the connection of each
  mac, ignoreMac,
  air,       \* frames the adapter has heard and packet_handler has not seen
  captured,  \* the frame packet_handler is sending
  tried,     \* whether it has called SendCommand and not yet tested the state
  injecting, \* the frame of the server that goes on the air next
  answers,   \* history: the sessions that answered since the last /users
  left       \* what remains of the budget

server == <<held, picked, smac>>
handlers == <<running, doing, next, chosen>>
ends == <<made, owner, place, gsd>>
wires == <<up, down>>
bridge == <<mac, ignoreMac, air, captured, tried, injecting>>

vars == <<server, handlers, ends, wires, bridge, answers, left>>

TypeOK ==
  /\ held \in [Sessions -> Connections \cup {None}]
  /\ picked \in Sessions \cup {NoSession}
  /\ smac \in [Sessions -> SUBSET PSPs]
  /\ running \in SUBSET Connections
  /\ doing \in [Connections -> Commands \cup {NoCommand}]
  /\ next \in [Connections -> Sessions \cup {-1}]
  /\ chosen \in [Connections -> BOOLEAN]
  /\ made \in 0 .. MaxConnections
  /\ owner \in [1 .. made -> Clients]
  /\ place \in [1 .. made -> Sessions]
  /\ up \in [Connections -> Seq(Commands)]
  /\ down \in [Connections -> Seq(Commands)]
  /\ gsd \in [Clients -> Connections \cup {None}]
  /\ mac \in [Clients -> SUBSET PSPs]
  /\ ignoreMac \in [Clients -> SUBSET PSPs]
  /\ air \in [Clients -> Seq(Frames)]
  /\ captured \in [Clients -> Frames \cup {NoFrame}]
  /\ tried \in [Clients -> BOOLEAN]
  /\ injecting \in [Clients -> Frames \cup {NoFrame}]
  /\ answers \in [Connections -> SUBSET Sessions]
  /\ left \in [losses : Nat, frames : SUBSET Frames, lines : Nat]

Init ==
  /\ held = [i \in Sessions |-> None]
  /\ picked = NoSession
  /\ smac = [i \in Sessions |-> {}]
  /\ running = {}
  /\ doing = [k \in Connections |-> NoCommand]
  /\ next = [k \in Connections |-> 0]
  /\ chosen = [k \in Connections |-> FALSE]
  /\ made = 0 /\ owner = <<>> /\ place = <<>>
  /\ up = [k \in Connections |-> <<>>]
  /\ down = [k \in Connections |-> <<>>]
  /\ gsd = [c \in Clients |-> None]
  /\ mac = [c \in Clients |-> {}]
  /\ ignoreMac = [c \in Clients |-> {}]
  /\ air = [c \in Clients |-> <<>>]
  /\ captured = [c \in Clients |-> NoFrame]
  /\ tried = [c \in Clients |-> FALSE]
  /\ injecting = [c \in Clients |-> NoFrame]
  /\ answers = [k \in Connections |-> {}]
  /\ left \in Budgets

\* A table of limited size, as every list of addresses here.
Learned(table, address, size) ==
  IF Cardinality(table) < size THEN table \cup {address} ELSE table

Queued(queues, k, type, frame, option) ==
  [queues EXCEPT ![k] =
     Append(@, [type |-> type, frame |-> frame, option |-> option])]
-----------------------------------------------------------------------------
(***************************************************************************)
(* Connections come and go.                                                *)
(***************************************************************************)
Idol == {i \in Sessions : held[i] = None}

\* DoMain of the server: GetIdolSession, and InitConnection with it.
PickSession ==
  /\ picked = NoSession
  /\ \E i \in Idol :
       /\ \A j \in Idol : i <= j
       /\ picked' = i
       /\ smac' = [smac EXCEPT ![i] = {}]
  /\ UNCHANGED <<held, handlers, ends, wires, bridge, answers, left>>

\* A client connects, for the first time or in the loop of DoClose.
Connect(c) ==
  LET k == made + 1 IN
  /\ gsd[c] = None /\ picked # NoSession /\ made < MaxConnections
  /\ made' = k
  /\ owner' = Append(owner, c)
  /\ place' = Append(place, picked)
  /\ gsd' = [gsd EXCEPT ![c] = k]
  /\ held' = [held EXCEPT ![picked] = k]
  /\ picked' = NoSession
  /\ running' = running \cup {k}
  /\ UNCHANGED <<smac, doing, next, chosen, wires, bridge, answers, left>>

Live(k) == k <= made /\ held[place[k]] = k /\ gsd[owner[k]] = k

\* One end fails by itself,
LoseClient(c) ==
  /\ gsd[c] # None /\ left.losses > 0
  /\ left' = [left EXCEPT !.losses = @ - 1]
  /\ gsd' = [gsd EXCEPT ![c] = None]
  /\ UNCHANGED <<server, handlers, made, owner, place, wires, bridge, answers>>

LoseSession(i) ==
  /\ held[i] # None /\ left.losses > 0
  /\ left' = [left EXCEPT !.losses = @ - 1]
  /\ held' = [held EXCEPT ![i] = None]
  /\ UNCHANGED <<picked, smac, handlers, made, owner, place, gsd, wires, bridge, answers>>

\* and the other finds out.  The session is closed by its event thread, or by
\* any thread that sends, while the event thread may be inside DoCommand.
ClientNotices(c) ==
  /\ gsd[c] # None /\ held[place[gsd[c]]] # gsd[c]
  /\ gsd' = [gsd EXCEPT ![c] = None]
  /\ UNCHANGED <<server, handlers, made, owner, place, wires, bridge, answers,
                 left>>

CloseSession(i) ==
  /\ held[i] # None /\ gsd[owner[held[i]]] # held[i]
  /\ held' = [held EXCEPT ![i] = None]
  /\ UNCHANGED <<picked, smac, handlers, ends, wires, bridge, answers, left>>
-----------------------------------------------------------------------------
(***************************************************************************)
(* DoCommand of the server, in the event thread of connection k.  A thread *)
(* that has not noticed the end of its connection goes on with whatever    *)
(* connection its session holds now.                                       *)
(***************************************************************************)
Idle(k) == k \in running /\ doing[k] = NoCommand

EventThreadEnds(k) ==
  /\ Idle(k) /\ held[place[k]] = None
  /\ running' = running \ {k}
  /\ UNCHANGED <<doing, next, chosen, server, ends, wires, bridge, answers, left>>

RecvCommand(k) ==
  LET j == held[place[k]] IN
  /\ Idle(k) /\ j # None
  /\ up[j] # <<>>
  /\ doing' = [doing EXCEPT ![k] = Head(up[j])]
  /\ next' = [next EXCEPT ![k] = IF Head(up[j]).type = "T" THEN -1 ELSE 0]
  /\ up' = [up EXCEPT ![j] = Tail(@)]
  /\ UNCHANGED <<running, chosen, down, server, ends, bridge, answers, left>>

\* 'T': the source belongs to the session.
LearnSource(k) ==
  /\ doing[k] # NoCommand /\ next[k] = -1
  /\ smac' = [smac EXCEPT ![place[k]] = Learned(@, doing[k].frame.src, MaxMac)]
  /\ next' = [next EXCEPT ![k] = 0]
  /\ UNCHANGED <<held, picked, running, doing, chosen, ends, wires, bridge, answers, left>>

\* Wrong: a frame also goes back to where it came from.
GoesToAll(k, i) ==
  CASE doing[k].type \in {"C", "U"} -> TRUE
    [] doing[k].type = "I" -> i = doing[k].option
    [] OTHER -> doing[k].frame.dst = Broadcast \/ doing[k].frame.dst \in smac[i]

\* Wrong: the tables are not looked at.
GoesToOthers(k, i) ==
  CASE doing[k].type \in {"C", "U"} -> TRUE
    [] doing[k].type = "I" -> i = doing[k].option
    [] OTHER -> i # place[k]

\* Whom the command is for: everybody, the session that asked, or the
\* sessions with the destination.
GoesTo(k, i) ==
  CASE doing[k].type \in {"C", "U"} -> TRUE
    [] doing[k].type = "I" -> i = doing[k].option
    [] OTHER -> /\ i # place[k]
                /\ doing[k].frame.dst = Broadcast \/ doing[k].frame.dst \in smac[i]

Looping(k) == doing[k] # NoCommand /\ next[k] # -1

ChooseSession(k) ==
  /\ Looping(k) /\ ~chosen[k]
  /\ held[next[k]] # None /\ GoesTo(k, next[k])
  /\ chosen' = [chosen EXCEPT ![k] = TRUE]
  /\ UNCHANGED <<running, doing, next, server, ends, wires, bridge, answers, left>>

\* The loop goes on, or DoCommand returns.
Advance(k) ==
  IF next[k] + 1 \in Sessions
  THEN next' = [next EXCEPT ![k] = @ + 1] /\ UNCHANGED doing
  ELSE next' = [next EXCEPT ![k] = 0] /\ doing' = [doing EXCEPT ![k] = NoCommand]

PassSession(k) ==
  /\ Looping(k) /\ ~chosen[k]
  /\ held[next[k]] = None \/ ~GoesTo(k, next[k])
  /\ Advance(k)
  /\ UNCHANGED <<running, chosen, server, ends, wires, bridge, answers, left>>

Answer(type) == CASE type = "T" -> "t" [] type = "C" -> "c" [] type = "U" -> "u" [] OTHER -> "i"

\* SendCommand, to whoever has the session by now.
ForwardCommand(k) ==
  /\ Looping(k) /\ chosen[k]
  /\ down' = IF held[next[k]] = None THEN down
             ELSE Queued(down, held[next[k]], Answer(doing[k].type), doing[k].frame, place[k])
  /\ chosen' = [chosen EXCEPT ![k] = FALSE]
  /\ Advance(k)
  /\ UNCHANGED <<running, up, server, ends, bridge, answers, left>>

Handler(k) ==
  \/ RecvCommand(k) \/ LearnSource(k) \/ ChooseSession(k) \/ PassSession(k)
  \/ ForwardCommand(k)
-----------------------------------------------------------------------------
(***************************************************************************)
(* DoCommand of client c, in its event thread.                             *)
(***************************************************************************)
Arrives(c, types) ==
  /\ gsd[c] # None /\ injecting[c] = NoFrame
  /\ down[gsd[c]] # <<>>
  /\ Head(down[gsd[c]]).type \in types
  /\ down' = [down EXCEPT ![gsd[c]] = Tail(@)]

\* Wrong: the source is not noted.
ReceiveFrameOnly(c) ==
  /\ Arrives(c, {"t"})
  /\ injecting' = [injecting EXCEPT ![c] = Head(down[gsd[c]]).frame]
  /\ UNCHANGED <<up, mac, ignoreMac, air, captured, tried, server, handlers, ends, answers,
                 left>>

\* 't': the source is noted as one that is not to be tunnelled,
ReceiveFrame(c) ==
  /\ Arrives(c, {"t"})
  /\ LET frame == Head(down[gsd[c]]).frame IN
     /\ ignoreMac' = [ignoreMac EXCEPT ![c] = Learned(@, frame.src, MaxIgnored)]
     /\ injecting' = [injecting EXCEPT ![c] = frame]
  /\ UNCHANGED <<up, mac, air, captured, tried, server, handlers, ends, answers, left>>

\* and the frame goes on the air, where the adapter hears it too.
SendPacket(c) ==
  /\ injecting[c] # NoFrame
  /\ air' = [air EXCEPT ![c] = Append(@, injecting[c])]
  /\ injecting' = [injecting EXCEPT ![c] = NoFrame]
  /\ UNCHANGED <<wires, mac, ignoreMac, captured, tried, server, handlers, ends, answers,
                 left>>

\* Wrong: the answer does not say whom it is for.
ReceiveQuestionBare(c) ==
  /\ Arrives(c, {"u"})
  /\ up' = Queued(up, gsd[c], "I", NoFrame, 0)
  /\ UNCHANGED <<server, handlers, ends, bridge, answers, left>>

\* 'u' is answered by 'I' with the same option, the number of who asked.
ReceiveQuestion(c) ==
  /\ Arrives(c, {"u"})
  /\ up' = Queued(up, gsd[c], "I", NoFrame, Head(down[gsd[c]]).option)
  /\ UNCHANGED <<server, handlers, ends, bridge, answers, left>>

ReceiveAnswer(c) ==
  /\ Arrives(c, {"i"})
  /\ answers' = [answers EXCEPT ![gsd[c]] = @ \cup {Head(down[gsd[c]]).option}]
  /\ UNCHANGED <<up, server, handlers, ends, bridge, left>>

ReceiveChat(c) ==
  /\ Arrives(c, {"c"})
  /\ UNCHANGED <<up, server, handlers, ends, bridge, answers, left>>

EventThread(c) ==
  ReceiveFrame(c) \/ SendPacket(c) \/ ReceiveQuestion(c) \/ ReceiveAnswer(c) \/ ReceiveChat(c)

\* ConsoleSender, and DoMain after the first connection.
TypeLine(c, type) ==
  /\ left.lines > 0 /\ gsd[c] # None
  /\ left' = [left EXCEPT !.lines = @ - 1]
  /\ up' = Queued(up, gsd[c], type, NoFrame, NoSession)
  /\ answers' = IF type = "U" THEN [answers EXCEPT ![gsd[c]] = {}] ELSE answers
  /\ UNCHANGED <<down, server, handlers, ends, bridge>>
-----------------------------------------------------------------------------
(***************************************************************************)
(* A PSP sends a frame, and packet_handler of the client near by.          *)
(***************************************************************************)
Transmit(frame) ==
  /\ frame \in left.frames
  /\ left' = [left EXCEPT !.frames = @ \ {frame}]
  /\ air' = [air EXCEPT ![Near[frame.src]] = Append(@, frame)]
  /\ UNCHANGED <<mac, ignoreMac, captured, tried, injecting, server, handlers, ends, wires,
                 answers>>

\* The source is learned unless it is one of those to ignore; a frame between
\* two PSPs near by is not sent.
Capture(c) ==
  LET frame == Head(air[c])
      table == IF frame.src \in ignoreMac[c] THEN mac[c]
               ELSE Learned(mac[c], frame.src, MaxMac) IN
  /\ captured[c] = NoFrame /\ air[c] # <<>>
  /\ air' = [air EXCEPT ![c] = Tail(@)]
  /\ mac' = [mac EXCEPT ![c] = table]
  /\ captured' = IF frame.src \in table /\ frame.dst \notin table
                 THEN [captured EXCEPT ![c] = frame] ELSE captured
  /\ UNCHANGED <<ignoreMac, tried, injecting, server, handlers, ends, wires, answers, left>>

SendCaptured(c) ==
  /\ captured[c] # NoFrame /\ ~tried[c]
  /\ up' = IF gsd[c] = None THEN up ELSE Queued(up, gsd[c], "T", captured[c], NoSession)
  /\ tried' = [tried EXCEPT ![c] = TRUE]
  /\ UNCHANGED <<down, mac, ignoreMac, air, captured, injecting, server, handlers, ends,
                 answers, left>>

\* "while (gsd.state != STATE_CONNECTED)": the frame is sent again when the
\* connection is lost by now, and not when it has just come back.
TestConnected(c) ==
  /\ captured[c] # NoFrame /\ tried[c]
  /\ tried' = [tried EXCEPT ![c] = FALSE]
  /\ captured' = IF gsd[c] = None THEN captured ELSE [captured EXCEPT ![c] = NoFrame]
  /\ UNCHANGED <<mac, ignoreMac, air, injecting, server, handlers, ends, wires, answers,
                 left>>

CaptureThread(c) == Capture(c) \/ SendCaptured(c) \/ TestConnected(c)
-----------------------------------------------------------------------------
Next ==
  \/ PickSession
  \/ \E c \in Clients : Connect(c) \/ LoseClient(c) \/ ClientNotices(c)
  \/ \E i \in Sessions : LoseSession(i) \/ CloseSession(i)
  \/ \E k \in Connections : Handler(k) \/ EventThreadEnds(k)
  \/ \E c \in Clients : EventThread(c) \/ CaptureThread(c)
  \/ \E c \in Clients, type \in {"C", "U"} : TypeLine(c, type)
  \/ \E frame \in Frames : Transmit(frame)

Spec == Init /\ [][Next]_vars

\* Threads run.
Fairness ==
  /\ \A k \in Connections : WF_vars(Handler(k))
  /\ \A c \in Clients : WF_vars(EventThread(c))

FairSpec == Spec /\ Fairness
-----------------------------------------------------------------------------
(***************************************************************************)
(* Frames do not go round ("a list of addresses that are not tunnelled, to *)
(* prevent loops", tunnel-client.cpp 41): what a client sends comes from a *)
(* PSP near it, although its adapter hears what it puts on the air.        *)
(* ignoreMac must have room for all PSPs, also for the client's own: they  *)
(* get into it when a frame comes back.                                    *)
(***************************************************************************)
Roomy == Cardinality(PSPs) <= MaxIgnored

NoLoop ==
  Roomy => \A c \in Clients : captured[c] # NoFrame => Near[captured[c].src] = c

(***************************************************************************)
(* A client gets a frame of its own PSPs back only when it has been        *)
(* connected more than once: the relay then takes the client's new session *)
(* for somebody else's.                                                    *)
(***************************************************************************)
EchoOnlyByReconnect ==
  Roomy =>
  \A c \in Clients :
    injecting[c] # NoFrame /\ Near[injecting[c].src] = c =>
      \E k, m \in 1 .. made : k # m /\ owner[k] = c /\ owner[m] = c

(***************************************************************************)
(* A frame for one PSP is put on the air only by clients that are or were  *)
(* in a session of the client near that PSP, never by all: the tables of   *)
(* the sessions do not mix, also when a session changes hands between the  *)
(* look at its table and the sending.                                      *)
(***************************************************************************)
SharedSession(c, d) ==
  \E k, m \in 1 .. made : owner[k] = c /\ owner[m] = d /\ place[k] = place[m]

UnicastToOwner ==
  Roomy =>
  \A c \in Clients :
    injecting[c] # NoFrame /\ injecting[c].dst # Broadcast =>
      SharedSession(c, Near[injecting[c].dst])

(***************************************************************************)
(* Whoever types /users is answered by everybody else there is             *)
(* (tunnel-server.cpp 192-220, tunnel-client.cpp 100-116): 'U', 'u', 'I'   *)
(* and 'i' find their way through four threads, as long as the two         *)
(* connections live.                                                       *)
(***************************************************************************)
Asks(k) == \E n \in DOMAIN up[k] : up[k][n].type = "U"

AskedIsAnswered ==
  \A k \in Connections : \A m \in Connections \ {k} :
    Live(k) /\ Live(m) /\ Asks(k)
      ~> (~Live(k) \/ ~Live(m) \/ place[m] \in answers[k])
=============================================================================
