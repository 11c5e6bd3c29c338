--------------------------- MODULE Tunnel05_proofs --------------------------
(***************************************************************************)
(* The relay of version 0.5, for any number of sessions, clients and PSPs: *)
(* frames do not go round, come back to their own client only after a      *)
(* reconnection, and reach only clients that shared a session with the     *)
(* destination's.                                                          *)
(***************************************************************************)
EXTENDS Tunnel05, FiniteSetTheorems, TLAPS

\* Commands as they are sent to the server, and by it.
UpCommands ==
  {x \in Commands : x.type \in {"T", "C", "U", "I"} /\ (x.type = "T" => x.frame \in Frames)}

DownCommands ==
  {x \in Commands : /\ x.type \in {"t", "c", "u", "i"} /\ (x.type = "t" => x.frame \in Frames)
                    /\ x.option \in Sessions}

(***************************************************************************)
(* Which connections and commands there can be where.                      *)
(***************************************************************************)
Types ==
  /\ TypeOK
  /\ held \in [Sessions -> 0 .. made]
  /\ gsd \in [Clients -> 0 .. made]
  /\ running \subseteq 1 .. made
  /\ up \in [Connections -> Seq(UpCommands)]
  /\ down \in [Connections -> Seq(DownCommands)]
  /\ doing \in [Connections -> UpCommands \cup {NoCommand}]
  /\ \A k \in Connections :
       doing[k] # NoCommand => k <= made /\ (next[k] = -1 => doing[k].type = "T")

LEMMA Numbers ==
  /\ MaxConnections \in Nat /\ NumSessions \in Nat /\ 0 \in Sessions
  /\ Sessions \subseteq Nat /\ -1 \notin Sessions
BY Tunnel05Assumption DEF Sessions

LEMMA UpIsCommand == UpCommands \subseteq Commands /\ NoCommand \notin UpCommands
BY NothingAssumption DEF UpCommands

LEMMA SeqGrows ==
  ASSUME NEW S, NEW T, S \subseteq T, NEW s \in Seq(S)
  PROVE  s \in Seq(T)
OBVIOUS

\* One more element, and one fewer.
LEMMA OneMore ==
  ASSUME NEW S, NEW n \in Nat, NEW f \in [1 .. n -> S], NEW e \in S
  PROVE  /\ Append(f, e) \in [1 .. n + 1 -> S]
         /\ \A i \in 1 .. n : Append(f, e)[i] = f[i]
         /\ Append(f, e)[n + 1] = e
<1>1. f \in Seq(S) /\ Len(f) = n
  OBVIOUS
<1>2. /\ Append(f, e) \in Seq(S) /\ Len(Append(f, e)) = n + 1
      /\ \A i \in 1 .. n : Append(f, e)[i] = f[i]
      /\ Append(f, e)[n + 1] = e
  BY <1>1
<1>3. \A s \in Seq(S) : s \in [1 .. Len(s) -> S]
  OBVIOUS
<1> QED
  BY <1>2, <1>3

LEMMA OneFewer ==
  ASSUME NEW S, NEW s \in Seq(S), s # <<>>
  PROVE  Head(s) \in S /\ Tail(s) \in Seq(S)
OBVIOUS

\* A command is queued.
LEMMA QueuedIs ==
  ASSUME NEW S, NEW queues \in [Connections -> Seq(S)], NEW k \in Connections,
         NEW type, NEW frame, NEW option,
         [type |-> type, frame |-> frame, option |-> option] \in S
  PROVE  Queued(queues, k, type, frame, option) \in [Connections -> Seq(S)]
BY DEF Queued

LEMMA QueuedElsewhere ==
  ASSUME NEW queues, DOMAIN queues = Connections, NEW k \in Connections,
         NEW type, NEW frame, NEW option
  PROVE  /\ Queued(queues, k, type, frame, option)[k] =
              Append(queues[k], [type |-> type, frame |-> frame, option |-> option])
         /\ \A m \in Connections \ {k} : Queued(queues, k, type, frame, option)[m] = queues[m]
BY DEF Queued

LEMMA LearnedIs ==
  ASSUME NEW table \in SUBSET PSPs, NEW p \in PSPs, NEW size
  PROVE  /\ Learned(table, p, size) \in SUBSET PSPs
         /\ table \subseteq Learned(table, p, size)
         /\ Learned(table, p, size) \subseteq table \cup {p}
BY DEF Learned

\* One is taken off what remains of a budget.
LEMMA Spent ==
  ASSUME left \in [losses : Nat, frames : SUBSET Frames, lines : Nat]
  PROVE  /\ left.losses > 0 => [left EXCEPT !.losses = @ - 1] \in [losses : Nat, frames : SUBSET Frames, lines : Nat]
         /\ \A frame : [left EXCEPT !.frames = @ \ {frame}] \in [losses : Nat, frames : SUBSET Frames, lines : Nat]
         /\ left.lines > 0 => [left EXCEPT !.lines = @ - 1] \in [losses : Nat, frames : SUBSET Frames, lines : Nat]
OBVIOUS

LEMMA InitTypes == Init => Types
<1> SUFFICES ASSUME Init PROVE Types
  OBVIOUS
<1>1. TypeOK
  BY Numbers, Tunnel05Assumption DEF Init, TypeOK
<1>2. /\ up \in [Connections -> Seq(UpCommands)]
      /\ down \in [Connections -> Seq(DownCommands)]
  BY DEF Init
<1> QED
  BY <1>1, <1>2 DEF Init, Types, None
-----------------------------------------------------------------------------
LEMMA StepKeepsTypes ==
  ASSUME Types, [Next]_vars
  PROVE  Types'
<1> USE Numbers DEF server, handlers, ends, wires, bridge
<1>0. made \in Nat /\ None \in 0 .. made /\ left \in [losses : Nat, frames : SUBSET Frames, lines : Nat]
  BY DEF Types, TypeOK, None
<1>1. CASE PickSession
  BY <1>1 DEF PickSession, Idol, Types, TypeOK
<1>2. ASSUME NEW c \in Clients, Connect(c) PROVE Types'
  <2> DEFINE k == made + 1
  <2>1. /\ made \in Nat /\ k \in Connections /\ picked \in Sessions /\ made' = k
        /\ k \in 1 .. k
    BY <1>2 DEF Connect, Types, TypeOK, Connections, NoSession
  <2>2. owner' \in [1 .. k -> Clients] /\ place' \in [1 .. k -> Sessions]
    BY <1>2, <2>1, OneMore DEF Connect, Types, TypeOK
  <2>3. /\ held' \in [Sessions -> 0 .. k] /\ gsd' \in [Clients -> 0 .. k]
        /\ running' \subseteq 1 .. k
    <3>1. 0 .. made \subseteq 0 .. k /\ 1 .. made \subseteq 1 .. k /\ k \in 0 .. k
      BY <2>1
    <3> HIDE DEF k
    <3> QED
      BY <1>2, <2>1, <3>1 DEF Connect, Types, k
  <2>4. k <= MaxConnections /\ 0 .. k \subseteq Connections \cup {None} /\ 1 .. k \subseteq Connections
    BY <2>1 DEF Connections, None
  <2> HIDE DEF k
  <2>5. /\ held' \in [Sessions -> Connections \cup {None}]
        /\ gsd' \in [Clients -> Connections \cup {None}]
        /\ running' \in SUBSET Connections /\ made' \in 0 .. MaxConnections
    BY <2>1, <2>3, <2>4
  <2>6. /\ picked' = NoSession
        /\ UNCHANGED <<smac, doing, next, chosen, up, down, mac, ignoreMac, air, captured, tried,
                       injecting, answers, left>>
    BY <1>2 DEF Connect
  <2>7. TypeOK'
    BY <2>1, <2>2, <2>5, <2>6 DEF Types, TypeOK
  <2>8. made <= made'
    BY <2>1 DEF k
  <2>9. \A m \in Connections :
          doing'[m] # NoCommand => m <= made' /\ (next'[m] = -1 => doing'[m].type = "T")
    BY <1>0, <2>1, <2>6, <2>8 DEF Types, Connections
  <2> QED
    BY <2>1, <2>3, <2>6, <2>7, <2>9 DEF Types
<1>3. ASSUME NEW c \in Clients, LoseClient(c) PROVE Types'
  BY <1>0, <1>3, Spent DEF LoseClient, Types, TypeOK
<1>4. ASSUME NEW c \in Clients, ClientNotices(c) PROVE Types'
  BY <1>0, <1>4, Spent DEF ClientNotices, Types, TypeOK
<1>5. ASSUME NEW i \in Sessions, LoseSession(i) PROVE Types'
  BY <1>0, <1>5, Spent DEF LoseSession, Types, TypeOK
<1>6. ASSUME NEW i \in Sessions, CloseSession(i) PROVE Types'
  BY <1>0, <1>6, Spent DEF CloseSession, Types, TypeOK
<1>7. ASSUME NEW k \in Connections, EventThreadEnds(k) PROVE Types'
  BY <1>7 DEF EventThreadEnds, Types, TypeOK
<1>8. ASSUME NEW k \in Connections, RecvCommand(k) PROVE Types'
  <2> DEFINE j == held[place[k]]
  <2>1. k \in 1 .. made /\ place[k] \in Sessions /\ j \in Connections
    BY <1>8 DEF RecvCommand, Idle, Types, TypeOK, None
  <2>2. /\ Head(up[j]) \in UpCommands /\ Tail(up[j]) \in Seq(UpCommands)
        /\ Tail(up[j]) \in Seq(Commands) /\ Head(up[j]) \in Commands
    <3>1. up[j] \in Seq(UpCommands) /\ up[j] # <<>>
      BY <1>8, <2>1 DEF RecvCommand, Types
    <3> QED
      BY <3>1, OneFewer, SeqGrows, UpIsCommand
  <2>3. /\ doing' = [doing EXCEPT ![k] = Head(up[j])]
        /\ next' = [next EXCEPT ![k] = IF Head(up[j]).type = "T" THEN -1 ELSE 0]
        /\ up' = [up EXCEPT ![j] = Tail(up[j])]
    BY <1>8 DEF RecvCommand
  <2> HIDE DEF j
  <2>4. TypeOK'
    <3>1. /\ doing' \in [Connections -> Commands \cup {NoCommand}]
          /\ next' \in [Connections -> Sessions \cup {-1}]
          /\ up' \in [Connections -> Seq(Commands)]
      BY <2>1, <2>2, <2>3 DEF Types, TypeOK
    <3> QED
      BY <1>8, <3>1 DEF RecvCommand, Types, TypeOK
  <2>5. /\ doing' \in [Connections -> UpCommands \cup {NoCommand}]
        /\ up' \in [Connections -> Seq(UpCommands)]
    BY <2>1, <2>2, <2>3 DEF Types
  <2>6. \A m \in Connections :
          doing'[m] # NoCommand => m <= made /\ (next'[m] = -1 => doing'[m].type = "T")
    BY <2>1, <2>2, <2>3, SMTT(30) DEF Types, TypeOK
  <2> QED
    BY <1>8, <2>4, <2>5, <2>6 DEF RecvCommand, Types
<1>9. ASSUME NEW k \in Connections, LearnSource(k) PROVE Types'
  <2>1. k \in 1 .. made /\ doing[k] \in UpCommands /\ doing[k].type = "T"
    BY <1>9 DEF LearnSource, Types, Connections
  <2>2. place[k] \in Sessions
    BY <2>1 DEF Types, TypeOK
  <2>3. doing[k].frame.src \in PSPs
    BY <2>1 DEF UpCommands, Frames
  <2>4. smac[place[k]] \in SUBSET PSPs
    BY <2>2 DEF Types, TypeOK
  <2>5. Learned(smac[place[k]], doing[k].frame.src, MaxMac) \in SUBSET PSPs
    BY <2>3, <2>4, LearnedIs
  <2> QED
    BY <1>9, <2>2, <2>5 DEF LearnSource, Types, TypeOK
<1>10. ASSUME NEW k \in Connections, ChooseSession(k) PROVE Types'
  BY <1>10 DEF ChooseSession, Types, TypeOK
<1>11. ASSUME NEW k \in Connections, Advance(k), Looping(k), UNCHANGED <<running, made>>
       PROVE  /\ next' \in [Connections -> Sessions \cup {-1}]
              /\ doing' \in [Connections -> UpCommands \cup {NoCommand}]
              /\ doing' \in [Connections -> Commands \cup {NoCommand}]
              /\ \A m \in Connections :
                   doing'[m] # NoCommand => m <= made' /\ (next'[m] = -1 => doing'[m].type = "T")
  BY <1>11, ZenonT(60) DEF Advance, Looping, Types, TypeOK
<1>12. ASSUME NEW k \in Connections, PassSession(k) PROVE Types'
  BY <1>11, <1>12 DEF PassSession, Types, TypeOK
<1>13. ASSUME NEW k \in Connections, ForwardCommand(k) PROVE Types'
  <2>1. /\ k \in 1 .. made /\ next[k] \in Sessions /\ doing[k] \in UpCommands
        /\ Advance(k) /\ Looping(k) /\ UNCHANGED <<running, made>>
    BY <1>13 DEF ForwardCommand, Looping, Types, TypeOK, Connections
  <2>2. place[k] \in Sessions
    BY <2>1 DEF Types, TypeOK
  <2>3. [type |-> Answer(doing[k].type), frame |-> doing[k].frame, option |-> place[k]]
          \in DownCommands
    BY <2>1, <2>2 DEF Answer, UpCommands, DownCommands, Commands
  <2>4. down' \in [Connections -> Seq(DownCommands)]
    <3>1. CASE held[next[k]] = None
      BY <1>13, <3>1 DEF ForwardCommand, Types
    <3>2. CASE held[next[k]] # None
      <4>1. held[next[k]] \in Connections
        BY <2>1, <3>2 DEF Types, TypeOK
      <4> QED
        BY <1>13, <2>3, <3>2, <4>1, QueuedIs DEF ForwardCommand, Types
    <3> QED
      BY <3>1, <3>2
  <2>5. down' \in [Connections -> Seq(Commands)]
    BY <2>4, SeqGrows DEF DownCommands
  <2>6. TypeOK'
    BY <1>11, <1>13, <2>1, <2>5 DEF ForwardCommand, Types, TypeOK
  <2> QED
    BY <1>11, <1>13, <2>1, <2>4, <2>6 DEF ForwardCommand, Types
\* What a client takes from the server.
<1>14. ASSUME NEW c \in Clients, NEW types, Arrives(c, types)
       PROVE  /\ gsd[c] \in Connections /\ Head(down[gsd[c]]) \in DownCommands
              /\ down' \in [Connections -> Seq(DownCommands)]
              /\ down' \in [Connections -> Seq(Commands)]
  <2>1. gsd[c] \in Connections
    BY <1>14 DEF Arrives, Types, TypeOK
  <2>2. down[gsd[c]] \in Seq(DownCommands) /\ down[gsd[c]] # <<>>
    BY <1>14, <2>1 DEF Arrives, Types
  <2>3. down' \in [Connections -> Seq(DownCommands)]
    BY <1>14, <2>1, <2>2, OneFewer DEF Arrives, Types
  <2> QED
    BY <2>1, <2>2, <2>3, OneFewer, SeqGrows DEF DownCommands
<1>15. ASSUME NEW c \in Clients, ReceiveFrame(c) PROVE Types'
  <2> DEFINE frame == Head(down[gsd[c]]).frame
  <2>1. /\ Arrives(c, {"t"})
        /\ ignoreMac' = [ignoreMac EXCEPT ![c] = Learned(ignoreMac[c], frame.src, MaxIgnored)]
        /\ injecting' = [injecting EXCEPT ![c] = frame]
    BY <1>15 DEF ReceiveFrame
  <2>2. frame \in Frames
    BY <1>14, <2>1 DEF Arrives, DownCommands
  <2> HIDE DEF frame
  <2>3. Learned(ignoreMac[c], frame.src, MaxIgnored) \in SUBSET PSPs
    BY <2>2, LearnedIs DEF Frames, Types, TypeOK
  <2>4. /\ down' \in [Connections -> Seq(DownCommands)]
        /\ down' \in [Connections -> Seq(Commands)]
    BY <1>14, <2>1
  <2>5. /\ ignoreMac' \in [Clients -> SUBSET PSPs]
        /\ injecting' \in [Clients -> Frames \cup {NoFrame}]
    BY <2>1, <2>2, <2>3 DEF Types, TypeOK
  <2>6. UNCHANGED <<up, mac, air, captured, tried, server, handlers, ends, answers, left>>
    BY <1>15 DEF ReceiveFrame
  <2>7. TypeOK'
    BY <2>4, <2>5, <2>6 DEF Types, TypeOK
  <2> QED
    BY <2>4, <2>6, <2>7 DEF Types
<1>16. ASSUME NEW c \in Clients, SendPacket(c) PROVE Types'
  <2>1. injecting[c] \in Frames /\ air[c] \in Seq(Frames)
    BY <1>16 DEF SendPacket, Types, TypeOK
  <2>2. Append(air[c], injecting[c]) \in Seq(Frames)
    BY <2>1
  <2> QED
    BY <1>16, <2>2 DEF SendPacket, Types, TypeOK
<1>17. ASSUME NEW c \in Clients, ReceiveQuestion(c) PROVE Types'
  <2> DEFINE x == [type |-> "I", frame |-> NoFrame, option |-> Head(down[gsd[c]]).option]
  <2>1. /\ gsd[c] \in Connections /\ Head(down[gsd[c]]) \in DownCommands
        /\ down' \in [Connections -> Seq(DownCommands)]
        /\ down' \in [Connections -> Seq(Commands)]
    BY <1>14, <1>17 DEF ReceiveQuestion
  <2>2. x \in UpCommands /\ x \in Commands
    BY <2>1 DEF UpCommands, DownCommands, Commands
  <2>3. up' \in [Connections -> Seq(UpCommands)] /\ up' \in [Connections -> Seq(Commands)]
    BY <1>17, <2>1, <2>2, QueuedIs DEF ReceiveQuestion, Types, TypeOK
  <2> QED
    BY <1>17, <2>1, <2>3 DEF ReceiveQuestion, Types, TypeOK
<1>18. ASSUME NEW c \in Clients, ReceiveAnswer(c) PROVE Types'
  <2>1. /\ gsd[c] \in Connections /\ Head(down[gsd[c]]).option \in Sessions
        /\ down' \in [Connections -> Seq(DownCommands)]
        /\ down' \in [Connections -> Seq(Commands)]
    BY <1>14, <1>18 DEF ReceiveAnswer, DownCommands
  <2> QED
    BY <1>18, <2>1 DEF ReceiveAnswer, Types, TypeOK
<1>19. ASSUME NEW c \in Clients, ReceiveChat(c) PROVE Types'
  <2>1. /\ down' \in [Connections -> Seq(DownCommands)]
        /\ down' \in [Connections -> Seq(Commands)]
    BY <1>14, <1>19 DEF ReceiveChat
  <2> QED
    BY <1>19, <2>1 DEF ReceiveChat, Types, TypeOK
<1>20. ASSUME NEW c \in Clients, NEW type \in {"C", "U"}, TypeLine(c, type) PROVE Types'
  <2> DEFINE x == [type |-> type, frame |-> NoFrame, option |-> NoSession]
  <2>1. x \in UpCommands /\ x \in Commands
    BY DEF UpCommands, Commands
  <2>2. gsd[c] \in Connections
    BY <1>20 DEF TypeLine, Types, TypeOK
  <2>3. up' \in [Connections -> Seq(UpCommands)] /\ up' \in [Connections -> Seq(Commands)]
    BY <1>20, <2>1, <2>2, QueuedIs DEF TypeLine, Types, TypeOK
  <2> QED
    BY <1>0, <1>20, <2>3, Spent DEF TypeLine, Types, TypeOK
<1>21. ASSUME NEW frame \in Frames, Transmit(frame) PROVE Types'
  <2>1. frame \in Frames /\ Near[frame.src] \in Clients
    BY Tunnel05Assumption DEF Frames
  <2>2. Append(air[Near[frame.src]], frame) \in Seq(Frames)
    BY <2>1 DEF Types, TypeOK
  <2> QED
    BY <1>0, <1>21, <2>1, <2>2, Spent DEF Transmit, Types, TypeOK
<1>22. ASSUME NEW c \in Clients, Capture(c) PROVE Types'
  <2>1. Head(air[c]) \in Frames /\ Tail(air[c]) \in Seq(Frames)
    BY <1>22, OneFewer DEF Capture, Types, TypeOK
  <2>2. Learned(mac[c], Head(air[c]).src, MaxMac) \in SUBSET PSPs
    BY <2>1, LearnedIs DEF Types, TypeOK, Frames
  <2> QED
    BY <1>22, <2>1, <2>2 DEF Capture, Types, TypeOK
<1>23. ASSUME NEW c \in Clients, SendCaptured(c) PROVE Types'
  <2> DEFINE x == [type |-> "T", frame |-> captured[c], option |-> NoSession]
  <2>1. x \in UpCommands /\ x \in Commands
    BY <1>23 DEF SendCaptured, UpCommands, Commands, Types, TypeOK
  <2>2. up' \in [Connections -> Seq(UpCommands)] /\ up' \in [Connections -> Seq(Commands)]
    <3>1. CASE gsd[c] = None
      BY <1>23, <3>1 DEF SendCaptured, Types, TypeOK
    <3>2. CASE gsd[c] # None
      <4>1. gsd[c] \in Connections
        BY <3>2 DEF Types, TypeOK
      <4> QED
        BY <1>23, <2>1, <3>2, <4>1, QueuedIs DEF SendCaptured, Types, TypeOK
    <3> QED
      BY <3>1, <3>2
  <2> QED
    BY <1>23, <2>2 DEF SendCaptured, Types, TypeOK
<1>24. ASSUME NEW c \in Clients, TestConnected(c) PROVE Types'
  BY <1>24 DEF TestConnected, Types, TypeOK
<1>25. CASE UNCHANGED vars
  BY <1>25 DEF vars, Types, TypeOK
<1> QED
  BY <1>1, <1>2, <1>3, <1>4, <1>5, <1>6, <1>7, <1>8, <1>9, <1>10, <1>12, <1>13, <1>15, <1>16,
     <1>17, <1>18, <1>19, <1>20, <1>21, <1>22, <1>23, <1>24, <1>25
     DEF Next, Handler, EventThread, CaptureThread

(***************************************************************************)
(* Commands, tables and connections keep their shape: in particular a      *)
(* command that is relayed as a frame carries one, and all sessions and    *)
(* clients know only connections there have been.                          *)
(***************************************************************************)
THEOREM TunnelTypeCorrect == Spec => []TypeOK
<1>1. Types => TypeOK
  BY DEF Types
<1> QED
  BY <1>1, InitTypes, StepKeepsTypes, PTL DEF Spec
-----------------------------------------------------------------------------
(***************************************************************************)
(* Why frames do not go round: whatever is on the air near a client is its *)
(* PSPs' own or noted in ignoreMac, and so what it learns is its own.      *)
(***************************************************************************)
Own(c) == {p \in PSPs : Near[p] = c}

Heard(c) == {f \in Frames : f.src \in Own(c) \cup ignoreMac[c]}

LoopInv ==
  \A c \in Clients :
    /\ mac[c] \subseteq Own(c)
    /\ air[c] \in Seq(Heard(c))
    /\ captured[c] # NoFrame => Near[captured[c].src] = c
    /\ injecting[c] # NoFrame => injecting[c].src \in ignoreMac[c]

\* With room for all of them every address can be noted.
LEMMA RoomyLearns ==
  ASSUME Roomy, NEW table \in SUBSET PSPs, NEW p \in PSPs
  PROVE  p \in Learned(table, p, MaxIgnored)
<1>1. CASE Cardinality(table) < MaxIgnored
  BY <1>1 DEF Learned
<1>2. CASE ~(Cardinality(table) < MaxIgnored)
  <2>1. /\ IsFiniteSet(PSPs) /\ IsFiniteSet(table) /\ Cardinality(table) \in Nat
        /\ Cardinality(PSPs) \in Nat /\ Cardinality(table) <= Cardinality(PSPs)
        /\ Cardinality(table) = Cardinality(PSPs) => table = PSPs
    BY Tunnel05Assumption, FS_Subset, FS_CardinalityType
  <2>2. MaxIgnored \in Nat
    BY Tunnel05Assumption
  <2>3. table = PSPs
    BY <1>2, <2>1, <2>2 DEF Roomy
  <2> QED
    BY <1>2, <2>3 DEF Learned
<1> QED
  BY <1>1, <1>2

LEMMA InitLoop == Init => LoopInv
BY DEF Init, LoopInv

LEMMA StepKeepsLoop ==
  ASSUME Types, Roomy, LoopInv, [Next]_vars
  PROVE  LoopInv'
<1>0. TypeOK
  BY DEF Types
<1>1. ASSUME UNCHANGED bridge PROVE LoopInv'
  BY <1>1 DEF bridge, LoopInv, Heard
<1>2. ASSUME NEW c \in Clients, ReceiveFrame(c) PROVE LoopInv'
  <2> DEFINE frame == Head(down[gsd[c]]).frame
  <2>1. gsd[c] \in Connections
    BY <1>0, <1>2 DEF ReceiveFrame, Arrives, TypeOK
  <2>2. frame \in Frames
    <3>1. Head(down[gsd[c]]) \in DownCommands /\ Head(down[gsd[c]]).type \in {"t"}
      BY <1>2, <2>1, OneFewer DEF ReceiveFrame, Arrives, Types
    <3> QED
      BY <3>1 DEF DownCommands
  <2>3. /\ ignoreMac' = [ignoreMac EXCEPT ![c] = Learned(ignoreMac[c], frame.src, MaxIgnored)]
        /\ injecting' = [injecting EXCEPT ![c] = frame]
        /\ UNCHANGED <<mac, air, captured>>
    BY <1>2 DEF ReceiveFrame
  <2> HIDE DEF frame
  <2>4. frame.src \in PSPs
    BY <2>2 DEF Frames
  <2>5. /\ frame.src \in Learned(ignoreMac[c], frame.src, MaxIgnored)
        /\ ignoreMac[c] \subseteq Learned(ignoreMac[c], frame.src, MaxIgnored)
    BY <1>0, <2>4, RoomyLearns, LearnedIs DEF TypeOK
  <2>6. /\ frame.src \in ignoreMac'[c] /\ ignoreMac[c] \subseteq ignoreMac'[c]
        /\ \A d \in Clients \ {c} : ignoreMac'[d] = ignoreMac[d]
    BY <1>0, <2>3, <2>5 DEF TypeOK
  <2>7. ASSUME NEW d \in Clients PROVE air'[d] \in Seq(Heard(d)')
    <3>1. Heard(d) \subseteq Heard(d)'
      BY <2>6 DEF Heard
    <3>2. air[d] \in Seq(Heard(d)) /\ air'[d] = air[d]
      BY <2>3 DEF LoopInv
    <3> QED
      BY <3>1, <3>2, SeqGrows
  <2>8. \A d \in Clients : injecting'[d] # NoFrame => injecting'[d].src \in ignoreMac'[d]
    BY <1>0, <2>3, <2>6 DEF LoopInv, TypeOK
  <2> QED
    BY <2>3, <2>7, <2>8 DEF LoopInv
<1>3. ASSUME NEW c \in Clients, SendPacket(c) PROVE LoopInv'
  <2>1. /\ injecting[c] # NoFrame /\ air' = [air EXCEPT ![c] = Append(air[c], injecting[c])]
        /\ injecting' = [injecting EXCEPT ![c] = NoFrame]
        /\ UNCHANGED <<mac, ignoreMac, captured>>
    BY <1>3 DEF SendPacket
  <2>2. injecting[c] \in Heard(c)
    BY <1>0, <2>1 DEF TypeOK, LoopInv, Heard
  <2>3. Append(air[c], injecting[c]) \in Seq(Heard(c))
    BY <2>2 DEF LoopInv
  <2>4. \A d \in Clients : Heard(d)' = Heard(d)
    BY <2>1 DEF Heard
  <2>5. \A d \in Clients : air'[d] \in Seq(Heard(d))
    BY <1>0, <2>1, <2>3 DEF LoopInv, TypeOK
  <2> QED
    BY <1>0, <2>1, <2>4, <2>5 DEF LoopInv, TypeOK
<1>4. ASSUME NEW frame \in Frames, Transmit(frame) PROVE LoopInv'
  <2> DEFINE c == Near[frame.src]
  <2>1. c \in Clients /\ frame \in Heard(c)
    BY Tunnel05Assumption DEF Heard, Own, Frames
  <2>2. air' = [air EXCEPT ![c] = Append(air[c], frame)] /\ UNCHANGED <<mac, ignoreMac, captured, injecting>>
    BY <1>4 DEF Transmit
  <2> HIDE DEF c
  <2>3. Append(air[c], frame) \in Seq(Heard(c))
    BY <2>1 DEF LoopInv
  <2>4. \A d \in Clients : Heard(d)' = Heard(d)
    BY <2>2 DEF Heard
  <2>5. \A d \in Clients : air'[d] \in Seq(Heard(d))
    BY <1>0, <2>1, <2>2, <2>3 DEF LoopInv, TypeOK
  <2> QED
    BY <2>2, <2>4, <2>5 DEF LoopInv
<1>5. ASSUME NEW c \in Clients, Capture(c) PROVE LoopInv'
  <2> DEFINE frame == Head(air[c])
             table == IF frame.src \in ignoreMac[c] THEN mac[c] ELSE Learned(mac[c], frame.src, MaxMac)
  <2>1. frame \in Heard(c) /\ Tail(air[c]) \in Seq(Heard(c))
    BY <1>5, OneFewer DEF Capture, LoopInv
  <2>2. /\ air' = [air EXCEPT ![c] = Tail(air[c])]
        /\ mac' = [mac EXCEPT ![c] = table]
        /\ captured' = captured \/ (frame.src \in table /\ captured' = [captured EXCEPT ![c] = frame])
        /\ UNCHANGED <<ignoreMac, injecting>>
    BY <1>5 DEF Capture
  <2>3. table \subseteq Own(c)
    <3>1. CASE frame.src \in ignoreMac[c]
      BY <3>1 DEF LoopInv
    <3>2. CASE frame.src \notin ignoreMac[c]
      <4>1. frame.src \in Own(c) /\ frame.src \in PSPs
        BY <2>1, <3>2 DEF Heard, Frames
      <4>2. Learned(mac[c], frame.src, MaxMac) \subseteq mac[c] \cup {frame.src}
        BY <1>0, <4>1, LearnedIs DEF TypeOK
      <4> QED
        BY <3>2, <4>1, <4>2 DEF LoopInv
    <3> QED
      BY <3>1, <3>2
  <2> HIDE DEF table
  <2>4. \A d \in Clients : Heard(d)' = Heard(d)
    BY <2>2 DEF Heard
  <2>5. \A d \in Clients : air'[d] \in Seq(Heard(d))
    BY <1>0, <2>1, <2>2 DEF LoopInv, TypeOK
  <2>6. \A d \in Clients : mac'[d] \subseteq Own(d)
    BY <1>0, <2>2, <2>3 DEF LoopInv, TypeOK
  <2>7. \A d \in Clients : captured'[d] # NoFrame => Near[captured'[d].src] = d
    BY <1>0, <2>2, <2>3 DEF LoopInv, TypeOK, Own
  <2> QED
    BY <2>2, <2>4, <2>5, <2>6, <2>7 DEF LoopInv
<1>6. ASSUME NEW c \in Clients, SendCaptured(c) PROVE LoopInv'
  BY <1>6 DEF SendCaptured, LoopInv, Heard
<1>7. ASSUME NEW c \in Clients, TestConnected(c) PROVE LoopInv'
  BY <1>0, <1>7 DEF TestConnected, LoopInv, Heard, TypeOK
<1>8. CASE PickSession
  BY <1>1, <1>8 DEF PickSession
<1>9. ASSUME NEW c \in Clients, Connect(c) \/ LoseClient(c) \/ ClientNotices(c) PROVE LoopInv'
  BY <1>1, <1>9 DEF Connect, LoseClient, ClientNotices
<1>10. ASSUME NEW i \in Sessions, LoseSession(i) \/ CloseSession(i) PROVE LoopInv'
  BY <1>1, <1>10 DEF LoseSession, CloseSession
<1>11. ASSUME NEW k \in Connections, Handler(k) \/ EventThreadEnds(k) PROVE LoopInv'
  BY <1>1, <1>11 DEF Handler, RecvCommand, LearnSource, ChooseSession, PassSession,
                     ForwardCommand, EventThreadEnds
<1>12. ASSUME NEW c \in Clients, ReceiveQuestion(c) \/ ReceiveAnswer(c) \/ ReceiveChat(c)
       PROVE  LoopInv'
  BY <1>1, <1>12 DEF ReceiveQuestion, ReceiveAnswer, ReceiveChat
<1>13. ASSUME NEW c \in Clients, NEW type \in {"C", "U"}, TypeLine(c, type) PROVE LoopInv'
  BY <1>1, <1>13 DEF TypeLine
<1>14. CASE UNCHANGED vars
  BY <1>1, <1>14 DEF vars
<1> QED
  BY <1>2, <1>3, <1>4, <1>5, <1>6, <1>7, <1>8, <1>9, <1>10, <1>11, <1>12, <1>13, <1>14
     DEF Next, EventThread, CaptureThread

(***************************************************************************)
(* Frames do not go round, for any number of clients, PSPs and connections *)
(* and whatever is lost, as long as ignoreMac has room for all PSPs.       *)
(***************************************************************************)
THEOREM FramesDoNotGoRound == Spec => []NoLoop
<1> DEFINE Inv == Types /\ (Roomy => LoopInv)
<1>1. Init => Inv
  BY InitTypes, InitLoop
<1>2. Inv /\ [Next]_vars => Inv'
  BY StepKeepsTypes, StepKeepsLoop DEF Roomy
<1>3. Inv => NoLoop
  BY DEF NoLoop, LoopInv
<1> QED
  BY <1>1, <1>2, <1>3, PTL DEF Spec
-----------------------------------------------------------------------------
(***************************************************************************)
(* How frames travel.  A frame in the queue of a connection to the server  *)
(* is that client's own; one on its way from the server came through       *)
(* another session, and is for everybody or for a client that has been in  *)
(* this session.                                                           *)
(***************************************************************************)
Held(d, s) == \E n \in 1 .. made : owner[n] = d /\ place[n] = s

Routed(f, s) ==
  /\ \E n \in 1 .. made : owner[n] = Near[f.src] /\ place[n] # s
  /\ f.dst = Broadcast \/ Held(Near[f.dst], s)

SentBy(k) == {x \in UpCommands : x.type = "T" => k \in 1 .. made /\ owner[k] = Near[x.frame.src]}

SentTo(k) == {x \in DownCommands : x.type = "t" => k \in 1 .. made /\ Routed(x.frame, place[k])}

EndsInv ==
  /\ \A i \in Sessions : held[i] # None => place[held[i]] = i
  /\ \A c \in Clients : gsd[c] # None => owner[gsd[c]] = c

TablesInv == \A i \in Sessions : \A p \in smac[i] : Held(Near[p], i)

UpInv == \A k \in Connections : up[k] \in Seq(SentBy(k))

DownInv == \A k \in Connections : down[k] \in Seq(SentTo(k))

DoingInv ==
  \A k \in Connections :
    doing[k] # NoCommand /\ doing[k].type = "T" => Held(Near[doing[k].frame.src], place[k])

ChosenInv ==
  \A k \in Connections :
    chosen[k] =>
      /\ doing[k] # NoCommand /\ next[k] # -1
      /\ doing[k].type = "T" =>
           /\ next[k] # place[k]
           /\ doing[k].frame.dst = Broadcast \/ Held(Near[doing[k].frame.dst], next[k])

InjectingInv ==
  \A c \in Clients :
    injecting[c] # NoFrame =>
      \E m \in 1 .. made : owner[m] = c /\ Routed(injecting[c], place[m])

RouteInv == EndsInv /\ TablesInv /\ UpInv /\ DownInv /\ DoingInv /\ ChosenInv /\ InjectingInv

\* What was true of a connection stays true when there are more.
Grows == \A n \in 1 .. made : n \in 1 .. made' /\ owner'[n] = owner[n] /\ place'[n] = place[n]

LEMMA StepGrows ==
  ASSUME Types, [Next]_vars
  PROVE  Grows
<1>1. ASSUME UNCHANGED <<made, owner, place>> PROVE Grows
  BY <1>1 DEF Grows
<1>2. ASSUME NEW c \in Clients, Connect(c) PROVE Grows
  <2>1. /\ made \in Nat /\ owner \in [1 .. made -> Clients] /\ place \in [1 .. made -> Sessions]
        /\ picked \in Sessions /\ made' = made + 1
        /\ owner' = Append(owner, c) /\ place' = Append(place, picked)
    BY <1>2, Numbers, SMTT(30) DEF Connect, Types, TypeOK, NoSession
  <2>2. \A n \in 1 .. made : owner'[n] = owner[n] /\ place'[n] = place[n]
    BY <2>1, OneMore
  <2> QED
    BY <2>1, <2>2 DEF Grows
<1>3. [Next]_vars => UNCHANGED <<made, owner, place>> \/ \E c \in Clients : Connect(c)
  BY DEF Next, vars, ends, PickSession, LoseClient, ClientNotices, LoseSession, CloseSession,
         Handler, RecvCommand, LearnSource, ChooseSession, PassSession, ForwardCommand,
         EventThreadEnds, EventThread, ReceiveFrame, SendPacket, ReceiveQuestion, ReceiveAnswer,
         ReceiveChat, CaptureThread, Capture, SendCaptured, TestConnected, TypeLine, Transmit
<1> QED
  BY <1>1, <1>2, <1>3

LEMMA GrowsKeeps ==
  ASSUME Types, Grows
  PROVE  /\ \A d, s : Held(d, s) => Held(d, s)'
         /\ \A f, s : Routed(f, s) => Routed(f, s)'
         /\ \A k \in Connections : SentBy(k) \subseteq SentBy(k)' /\ SentTo(k) \subseteq SentTo(k)'
<1>1. \A d, s : Held(d, s) => Held(d, s)'
  BY DEF Held, Grows
<1>2. \A f, s : Routed(f, s) => Routed(f, s)'
  BY <1>1 DEF Routed, Grows
<1>3. \A k \in Connections : SentBy(k) \subseteq SentBy(k)'
  BY DEF SentBy, Grows
<1>4. \A k \in Connections : SentTo(k) \subseteq SentTo(k)'
  BY <1>2 DEF SentTo, Grows
<1> QED
  BY <1>1, <1>2, <1>3, <1>4

\* A part stays true when what it speaks of is left alone.
LEMMA RouteStays ==
  ASSUME Types, RouteInv, Grows
  PROVE  /\ /\ \A i \in Sessions : held'[i] = held[i] \/ held'[i] = None
            /\ \A c \in Clients : gsd'[c] = gsd[c] \/ gsd'[c] = None
            => EndsInv'
         /\ UNCHANGED smac => TablesInv'
         /\ UNCHANGED up => UpInv'
         /\ UNCHANGED down => DownInv'
         /\ UNCHANGED doing => DoingInv'
         /\ UNCHANGED <<doing, next, chosen>> => ChosenInv'
         /\ UNCHANGED injecting => InjectingInv'
<1> USE GrowsKeeps DEF RouteInv
<1>0. /\ \A i \in Sessions : held[i] # None => held[i] \in 1 .. made
      /\ \A c \in Clients : gsd[c] # None => gsd[c] \in 1 .. made
      /\ \A k \in Connections : doing[k] # NoCommand => k \in 1 .. made
  BY DEF Types, TypeOK, None, Connections
<1>1. ASSUME \A i \in Sessions : held'[i] = held[i] \/ held'[i] = None,
             \A c \in Clients : gsd'[c] = gsd[c] \/ gsd'[c] = None
      PROVE  EndsInv'
  BY <1>0, <1>1 DEF EndsInv, Grows
<1>2. UNCHANGED smac => TablesInv'
  BY DEF TablesInv
<1>3. UNCHANGED up => UpInv'
  BY SeqGrows DEF UpInv
<1>4. UNCHANGED down => DownInv'
  BY SeqGrows DEF DownInv
<1>5. UNCHANGED doing => DoingInv'
  BY <1>0 DEF DoingInv, Grows
<1>6. UNCHANGED <<doing, next, chosen>> => ChosenInv'
  BY <1>0 DEF ChosenInv, Grows
<1>7. UNCHANGED injecting => InjectingInv'
  BY DEF InjectingInv, Grows
<1> QED
  BY <1>1, <1>2, <1>3, <1>4, <1>5, <1>6, <1>7

LEMMA InitRoute == Init => RouteInv
<1> SUFFICES ASSUME Init PROVE RouteInv
  OBVIOUS
<1>1. EndsInv /\ TablesInv /\ DoingInv /\ ChosenInv /\ InjectingInv
  BY DEF Init, EndsInv, TablesInv, DoingInv, ChosenInv, InjectingInv
<1>2. UpInv /\ DownInv
  BY DEF Init, UpInv, DownInv
<1> QED
  BY <1>1, <1>2 DEF RouteInv

LEMMA StepKeepsRoute ==
  ASSUME Types, Roomy, LoopInv, RouteInv, [Next]_vars
  PROVE  RouteInv'
<1> USE DEF server, handlers, ends, wires, bridge
<1>0. TypeOK /\ Grows
  BY StepGrows DEF Types
<1>a. UNCHANGED <<held, gsd>> => EndsInv'
  BY <1>0, RouteStays
<1>b. /\ UNCHANGED smac => TablesInv'
      /\ UNCHANGED up => UpInv'
      /\ UNCHANGED down => DownInv'
      /\ UNCHANGED doing => DoingInv'
      /\ UNCHANGED <<doing, next, chosen>> => ChosenInv'
      /\ UNCHANGED injecting => InjectingInv'
  BY <1>0, RouteStays
<1>1. CASE PickSession
  <2>1. TablesInv'
    BY <1>0, <1>1, GrowsKeeps DEF PickSession, TablesInv, RouteInv, TypeOK
  <2> QED
    BY <1>a, <1>b, <1>1, <2>1 DEF PickSession, RouteInv
<1>2. ASSUME NEW c \in Clients, Connect(c) PROVE RouteInv'
  <2> DEFINE k == made + 1
  <2>1. /\ made \in Nat /\ owner \in [1 .. made -> Clients] /\ place \in [1 .. made -> Sessions]
        /\ picked \in Sessions
        /\ owner' = Append(owner, c) /\ place' = Append(place, picked)
        /\ held' = [held EXCEPT ![picked] = k] /\ gsd' = [gsd EXCEPT ![c] = k]
        /\ UNCHANGED <<smac, up, down, doing, next, chosen, injecting>>
    BY <1>0, <1>2, Numbers DEF Connect, TypeOK, NoSession
  <2>2. /\ \A n \in 1 .. made : owner'[n] = owner[n] /\ place'[n] = place[n]
        /\ owner'[k] = c /\ place'[k] = picked
    BY <2>1, OneMore
  <2>3. /\ \A i \in Sessions : held[i] # None => held[i] \in 1 .. made
        /\ \A d \in Clients : gsd[d] # None => gsd[d] \in 1 .. made
    BY <2>1 DEF Types, None
  <2> HIDE DEF k
  <2>4. EndsInv'
    BY <1>0, <2>1, <2>2, <2>3 DEF EndsInv, RouteInv, TypeOK
  <2> QED
    BY <1>b, <2>1, <2>4 DEF RouteInv
<1>3. ASSUME NEW c \in Clients, LoseClient(c) \/ ClientNotices(c) PROVE RouteInv'
  <2>1. /\ gsd' = [gsd EXCEPT ![c] = None]
        /\ UNCHANGED <<held, smac, up, down, doing, next, chosen, injecting>>
    BY <1>3 DEF LoseClient, ClientNotices
  <2>2. EndsInv'
    BY <1>0, <2>1, RouteStays DEF TypeOK
  <2> QED
    BY <1>b, <2>1, <2>2 DEF RouteInv
<1>4. ASSUME NEW i \in Sessions, LoseSession(i) \/ CloseSession(i) PROVE RouteInv'
  <2>1. /\ held' = [held EXCEPT ![i] = None]
        /\ UNCHANGED <<gsd, smac, up, down, doing, next, chosen, injecting>>
    BY <1>4 DEF LoseSession, CloseSession
  <2>2. EndsInv'
    BY <1>0, <2>1, RouteStays DEF TypeOK
  <2> QED
    BY <1>b, <2>1, <2>2 DEF RouteInv
<1>5. ASSUME NEW k \in Connections, EventThreadEnds(k) PROVE RouteInv'
  BY <1>a, <1>b, <1>5 DEF EventThreadEnds, RouteInv
\* The thread works on what came through its session, from whatever connection.
<1>6. ASSUME NEW k \in Connections, RecvCommand(k) PROVE RouteInv'
  <2> DEFINE j == held[place[k]]
  <2>1. k \in 1 .. made /\ place[k] \in Sessions /\ j \in Connections /\ place[j] = place[k]
    BY <1>0, <1>6 DEF RecvCommand, Idle, Types, TypeOK, None, RouteInv, EndsInv
  <2>2. /\ doing[k] = NoCommand /\ UNCHANGED <<held, gsd, smac, down, chosen, injecting>>
        /\ UNCHANGED <<made, owner, place>>
        /\ doing' = [doing EXCEPT ![k] = Head(up[j])]
        /\ next' = [next EXCEPT ![k] = IF Head(up[j]).type = "T" THEN -1 ELSE 0]
        /\ up' = [up EXCEPT ![j] = Tail(up[j])]
    BY <1>6 DEF RecvCommand, Idle
  <2>3. Head(up[j]) \in SentBy(j) /\ Tail(up[j]) \in Seq(SentBy(j))
    <3>1. up[j] \in Seq(SentBy(j)) /\ up[j] # <<>>
      BY <1>6, <2>1 DEF RecvCommand, RouteInv, UpInv
    <3> QED
      BY <3>1, OneFewer
  <2> HIDE DEF j
  <2>4. \A m \in Connections : SentBy(m)' = SentBy(m)
    BY <2>2 DEF SentBy
  <2>5. UpInv'
    BY <1>0, <2>2, <2>3, <2>4 DEF UpInv, RouteInv, TypeOK
  <2>6. DoingInv'
    <3>1. Head(up[j]).type = "T" => Held(Near[Head(up[j]).frame.src], place[k])
      BY <2>1, <2>3 DEF SentBy, Held
    <3>2. \A d, s : Held(d, s)' = Held(d, s)
      BY <2>2 DEF Held
    <3> QED
      BY <1>0, <2>2, <3>1, <3>2 DEF DoingInv, RouteInv, TypeOK
  <2>7. ChosenInv'
    <3>1. ~chosen[k]
      BY <2>2 DEF ChosenInv, RouteInv
    <3>2. \A d, s : Held(d, s)' = Held(d, s)
      BY <2>2 DEF Held
    <3> QED
      BY <1>0, <2>2, <3>1, <3>2 DEF ChosenInv, RouteInv, TypeOK
  <2> QED
    BY <1>a, <1>b, <2>2, <2>5, <2>6, <2>7 DEF RouteInv
<1>7. ASSUME NEW k \in Connections, LearnSource(k) PROVE RouteInv'
  <2>1. /\ doing[k] # NoCommand /\ next[k] = -1
        /\ smac' = [smac EXCEPT ![place[k]] = Learned(smac[place[k]], doing[k].frame.src, MaxMac)]
        /\ next' = [next EXCEPT ![k] = 0]
        /\ UNCHANGED <<held, gsd, up, down, doing, chosen, injecting, made, owner, place>>
    BY <1>7 DEF LearnSource
  <2>2. k \in 1 .. made /\ doing[k] \in UpCommands /\ doing[k].type = "T"
    BY <2>1 DEF Types, Connections
  <2>3. place[k] \in Sessions /\ doing[k].frame.src \in PSPs
    BY <1>0, <2>2 DEF TypeOK, UpCommands, Frames
  <2>4. Held(Near[doing[k].frame.src], place[k])
    BY <2>1, <2>2 DEF RouteInv, DoingInv
  <2>5. \A d, s : Held(d, s)' = Held(d, s)
    BY <2>1 DEF Held
  <2>6. Learned(smac[place[k]], doing[k].frame.src, MaxMac) \subseteq smac[place[k]] \cup {doing[k].frame.src}
    BY <1>0, <2>3, LearnedIs DEF TypeOK
  <2>7. TablesInv'
    BY <1>0, <2>1, <2>3, <2>4, <2>5, <2>6 DEF TablesInv, RouteInv, TypeOK
  <2>8. ChosenInv'
    <3>1. ~chosen[k]
      BY <2>1 DEF ChosenInv, RouteInv
    <3> QED
      BY <1>0, <2>1, <2>5, <3>1 DEF ChosenInv, RouteInv, TypeOK
  <2> QED
    BY <1>a, <1>b, <2>1, <2>7, <2>8 DEF RouteInv
<1>8. ASSUME NEW k \in Connections, ChooseSession(k) PROVE RouteInv'
  <2>1. /\ doing[k] # NoCommand /\ next[k] # -1 /\ GoesTo(k, next[k])
        /\ chosen' = [chosen EXCEPT ![k] = TRUE]
        /\ UNCHANGED <<held, gsd, smac, up, down, doing, next, injecting, made, owner, place>>
    BY <1>8 DEF ChooseSession, Looping
  <2>2. doing[k].type = "T" =>
          /\ next[k] # place[k]
          /\ doing[k].frame.dst = Broadcast \/ doing[k].frame.dst \in smac[next[k]]
    BY <2>1 DEF GoesTo
  <2>3. next[k] \in Sessions
    BY <1>0, <2>1 DEF TypeOK
  <2>4. \A d, s : Held(d, s)' = Held(d, s)
    BY <2>1 DEF Held
  <2>5. ChosenInv'
    BY <1>0, <2>1, <2>2, <2>3, <2>4 DEF ChosenInv, TablesInv, RouteInv, TypeOK
  <2> QED
    BY <1>a, <1>b, <2>1, <2>5 DEF RouteInv
\* The loop goes on: the command stays, or is done with.
<1>9. ASSUME NEW k \in Connections, Advance(k), Looping(k), ~chosen'[k],
             \A m \in Connections \ {k} : chosen'[m] = chosen[m],
             UNCHANGED <<made, owner, place>>
      PROVE  DoingInv' /\ ChosenInv'
  <2>1. \A d, s : Held(d, s)' = Held(d, s)
    BY <1>9 DEF Held
  <2>2. \A m \in Connections : doing'[m] = doing[m] \/ doing'[m] = NoCommand
    BY <1>0, <1>9 DEF Advance, TypeOK
  <2>3. \A m \in Connections \ {k} : doing'[m] = doing[m] /\ next'[m] = next[m]
    BY <1>0, <1>9 DEF Advance, TypeOK
  <2>4. DoingInv'
    BY <1>9, <2>1, <2>2 DEF DoingInv, RouteInv
  <2>5. ChosenInv'
    BY <1>9, <2>1, <2>3 DEF ChosenInv, RouteInv
  <2> QED
    BY <2>4, <2>5
<1>10. ASSUME NEW k \in Connections, PassSession(k) PROVE RouteInv'
  <2>1. DoingInv' /\ ChosenInv'
    BY <1>9, <1>10 DEF PassSession
  <2> QED
    BY <1>a, <1>b, <1>10, <2>1 DEF PassSession, RouteInv
\* Whoever has the session by now gets the command.
<1>11. ASSUME NEW k \in Connections, ForwardCommand(k) PROVE RouteInv'
  <2> DEFINE m == held[next[k]]
             x == [type |-> Answer(doing[k].type), frame |-> doing[k].frame, option |-> place[k]]
  <2>1. /\ Looping(k) /\ chosen[k] /\ Advance(k)
        /\ chosen' = [chosen EXCEPT ![k] = FALSE]
        /\ down' = IF m = None THEN down
                   ELSE Queued(down, m, Answer(doing[k].type), doing[k].frame, place[k])
        /\ UNCHANGED <<held, gsd, smac, up, injecting, made, owner, place>>
    BY <1>11 DEF ForwardCommand
  <2>2. /\ k \in 1 .. made /\ next[k] \in Sessions /\ doing[k] \in UpCommands /\ place[k] \in Sessions
    <3>0. k \in Connections /\ next[k] \in Sessions \cup {-1} /\ next[k] # -1
      BY <2>1 DEF Looping, Types, TypeOK
    <3>1. k \in 1 .. made /\ doing[k] \in UpCommands
      BY <2>1, <3>0 DEF Looping, Types, Connections
    <3> QED
      BY <1>0, <3>0, <3>1 DEF TypeOK
  <2>3. DoingInv' /\ ChosenInv'
    BY <1>0, <1>9, <2>1 DEF TypeOK
  <2>4. m # None => m \in 1 .. made /\ m \in Connections /\ place[m] = next[k]
    BY <1>0, <2>2, SMTT(30) DEF Types, TypeOK, None, RouteInv, EndsInv
  <2>5. \A n \in Connections : SentTo(n)' = SentTo(n)
    BY <2>1 DEF SentTo, Routed, Held
  <2>6. x \in DownCommands
    BY <2>2 DEF Answer, UpCommands, DownCommands, Commands
  <2>7. ASSUME m # None PROVE x \in SentTo(m)
    <3>1. SUFFICES ASSUME doing[k].type = "T" PROVE Routed(doing[k].frame, place[m])
      BY <2>2, <2>4, <2>6, <2>7 DEF SentTo, Answer, UpCommands
    <3>2. Held(Near[doing[k].frame.src], place[k])
      BY <2>1, <3>1 DEF RouteInv, DoingInv, Looping
    <3>3. /\ next[k] # place[k]
          /\ doing[k].frame.dst = Broadcast \/ Held(Near[doing[k].frame.dst], next[k])
      BY <2>1, <3>1 DEF RouteInv, ChosenInv
    <3> QED
      BY <2>4, <2>7, <3>2, <3>3 DEF Routed, Held
  <2> HIDE DEF m
  <2>8. DownInv'
    <3>1. CASE m = None
      BY <1>b, <2>1, <3>1
    <3>2. CASE m # None
      <4>1. /\ down'[m] = Append(down[m], x)
            /\ \A n \in Connections \ {m} : down'[n] = down[n]
        <5>1. DOMAIN down = Connections
          BY <1>0 DEF TypeOK
        <5> QED
          BY <2>1, <2>4, <3>2, <5>1, QueuedElsewhere
      <4> HIDE DEF x
      <4>2. Append(down[m], x) \in Seq(SentTo(m))
        BY <2>4, <2>7, <3>2 DEF RouteInv, DownInv
      <4> QED
        BY <2>5, <4>1, <4>2 DEF RouteInv, DownInv
    <3> QED
      BY <3>1, <3>2
  <2> QED
    BY <1>a, <1>b, <2>1, <2>3, <2>8 DEF RouteInv
\* What a client takes from the server.
<1>12. ASSUME NEW c \in Clients, NEW types, Arrives(c, types), UNCHANGED <<made, owner, place>>
       PROVE  /\ gsd[c] \in 1 .. made /\ gsd[c] \in Connections /\ owner[gsd[c]] = c
              /\ Head(down[gsd[c]]) \in SentTo(gsd[c]) /\ DownInv'
  <2>1. gsd[c] \in 1 .. made /\ gsd[c] \in Connections /\ owner[gsd[c]] = c
    BY <1>0, <1>12 DEF Arrives, Types, TypeOK, None, RouteInv, EndsInv
  <2>2. down[gsd[c]] \in Seq(SentTo(gsd[c])) /\ down[gsd[c]] # <<>>
    BY <1>12, <2>1 DEF Arrives, RouteInv, DownInv
  <2>3. Head(down[gsd[c]]) \in SentTo(gsd[c]) /\ Tail(down[gsd[c]]) \in Seq(SentTo(gsd[c]))
    BY <2>2, OneFewer
  <2>4. \A n \in Connections : SentTo(n)' = SentTo(n)
    BY <1>12 DEF SentTo, Routed, Held
  <2>5. DownInv'
    BY <1>0, <1>12, <2>1, <2>3, <2>4 DEF Arrives, RouteInv, DownInv, TypeOK
  <2> QED
    BY <2>1, <2>3, <2>5
<1>13. ASSUME NEW c \in Clients, ReceiveFrame(c) PROVE RouteInv'
  <2>1. /\ Arrives(c, {"t"}) /\ injecting' = [injecting EXCEPT ![c] = Head(down[gsd[c]]).frame]
        /\ UNCHANGED <<held, gsd, smac, up, doing, next, chosen, made, owner, place>>
    BY <1>13 DEF ReceiveFrame
  <2>2. /\ gsd[c] \in 1 .. made /\ owner[gsd[c]] = c /\ DownInv'
        /\ Head(down[gsd[c]]) \in SentTo(gsd[c])
    BY <1>12, <2>1
  <2>3. Routed(Head(down[gsd[c]]).frame, place[gsd[c]])
    BY <2>1, <2>2 DEF SentTo, Arrives
  <2>4. \A f, s : Routed(f, s)' = Routed(f, s)
    BY <2>1 DEF Routed, Held
  <2>5. InjectingInv'
    BY <1>0, <2>1, <2>2, <2>3, <2>4 DEF InjectingInv, RouteInv, TypeOK
  <2> QED
    BY <1>a, <1>b, <2>1, <2>2, <2>5 DEF RouteInv
<1>14. ASSUME NEW c \in Clients, SendPacket(c) PROVE RouteInv'
  <2>1. InjectingInv'
    <3>1. /\ injecting' = [injecting EXCEPT ![c] = NoFrame]
          /\ UNCHANGED <<made, owner, place>>
      BY <1>14 DEF SendPacket
    <3>2. \A f, s : Routed(f, s)' = Routed(f, s)
      BY <3>1 DEF Routed, Held
    <3> QED
      BY <1>0, <3>1, <3>2 DEF InjectingInv, RouteInv, TypeOK
  <2> QED
    BY <1>a, <1>b, <1>14, <2>1 DEF SendPacket, RouteInv
\* What a client sends that is not a frame.
<1>15. ASSUME NEW k \in Connections, NEW type \in {"C", "U", "I"}, NEW option \in Sessions \cup {NoSession},
              up' = Queued(up, k, type, NoFrame, option), UNCHANGED <<made, owner, place>>
       PROVE  UpInv'
  <2> DEFINE x == [type |-> type, frame |-> NoFrame, option |-> option]
  <2>1. x \in SentBy(k)
    BY DEF SentBy, UpCommands, Commands
  <2>2. up'[k] = Append(up[k], x) /\ \A n \in Connections \ {k} : up'[n] = up[n]
    BY <1>0, <1>15, QueuedElsewhere, SMTT(30) DEF TypeOK
  <2> HIDE DEF x
  <2>3. Append(up[k], x) \in Seq(SentBy(k))
    BY <2>1 DEF RouteInv, UpInv
  <2>4. \A n \in Connections : SentBy(n)' = SentBy(n)
    BY <1>15 DEF SentBy
  <2> QED
    BY <2>2, <2>3, <2>4 DEF RouteInv, UpInv
<1>16. ASSUME NEW c \in Clients, ReceiveQuestion(c) PROVE RouteInv'
  <2>1. /\ gsd[c] \in Connections /\ Head(down[gsd[c]]).option \in Sessions /\ DownInv'
    BY <1>12, <1>16 DEF ReceiveQuestion, SentTo, DownCommands
  <2>2. UpInv'
    BY <1>15, <1>16, <2>1 DEF ReceiveQuestion
  <2> QED
    BY <1>a, <1>b, <1>16, <2>1, <2>2 DEF ReceiveQuestion, RouteInv
<1>17. ASSUME NEW c \in Clients, ReceiveAnswer(c) \/ ReceiveChat(c) PROVE RouteInv'
  <2>1. DownInv'
    BY <1>12, <1>17 DEF ReceiveAnswer, ReceiveChat
  <2> QED
    BY <1>a, <1>b, <1>17, <2>1 DEF ReceiveAnswer, ReceiveChat, RouteInv
<1>18. ASSUME NEW c \in Clients, NEW type \in {"C", "U"}, TypeLine(c, type) PROVE RouteInv'
  <2>1. gsd[c] \in Connections
    BY <1>0, <1>18 DEF TypeLine, TypeOK
  <2>2. UpInv'
    BY <1>15, <1>18, <2>1 DEF TypeLine
  <2> QED
    BY <1>a, <1>b, <1>18, <2>2 DEF TypeLine, RouteInv
<1>19. ASSUME NEW frame \in Frames, Transmit(frame) PROVE RouteInv'
  BY <1>a, <1>b, <1>19 DEF Transmit, RouteInv
<1>20. ASSUME NEW c \in Clients, Capture(c) \/ TestConnected(c) PROVE RouteInv'
  BY <1>a, <1>b, <1>20 DEF Capture, TestConnected, RouteInv
\* What a client sends comes from a PSP near it.
<1>21. ASSUME NEW c \in Clients, SendCaptured(c) PROVE RouteInv'
  <2> DEFINE x == [type |-> "T", frame |-> captured[c], option |-> NoSession]
  <2>1. /\ captured[c] \in Frames /\ Near[captured[c].src] = c
    BY <1>0, <1>21 DEF SendCaptured, LoopInv, TypeOK
  <2>2. UpInv'
    <3>1. CASE gsd[c] = None
      BY <1>b, <1>21, <3>1 DEF SendCaptured
    <3>2. CASE gsd[c] # None
      <4>1. gsd[c] \in 1 .. made /\ gsd[c] \in Connections /\ owner[gsd[c]] = c
        BY <1>0, <3>2 DEF Types, TypeOK, None, RouteInv, EndsInv
      <4>2. x \in SentBy(gsd[c])
        BY <2>1, <4>1 DEF SentBy, UpCommands, Commands
      <4>3. up' = Queued(up, gsd[c], "T", captured[c], NoSession) /\ UNCHANGED <<made, owner, place>>
        BY <1>21, <3>2 DEF SendCaptured
      <4>4. /\ up'[gsd[c]] = Append(up[gsd[c]], x)
            /\ \A n \in Connections \ {gsd[c]} : up'[n] = up[n]
        <5>1. DOMAIN up = Connections
          BY <1>0 DEF TypeOK
        <5> QED
          BY <4>1, <4>3, <5>1, QueuedElsewhere
      <4> HIDE DEF x
      <4>5. Append(up[gsd[c]], x) \in Seq(SentBy(gsd[c]))
        BY <4>1, <4>2 DEF RouteInv, UpInv
      <4>6. \A n \in Connections : SentBy(n)' = SentBy(n)
        BY <4>3 DEF SentBy
      <4> QED
        BY <4>4, <4>5, <4>6 DEF RouteInv, UpInv
    <3> QED
      BY <3>1, <3>2
  <2> QED
    BY <1>a, <1>b, <1>21, <2>2 DEF SendCaptured, RouteInv
<1>22. CASE UNCHANGED vars
  BY <1>a, <1>b, <1>22 DEF vars, RouteInv
<1> QED
  BY <1>1, <1>2, <1>3, <1>4, <1>5, <1>6, <1>7, <1>8, <1>10, <1>11, <1>13, <1>14, <1>16, <1>17,
     <1>18, <1>19, <1>20, <1>21, <1>22
     DEF Next, Handler, EventThread, CaptureThread

LEMMA RouteAlways == Spec => [](Types /\ (Roomy => LoopInv /\ RouteInv))
<1> DEFINE Inv == Types /\ (Roomy => LoopInv /\ RouteInv)
<1>1. Init => Inv
  BY InitTypes, InitLoop, InitRoute
<1>2. Inv /\ [Next]_vars => Inv'
  BY StepKeepsTypes, StepKeepsLoop, StepKeepsRoute DEF Roomy
<1> QED
  BY <1>1, <1>2, PTL DEF Spec

(***************************************************************************)
(* A client puts a frame of its own PSPs on the air only if it has been    *)
(* connected in two sessions: the relay never sends a frame back through   *)
(* the session it came from.                                               *)
(***************************************************************************)
THEOREM EchoNeedsReconnect == Spec => []EchoOnlyByReconnect
<1>1. Types /\ (Roomy => LoopInv /\ RouteInv) => EchoOnlyByReconnect
  <2> SUFFICES ASSUME RouteInv, NEW c \in Clients, injecting[c] # NoFrame, Near[injecting[c].src] = c
               PROVE  \E k, m \in 1 .. made : k # m /\ owner[k] = c /\ owner[m] = c
    BY DEF EchoOnlyByReconnect
  <2>1. PICK m \in 1 .. made : owner[m] = c /\ Routed(injecting[c], place[m])
    BY DEF RouteInv, InjectingInv
  <2> QED
    BY <2>1 DEF Routed
<1> QED
  BY <1>1, RouteAlways, PTL

(***************************************************************************)
(* A frame for one PSP reaches only clients that have been in a session of *)
(* the client near that PSP.                                               *)
(***************************************************************************)
THEOREM UnicastStaysTogether == Spec => []UnicastToOwner
<1>1. Types /\ (Roomy => LoopInv /\ RouteInv) => UnicastToOwner
  <2> SUFFICES ASSUME RouteInv, NEW c \in Clients, injecting[c] # NoFrame, injecting[c].dst # Broadcast
               PROVE  SharedSession(c, Near[injecting[c].dst])
    BY DEF UnicastToOwner
  <2>1. PICK m \in 1 .. made : owner[m] = c /\ Routed(injecting[c], place[m])
    BY DEF RouteInv, InjectingInv
  <2> QED
    BY <2>1 DEF Routed, Held, SharedSession
<1> QED
  BY <1>1, RouteAlways, PTL
=============================================================================
