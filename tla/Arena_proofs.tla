----------------------------- MODULE Arena_proofs ---------------------------
(***************************************************************************)
(* The commands of the arena server, for any number of sessions, clients   *)
(* and commands and any sizes of the tables: the walks over the sessions   *)
(* keep the order of every sender and skip nobody, frames and party chat   *)
(* stay in their meeting place, and the tables hold what they should.      *)
(***************************************************************************)
EXTENDS Arena, FiniteSetTheorems, TLAPS

Busy == {"learn", "announce", "test", "send", "copy", "answer", "spread"}

\* What a handler that has not returned is doing.
Work == [step : Busy, command : Commands, at : Nat, list : Seq(Infos), number : Nat]

Handlers == [Connections -> {Idle, Gone} \cup Work]

IsBusy(c) == handler[c].step \in Busy

WellFormed ==
  \A c \in Connections : IsBusy(c) =>
    /\ handler[c].at \in Sessions
    /\ handler[c].number <= Len(numbered)
    /\ handler[c].step = "learn" => handler[c].command.src \in Macs
    /\ handler[c].step = "announce" => handler[c].command.ssid \in Ssids

Typed ==
  /\ state \in [Sessions -> {"IDOL", "WAITTOCONNECT", "CONNECTED"}]
  /\ holder \in [Sessions -> Connections \cup {None}]
  /\ info \in [Sessions -> Infos]
  /\ mac \in [Sessions -> SUBSET Macs]
  /\ opening \in Sessions \cup {None}
  /\ accepted \in 0 .. MaxConnections
  /\ session \in [Connections -> Sessions \cup {None}]
  /\ handler \in Handlers
  /\ WellFormed
  /\ numbered \in Seq([from : Connections, command : Commands])
  /\ got \in [Connections -> Seq(Int)]
  /\ view \in [Connections -> Seq(Infos)]
  /\ asked \in [Connections -> SUBSET Sessions]
  /\ entitled \in [Connections -> SUBSET Connections]
  /\ missed \in SUBSET (Connections \X Nat)
  /\ groups \in [Connections -> SUBSET Ssids]
  /\ course \in Course

(***************************************************************************)
(* The sessions: a CONNECTED one has a holder, whose session it is; the    *)
(* connections to come have left no trace; and the listener is busy with   *)
(* one session at a time, whose client has no event thread before the info *)
(* of the client before is cleared.                                        *)
(***************************************************************************)
HeldByOne ==
  \A i \in Sessions :
    /\ state[i] = "CONNECTED" => holder[i] # None
    /\ holder[i] # None => holder[i] <= accepted /\ session[holder[i]] = i

NotYet ==
  \A c \in Connections :
    /\ c > accepted => handler[c] = Gone /\ session[c] = None /\ got[c] = <<>>
    /\ c <= accepted => session[c] # None

OpeningOne ==
  /\ \A i \in Sessions : state[i] = "WAITTOCONNECT" => i = opening
  /\ opening # None =>
       IF state[opening] = "WAITTOCONNECT" THEN accepted < course.connections
       ELSE state[opening] = "CONNECTED" /\ handler[holder[opening]] = Gone

Structure == HeldByOne /\ NotYet /\ OpeningOne

Basis == Typed /\ Structure
-----------------------------------------------------------------------------
LEMMA Bounds ==
  /\ None \notin Connections /\ Connections \subseteq Nat /\ MaxConnections \in Nat
  /\ None = 0
BY ArenaAssumption DEF Connections, None

LEMMA CourseBounds ==
  ASSUME course \in Course
  PROVE  /\ maxOfSessions \in Nat /\ maxOfSessions >= 1 /\ 1 \in Sessions
         /\ Sessions = 1 .. maxOfSessions /\ Sessions \subseteq Nat /\ None \notin Sessions
         /\ course.connections \in 0 .. MaxConnections
         /\ course.ssids \subseteq Ssids /\ course.macs \subseteq Macs
         /\ course.types \subseteq Types
BY ArenaAssumption DEF Course, Sessions, maxOfSessions, None

\* Two equal records have one step; a handler that works has a field for each.
LEMMA HandlerShape ==
  ASSUME handler \in Handlers, NEW c \in Connections
  PROVE  /\ IsBusy(c) <=> handler[c] \in Work
         /\ IsBusy(c) <=> handler[c] \notin {Idle, Gone}
         /\ IsBusy(c) => /\ handler[c].command \in Commands
                         /\ handler[c].at \in Nat /\ handler[c].number \in Nat
                         /\ handler[c].list \in Seq(Infos)
         /\ Idle # Gone
<1>1. Idle.step = "idle" /\ Gone.step = "gone"
  BY DEF Idle, Gone
<1>2. \A h \in Work : h.step \in Busy /\ h.command \in Commands /\ h.at \in Nat
                      /\ h.number \in Nat /\ h.list \in Seq(Infos)
  BY DEF Work
<1>3. "idle" \notin Busy /\ "gone" \notin Busy
  BY DEF Busy
<1> QED
  BY <1>1, <1>2, <1>3 DEF IsBusy, Handlers

LEMMA AtRest == Idle.step \notin Busy /\ Gone.step \notin Busy
BY DEF Idle, Gone, Busy

LEMMA PlainType ==
  /\ Plain \in Commands
  /\ \A type \in Types : [Plain EXCEPT !.type = type] \in Commands
  /\ \A d \in Connections : [Plain EXCEPT !.type = "D", !.to = d] \in Commands
  /\ \A src \in Macs, dst \in Macs \cup {Broadcast} :
       [Plain EXCEPT !.type = "T", !.src = src, !.dst = dst] \in Commands
  /\ \A ssid \in Ssids : [Plain EXCEPT !.type = "S", !.ssid = ssid] \in Commands
  /\ \A ssid \in Ssids, i \in Nat : [Plain EXCEPT !.type = "I", !.ssid = ssid, !.to = i] \in Commands
BY Bounds DEF Plain, Commands, Types

\* A command that is taken up: the handler's record, and nobody else's changes.
LEMMA BeginType ==
  ASSUME handler \in Handlers, NEW c \in Connections,
         numbered \in Seq([from : Connections, command : Commands]),
         NEW command \in Commands, NEW step \in Busy, NEW at \in Nat,
         Begin(c, command, step, at)
  PROVE  /\ handler' \in Handlers
         /\ \A d \in Connections \ {c} : handler'[d] = handler[d]
         /\ handler'[c].step = step /\ handler'[c].command = command
         /\ handler'[c].at = at /\ handler'[c].list = <<>>
         /\ handler'[c].number = IF command.type \in Relayed THEN Len(numbered) + 1 ELSE 0
<1> DEFINE h == [step |-> step, command |-> command, at |-> at, list |-> <<>>,
                 number |-> IF command.type \in Relayed THEN Len(numbered) + 1 ELSE 0]
<1>1. Len(numbered) \in Nat /\ <<>> \in Seq(Infos)
  OBVIOUS
<1>2. h \in Work
  BY <1>1 DEF Work
<1>3. handler' = [handler EXCEPT ![c] = h]
  BY DEF Begin
<1> QED
  BY <1>2, <1>3 DEF Handlers

\* The next session of a walk, or its end.
LEMMA AdvanceType ==
  ASSUME Typed, NEW c \in Connections, IsBusy(c), Advance(c)
  PROVE  /\ handler' \in Handlers
         /\ \A d \in Connections \ {c} : handler'[d] = handler[d]
         /\ IF handler[c].at = maxOfSessions \/ handler[c].command.type = "I"
            THEN handler'[c] = Idle
            ELSE /\ handler'[c] \in Work
                 /\ handler'[c].at = handler[c].at + 1
                 /\ handler'[c].step = IF handler[c].step = "send" THEN "test" ELSE handler[c].step
                 /\ handler'[c].command = handler[c].command
                 /\ handler'[c].number = handler[c].number
<1>1. handler[c] \in Work /\ handler[c].at \in Nat
  BY HandlerShape DEF Typed
<1> DEFINE h == handler[c]
           next == [h EXCEPT !.at = @ + 1, !.step = IF h.step = "send" THEN "test" ELSE @]
<1>2. /\ next \in Work
      /\ next.at = h.at + 1
      /\ next.step = IF h.step = "send" THEN "test" ELSE h.step
      /\ next.command = h.command /\ next.number = h.number
  <2>1. /\ h.step \in Busy /\ (IF h.step = "send" THEN "test" ELSE h.step) \in Busy
        /\ h.at + 1 \in Nat
    BY <1>1 DEF Work, Busy
  <2>2. ASSUME NEW at \in Nat, NEW step \in Busy
        PROVE  /\ [h EXCEPT !.at = at, !.step = step] \in Work
               /\ [h EXCEPT !.at = at, !.step = step].at = at
               /\ [h EXCEPT !.at = at, !.step = step].step = step
               /\ [h EXCEPT !.at = at, !.step = step].command = h.command
               /\ [h EXCEPT !.at = at, !.step = step].number = h.number
    BY <1>1 DEF Work
  <2> QED
    BY <2>1, <2>2
<1>3. handler' = [handler EXCEPT ![c] =
         IF ~(h.at = maxOfSessions \/ h.command.type = "I") THEN next ELSE Idle]
  BY DEF Advance
<1> HIDE DEF next
<1> QED
  BY <1>2, <1>3 DEF Typed, Handlers
-----------------------------------------------------------------------------
(***************************************************************************)
(* The two ways a command is taken up: it is relayed, from session 1 on to *)
(* whoever is to have it, or it changes or asks for the user list.         *)
(***************************************************************************)
RelayBegins(c, command, step) ==
  /\ command \in Commands
  /\ command.type \in {"C", "D", "Y", "T", "U"}
  /\ command.type = "T" => command.src \in Macs
  /\ step = IF command.type = "T" THEN "learn" ELSE "test"
  /\ handler[c] = Idle /\ Present(c)
  /\ Relay(c, command, step)
  /\ UNCHANGED <<sessionVars, info, mac, received, missed, groups, course>>

OtherBegins(c, command, step, at) ==
  /\ command \in Commands
  /\ at \in Sessions
  /\ IF command.type \in {"S", "I"} THEN step = "announce"
     ELSE command.type \in {"A", "p"} /\ step = "copy"
  /\ command.type \in {"S", "I"} => command.ssid \in Ssids
  /\ handler[c] = Idle /\ Present(c)
  /\ Begin(c, command, step, at)
  /\ \/ numbered' = Append(numbered, [from |-> c, command |-> command])
     \/ numbered' = numbered /\ command.type # "I"
  /\ asked' \in [Connections -> SUBSET Sessions]
  /\ UNCHANGED <<sessionVars, info, mac, got, view, history>>

LEMMA ReceiveIsBegin ==
  ASSUME Typed, NEW c \in Connections, Receive(c) \/ ReceivePing(c)
  PROVE  \/ \E command \in Commands, step \in Busy : RelayBegins(c, command, step)
         \/ \E command \in Commands, step \in Busy, at \in Sessions :
              OtherBegins(c, command, step, at)
<1> USE CourseBounds, PlainType
<1>1. /\ course \in Course /\ asked \in [Connections -> SUBSET Sessions]
      /\ Sessions \subseteq Nat
  BY DEF Typed
<1>2. CASE ReceiveChat(c)
  <2>1. PICK type \in course.types \cap {"C", "Y", "U"} :
          Relay(c, [Plain EXCEPT !.type = type], "test")
    BY <1>2 DEF ReceiveChat
  <2>2. [Plain EXCEPT !.type = type].type = type
    BY DEF Plain
  <2>3. RelayBegins(c, [Plain EXCEPT !.type = type], "test")
    BY <1>1, <1>2, <2>1, <2>2 DEF RelayBegins, ReceiveChat, Received
  <2> QED
    BY <1>1, <2>1, <2>3 DEF Busy
<1>3. CASE ReceiveTell(c)
  <2>1. PICK d \in Connections : Relay(c, [Plain EXCEPT !.type = "D", !.to = d], "test")
    BY <1>3 DEF ReceiveTell
  <2>2. [Plain EXCEPT !.type = "D", !.to = d].type = "D"
    BY DEF Plain
  <2>3. RelayBegins(c, [Plain EXCEPT !.type = "D", !.to = d], "test")
    BY <1>1, <1>3, <2>1, <2>2 DEF RelayBegins, ReceiveTell, Received
  <2> QED
    BY <2>3, PlainType DEF Busy
<1>4. CASE ReceiveFrame(c)
  <2>1. PICK src \in course.macs, dst \in course.macs \cup {Broadcast} :
          Relay(c, [Plain EXCEPT !.type = "T", !.src = src, !.dst = dst], "learn")
    BY <1>4 DEF ReceiveFrame
  <2> DEFINE command == [Plain EXCEPT !.type = "T", !.src = src, !.dst = dst]
  <2>2. command.type = "T" /\ command \in Commands /\ command.src \in Macs
    BY <1>1 DEF Plain
  <2> HIDE DEF command
  <2>3. RelayBegins(c, command, "learn")
    BY <1>4, <2>1, <2>2 DEF RelayBegins, ReceiveFrame, Received, command
  <2> QED
    BY <2>2, <2>3 DEF Busy
<1>5. CASE ReceiveSSID(c)
  <2>1. PICK ssid \in course.ssids :
          /\ Number(c, [Plain EXCEPT !.type = "S", !.ssid = ssid])
          /\ Begin(c, [Plain EXCEPT !.type = "S", !.ssid = ssid], "announce", 1)
    BY <1>5 DEF ReceiveSSID
  <2> DEFINE command == [Plain EXCEPT !.type = "S", !.ssid = ssid]
  <2>2. command.type = "S" /\ command \in Commands /\ command.ssid \in Ssids
    BY <1>1 DEF Plain
  <2> HIDE DEF command
  <2>3. OtherBegins(c, command, "announce", 1)
    BY <1>1, <1>5, <2>1, <2>2 DEF OtherBegins, ReceiveSSID, Received, Number, received, command
  <2> QED
    BY <1>1, <2>2, <2>3 DEF Busy
<1>6. CASE ReceiveUserInfo(c)
  <2>1. PICK i \in asked[c], ssid \in course.ssids :
          /\ asked' = [asked EXCEPT ![c] = @ \ {i}]
          /\ Number(c, [Plain EXCEPT !.type = "I", !.ssid = ssid, !.to = i])
          /\ Begin(c, [Plain EXCEPT !.type = "I", !.ssid = ssid, !.to = i], "announce", i)
    BY <1>6 DEF ReceiveUserInfo
  <2> DEFINE command == [Plain EXCEPT !.type = "I", !.ssid = ssid, !.to = i]
  <2>2. i \in Sessions /\ ssid \in Ssids /\ i \in Nat
    BY <1>1
  <2>3. command.type = "I" /\ command \in Commands /\ command.ssid \in Ssids
    BY <2>2 DEF Plain
  <2> HIDE DEF command
  <2>4. OtherBegins(c, command, "announce", i)
    BY <1>1, <1>6, <2>1, <2>2, <2>3
       DEF OtherBegins, ReceiveUserInfo, Received, Number, received, command
  <2> QED
    BY <2>2, <2>3, <2>4 DEF Busy
<1>7. CASE ReceiveListRequest(c)
  <2>1. Plain.type = "A"
    BY DEF Plain
  <2>2. OtherBegins(c, Plain, "copy", 1)
    BY <1>1, <1>7, <2>1 DEF OtherBegins, ReceiveListRequest, Received, Number, received
  <2> QED
    BY <1>1, <2>2 DEF Busy
<1>8. CASE ReceivePing(c)
  <2> DEFINE command == [Plain EXCEPT !.type = "p"]
  <2>1. command.type = "p" /\ command \in Commands
    BY DEF Plain, Types
  <2> HIDE DEF command
  <2>2. OtherBegins(c, command, "copy", 1)
    BY <1>1, <1>8, <2>1 DEF OtherBegins, ReceivePing, Received, received, command
  <2> QED
    BY <1>1, <2>1, <2>2 DEF Busy
<1> QED
  BY <1>2, <1>3, <1>4, <1>5, <1>6, <1>7, <1>8 DEF Receive
-----------------------------------------------------------------------------
(***************************************************************************)
(* Types.                                                                  *)
(***************************************************************************)
LEMMA CourseStays ==
  ASSUME [Next]_vars
  PROVE  course' = course /\ Sessions' = Sessions /\ maxOfSessions' = maxOfSessions
<1>1. course' = course
  <2>1. ASSUME NEW c \in Connections, Receive(c) \/ ReceivePing(c) PROVE course' = course
    BY <2>1 DEF Receive, ReceiveChat, ReceiveTell, ReceiveFrame, ReceiveSSID, ReceiveUserInfo,
       ReceiveListRequest, ReceivePing, history
  <2>2. ASSUME NEW c \in Connections, Handling(c) PROVE course' = course
    BY <2>2 DEF Handling, LearnSource, Announce, TestSession, SendToSession, CopyInfo, AnswerList,
       SpreadList, EventThreadEnds, history
  <2>3. ASSUME NEW c \in Connections, Leave(c) \/ ClosedByPing(c) PROVE course' = course
    BY <2>3 DEF Leave, ClosedByPing
  <2>4. CASE Listener
    BY <2>4 DEF Listener, InitSession, Publish, ClearInfo, history
  <2> QED
    BY <2>1, <2>2, <2>3, <2>4 DEF Next, vars, history
<1> QED
  BY <1>1 DEF Sessions, maxOfSessions

\* One handler goes on; the others are where they were.
LEMMA OneHandlerTyped ==
  ASSUME Typed, NEW c \in Connections, course' = course,
         handler' \in Handlers,
         \A d \in Connections \ {c} : handler'[d] = handler[d],
         Len(numbered) <= Len(numbered'), Len(numbered') \in Nat,
         IsBusy(c)' => /\ handler'[c].at \in Sessions
                       /\ handler'[c].number <= Len(numbered')
                       /\ handler'[c].step = "learn" => handler'[c].command.src \in Macs
                       /\ handler'[c].step = "announce" => handler'[c].command.ssid \in Ssids
  PROVE  WellFormed'
<1>1. Sessions' = Sessions
  BY DEF Sessions, maxOfSessions
<1>2. Len(numbered) \in Nat
  BY DEF Typed
<1> SUFFICES ASSUME NEW d \in Connections, IsBusy(d)', d # c
             PROVE  /\ handler'[d].at \in Sessions /\ handler'[d].number <= Len(numbered')
                    /\ handler'[d].step = "learn" => handler'[d].command.src \in Macs
                    /\ handler'[d].step = "announce" => handler'[d].command.ssid \in Ssids
  BY <1>1 DEF WellFormed
<1>3. IsBusy(d) /\ handler'[d] = handler[d] /\ handler[d].number \in Nat
  BY HandlerShape DEF IsBusy, Typed
<1> QED
  BY <1>2, <1>3 DEF Typed, WellFormed

LEMMA InitBasis == Init => Basis
<1> SUFFICES ASSUME Init PROVE Basis
  OBVIOUS
<1> USE Bounds
<1>1. course \in Course
  BY ArenaAssumption DEF Init
<1>2. NoInfo \in Infos
  BY DEF NoInfo, Infos
<1>3. \A c \in Connections : ~IsBusy(c)
  BY DEF Init, IsBusy, Gone, Busy
<1>4. Typed
  BY <1>1, <1>2, <1>3 DEF Init, Typed, WellFormed, Handlers
<1>5. Structure
  BY DEF Init, Structure, HeldByOne, NotYet, OpeningOne, Connections
<1> QED
  BY <1>4, <1>5 DEF Basis

LEMMA ListenerTyped ==
  ASSUME Basis, Listener, course' = course
  PROVE  Typed'
<1> USE Bounds
<1>0. Typed /\ Structure /\ Sessions' = Sessions
  BY DEF Basis, Sessions, maxOfSessions
<1>1. CASE InitSession
  BY <1>0, <1>1 DEF InitSession, TableCleared, Typed, WellFormed, IsBusy, received, history
<1>2. CASE Publish
  <2>1. accepted + 1 \in Connections
    BY <1>0, <1>2, CourseBounds DEF Publish, Structure, OpeningOne, Typed, Connections
  <2>2. accepted' \in 0 .. MaxConnections /\ opening \in Sessions
    BY <1>0, <1>2, <2>1 DEF Publish, Typed, Connections
  <2>3. /\ holder' \in [Sessions -> Connections \cup {None}]
        /\ session' \in [Connections -> Sessions \cup {None}]
        /\ state' \in [Sessions -> {"IDOL", "WAITTOCONNECT", "CONNECTED"}]
    BY <1>0, <1>2, <2>1, <2>2 DEF Publish, Typed
  <2> QED
    BY <1>0, <1>2, <2>2, <2>3 DEF Publish, Typed, WellFormed, IsBusy, received, history
<1>3. CASE ClearInfo
  <2>1. opening \in Sessions /\ holder[opening] \in Connections
    BY <1>0, <1>3 DEF ClearInfo, Structure, OpeningOne, HeldByOne, Typed
  <2>2. /\ handler' \in Handlers
        /\ \A d \in Connections : d # holder[opening] => handler'[d] = handler[d]
        /\ handler'[holder[opening]] = Idle
    BY <1>0, <1>3, <2>1 DEF ClearInfo, Typed, Handlers
  <2>3. \A d \in Connections : IsBusy(d)' => IsBusy(d) /\ handler'[d] = handler[d]
    BY <2>2, AtRest DEF IsBusy
  <2>4. info' \in [Sessions -> Infos]
    BY <1>0, <1>3, <2>1 DEF ClearInfo, Typed, Infos, NoInfo
  <2>5. entitled' \in [Connections -> SUBSET Connections]
    BY <1>0, <1>3 DEF ClearInfo, NothingOwed, Typed
  <2> QED
    BY <1>0, <1>3, <2>2, <2>3, <2>4, <2>5 DEF ClearInfo, Typed, WellFormed, received
<1> QED
  BY <1>1, <1>2, <1>3 DEF Listener

LEMMA ClosedTyped ==
  ASSUME Typed, NEW c \in Connections, course' = course,
         Leave(c) \/ ClosedByPing(c) \/ EventThreadEnds(c)
  PROVE  Typed'
<1> USE Bounds
<1>0. Sessions' = Sessions
  BY DEF Sessions, maxOfSessions
<1>1. /\ handler' \in Handlers
      /\ \A d \in Connections : handler'[d] = handler[d] \/ handler'[d] = Gone
  BY DEF Leave, ClosedByPing, EventThreadEnds, Typed, Handlers
<1>2. \A d \in Connections : IsBusy(d)' => IsBusy(d) /\ handler'[d] = handler[d]
  BY <1>1, AtRest DEF IsBusy
<1>3. entitled' \in [Connections -> SUBSET Connections]
  BY DEF Leave, ClosedByPing, EventThreadEnds, NothingOwed, Typed, history
<1>4. state' \in [Sessions -> {"IDOL", "WAITTOCONNECT", "CONNECTED"}]
  BY DEF Leave, ClosedByPing, EventThreadEnds, Typed, sessionVars
<1> QED
  BY <1>0, <1>1, <1>2, <1>3, <1>4
     DEF Leave, ClosedByPing, EventThreadEnds, Typed, WellFormed, received, sessionVars, history

\* A handler that works belongs to a connection that has a session.
LEMMA BusyPlaced ==
  ASSUME Basis, NEW c \in Connections, IsBusy(c)
  PROVE  c <= accepted /\ session[c] \in Sessions
<1>1. handler[c] # Gone
  BY HandlerShape DEF Basis, Typed
<1>2. c <= accepted
  BY <1>1, Bounds DEF Basis, Structure, NotYet, Typed
<1> QED
  BY <1>2 DEF Basis, Structure, NotYet, Typed

LEMMA RelayTyped ==
  ASSUME Typed, NEW c \in Connections, NEW command \in Commands, NEW step \in Busy,
         RelayBegins(c, command, step), course' = course
  PROVE  Typed'
<1>0. Sessions' = Sessions /\ 1 \in Sessions /\ 1 \in Nat
  BY CourseBounds DEF Sessions, maxOfSessions, Typed
<1> DEFINE logged == [command EXCEPT !.ssid = info[session[c]].ssid]
<1>1. session[c] \in Sessions
  BY DEF RelayBegins, Present, Typed
<1>2. info[session[c]].ssid \in Ssids \cup {NoSsid}
  BY <1>1 DEF Typed, Infos
<1>3. logged \in Commands
  BY <1>2 DEF Commands
<1>4. numbered' = Append(numbered, [from |-> c, command |-> logged])
  BY DEF RelayBegins, Relay
<1> HIDE DEF logged
<1>5. /\ numbered' \in Seq([from : Connections, command : Commands])
      /\ Len(numbered') = Len(numbered) + 1 /\ Len(numbered) \in Nat
  BY <1>3, <1>4 DEF Typed
<1>6. /\ handler' \in Handlers
      /\ \A d \in Connections \ {c} : handler'[d] = handler[d]
      /\ handler'[c].at = 1
      /\ handler'[c].step = "learn" => handler'[c].command.src \in Macs
      /\ handler'[c].step # "announce"
      /\ handler'[c].number = IF command.type \in Relayed THEN Len(numbered) + 1 ELSE 0
  <2>1. Begin(c, command, step, 1)
    BY DEF RelayBegins, Relay
  <2>2. /\ handler \in Handlers
        /\ numbered \in Seq([from : Connections, command : Commands])
    BY DEF Typed
  <2> QED
    <3>1. /\ handler' \in Handlers
          /\ \A d \in Connections \ {c} : handler'[d] = handler[d]
      BY <1>0, <2>1, <2>2, BeginType
    <3>2. handler'[c].at = 1
      BY <2>1, <2>2 DEF Begin, Handlers
    <3>3. handler'[c].number = IF command.type \in Relayed THEN Len(numbered) + 1 ELSE 0
      BY <1>0, <2>1, <2>2, BeginType
    <3>4. /\ handler'[c].step = "learn" => handler'[c].command.src \in Macs
          /\ handler'[c].step # "announce"
      BY <2>1, <2>2 DEF Begin, Handlers, RelayBegins
    <3> QED
      BY <3>1, <3>2, <3>3, <3>4
<1>7 WellFormed'
  BY <1>0, <1>5, <1>6, OneHandlerTyped
<1>8. entitled' \in [Connections -> SUBSET Connections]
  BY DEF RelayBegins, Relay, Typed
<1> QED
  BY <1>0, <1>5, <1>6, <1>7, <1>8 DEF RelayBegins, Typed, sessionVars, received

LEMMA OtherTyped ==
  ASSUME Typed, NEW c \in Connections, NEW command \in Commands, NEW step \in Busy,
         NEW at \in Sessions, OtherBegins(c, command, step, at), course' = course
  PROVE  Typed'
<1>0. Sessions' = Sessions /\ at \in Nat
  BY CourseBounds DEF Sessions, maxOfSessions, Typed
<1>1. /\ numbered' \in Seq([from : Connections, command : Commands])
      /\ Len(numbered') \in {Len(numbered), Len(numbered) + 1} /\ Len(numbered) \in Nat
  <2> DEFINE entry == [from |-> c, command |-> command]
  <2>1. entry \in [from : Connections, command : Commands]
    OBVIOUS
  <2>2. numbered \in Seq([from : Connections, command : Commands])
    BY DEF Typed
  <2>3. numbered' = Append(numbered, entry) \/ numbered' = numbered
    BY DEF OtherBegins
  <2> HIDE DEF entry
  <2>4. CASE numbered' = Append(numbered, entry)
    BY <2>1, <2>2, <2>4
  <2>5. CASE numbered' = numbered
    BY <2>2, <2>5
  <2> QED
    BY <2>3, <2>4, <2>5
<1>2. command.type \in Relayed => Len(numbered') = Len(numbered) + 1
  BY DEF OtherBegins, Relayed, Typed
<1>3. /\ handler' \in Handlers
      /\ \A d \in Connections \ {c} : handler'[d] = handler[d]
      /\ handler'[c].at = at /\ handler'[c].step # "learn"
      /\ handler'[c].step = "announce" => handler'[c].command.ssid \in Ssids
      /\ handler'[c].number = IF command.type \in Relayed THEN Len(numbered) + 1 ELSE 0
  <2>1. /\ Begin(c, command, step, at) /\ step # "learn"
        /\ step = "announce" => command.ssid \in Ssids
        /\ handler \in Handlers
        /\ numbered \in Seq([from : Connections, command : Commands])
    BY DEF OtherBegins, Typed
  <2>2. /\ handler' \in Handlers
        /\ \A d \in Connections \ {c} : handler'[d] = handler[d]
        /\ handler'[c].at = at
        /\ handler'[c].step = step
        /\ handler'[c].command = command
    BY <1>0, <2>1, BeginType
  <2>3. handler'[c].number = IF command.type \in Relayed THEN Len(numbered) + 1 ELSE 0
    BY <1>0, <2>1, BeginType
  <2> QED
    BY <2>1, <2>2, <2>3
<1>4 WellFormed'
  BY <1>0, <1>1, <1>2, <1>3, OneHandlerTyped
<1> QED
  BY <1>0, <1>1, <1>3, <1>4 DEF OtherBegins, Typed, sessionVars, history

\* A step of the handler that does not end the walk and keeps the command.
LEMMA GoOnType ==
  ASSUME Typed, NEW c \in Connections, IsBusy(c), NEW step \in Busy,
         handler' = [handler EXCEPT ![c].step = step]
  PROVE  /\ handler' \in Handlers
         /\ \A d \in Connections \ {c} : handler'[d] = handler[d]
         /\ IsBusy(c)' /\ handler'[c].step = step
         /\ handler'[c].command = handler[c].command /\ handler'[c].at = handler[c].at
         /\ handler'[c].number = handler[c].number /\ handler'[c].list = handler[c].list
<1>1. handler[c] \in Work
  BY HandlerShape DEF Typed
<1> DEFINE next == [handler[c] EXCEPT !.step = step]
<1>2. /\ next \in Work /\ next.step = step /\ next.command = handler[c].command
      /\ next.at = handler[c].at /\ next.number = handler[c].number
      /\ next.list = handler[c].list
  BY <1>1 DEF Work
<1>3. handler' = [handler EXCEPT ![c] = next]
  OBVIOUS
<1> HIDE DEF next
<1> QED
  BY <1>2, <1>3 DEF Typed, IsBusy, Handlers

LEMMA AdvanceTyped ==
  ASSUME Typed, NEW c \in Connections, IsBusy(c), Advance(c), course' = course,
         numbered' = numbered
  PROVE  /\ handler' \in Handlers
         /\ WellFormed'
<1>1. /\ handler' \in Handlers
      /\ \A d \in Connections \ {c} : handler'[d] = handler[d]
  BY AdvanceType
<1>2. IsBusy(c)' => handler'[c].at = handler[c].at + 1 /\ handler[c].at # maxOfSessions
                    /\ handler'[c].number = handler[c].number
  BY AdvanceType, AtRest DEF IsBusy
<1>3. handler[c].at \in Sessions /\ handler[c].number <= Len(numbered) /\ Len(numbered) \in Nat
  BY DEF Typed, WellFormed
<1>4. IsBusy(c)' => handler'[c].at \in Sessions /\ handler'[c].number <= Len(numbered)
  <2>1. maxOfSessions \in Nat /\ Sessions = 1 .. maxOfSessions
    BY CourseBounds DEF Typed
  <2>2. handler[c].at # maxOfSessions => handler[c].at + 1 \in Sessions
    BY <1>3, <2>1
  <2> QED
    BY <1>2, <1>3, <2>2
<1>5. IsBusy(c)' => /\ handler'[c].step = "learn" => handler'[c].command.src \in Macs
                    /\ handler'[c].step = "announce" => handler'[c].command.ssid \in Ssids
  BY AdvanceType, AtRest DEF Typed, WellFormed, IsBusy
<1> QED
  BY <1>1, <1>3, <1>4, <1>5, OneHandlerTyped

LEMMA GoOnTyped ==
  ASSUME Typed, NEW c \in Connections, IsBusy(c), NEW step \in Busy \ {"learn", "announce"},
         handler' = [handler EXCEPT ![c].step = step], course' = course, numbered' = numbered
  PROVE  /\ handler' \in Handlers
         /\ WellFormed'
<1>1. Len(numbered) \in Nat /\ handler[c].at \in Sessions /\ handler[c].number <= Len(numbered)
  BY DEF Typed, WellFormed
<1>2. /\ handler' \in Handlers
      /\ \A d \in Connections \ {c} : handler'[d] = handler[d]
      /\ handler'[c].step = step /\ handler'[c].at = handler[c].at
      /\ handler'[c].number = handler[c].number
  BY GoOnType
<1>3. Len(numbered) <= Len(numbered') /\ Len(numbered') \in Nat
  BY <1>1
<1>4. /\ handler'[c].at \in Sessions /\ handler'[c].number <= Len(numbered')
      /\ handler'[c].step \notin {"learn", "announce"}
  BY <1>1, <1>2
<1> QED
  BY <1>2, <1>3, <1>4, OneHandlerTyped

\* What Settle leaves is of the right type.
LEMMA SettleType ==
  ASSUME Typed, NEW c \in Connections, IsBusy(c), Settle(c), numbered' = numbered
  PROVE  /\ entitled' \in [Connections -> SUBSET Connections]
         /\ missed' \in SUBSET (Connections \X Nat)
<1>1. handler[c].number \in Nat
  BY HandlerShape DEF Typed
<1>2. CASE Finished(c)
  <2> DEFINE late == {e \in entitled[c] :
                        \A k \in 1 .. Len(got'[e]) : got'[e][k] # handler[c].number}
  <2>1. missed' = missed \cup {<<d, handler[c].number>> : d \in late}
    BY <1>2 DEF Settle
  <2>2. late \subseteq Connections
    BY DEF Typed
  <2>3. entitled' = [entitled EXCEPT ![c] = {}]
    BY <1>2 DEF Settle
  <2> HIDE DEF late
  <2> QED
    BY <1>1, <2>1, <2>2, <2>3 DEF Typed
<1>3. CASE ~Finished(c)
  BY <1>3 DEF Settle, Typed
<1> QED
  BY <1>2, <1>3

LEMMA SentType ==
  ASSUME Typed, HeldByOne, NEW boxes \in [Connections -> Seq(Int)], NEW i \in Sessions,
         NEW number \in Int
  PROVE  Sent(boxes, i, number) \in [Connections -> Seq(Int)]
<1>1. CASE Connected(i)
  <2>1. holder[i] \in Connections
    BY <1>1 DEF Connected, HeldByOne, Typed
  <2> QED
    BY <1>1, <2>1 DEF Sent
<1>2. CASE ~Connected(i)
  BY <1>2 DEF Sent
<1> QED
  BY <1>1, <1>2

LEMMA LearnTyped ==
  ASSUME Basis, NEW c \in Connections, LearnSource(c), course' = course
  PROVE  Typed'
<1>1. Typed /\ IsBusy(c) /\ Sessions' = Sessions
  BY DEF Basis, LearnSource, IsBusy, Busy, Sessions, maxOfSessions
<1>2. session[c] \in Sessions
  BY <1>1, BusyPlaced
<1>3. handler' = [handler EXCEPT ![c].step = "test"] /\ numbered' = numbered
  BY DEF LearnSource
<1>4. /\ handler' \in Handlers
      /\ WellFormed'
  BY <1>1, <1>3, GoOnTyped DEF Busy
<1>5. mac' \in [Sessions -> SUBSET Macs]
  <2>1. handler[c].command.src \in Macs
    BY <1>1 DEF LearnSource, Typed, WellFormed
  <2> QED
    BY <1>1, <2>1 DEF LearnSource, Typed
<1> QED
  BY <1>1, <1>4, <1>5 DEF LearnSource, Typed, sessionVars, received, history

LEMMA AnnounceTyped ==
  ASSUME Basis, NEW c \in Connections, Announce(c), course' = course
  PROVE  Typed'
<1>1. Typed /\ IsBusy(c) /\ Sessions' = Sessions
  BY DEF Basis, Announce, IsBusy, Busy, Sessions, maxOfSessions
<1>2. session[c] \in Sessions /\ handler[c].command \in Commands
  BY <1>1, BusyPlaced, HandlerShape DEF Typed
<1>3. PICK step \in {"copy", "send"} : handler' = [handler EXCEPT ![c].step = step]
  BY DEF Announce
<1>4. handler' \in Handlers /\ WellFormed'
  BY <1>1, <1>3, GoOnTyped DEF Announce, Busy
<1>5. handler[c].command.ssid \in Ssids \cup {NoSsid}
  BY <1>2 DEF Commands
<1>6. info' \in [Sessions -> Infos]
  <2>1. [ssid |-> handler[c].command.ssid, user |-> c] \in Infos
    BY <1>5 DEF Infos
  <2> QED
    BY <1>1, <1>2, <2>1 DEF Announce, Typed
<1>7. groups' \in [Connections -> SUBSET Ssids]
  BY <1>1 DEF Announce, Typed, WellFormed
<1>8. entitled' \in [Connections -> SUBSET Connections]
  BY <1>1 DEF Announce, NothingOwed, Typed
<1> QED
  BY <1>1, <1>4, <1>6, <1>7, <1>8 DEF Announce, Typed, sessionVars, received

LEMMA TestTyped ==
  ASSUME Basis, NEW c \in Connections, TestSession(c), course' = course
  PROVE  Typed'
<1>1. Typed /\ IsBusy(c) /\ Sessions' = Sessions /\ numbered' = numbered
  BY DEF Basis, TestSession, At, IsBusy, Busy, Sessions, maxOfSessions
<1>2. handler' \in Handlers /\ WellFormed'
  <2>1. CASE handler' = [handler EXCEPT ![c].step = "send"]
    BY <1>1, <2>1, GoOnTyped DEF Busy
  <2>2. CASE Advance(c)
    BY <1>1, <2>2, AdvanceTyped
  <2> QED
    BY <2>1, <2>2 DEF TestSession
<1>3. /\ entitled' \in [Connections -> SUBSET Connections]
      /\ missed' \in SUBSET (Connections \X Nat)
  BY <1>1, SettleType DEF TestSession
<1> QED
  BY <1>1, <1>2, <1>3 DEF TestSession, Typed, sessionVars, received

LEMMA SendTyped ==
  ASSUME Basis, NEW c \in Connections, SendToSession(c), course' = course
  PROVE  Typed'
<1>1. Typed /\ HeldByOne /\ IsBusy(c) /\ Sessions' = Sessions /\ numbered' = numbered
  BY DEF Basis, Structure, SendToSession, At, IsBusy, Busy, Sessions, maxOfSessions
<1>2. /\ session[c] \in Sessions /\ handler[c].at \in Sessions
      /\ handler[c].number \in Int /\ -handler[c].number \in Int
  BY <1>1, BusyPlaced, HandlerShape DEF Typed, WellFormed
<1>3. handler' \in Handlers /\ WellFormed'
  BY <1>1, AdvanceTyped DEF SendToSession
<1>4. got' \in [Connections -> Seq(Int)]
  <2> DEFINE echo == IF handler[c].command.type = "D"
                     THEN Sent(got, session[c], -handler[c].number) ELSE got
  <2>1. echo \in [Connections -> Seq(Int)]
    BY <1>1, <1>2, SentType DEF Typed
  <2>2. got' = Sent(echo, handler[c].at, handler[c].number)
    BY DEF SendToSession
  <2> HIDE DEF echo
  <2> QED
    BY <1>1, <1>2, <2>1, <2>2, SentType
<1>5. asked' \in [Connections -> SUBSET Sessions]
  BY <1>1, <1>2 DEF SendToSession, Typed
<1>6. /\ entitled' \in [Connections -> SUBSET Connections]
      /\ missed' \in SUBSET (Connections \X Nat)
  BY <1>1, SettleType DEF SendToSession
<1> QED
  BY <1>1, <1>3, <1>4, <1>5, <1>6 DEF SendToSession, Typed, sessionVars

LEMMA CopyTyped ==
  ASSUME Basis, NEW c \in Connections, CopyInfo(c), course' = course
  PROVE  Typed'
<1>1. Typed /\ IsBusy(c) /\ Sessions' = Sessions /\ numbered' = numbered
  BY DEF Basis, CopyInfo, At, IsBusy, Busy, Sessions, maxOfSessions
<1>2. /\ handler[c] \in Work /\ handler[c].at \in Sessions
      /\ handler[c].number <= Len(numbered) /\ Len(numbered) \in Nat
      /\ handler[c].list \in Seq(Infos)
  BY <1>1, HandlerShape DEF Typed, WellFormed
<1> DEFINE h == handler[c]
           copied == IF Connected(h.at) THEN Append(h.list, info[h.at]) ELSE h.list
           at == IF h.at < maxOfSessions THEN h.at + 1 ELSE 1
           step == IF h.at < maxOfSessions THEN h.step
                   ELSE IF h.command.type = "S" THEN "spread" ELSE "answer"
           next == [h EXCEPT !.list = copied, !.at = at, !.step = step]
<1>3. copied \in Seq(Infos) /\ at \in Sessions /\ at \in Nat /\ step \in {"copy", "spread", "answer"}
  <2>1. copied \in Seq(Infos)
    <3>1. info[h.at] \in Infos
      BY <1>1, <1>2 DEF Typed
    <3> QED
      BY <1>2, <3>1
  <2>2. at \in Sessions /\ at \in Nat
    BY <1>1, <1>2, CourseBounds DEF Typed
  <2>3. step \in {"copy", "spread", "answer"}
    BY DEF CopyInfo, At
  <2> QED
    BY <2>1, <2>2, <2>3
<1>4. handler' = [handler EXCEPT ![c] = next]
  BY DEF CopyInfo
<1> HIDE DEF copied, at, step
<1>5. next \in Work /\ next.at = at /\ next.step = step /\ next.number = h.number
  <2>1. step \in Busy
    BY <1>3 DEF Busy
  <2> QED
    BY <1>2, <1>3, <2>1 DEF Work
<1> HIDE DEF next
<1>6. /\ handler' \in Handlers
      /\ \A d \in Connections \ {c} : handler'[d] = handler[d]
      /\ handler'[c] = next
  BY <1>1, <1>4, <1>5 DEF Typed, Handlers
<1>7. WellFormed'
  BY <1>1, <1>2, <1>3, <1>5, <1>6, OneHandlerTyped
<1> QED
  BY <1>1, <1>6, <1>7 DEF CopyInfo, Typed, sessionVars, received, history

LEMMA ShowTyped ==
  ASSUME Basis, NEW c \in Connections, AnswerList(c) \/ SpreadList(c), course' = course
  PROVE  Typed'
<1>1. Typed /\ HeldByOne /\ IsBusy(c) /\ Sessions' = Sessions /\ numbered' = numbered
  BY DEF Basis, Structure, AnswerList, SpreadList, At, IsBusy, Busy, Sessions, maxOfSessions
<1>2. session[c] \in Sessions /\ handler[c].at \in Sessions /\ handler[c].list \in Seq(Infos)
  BY <1>1, BusyPlaced, HandlerShape DEF Typed, WellFormed
<1>3. \A i \in Sessions : Connected(i) => holder[i] \in Connections
  BY <1>1 DEF Connected, HeldByOne, Typed
<1>4. view' \in [Connections -> Seq(Infos)]
  BY <1>1, <1>2, <1>3 DEF AnswerList, SpreadList, Shown, Typed
<1>5. handler' \in Handlers /\ WellFormed'
  <2>1. CASE AnswerList(c)
    <3>1. handler' \in Handlers /\ \A d \in Connections : handler'[d] \in {handler[d], Idle}
      BY <1>1, <2>1 DEF AnswerList, Typed, Handlers
    <3>2. \A d \in Connections : IsBusy(d)' => IsBusy(d) /\ handler'[d] = handler[d]
      BY <3>1, AtRest DEF IsBusy
    <3> QED
      BY <1>1, <3>1, <3>2 DEF Typed, WellFormed
  <2>2. CASE SpreadList(c)
    BY <1>1, <2>2, AdvanceTyped DEF SpreadList
  <2> QED
    BY <2>1, <2>2
<1> QED
  BY <1>1, <1>4, <1>5 DEF AnswerList, SpreadList, Typed, sessionVars, history

LEMMA TypeStep ==
  ASSUME Basis, [Next]_vars
  PROVE  Typed'
<1>1. course' = course /\ Typed
  BY CourseStays DEF Basis
<1>2. CASE Listener
  BY <1>1, <1>2, ListenerTyped
<1>3. ASSUME NEW c \in Connections, Receive(c) \/ ReceivePing(c) PROVE Typed'
  BY <1>1, <1>3, ReceiveIsBegin, RelayTyped, OtherTyped
<1>4. ASSUME NEW c \in Connections, Handling(c) PROVE Typed'
  BY <1>1, <1>4, LearnTyped, AnnounceTyped, TestTyped, SendTyped, CopyTyped, ShowTyped, ClosedTyped
     DEF Handling
<1>5. ASSUME NEW c \in Connections, Leave(c) \/ ClosedByPing(c) PROVE Typed'
  BY <1>1, <1>5, ClosedTyped
<1>6. CASE UNCHANGED vars
  BY <1>1, <1>6 DEF vars, sessionVars, received, history, Typed, WellFormed, IsBusy, Sessions,
     maxOfSessions
<1> QED
  BY <1>2, <1>3, <1>4, <1>5, <1>6 DEF Next
-----------------------------------------------------------------------------
(***************************************************************************)
(* The structure.  A handler changes no session, and only itself goes on;  *)
(* what it sends goes to those who hold a session.                         *)
(***************************************************************************)
Handles(c) ==
  \/ LearnSource(c) \/ Announce(c) \/ TestSession(c) \/ SendToSession(c)
  \/ CopyInfo(c) \/ AnswerList(c) \/ SpreadList(c)

LEMMA HandlesIsBusy ==
  ASSUME Typed, NEW c \in Connections, Handles(c)
  PROVE  IsBusy(c)
BY DEF Handles, LearnSource, Announce, TestSession, SendToSession, CopyInfo, AnswerList, SpreadList,
   At, IsBusy, Busy

LEMMA OwnHandlerOnly ==
  ASSUME Basis, NEW c \in Connections, Receive(c) \/ ReceivePing(c) \/ Handles(c)
  PROVE  /\ UNCHANGED sessionVars
         /\ \A d \in Connections \ {c} : handler'[d] = handler[d]
         /\ handler[c] # Gone /\ handler'[c] # Gone /\ c <= accepted
<1>1. Typed /\ Structure /\ handler \in Handlers
  BY DEF Basis, Typed
<1>2. UNCHANGED sessionVars
  BY DEF Receive, ReceiveChat, ReceiveTell, ReceiveFrame, ReceiveSSID, ReceiveUserInfo,
     ReceiveListRequest, ReceivePing, Handles, LearnSource, Announce, TestSession, SendToSession,
     CopyInfo, AnswerList, SpreadList
<1>3. /\ \A d \in Connections \ {c} : handler'[d] = handler[d]
      /\ handler[c] # Gone /\ handler'[c] # Gone
  <2>1. CASE Receive(c) \/ ReceivePing(c)
    <3>1. PICK command \in Commands, step \in Busy, at \in Nat :
            Begin(c, command, step, at) /\ handler[c] = Idle
      BY <1>1, <2>1, ReceiveIsBegin, CourseBounds DEF RelayBegins, Relay, OtherBegins, Typed
    <3>2. \A d \in Connections \ {c} : handler'[d] = handler[d]
      BY <1>1, <3>1 DEF Begin, Handlers
    <3>3. handler'[c].step = step
      BY <1>1, <3>1 DEF Begin, Handlers
    <3> QED
      BY <1>1, <3>1, <3>2, <3>3, AtRest, HandlerShape
  <2>2. CASE Handles(c)
    <3>1. IsBusy(c) /\ handler[c] \in Work /\ handler[c] # Gone
      BY <1>1, <2>2, HandlesIsBusy, HandlerShape
    <3>2. CASE \E step \in Busy : handler' = [handler EXCEPT ![c].step = step]
      <4>1. PICK step \in Busy : handler' = [handler EXCEPT ![c].step = step]
        BY <3>2
      <4>2. \A d \in Connections \ {c} : handler'[d] = handler[d]
        BY <1>1, <4>1 DEF Handlers
      <4>3. handler'[c].step = step
        BY <1>1, <3>1, <4>1, GoOnType
      <4> QED
        BY <3>1, <4>2, <4>3, AtRest
    <3>3. CASE Advance(c)
      <4>1. \A h \in Work : h # Gone
        BY AtRest DEF Work
      <4> QED
        BY <1>1, <3>1, <3>3, <4>1, AdvanceType, HandlerShape
    <3>4. CASE handler' = [handler EXCEPT ![c] = Idle]
      BY <1>1, <3>1, <3>4, HandlerShape DEF Handlers
    <3>5. CASE CopyInfo(c)
      <4>1. /\ \A d \in Connections \ {c} : handler'[d] = handler[d]
            /\ handler'[c].step \in {"copy", "spread", "answer"}
        BY <1>1, <3>1, <3>5 DEF CopyInfo, At, Handlers, Work
      <4> QED
        BY <3>1, <4>1, AtRest DEF Busy
    <3> QED
      BY <2>2, <3>2, <3>3, <3>4, <3>5 DEF Handles, LearnSource, Announce, TestSession,
         SendToSession, AnswerList, SpreadList, Busy
  <2> QED
    BY <2>1, <2>2
<1>4. c <= accepted
  BY <1>1, <1>3, Bounds DEF Structure, NotYet, Typed
<1> QED
  BY <1>2, <1>3, <1>4

\* The client that gets what is sent to session i.
LEMMA SentEach ==
  ASSUME Typed, HeldByOne, NEW boxes \in [Connections -> Seq(Int)], NEW i \in Sessions,
         NEW number \in Int, NEW d \in Connections
  PROVE  Sent(boxes, i, number)[d] =
           IF Connected(i) /\ holder[i] = d THEN Append(boxes[d], number) ELSE boxes[d]
<1>1. CASE Connected(i)
  <2>1. holder[i] \in Connections
    BY <1>1 DEF Connected, HeldByOne, Typed
  <2> QED
    BY <1>1, <2>1 DEF Sent
<1>2. CASE ~Connected(i)
  BY <1>2 DEF Sent
<1> QED
  BY <1>1, <1>2

LEMMA EchoEach ==
  ASSUME Typed, HeldByOne, NEW i \in Sessions, NEW n \in Nat, NEW d \in Connections
  PROVE  Sent(got, i, -n)[d] = IF Connected(i) /\ holder[i] = d THEN Append(got[d], -n) ELSE got[d]
<1> DEFINE m == -n
<1>1. m \in Int /\ got \in [Connections -> Seq(Int)]
  BY DEF Typed
<1> HIDE DEF m
<1>2. Sent(got, i, m)[d] = IF Connected(i) /\ holder[i] = d THEN Append(got[d], m) ELSE got[d]
  BY <1>1, SentEach
<1> QED
  BY <1>2 DEF m

Gets(c, d) == Connected(handler[c].at) /\ holder[handler[c].at] = d

\* What client d has after a step of SendToSession: all it had before, at most
\* the echo of a private message, and in the end the command if it gets it.
LEMMA GotAfterSend ==
  ASSUME Basis, NEW c \in Connections, SendToSession(c), NEW d \in Connections
  PROVE  /\ Len(got[d]) \in Nat /\ Len(got'[d]) \in Nat /\ Len(got[d]) <= Len(got'[d])
         /\ \A k \in 1 .. Len(got[d]) : got'[d][k] = got[d][k] /\ got[d][k] \in Int
         /\ \A k \in 1 .. Len(got'[d]) : k > Len(got[d]) =>
              \/ got'[d][k] <= 0
              \/ Gets(c, d) /\ k = Len(got'[d]) /\ got'[d][k] = handler[c].number
         /\ Gets(c, d) => Len(got'[d]) > 0 /\ got'[d][Len(got'[d])] = handler[c].number
         /\ got'[d] # got[d] => d <= accepted
<1>1. Typed /\ HeldByOne /\ IsBusy(c)
  BY DEF Basis, Structure, SendToSession, At, IsBusy, Busy
<1>2. /\ session[c] \in Sessions /\ handler[c].at \in Sessions
      /\ handler[c].number \in Nat /\ handler[c].number \in Int /\ -handler[c].number \in Int
      /\ -handler[c].number <= 0
  BY <1>1, BusyPlaced, HandlerShape DEF Typed, WellFormed
<1> DEFINE n == handler[c].number
           i == handler[c].at
           echo == IF handler[c].command.type = "D" THEN Sent(got, session[c], -n) ELSE got
           echoed == echo[d]
<1>3. echo \in [Connections -> Seq(Int)] /\ got \in [Connections -> Seq(Int)]
  BY <1>1, <1>2, SentType DEF Typed
<1>4. \/ echoed = got[d]
      \/ echoed = Append(got[d], -n) /\ Connected(session[c]) /\ holder[session[c]] = d
  <2>1. Sent(got, session[c], -n)[d] =
          IF Connected(session[c]) /\ holder[session[c]] = d THEN Append(got[d], -n) ELSE got[d]
    BY <1>1, <1>2, EchoEach
  <2> QED
    BY <2>1
<1>5. got'[d] = IF Gets(c, d) THEN Append(echoed, n) ELSE echoed
  <2>1. got' = Sent(echo, i, n)
    BY DEF SendToSession
  <2> HIDE DEF echo
  <2> QED
    BY <1>1, <1>2, <1>3, <2>1, SentEach DEF Gets
<1>6. got[d] \in Seq(Int) /\ echoed \in Seq(Int)
  BY <1>3
<1>7. \A j \in Sessions : Connected(j) /\ holder[j] = d => d <= accepted
  BY <1>1, Bounds DEF HeldByOne
<1> HIDE DEF echoed, n
<1>8. /\ Len(got[d]) \in Nat /\ Len(echoed) \in Nat /\ Len(got[d]) <= Len(echoed)
      /\ \A k \in 1 .. Len(got[d]) : echoed[k] = got[d][k] /\ got[d][k] \in Int
      /\ \A k \in 1 .. Len(echoed) : k > Len(got[d]) => echoed[k] <= 0
  BY <1>2, <1>4, <1>6 DEF n
<1>9. CASE Gets(c, d)
  <2>1. /\ got'[d] = Append(echoed, n) /\ Len(got'[d]) = Len(echoed) + 1
        /\ got'[d][Len(echoed) + 1] = n
        /\ \A k \in 1 .. Len(echoed) : got'[d][k] = echoed[k]
    BY <1>2, <1>5, <1>6, <1>9 DEF n
  <2>2. d <= accepted
    BY <1>2, <1>7, <1>9 DEF Gets
  <2> QED
    BY <1>8, <1>9, <2>1, <2>2 DEF n
<1>10. CASE ~Gets(c, d)
  BY <1>2, <1>4, <1>5, <1>7, <1>8, <1>10
<1> QED
  BY <1>9, <1>10

\* The other steps give nobody anything.
LEMMA OnlySendGives ==
  ASSUME NEW c \in Connections,
         \/ Receive(c) \/ ReceivePing(c) \/ Leave(c) \/ ClosedByPing(c) \/ EventThreadEnds(c)
         \/ LearnSource(c) \/ Announce(c) \/ TestSession(c) \/ CopyInfo(c)
         \/ AnswerList(c) \/ SpreadList(c)
  PROVE  got' = got
BY DEF Receive, ReceiveChat, ReceiveTell, ReceiveFrame, ReceiveSSID, ReceiveUserInfo,
   ReceiveListRequest, ReceivePing, Leave, ClosedByPing, EventThreadEnds, LearnSource, Announce,
   TestSession, CopyInfo, AnswerList, SpreadList, received

LEMMA StructureStep ==
  ASSUME Basis, [Next]_vars
  PROVE  Structure'
<1> USE Bounds
<1>0. /\ Typed /\ Typed' /\ HeldByOne /\ NotYet /\ OpeningOne
      /\ course' = course /\ Sessions' = Sessions
  BY TypeStep, CourseStays DEF Basis, Structure
<1>1. CASE InitSession
  <2> USE <1>0, <1>1, CourseBounds DEF InitSession, received, history
  <2>1. HeldByOne'
    <3>1. \A i \in Sessions : state'[i] = "CONNECTED" => state[i] = "CONNECTED"
      BY DEF Typed
    <3> QED
      BY <3>1 DEF HeldByOne
  <2>2. NotYet'
    BY DEF NotYet
  <2>3. OpeningOne'
    BY DEF OpeningOne, Typed
  <2> QED
    BY <2>1, <2>2, <2>3 DEF Structure
<1>2. CASE Publish
  <2> USE <1>0, <1>2, CourseBounds DEF Publish, received, history
  <2>1. /\ accepted + 1 \in Connections /\ opening \in Sessions /\ handler[accepted + 1] = Gone
        /\ session[accepted + 1] = None
    <3>1. opening \in Sessions /\ accepted < course.connections
      BY DEF OpeningOne, Typed
    <3>2. accepted + 1 \in Connections
      BY <3>1 DEF Typed, Connections
    <3> QED
      BY <3>1, <3>2 DEF NotYet, Typed
  <2>2. ASSUME NEW i \in Sessions, holder[i] = accepted + 1
        PROVE  FALSE
    <3>1. accepted \in Nat /\ holder[i] # None
      BY <2>2 DEF Typed
    <3>2. holder[i] <= accepted
      BY <3>1 DEF HeldByOne
    <3> HIDE <1>0, <1>2
    <3> QED
      BY <2>2, <3>1, <3>2
  <2>3. HeldByOne'
    <3> SUFFICES ASSUME NEW i \in Sessions
                 PROVE  /\ state'[i] = "CONNECTED" => holder'[i] # None
                        /\ holder'[i] # None => holder'[i] <= accepted' /\ session'[holder'[i]] = i
      BY DEF HeldByOne
    <3>1. CASE i = opening
      BY <2>1, <3>1 DEF Typed
    <3>2. CASE i # opening
      <4>1. /\ state'[i] = state[i] /\ holder'[i] = holder[i]
            /\ holder[i] # None => holder[i] \in Connections /\ holder[i] # accepted + 1
        BY <2>2, <3>2 DEF Typed
      <4>2. holder[i] # None => session'[holder[i]] = session[holder[i]]
        BY <4>1 DEF Typed
      <4>3. /\ state[i] = "CONNECTED" => holder[i] # None
            /\ holder[i] # None => holder[i] <= accepted /\ session[holder[i]] = i
        BY DEF HeldByOne
      <4>4. accepted' = accepted + 1 /\ accepted \in Int /\ Connections \subseteq Int
        BY DEF Typed
      <4>5. holder'[i] # None => holder'[i] <= accepted'
        <5> SUFFICES ASSUME holder'[i] # None PROVE holder'[i] <= accepted'
          OBVIOUS
        <5>1. holder[i] \in Int /\ accepted \in Int /\ holder[i] <= accepted
          BY <4>1, <4>3, <4>4
        <5>2. holder'[i] = holder[i] /\ accepted' = accepted + 1
          BY <4>1, <4>4
        <5> QED
          BY <5>1, <5>2
      <4>6. holder'[i] # None => session'[holder'[i]] = i
        BY <4>1, <4>2, <4>3
      <4> QED
        BY <4>1, <4>3, <4>5, <4>6
    <3> QED
      BY <3>1, <3>2
  <2>4. NotYet'
    BY <2>1 DEF NotYet, Typed
  <2>5. OpeningOne'
    BY <2>1 DEF OpeningOne, Typed
  <2> QED
    BY <2>3, <2>4, <2>5 DEF Structure
<1>3. CASE ClearInfo
  <2> USE <1>0, <1>3 DEF ClearInfo, received
  <2>1. holder[opening] \in Connections /\ holder[opening] <= accepted
    BY DEF OpeningOne, HeldByOne, Typed
  <2>2. HeldByOne'
    BY DEF HeldByOne
  <2>3. NotYet'
    BY <2>1 DEF NotYet, Typed, Handlers
  <2>4. OpeningOne'
    BY DEF OpeningOne
  <2> QED
    BY <2>2, <2>3, <2>4 DEF Structure
<1>4. ASSUME NEW c \in Connections, Receive(c) \/ ReceivePing(c) \/ Handles(c)
      PROVE  Structure'
  <2>1. /\ UNCHANGED sessionVars
        /\ \A d \in Connections \ {c} : handler'[d] = handler[d]
        /\ handler[c] # Gone /\ handler'[c] # Gone /\ c <= accepted
    BY <1>4, OwnHandlerOnly
  <2>2. \A d \in Connections : d > accepted => got'[d] = got[d]
    <3>1. CASE SendToSession(c)
      <4>1. ASSUME NEW d \in Connections, d > accepted PROVE got'[d] = got[d]
        <5>1. got'[d] # got[d] => d <= accepted
          BY <3>1, GotAfterSend
        <5>2. d \in Nat /\ accepted \in Nat
          BY <1>0 DEF Typed
        <5> QED
          BY <4>1, <5>1, <5>2
      <4> QED
        BY <4>1
    <3>2. CASE ~SendToSession(c)
      <4>1. got' = got
        BY <1>4, <3>2, OnlySendGives DEF Handles
      <4> QED
        BY <4>1
    <3> QED
      BY <3>1, <3>2
  <2>3. NotYet'
    <3> SUFFICES ASSUME NEW d \in Connections
                 PROVE  /\ d > accepted =>
                             handler'[d] = Gone /\ session[d] = None /\ got'[d] = <<>>
                        /\ d <= accepted => session[d] # None
      BY <2>1 DEF NotYet, sessionVars
    <3>1. /\ d > accepted => handler[d] = Gone /\ session[d] = None /\ got[d] = <<>>
          /\ d <= accepted => session[d] # None
      BY <1>0 DEF NotYet
    <3>2. d > accepted => d # c
      BY <1>0, <2>1 DEF Typed
    <3> QED
      BY <2>1, <2>2, <3>1, <3>2
  <2>4. HeldByOne' /\ OpeningOne'
    <3>1. HeldByOne'
      BY <1>0, <2>1 DEF HeldByOne, sessionVars
    <3>2. opening # None /\ state[opening] # "WAITTOCONNECT" =>
            /\ handler[holder[opening]] = Gone /\ holder[opening] \in Connections
      BY <1>0 DEF HeldByOne, OpeningOne, Typed
    <3>3. OpeningOne'
      BY <1>0, <2>1, <3>2 DEF OpeningOne, sessionVars
    <3> QED
      BY <3>1, <3>3
  <2> QED
    BY <2>3, <2>4 DEF Structure
<1>5. ASSUME NEW c \in Connections, Leave(c) \/ ClosedByPing(c) \/ EventThreadEnds(c)
      PROVE  Structure'
  <2>1. /\ state' = state \/ (handler[c] # Gone /\ Present(c) /\
                              state' = [state EXCEPT ![session[c]] = "IDOL"])
        /\ UNCHANGED <<holder, opening, accepted, session, got>>
        /\ handler' = handler \/ (handler[c] # Gone /\ handler' = [handler EXCEPT ![c] = Gone])
    <3>1. Idle # Gone
      BY AtRest DEF Idle, Gone
    <3>2. CASE Leave(c)
      BY <3>1, <3>2 DEF Leave, received
    <3>3. CASE ClosedByPing(c)
      <4>1. handler[c] # Gone /\ Present(c) /\ state' = [state EXCEPT ![session[c]] = "IDOL"]
        BY <3>3 DEF ClosedByPing
      <4>2. UNCHANGED <<holder, opening, accepted, session, got, handler>>
        BY <3>3 DEF ClosedByPing, received
      <4> QED
        BY <4>1, <4>2
    <3>4. CASE EventThreadEnds(c)
      BY <3>1, <3>4 DEF EventThreadEnds, received, sessionVars
    <3> QED
      BY <1>5, <3>2, <3>3, <3>4
  <2>2. \A i \in Sessions : state'[i] \in {state[i], "IDOL"}
    BY <1>0, <2>1 DEF Typed
  <2>3. HeldByOne'
    BY <1>0, <2>1, <2>2 DEF HeldByOne
  <2>4. NotYet'
    BY <1>0, <2>1 DEF NotYet, Typed, Handlers
  <2>5. OpeningOne'
    <3>1. opening # None /\ state[opening] # "WAITTOCONNECT" => session[c] # opening \/ ~Present(c) \/ handler[c] = Gone
      BY <1>0 DEF OpeningOne, Present
    <3>2. opening # None => state'[opening] = state[opening]
      BY <1>0, <2>1, <3>1 DEF Typed, Present, OpeningOne
    <3> QED
      <4>1. \A i \in Sessions : state'[i] = "WAITTOCONNECT" => i = opening'
        BY <1>0, <2>1, <2>2 DEF OpeningOne
      <4>2. ASSUME opening # None, state[opening] # "WAITTOCONNECT"
            PROVE  handler'[holder[opening]] = Gone
        <5>1. holder[opening] \in Connections /\ handler[holder[opening]] = Gone
          BY <1>0, <4>2 DEF OpeningOne, HeldByOne, Typed
        <5> QED
          BY <1>0, <2>1, <5>1 DEF Typed, Handlers
      <4> QED
        BY <1>0, <2>1, <3>2, <4>1, <4>2 DEF OpeningOne
  <2> QED
    BY <2>3, <2>4, <2>5 DEF Structure
<1>6. CASE UNCHANGED vars
  BY <1>0, <1>6 DEF vars, sessionVars, received, Structure, HeldByOne, NotYet, OpeningOne
<1> QED
  BY <1>1, <1>2, <1>3, <1>4, <1>5, <1>6 DEF Next, Listener, Handling, Handles

LEMMA BasisAlways == Spec => []Basis
<1>1. Basis /\ [Next]_vars => Basis'
  BY TypeStep, StructureStep DEF Basis
<1> QED
  BY <1>1, InitBasis, PTL DEF Spec

\* The tables change when a session is prepared and when a frame is learned.
LEMMA TableChanges ==
  ASSUME Basis, [Next]_vars
  PROVE  \/ mac' = mac
         \/ InitSession
         \/ \E c \in Connections : LearnSource(c)
<1>1. ASSUME NEW c \in Connections, Receive(c) \/ ReceivePing(c) PROVE mac' = mac
  BY <1>1 DEF Receive, ReceiveChat, ReceiveTell, ReceiveFrame, ReceiveSSID, ReceiveUserInfo,
     ReceiveListRequest, ReceivePing
<1>2. ASSUME NEW c \in Connections, Handling(c), ~LearnSource(c) PROVE mac' = mac
  BY <1>2 DEF Handling, Announce, TestSession, SendToSession, CopyInfo, AnswerList, SpreadList,
     EventThreadEnds
<1>3. ASSUME NEW c \in Connections, Leave(c) \/ ClosedByPing(c) PROVE mac' = mac
  BY <1>3 DEF Leave, ClosedByPing
<1>4. Publish \/ ClearInfo \/ UNCHANGED vars => mac' = mac
  BY DEF Publish, ClearInfo, vars
<1> QED
  BY <1>1, <1>2, <1>3, <1>4 DEF Next, Listener

Tables == \A i \in Sessions : IsFiniteSet(mac[i]) /\ Cardinality(mac[i]) <= TableSize

LEMMA TablesStep ==
  ASSUME Basis, Tables, [Next]_vars
  PROVE  Tables'
<1>0. Typed /\ Sessions' = Sessions /\ TableSize \in Nat
  BY CourseStays, ArenaAssumption DEF Basis
<1>1. CASE mac' = mac
  BY <1>0, <1>1 DEF Tables
<1>2. CASE InitSession
  <2>1. \A i \in Sessions : mac'[i] = mac[i] \/ mac'[i] = {}
    BY <1>0, <1>2 DEF InitSession, TableCleared, Typed
  <2>2. IsFiniteSet({}) /\ Cardinality({}) = 0
    BY FS_EmptySet
  <2> QED
    BY <1>0, <2>1, <2>2 DEF Tables
<1>3. ASSUME NEW c \in Connections, LearnSource(c) PROVE Tables'
  <2> DEFINE src == handler[c].command.src
  <2>1. \A i \in Sessions : \/ mac'[i] = mac[i]
                            \/ Cardinality(mac[i]) < TableSize /\ mac'[i] = mac[i] \cup {src}
    BY <1>0, <1>3 DEF LearnSource, Typed
  <2>2. \A i \in Sessions : IsFiniteSet(mac[i]) =>
          /\ Cardinality(mac[i]) \in Nat
          /\ IsFiniteSet(mac[i] \cup {src})
          /\ Cardinality(mac[i] \cup {src}) <= Cardinality(mac[i]) + 1
    <3> SUFFICES ASSUME NEW i \in Sessions, IsFiniteSet(mac[i])
                 PROVE  /\ Cardinality(mac[i]) \in Nat
                        /\ IsFiniteSet(mac[i] \cup {src})
                        /\ Cardinality(mac[i] \cup {src}) <= Cardinality(mac[i]) + 1
      OBVIOUS
    <3> DEFINE S == mac[i]
    <3>1. /\ Cardinality(S) \in Nat
          /\ IsFiniteSet(S \cup {src})
          /\ Cardinality(S \cup {src}) = IF src \in S THEN Cardinality(S) ELSE Cardinality(S) + 1
      <4> HIDE DEF src
      <4> QED
        BY FS_AddElement, FS_CardinalityType
    <3> QED
      BY <3>1
  <2> HIDE DEF src
  <2>3. ASSUME NEW i \in Sessions PROVE IsFiniteSet(mac'[i]) /\ Cardinality(mac'[i]) <= TableSize
    <3>1. IsFiniteSet(mac[i]) /\ Cardinality(mac[i]) <= TableSize /\ Cardinality(mac[i]) \in Nat
      BY <2>2 DEF Tables
    <3>2. CASE mac'[i] = mac[i]
      BY <3>1, <3>2
    <3>3. CASE Cardinality(mac[i]) < TableSize /\ mac'[i] = mac[i] \cup {src}
      <4> DEFINE n == Cardinality(mac[i] \cup {src})
      <4>1. n \in Nat /\ n <= Cardinality(mac[i]) + 1 /\ IsFiniteSet(mac[i] \cup {src})
        BY <2>2, <3>1, FS_CardinalityType
      <4> QED
        BY <1>0, <3>1, <3>3, <4>1
    <3> QED
      BY <2>1, <3>2, <3>3
  <2> QED
    BY <1>0, <2>3 DEF Tables
<1> QED
  BY <1>1, <1>2, <1>3, TableChanges

(***************************************************************************)
(* Types, and the bound of the tables: a session never has more addresses  *)
(* than mac[maxMacAddr] has entries, and every handler works on a session  *)
(* that exists (tunnel-server.cpp 77-416).                                 *)
(***************************************************************************)
THEOREM ArenaType == Spec => []TypeOK
<1>1. Init => Tables
  <2>1. IsFiniteSet({}) /\ Cardinality({}) = 0
    BY FS_EmptySet
  <2> QED
    BY <2>1, ArenaAssumption DEF Init, Tables
<1>2. Basis /\ Tables /\ [Next]_vars => Tables'
  BY TablesStep
<1>3. Basis /\ Tables => TypeOK
  <2> SUFFICES ASSUME Basis, Tables PROVE TypeOK
    OBVIOUS
  <2>1. Typed
    BY DEF Basis
  <2>2. \A c \in Connections :
          \/ handler[c] \in {Idle, Gone}
          \/ /\ handler[c].step \in Busy
             /\ handler[c].command \in Commands
             /\ handler[c].at \in 1 .. maxOfSessions + 1
             /\ handler[c].number \in 0 .. Len(numbered)
             /\ handler[c].list \in Seq(Infos)
    <3> SUFFICES ASSUME NEW c \in Connections, IsBusy(c)
                 PROVE  /\ handler[c].step \in Busy
                        /\ handler[c].command \in Commands
                        /\ handler[c].at \in 1 .. maxOfSessions + 1
                        /\ handler[c].number \in 0 .. Len(numbered)
                        /\ handler[c].list \in Seq(Infos)
      BY <2>1, HandlerShape DEF Typed
    <3>1. /\ handler[c].at \in Sessions /\ handler[c].number <= Len(numbered)
          /\ Len(numbered) \in Nat
      BY <2>1 DEF Typed, WellFormed
    <3>2. /\ handler[c].command \in Commands /\ handler[c].number \in Nat
          /\ handler[c].list \in Seq(Infos)
      BY <2>1, HandlerShape DEF Typed
    <3>3. handler[c].at \in 1 .. maxOfSessions + 1
      BY <2>1, <3>1, CourseBounds DEF Typed
    <3> QED
      BY <3>1, <3>2, <3>3 DEF IsBusy
  <2>3. \A k \in 1 .. Len(numbered) : numbered[k] \in [from : Connections, command : Commands]
    <3>1. numbered \in Seq([from : Connections, command : Commands])
      BY <2>1 DEF Typed
    <3> DEFINE Entries == [from : Connections, command : Commands]
    <3> HIDE DEF Entries
    <3>2. numbered \in Seq(Entries) => \A k \in 1 .. Len(numbered) : numbered[k] \in Entries
      OBVIOUS
    <3> QED
      BY <3>1, <3>2 DEF Entries
  <2> QED
    BY <2>1, <2>2, <2>3 DEF Typed, TypeOK, Tables, Busy
<1> QED
  BY <1>1, <1>2, <1>3, BasisAlways, PTL DEF Spec
-----------------------------------------------------------------------------
(***************************************************************************)
(* What a step does to the commands that are being relayed.                *)
(***************************************************************************)
Walking == {"learn", "announce", "test", "send"}

LEMMA NumberedType ==
  ASSUME Typed
  PROVE  /\ Len(numbered) \in Nat
         /\ \A k \in 1 .. Len(numbered) :
              numbered[k].from \in Connections /\ numbered[k].command \in Commands
<1> DEFINE Entries == [from : Connections, command : Commands]
<1>1. numbered \in Seq(Entries)
  BY DEF Typed
<1>2. \A e \in Entries : e.from \in Connections /\ e.command \in Commands
  OBVIOUS
<1> HIDE DEF Entries
<1>3. Len(numbered) \in Nat /\ \A k \in 1 .. Len(numbered) : numbered[k] \in Entries
  BY <1>1
<1> QED
  BY <1>2, <1>3

\* A new command is logged after the others.
LEMMA Logged ==
  ASSUME Typed, NEW c \in Connections, NEW command \in Commands,
         numbered' = Append(numbered, [from |-> c, command |-> command])
  PROVE  /\ Len(numbered') = Len(numbered) + 1
         /\ \A k \in 1 .. Len(numbered) : numbered'[k] = numbered[k]
         /\ numbered'[Len(numbered) + 1].from = c
         /\ numbered'[Len(numbered) + 1].command = command
<1> DEFINE entry == [from |-> c, command |-> command]
           Entries == [from : Connections, command : Commands]
<1>1. numbered \in Seq(Entries) /\ entry \in Entries
  BY DEF Typed
<1>2. entry.from = c /\ entry.command = command /\ numbered' = Append(numbered, entry)
  OBVIOUS
<1> HIDE DEF entry, Entries
<1> QED
  BY <1>1, <1>2

\* How a handler begins.
LEMMA BeginEffect ==
  ASSUME Typed, NEW c \in Connections, Receive(c) \/ ReceivePing(c)
  PROVE  /\ \A d \in Connections \ {c} : handler'[d] = handler[d]
         /\ handler[c] = Idle /\ Present(c) /\ IsBusy(c)'
         /\ Len(numbered) <= Len(numbered')
         /\ \A k \in 1 .. Len(numbered) : numbered'[k] = numbered[k]
         /\ \A k \in 1 .. Len(numbered') : k > Len(numbered) => numbered'[k].from = c
         /\ handler'[c].number > 0 =>
              /\ handler'[c].number = Len(numbered) + 1 /\ Len(numbered') = Len(numbered) + 1
              /\ numbered'[Len(numbered) + 1].from = c
              /\ numbered'[Len(numbered) + 1].command.type = handler'[c].command.type
              /\ numbered'[Len(numbered) + 1].command.src = handler'[c].command.src
         /\ handler'[c].step \in {"learn", "test"} =>
              /\ handler'[c].at = 1 /\ handler'[c].number > 0
              /\ handler'[c].command.type \in {"C", "D", "Y", "T", "U"}
              /\ numbered'[Len(numbered) + 1].command.ssid = info[session[c]].ssid
              /\ entitled' = [entitled EXCEPT ![c] =
                   {d \in Connections : Present(d) /\ Wanted(c, session[d], handler'[c].command)}]
         /\ handler'[c].step \in {"learn", "test", "announce", "copy"}
         /\ handler'[c].step = "announce" => handler'[c].command.type \in {"S", "I"}
         /\ handler'[c].step \notin {"learn", "test"} => entitled' = entitled
         /\ UNCHANGED <<info, mac, got, missed, groups, course, sessionVars>>
<1>0. handler \in Handlers /\ Len(numbered) \in Nat
  BY NumberedType DEF Typed
<1>1. CASE \E command \in Commands, step \in Busy : RelayBegins(c, command, step)
  <2>1. PICK command \in Commands, step \in Busy : RelayBegins(c, command, step)
    BY <1>1
  <2> DEFINE logged == [command EXCEPT !.ssid = info[session[c]].ssid]
             h == [step |-> step, command |-> command, at |-> 1, list |-> <<>>,
                   number |-> IF command.type \in Relayed THEN Len(numbered) + 1 ELSE 0]
  <2>2. /\ numbered' = Append(numbered, [from |-> c, command |-> logged])
        /\ entitled' = [entitled EXCEPT ![c] =
             {d \in Connections : Present(d) /\ Wanted(c, session[d], command)}]
        /\ handler' = [handler EXCEPT ![c] = h]
    BY <2>1 DEF RelayBegins, Relay, Begin
  <2>3. /\ logged \in Commands /\ logged.ssid = info[session[c]].ssid
        /\ logged.type = command.type /\ logged.src = command.src
    <3>1. session[c] \in Sessions
      BY <2>1 DEF RelayBegins, Present, Typed
    <3>2. info[session[c]].ssid \in Ssids \cup {NoSsid}
      BY <3>1 DEF Typed, Infos
    <3> QED
      BY <3>2 DEF Commands
  <2>4. /\ command.type \in {"C", "D", "Y", "T", "U"} /\ step \in {"learn", "test"}
        /\ handler[c] = Idle /\ Present(c)
        /\ UNCHANGED <<info, mac, got, missed, groups, course, sessionVars>>
    BY <2>1 DEF RelayBegins, received
  <2>5. h.step = step /\ h.at = 1 /\ h.command = command /\ h.number = Len(numbered) + 1
    BY <2>4 DEF Relayed
  <2> HIDE DEF logged, h
  <2>6. handler'[c] = h /\ \A d \in Connections \ {c} : handler'[d] = handler[d]
    BY <1>0, <2>2 DEF Handlers
  <2>7. /\ Len(numbered') = Len(numbered) + 1
        /\ \A k \in 1 .. Len(numbered) : numbered'[k] = numbered[k]
        /\ numbered'[Len(numbered) + 1].from = c
        /\ numbered'[Len(numbered) + 1].command = logged
    BY <2>2, <2>3, Logged
  <2>8. /\ handler'[c].command = command /\ handler'[c].number = Len(numbered) + 1
        /\ handler'[c].step = step /\ handler'[c].at = 1
    BY <2>5, <2>6
  <2>9. entitled' = [entitled EXCEPT ![c] =
          {d \in Connections : Present(d) /\ Wanted(c, session[d], handler'[c].command)}]
    BY <2>2, <2>8
  <2> QED
    BY <1>0, <2>3, <2>4, <2>6, <2>7, <2>8, <2>9 DEF IsBusy
<1>2. CASE \E command \in Commands, step \in Busy, at \in Sessions : OtherBegins(c, command, step, at)
  <2>1. PICK command \in Commands, step \in Busy, at \in Sessions : OtherBegins(c, command, step, at)
    BY <1>2
  <2> DEFINE h == [step |-> step, command |-> command, at |-> at, list |-> <<>>,
                   number |-> IF command.type \in Relayed THEN Len(numbered) + 1 ELSE 0]
  <2>2. /\ handler' = [handler EXCEPT ![c] = h]
        /\ handler[c] = Idle /\ Present(c) /\ step \in {"announce", "copy"}
        /\ UNCHANGED <<info, mac, got, entitled, missed, groups, course, sessionVars>>
    BY <2>1 DEF OtherBegins, Begin, history
  <2>3. /\ h.step = step /\ h.command = command
        /\ step = "announce" => command.type \in {"S", "I"}
        /\ h.number > 0 => /\ h.number = Len(numbered) + 1
                           /\ numbered' = Append(numbered, [from |-> c, command |-> command])
    BY <1>0, <2>1 DEF OtherBegins, Relayed
  <2>4. \/ numbered' = Append(numbered, [from |-> c, command |-> command])
        \/ numbered' = numbered
    BY <2>1 DEF OtherBegins
  <2> HIDE DEF h
  <2>5. handler'[c] = h /\ \A d \in Connections \ {c} : handler'[d] = handler[d]
    BY <1>0, <2>2 DEF Handlers
  <2>6. numbered' = Append(numbered, [from |-> c, command |-> command]) =>
          /\ Len(numbered') = Len(numbered) + 1
          /\ \A k \in 1 .. Len(numbered) : numbered'[k] = numbered[k]
          /\ numbered'[Len(numbered) + 1].from = c
          /\ numbered'[Len(numbered) + 1].command = command
    BY Logged
  <2> QED
    BY <1>0, <2>2, <2>3, <2>4, <2>5, <2>6 DEF IsBusy
<1> QED
  BY <1>1, <1>2, ReceiveIsBegin

\* How a handler goes on: the command and its number stay until it returns,
\* and a walk goes forward.
LEMMA HandlesEffect ==
  ASSUME Typed, NEW c \in Connections, Handles(c)
  PROVE  /\ \A d \in Connections \ {c} : handler'[d] = handler[d]
         /\ numbered' = numbered /\ course' = course /\ UNCHANGED sessionVars
         /\ IsBusy(c)
         /\ handler'[c] = Idle \/ IsBusy(c)'
         /\ IsBusy(c)' => /\ handler'[c].command = handler[c].command
                          /\ handler'[c].number = handler[c].number
         /\ IsBusy(c)' /\ handler'[c].step \in Walking =>
              /\ handler[c].step \in Walking /\ handler'[c].step \in {"test", "send"}
              /\ \/ handler'[c].at = handler[c].at /\ handler[c].step # "send"
                 \/ handler'[c].at = handler[c].at + 1 /\ handler'[c].step = "test"
<1>0. /\ handler \in Handlers /\ IsBusy(c) /\ handler[c] \in Work
      /\ handler[c].at \in Nat
  BY HandlesIsBusy, HandlerShape DEF Typed
<1>1. numbered' = numbered /\ course' = course /\ UNCHANGED sessionVars
  BY DEF Handles, LearnSource, Announce, TestSession, SendToSession, CopyInfo, AnswerList,
     SpreadList, history
<1> DEFINE Goal ==
      /\ \A d \in Connections \ {c} : handler'[d] = handler[d]
      /\ handler'[c] = Idle \/ IsBusy(c)'
      /\ IsBusy(c)' => /\ handler'[c].command = handler[c].command
                       /\ handler'[c].number = handler[c].number
      /\ IsBusy(c)' /\ handler'[c].step \in Walking =>
           /\ handler[c].step \in Walking /\ handler'[c].step \in {"test", "send"}
           /\ \/ handler'[c].at = handler[c].at /\ handler[c].step # "send"
              \/ handler'[c].at = handler[c].at + 1 /\ handler'[c].step = "test"
<1> HIDE DEF Goal
<1>2. ASSUME handler[c].step \in {"learn", "announce", "test"}, NEW step \in {"test", "send", "copy"},
             handler' = [handler EXCEPT ![c].step = step]
      PROVE  Goal
  <2>1. /\ \A d \in Connections \ {c} : handler'[d] = handler[d]
        /\ IsBusy(c)' /\ handler'[c].step = step
        /\ handler'[c].command = handler[c].command /\ handler'[c].at = handler[c].at
        /\ handler'[c].number = handler[c].number
    BY <1>0, <1>2, GoOnType DEF Busy
  <2> QED
    BY <1>2, <2>1 DEF Walking, Goal
<1>3. ASSUME \/ LearnSource(c) \/ Announce(c)
             \/ TestSession(c) /\ handler' = [handler EXCEPT ![c].step = "send"]
      PROVE  Goal
  BY <1>2, <1>3 DEF LearnSource, Announce, TestSession, At
<1>4. ASSUME Advance(c), handler[c].step \in {"test", "send", "spread"} PROVE Goal
  <2>1. /\ \A d \in Connections \ {c} : handler'[d] = handler[d]
        /\ IF handler[c].at = maxOfSessions \/ handler[c].command.type = "I"
           THEN handler'[c] = Idle
           ELSE /\ handler'[c] \in Work
                /\ handler'[c].at = handler[c].at + 1
                /\ handler'[c].step = IF handler[c].step = "send" THEN "test" ELSE handler[c].step
                /\ handler'[c].command = handler[c].command
                /\ handler'[c].number = handler[c].number
    BY <1>0, <1>4, AdvanceType
  <2>2. handler'[c] = Idle => ~IsBusy(c)'
    BY AtRest DEF IsBusy
  <2>3. handler'[c] \in Work => IsBusy(c)'
    BY DEF IsBusy, Work
  <2> QED
    BY <1>4, <2>1, <2>2, <2>3 DEF Walking, Goal
<1>5. ASSUME AnswerList(c) PROVE Goal
  <2>1. handler'[c] = Idle /\ \A d \in Connections \ {c} : handler'[d] = handler[d]
    BY <1>0, <1>5 DEF AnswerList, Handlers
  <2>2. ~IsBusy(c)'
    BY <2>1, AtRest DEF IsBusy
  <2> QED
    BY <2>1, <2>2 DEF Goal
<1>6. ASSUME CopyInfo(c) PROVE Goal
  <2>1. /\ \A d \in Connections \ {c} : handler'[d] = handler[d]
        /\ handler'[c].command = handler[c].command
        /\ handler'[c].number = handler[c].number
        /\ handler'[c].step \in {"copy", "spread", "answer"}
    BY <1>0, <1>6 DEF CopyInfo, At, Handlers, Work
  <2> QED
    BY <2>1 DEF IsBusy, Busy, Walking, Goal
<1>7. Goal
  BY <1>3, <1>4, <1>5, <1>6 DEF Handles, TestSession, SendToSession, SpreadList, At
<1> QED
  BY <1>0, <1>1, <1>7 DEF Goal

\* The other steps: handlers only come to rest, and nothing is logged.
LEMMA OthersEffect ==
  ASSUME Typed, NotYet,
         \/ Listener \/ UNCHANGED vars
         \/ \E c \in Connections : Leave(c) \/ ClosedByPing(c) \/ EventThreadEnds(c)
  PROVE  /\ numbered' = numbered /\ got' = got
         /\ \A d \in Connections : IsBusy(d)' => IsBusy(d) /\ handler'[d] = handler[d]
         /\ \A d \in Connections : d <= accepted => session'[d] = session[d]
<1>1. numbered' = numbered /\ got' = got
  BY DEF Listener, InitSession, Publish, ClearInfo, Leave, ClosedByPing, EventThreadEnds, vars,
     received
<1>2. \A d \in Connections : handler'[d] \in {handler[d], Idle, Gone}
  <2>1. handler \in Handlers
    BY DEF Typed
  <2>2. \/ handler' = handler
        \/ \E d : handler' = [handler EXCEPT ![d] = Idle] \/ handler' = [handler EXCEPT ![d] = Gone]
    BY DEF Listener, InitSession, Publish, ClearInfo, Leave, ClosedByPing, EventThreadEnds, vars
  <2> QED
    BY <2>1, <2>2 DEF Handlers
<1>3. \A d \in Connections : IsBusy(d)' => IsBusy(d) /\ handler'[d] = handler[d]
  BY <1>2, AtRest DEF IsBusy
<1>4. \A d \in Connections : d <= accepted => session'[d] = session[d]
  <2>1. CASE Publish
    BY <2>1 DEF Publish, Typed, Connections
  <2>2. CASE UNCHANGED session
    BY <2>2
  <2> QED
    BY <2>1, <2>2 DEF Listener, InitSession, ClearInfo, Leave, ClosedByPing, EventThreadEnds, vars,
       sessionVars
<1> QED
  BY <1>1, <1>3, <1>4
-----------------------------------------------------------------------------
(***************************************************************************)
(* The order of a sender's commands.  A handler walks forward, and a       *)
(* client that already has its command is behind it; the numbers of        *)
(* earlier commands of the same sender are smaller.                        *)
(***************************************************************************)
\* The number of a handler is that of its command.
Begun ==
  \A c \in Connections : IsBusy(c) /\ handler[c].number > 0 =>
    /\ numbered[handler[c].number].from = c
    /\ numbered[handler[c].number].command.type = handler[c].command.type
    /\ numbered[handler[c].number].command.src = handler[c].command.src

LEMMA BegunStep ==
  ASSUME Basis, Begun, [Next]_vars
  PROVE  Begun'
<1>0. Typed /\ NotYet /\ Len(numbered) \in Nat
  BY NumberedType DEF Basis, Structure
<1>1. \A c \in Connections : IsBusy(c) =>
        handler[c].number \in Nat /\ handler[c].number <= Len(numbered)
  BY <1>0, HandlerShape DEF Typed, WellFormed
<1>2. ASSUME NEW c \in Connections, Receive(c) \/ ReceivePing(c) PROVE Begun'
  <2>1. ASSUME NEW d \in Connections \ {c}, IsBusy(d)', handler'[d].number > 0
        PROVE  /\ IsBusy(d) /\ handler'[d] = handler[d]
               /\ numbered'[handler[d].number] = numbered[handler[d].number]
    <3>1. handler'[d] = handler[d] /\ \A k \in 1 .. Len(numbered) : numbered'[k] = numbered[k]
      BY <1>0, <1>2, BeginEffect
    <3> QED
      BY <1>0, <1>1, <2>1, <3>1 DEF IsBusy
  <2>2. handler'[c].number > 0 =>
          /\ numbered'[handler'[c].number].from = c
          /\ numbered'[handler'[c].number].command.type = handler'[c].command.type
          /\ numbered'[handler'[c].number].command.src = handler'[c].command.src
    BY <1>0, <1>2, BeginEffect
  <2> QED
    BY <2>1, <2>2 DEF Begun
<1>3. ASSUME NEW c \in Connections, Handles(c) PROVE Begun'
  <2>1. ASSUME NEW d \in Connections, IsBusy(d)'
        PROVE  /\ IsBusy(d) /\ handler'[d].number = handler[d].number
               /\ handler'[d].command = handler[d].command
    BY <1>0, <1>3, <2>1, HandlesEffect DEF IsBusy
  <2>2. numbered' = numbered
    BY <1>0, <1>3, HandlesEffect
  <2> QED
    BY <2>1, <2>2 DEF Begun
<1>4. CASE \/ Listener \/ UNCHANGED vars
           \/ \E c \in Connections : Leave(c) \/ ClosedByPing(c) \/ EventThreadEnds(c)
  <2>1. /\ numbered' = numbered
        /\ \A d \in Connections : IsBusy(d)' => IsBusy(d) /\ handler'[d] = handler[d]
    BY <1>0, <1>4, OthersEffect
  <2> QED
    BY <2>1 DEF Begun
<1> QED
  BY <1>2, <1>3, <1>4 DEF Next, Handling, Handles

\* What client d has at k of what the handler of c relays, or relayed before.
Behind(c, d, k) ==
  IsBusy(c) /\ handler[c].step \in Walking /\ handler[c].number > 0
    /\ got[d][k] > 0 /\ numbered[got[d][k]].from = c
  => \/ got[d][k] < handler[c].number
     \/ got[d][k] = handler[c].number /\ session[d] < handler[c].at

OrderInv ==
  /\ \A d \in Connections : \A k \in 1 .. Len(got[d]) : got[d][k] <= Len(numbered)
  /\ SendersInOrder
  /\ \A c, d \in Connections : \A k \in 1 .. Len(got[d]) : Behind(c, d, k)

\* What has been received, and its senders, stay the same.
LEMMA ReceivedStays ==
  ASSUME Typed, OrderInv, got' = got, Len(numbered) <= Len(numbered'), Len(numbered') \in Nat,
         \A k \in 1 .. Len(numbered) : numbered'[k] = numbered[k]
  PROVE  /\ \A d \in Connections : \A k \in 1 .. Len(got[d]) :
              /\ got[d][k] \in Int /\ got'[d][k] <= Len(numbered')
              /\ got[d][k] > 0 => numbered'[got[d][k]] = numbered[got[d][k]]
         /\ SendersInOrder'
<1>1. ASSUME NEW d \in Connections, NEW k \in 1 .. Len(got[d])
      PROVE  /\ got[d][k] \in Int /\ got'[d][k] <= Len(numbered')
             /\ got[d][k] > 0 => numbered'[got[d][k]] = numbered[got[d][k]]
  <2>1. got[d] \in Seq(Int) /\ Len(numbered) \in Nat
    BY NumberedType DEF Typed
  <2>2. got[d][k] \in Int /\ got[d][k] <= Len(numbered)
    BY <1>1, <2>1 DEF OrderInv
  <2> QED
    BY <2>1, <2>2
<1>2. SendersInOrder'
  BY <1>1 DEF SendersInOrder, OrderInv
<1> QED
  BY <1>1, <1>2

LEMMA OrderStep ==
  ASSUME Basis, Begun, OrderInv, [Next]_vars
  PROVE  OrderInv'
<1>0. Typed /\ HeldByOne /\ NotYet /\ Len(numbered) \in Nat /\ \A d \in Connections : got[d] \in Seq(Int)
  BY NumberedType DEF Basis, Structure, Typed
<1>1. \A c \in Connections : IsBusy(c) =>
        /\ handler[c].number \in Nat /\ handler[c].number <= Len(numbered)
        /\ handler[c].at \in Sessions /\ handler[c].at \in Nat
  BY <1>0, HandlerShape DEF Typed, WellFormed
<1>2. \A d \in Connections : session[d] \in Nat
  <2>1. course \in Course /\ session \in [Connections -> Sessions \cup {None}]
    BY <1>0 DEF Typed
  <2>2. Sessions \cup {None} \subseteq Nat
    BY <2>1, CourseBounds, Bounds
  <2> QED
    BY <2>1, <2>2
<1>3. ASSUME NEW c \in Connections, Receive(c) \/ ReceivePing(c) PROVE OrderInv'
  <2>1. /\ got' = got /\ session' = session /\ Len(numbered) <= Len(numbered')
        /\ \A k \in 1 .. Len(numbered) : numbered'[k] = numbered[k]
        /\ \A d \in Connections \ {c} : handler'[d] = handler[d]
        /\ handler'[c].number > 0 => handler'[c].number = Len(numbered) + 1
    BY <1>0, <1>3, BeginEffect DEF sessionVars
  <2>2. Len(numbered') \in Nat
    BY <1>0, <1>3, TypeStep, NumberedType DEF Basis, Next
  <2>3. /\ SendersInOrder'
        /\ \A d \in Connections : \A k \in 1 .. Len(got[d]) :
              /\ got[d][k] \in Int /\ got'[d][k] <= Len(numbered')
              /\ got[d][k] > 0 => numbered'[got[d][k]] = numbered[got[d][k]]
    BY <1>0, <2>1, <2>2, ReceivedStays
  <2>4. ASSUME NEW b \in Connections, NEW d \in Connections, NEW k \in 1 .. Len(got[d])
        PROVE  Behind(b, d, k)'
    <3>1. got[d][k] \in Int /\ got[d][k] <= Len(numbered) /\ Behind(b, d, k)
      BY <2>3, <2>4 DEF OrderInv
    <3>2. CASE b = c
      BY <1>0, <2>1, <3>1, <3>2 DEF Behind
    <3>3. CASE b # c
      BY <2>1, <2>3, <3>1, <3>3 DEF Behind, IsBusy
    <3> QED
      BY <3>2, <3>3
  <2> QED
    BY <2>1, <2>3, <2>4 DEF OrderInv
<1>4. ASSUME NEW c \in Connections, Handles(c), ~SendToSession(c) PROVE OrderInv'
  <2>1. /\ got' = got /\ numbered' = numbered /\ session' = session /\ IsBusy(c)
        /\ \A d \in Connections \ {c} : handler'[d] = handler[d]
        /\ IsBusy(c)' => handler'[c].number = handler[c].number
        /\ IsBusy(c)' /\ handler'[c].step \in Walking =>
             /\ handler[c].step \in Walking
             /\ handler'[c].at = handler[c].at \/ handler'[c].at = handler[c].at + 1
    BY <1>0, <1>4, HandlesEffect, OnlySendGives DEF sessionVars, Handles
  <2>2. ASSUME NEW b \in Connections, NEW d \in Connections, NEW k \in 1 .. Len(got[d])
        PROVE  Behind(b, d, k)'
    <3>1. Behind(b, d, k)
      BY <2>2 DEF OrderInv
    <3>2. CASE b = c
      BY <1>1, <1>2, <2>1, <3>1, <3>2 DEF Behind
    <3>3. CASE b # c
      BY <2>1, <3>1, <3>3 DEF Behind, IsBusy
    <3> QED
      BY <3>2, <3>3
  <2> QED
    BY <2>1, <2>2 DEF OrderInv, SendersInOrder
<1>5. ASSUME NEW c \in Connections, SendToSession(c) PROVE OrderInv'
  <2> DEFINE n == handler[c].number
  <2>1. /\ numbered' = numbered /\ session' = session /\ IsBusy(c) /\ handler[c].step = "send"
        /\ \A d \in Connections \ {c} : handler'[d] = handler[d]
        /\ IsBusy(c)' => handler'[c].number = n
        /\ IsBusy(c)' /\ handler'[c].step \in Walking => handler'[c].at = handler[c].at + 1
    BY <1>0, <1>5, HandlesEffect DEF sessionVars, Handles, SendToSession, At
  <2>2. n \in Nat /\ n <= Len(numbered) /\ (n > 0 => numbered[n].from = c)
    BY <1>1, <2>1 DEF Begun
  <2>3. \A d \in Connections :
          /\ Len(got[d]) \in Nat /\ Len(got'[d]) \in Nat /\ Len(got[d]) <= Len(got'[d])
          /\ \A k \in 1 .. Len(got[d]) : got'[d][k] = got[d][k] /\ got[d][k] \in Int
          /\ \A k \in 1 .. Len(got'[d]) : k > Len(got[d]) =>
               \/ got'[d][k] <= 0
               \/ Gets(c, d) /\ k = Len(got'[d]) /\ got'[d][k] = n
          /\ \A k \in 1 .. Len(got'[d]) : got'[d][k] \in Int
    <3>1. \A d \in Connections : got'[d] \in Seq(Int)
      BY <1>5, TypeStep DEF Basis, Next, Handling, Typed
    <3> QED
      BY <1>5, <3>1, GotAfterSend
  <2>4. \A d \in Connections : Gets(c, d) => session[d] = handler[c].at
    BY <1>0, <1>1, <2>1, Bounds DEF Gets, HeldByOne
  <2>5. \A d \in Connections : \A k \in 1 .. Len(got[d]) :
          Behind(c, d, k) /\ got[d][k] <= Len(numbered)
    BY DEF OrderInv
  <2> HIDE DEF n
  <2>6. ASSUME NEW d \in Connections, NEW k \in 1 .. Len(got'[d])
        PROVE  got'[d][k] <= Len(numbered)
    BY <1>0, <2>2, <2>3, <2>5, <2>6, SMTT(30)
  <2>7. ASSUME NEW d \in Connections, NEW j \in 1 .. Len(got'[d]), NEW k \in 1 .. Len(got'[d]),
               j < k, got'[d][j] > 0, got'[d][k] > 0,
               numbered[got'[d][j]].from = numbered[got'[d][k]].from
        PROVE  got'[d][j] < got'[d][k]
    <3>1. CASE k <= Len(got[d])
      <4>1. /\ j \in 1 .. Len(got[d]) /\ k \in 1 .. Len(got[d])
            /\ got'[d][j] = got[d][j] /\ got'[d][k] = got[d][k]
        BY <2>3, <2>7, <3>1
      <4> QED
        BY <2>7, <4>1 DEF OrderInv, SendersInOrder
    <3>2. CASE k > Len(got[d])
      <4>1. Gets(c, d) /\ k = Len(got'[d]) /\ got'[d][k] = n
        BY <2>3, <2>7, <3>2
      <4>2. j \in 1 .. Len(got[d]) /\ got'[d][j] = got[d][j]
        BY <2>3, <2>7, <4>1
      <4>3. Behind(c, d, j) /\ session[d] = handler[c].at /\ got[d][j] \in Int
        BY <2>3, <2>4, <2>5, <4>1, <4>2
      <4>4. numbered[got[d][j]].from = c
        BY <2>2, <2>7, <4>1, <4>2
      <4> QED
        BY <1>1, <2>1, <2>2, <2>7, <4>1, <4>2, <4>3, <4>4 DEF Behind, Walking, n
    <3> QED
      BY <2>3, <3>1, <3>2
  <2>8. ASSUME NEW b \in Connections, NEW d \in Connections, NEW k \in 1 .. Len(got'[d])
        PROVE  Behind(b, d, k)'
    <3>1. CASE k <= Len(got[d])
      <4>1. k \in 1 .. Len(got[d]) /\ got'[d][k] = got[d][k] /\ got[d][k] \in Int
        BY <2>3, <2>8, <3>1
      <4>2. Behind(b, d, k)
        BY <4>1 DEF OrderInv
      <4>3. CASE b # c
        BY <2>1, <4>1, <4>2, <4>3 DEF Behind, IsBusy
      <4>4. CASE b = c
        BY <1>1, <1>2, <2>1, <4>1, <4>2, <4>4 DEF Behind, Walking, n
      <4> QED
        BY <4>3, <4>4
    <3>2. CASE k > Len(got[d])
      <4>1. got'[d][k] > 0 => Gets(c, d) /\ got'[d][k] = n
        BY <2>2, <2>3, <2>8, <3>2
      <4>2. CASE got'[d][k] > 0 /\ b = c
        BY <1>1, <1>2, <2>1, <2>2, <2>4, <4>1, <4>2 DEF Behind
      <4>3. CASE ~(got'[d][k] > 0) \/ b # c
        BY <2>1, <2>2, <4>1, <4>3 DEF Behind
      <4> QED
        BY <4>2, <4>3
    <3> QED
      BY <2>3, <3>1, <3>2
  <2>9. SendersInOrder'
    BY <2>1, <2>7 DEF SendersInOrder
  <2> QED
    BY <2>1, <2>6, <2>8, <2>9 DEF OrderInv
<1>6. CASE \/ Listener \/ UNCHANGED vars
           \/ \E c \in Connections : Leave(c) \/ ClosedByPing(c) \/ EventThreadEnds(c)
  <2>1. /\ numbered' = numbered /\ got' = got
        /\ \A d \in Connections : IsBusy(d)' => IsBusy(d) /\ handler'[d] = handler[d]
        /\ \A d \in Connections : d <= accepted => session'[d] = session[d]
    BY <1>0, <1>6, OthersEffect
  <2>2. ASSUME NEW b \in Connections, NEW d \in Connections, NEW k \in 1 .. Len(got[d])
        PROVE  Behind(b, d, k)'
    <3>1. Behind(b, d, k)
      BY <2>2 DEF OrderInv
    <3>2. session'[d] = session[d]
      <4>1. got[d] # <<>>
        BY <1>0, <2>2
      <4> QED
        BY <1>0, <2>1, <4>1, Bounds DEF NotYet, Typed
    <3> QED
      BY <2>1, <3>1, <3>2 DEF Behind
  <2> QED
    BY <2>1, <2>2 DEF OrderInv, SendersInOrder
<1> QED
  BY <1>3, <1>4, <1>5, <1>6 DEF Next, Handling, Handles

(***************************************************************************)
(* A client gets the commands of one sender in the order the sender gave   *)
(* them, and none twice, for any number of senders whose handlers overlap  *)
(* and while sessions are closed and given to new clients.                 *)
(***************************************************************************)
THEOREM SendersKeepOrder == Spec => []SendersInOrder
<1>1. Init => Begun /\ OrderInv
  <2> SUFFICES ASSUME Init PROVE Begun /\ OrderInv
    OBVIOUS
  <2>1. \A c \in Connections : ~IsBusy(c) /\ Len(got[c]) = 0
    BY AtRest DEF Init, IsBusy
  <2> QED
    BY <2>1 DEF Begun, OrderInv, SendersInOrder
<1>2. Basis /\ Begun /\ [Next]_vars => Begun'
  BY BegunStep
<1>3. Basis /\ Begun /\ OrderInv /\ [Next]_vars => OrderInv'
  BY OrderStep
<1>4. OrderInv => SendersInOrder
  BY DEF OrderInv
<1> QED
  BY <1>1, <1>2, <1>3, <1>4, BasisAlways, PTL DEF Spec
-----------------------------------------------------------------------------
(***************************************************************************)
(* What is owed.  A client that was to get a command when its handler      *)
(* began, and for which nothing changed since, still passes the test for   *)
(* its session, and has the command once the walk is past that session.    *)
(***************************************************************************)
Relaying == {"learn", "test", "send"}

Has(box, n) == \E k \in 1 .. Len(box) : box[k] = n

Owes(c, d) ==
  /\ Present(c) /\ Present(d)
  /\ IsBusy(c) /\ handler[c].step \in Relaying
  /\ handler[c].command.type # "I"
  /\ Wanted(c, session[d], handler[c].command)
  /\ session[d] < handler[c].at => Has(got[d], handler[c].number)

OwedInv ==
  /\ missed = {}
  /\ \A c \in Connections : \A d \in entitled[c] : Owes(c, d)

\* What does not touch the two clients leaves what one owes the other.
LEMMA OwesStays ==
  ASSUME NEW c \in Connections, NEW d \in Connections, Owes(c, d),
         session'[c] = session[c], session'[d] = session[d],
         \A i \in {session[c], session[d]} :
           state'[i] = state[i] /\ holder'[i] = holder[i] /\ info'[i] = info[i]
             /\ mac[i] \subseteq mac'[i],
         IsBusy(c)', handler'[c].step \in Relaying,
         handler'[c].command = handler[c].command, handler'[c].number = handler[c].number,
         session[d] < handler'[c].at => Has(got'[d], handler[c].number)
  PROVE  Owes(c, d)'
<1>1. Present(c)' /\ Present(d)'
  BY DEF Owes, Present
<1>2. Wanted(c, session[d], handler[c].command)'
  BY DEF Owes, Wanted, SameGroup
<1> QED
  BY <1>1, <1>2 DEF Owes

LEMMA GotStays ==
  ASSUME NEW d \in Connections, got'[d] = got[d], NEW n
  PROVE  Has(got[d], n) => Has(got'[d], n)
BY DEF Has

\* A handler that does not relay owes nobody; the others go on owing.
LEMMA OwedElsewhere ==
  ASSUME Typed, OwedInv, NEW c \in Connections,
         entitled[c] = {}, entitled' = entitled, missed' = missed,
         \A b \in Connections \ {c} : handler'[b] = handler[b],
         UNCHANGED <<sessionVars, info, mac, got>>
  PROVE  OwedInv'
<1>1. ASSUME NEW b \in Connections, NEW d \in entitled'[b] PROVE Owes(b, d)'
  <2>1. b # c /\ d \in Connections /\ Owes(b, d)
    BY <1>1 DEF Typed, OwedInv
  <2>2. handler'[b] = handler[b] /\ UNCHANGED <<session, state, holder, info, mac, got>>
    BY <2>1 DEF sessionVars
  <2>3. Has(got[d], handler[b].number) => Has(got'[d], handler[b].number)
    BY <2>1, <2>2, GotStays
  <2>4. IsBusy(b)' /\ handler'[b].step \in Relaying /\ handler'[b].command = handler[b].command
        /\ handler'[b].number = handler[b].number
        /\ (session[d] < handler'[b].at => Has(got'[d], handler[b].number))
    BY <2>1, <2>2, <2>3 DEF Owes, IsBusy
  <2> QED
    BY <2>1, <2>2, <2>4, OwesStays
<1> QED
  BY <1>1 DEF OwedInv

LEMMA BeginOwed ==
  ASSUME Basis, OwedInv, NEW c \in Connections, Receive(c) \/ ReceivePing(c)
  PROVE  OwedInv'
<1>0. Typed /\ Typed'
  BY TypeStep DEF Basis, Next
<1>1. /\ \A b \in Connections \ {c} : handler'[b] = handler[b]
      /\ handler[c] = Idle /\ Present(c) /\ IsBusy(c)'
      /\ UNCHANGED <<info, mac, got, missed, sessionVars>>
      /\ handler'[c].step \in {"learn", "test"} =>
           /\ handler'[c].at = 1
           /\ handler'[c].command.type \in {"C", "D", "Y", "T", "U"}
           /\ entitled' = [entitled EXCEPT ![c] =
                {d \in Connections : Present(d) /\ Wanted(c, session[d], handler'[c].command)}]
      /\ handler'[c].step \notin {"learn", "test"} => entitled' = entitled
  BY <1>0, BeginEffect
<1>2. entitled[c] = {}
  <2>1. ~IsBusy(c)
    BY <1>1, AtRest DEF IsBusy
  <2> QED
    BY <1>0, <2>1 DEF OwedInv, Owes, Typed
<1>3. CASE handler'[c].step \notin {"learn", "test"}
  BY <1>0, <1>1, <1>2, <1>3, OwedElsewhere
<1>4. CASE handler'[c].step \in {"learn", "test"}
  <2>1. ASSUME NEW d \in entitled'[c] PROVE Owes(c, d)'
    <3>1. d \in Connections /\ Present(d) /\ Wanted(c, session[d], handler'[c].command)
      BY <1>0, <1>1, <1>4, <2>1 DEF Typed
    <3>2. /\ UNCHANGED <<session, state, holder, info, mac>>
          /\ Present(c)' /\ Present(d)' /\ Wanted(c, session[d], handler[c].command)'
      <4>1. UNCHANGED <<session, state, holder, info, mac>>
        BY <1>1 DEF sessionVars
      <4> QED
        BY <1>1, <3>1, <4>1 DEF Present, Wanted, SameGroup
    <3>3. session[d] \in Sessions /\ Sessions \subseteq Nat /\ Sessions = 1 .. maxOfSessions
      <4>1. session[d] \in Sessions /\ course \in Course
        BY <1>0, <3>1 DEF Typed, Present
      <4> QED
        BY <4>1, CourseBounds
    <3>4. ~(session[d] < handler'[c].at)
      BY <1>1, <1>4, <3>3, CourseBounds, <1>0 DEF Typed
    <3> QED
      BY <1>1, <1>4, <3>2, <3>4 DEF Owes, Relaying
  <2>2. ASSUME NEW b \in Connections \ {c}, NEW d \in entitled'[b] PROVE Owes(b, d)'
    <3>1. d \in entitled[b] /\ d \in Connections /\ Owes(b, d)
      BY <1>0, <1>1, <1>4, <2>2 DEF Typed, OwedInv
    <3>2. handler'[b] = handler[b] /\ UNCHANGED <<session, state, holder, info, mac, got>>
      BY <1>1 DEF sessionVars
    <3>3. Has(got[d], handler[b].number) => Has(got'[d], handler[b].number)
      BY <3>1, <3>2, GotStays
    <3>4. IsBusy(b)' /\ handler'[b].step \in Relaying /\ handler'[b].command = handler[b].command
          /\ handler'[b].number = handler[b].number
          /\ (session[d] < handler'[b].at => Has(got'[d], handler[b].number))
      BY <3>1, <3>2, <3>3 DEF Owes, IsBusy
    <3> QED
      BY <3>1, <3>2, <3>4, OwesStays
  <2> QED
    BY <1>1, <2>1, <2>2 DEF OwedInv
<1> QED
  BY <1>3, <1>4

\* A step of a walk, which has passed nobody it owes: what is settled at its
\* end leaves nothing missed.
LEMMA WalkOwed ==
  ASSUME Basis, OwedInv, NEW c \in Connections, TestSession(c) \/ SendToSession(c)
  PROVE  OwedInv'
<1>0. /\ Typed /\ IsBusy(c) /\ handler[c].step \in {"test", "send"}
      /\ handler[c].at \in Sessions /\ course \in Course
      /\ \A d \in Connections : session[d] # None => session[d] \in Sessions
  BY DEF Basis, TestSession, SendToSession, At, IsBusy, Busy, Typed
<1>1. /\ \A b \in Connections \ {c} : handler'[b] = handler[b]
      /\ handler'[c] = Idle \/ IsBusy(c)'
      /\ IsBusy(c)' => /\ handler'[c].command = handler[c].command
                       /\ handler'[c].number = handler[c].number
      /\ UNCHANGED <<session, state, holder, info, mac>>
  BY <1>0, HandlesEffect DEF Handles, TestSession, SendToSession, sessionVars
<1>2. Settle(c)
  BY DEF TestSession, SendToSession
<1>3. /\ handler[c].at \in Nat /\ handler[c].at <= maxOfSessions /\ maxOfSessions \in Nat
      /\ \A d \in Connections : session[d] # None =>
           session[d] \in Nat /\ session[d] <= maxOfSessions
  BY <1>0, CourseBounds
<1>4. ASSUME NEW d \in Connections, NEW n, Has(got[d], n) PROVE Has(got'[d], n)
  <2>1. CASE TestSession(c)
    BY <1>4, <2>1, GotStays, OnlySendGives
  <2>2. CASE SendToSession(c)
    <3>1. /\ Len(got[d]) \in Nat /\ Len(got'[d]) \in Nat /\ Len(got[d]) <= Len(got'[d])
          /\ \A k \in 1 .. Len(got[d]) : got'[d][k] = got[d][k]
      BY <2>2, GotAfterSend
    <3> QED
      BY <1>4, <3>1 DEF Has
  <2> QED
    BY <2>1, <2>2
\* Whoever is owed and sits at the session of the walk gets the command.
<1>5. ASSUME NEW d \in entitled[c], session[d] = handler[c].at, Advance(c)
      PROVE  Has(got'[d], handler[c].number)
  <2>1. Owes(c, d) /\ d \in Connections
    BY <1>0, <1>5 DEF OwedInv, Typed
  <2>2. ~(TestSession(c) /\ handler[c].step = "test")
    <3> SUFFICES ASSUME TestSession(c), handler[c].step = "test" PROVE FALSE
      OBVIOUS
    <3>1. handler' = [handler EXCEPT ![c].step = "send"]
      BY <1>5, <2>1 DEF TestSession, Owes
    <3>2. handler'[c].step = "send"
      BY <1>0, <3>1, GoOnType DEF Busy, Typed
    <3>3. handler'[c] = Idle \/ handler'[c].step = "test"
      BY <1>0, <1>5, AdvanceType
    <3> QED
      BY <3>2, <3>3 DEF Idle
  <2>3. SendToSession(c)
    BY <2>2 DEF TestSession, At
  <2>4. Gets(c, d)
    BY <1>5, <2>1 DEF Owes, Present, Gets, Connected
  <2>5. Len(got'[d]) \in Nat /\ Len(got'[d]) > 0 /\ got'[d][Len(got'[d])] = handler[c].number
    BY <2>1, <2>3, <2>4, GotAfterSend
  <2> QED
    BY <2>5 DEF Has
<1>6. ASSUME NEW d \in entitled[c], ~Finished(c)
      PROVE  Owes(c, d)'
  <2>1. Owes(c, d) /\ d \in Connections
    BY <1>0, <1>6 DEF OwedInv, Typed
  <2>2. IsBusy(c)'
    BY <1>1, <1>6 DEF Finished
  <2>3. /\ handler'[c].step \in Relaying
        /\ session[d] < handler'[c].at => Has(got'[d], handler[c].number)
    <3>1. CASE Advance(c)
      <4>1. /\ handler'[c].at = handler[c].at + 1
            /\ handler'[c].step = IF handler[c].step = "send" THEN "test" ELSE handler[c].step
        BY <1>0, <1>6, <3>1, AdvanceType DEF Finished
      <4>2. session[d] \in Nat
        BY <1>3, <2>1 DEF Owes, Present
      <4> QED
        BY <1>0, <1>3, <1>4, <1>5, <2>1, <3>1, <4>1, <4>2 DEF Owes, Relaying
    <3>2. CASE ~Advance(c)
      <4>1. handler' = [handler EXCEPT ![c].step = "send"]
        BY <3>2 DEF TestSession, SendToSession
      <4>2. handler'[c].step = "send" /\ handler'[c].at = handler[c].at
        BY <1>0, <4>1, GoOnType DEF Busy, Typed
      <4> QED
        BY <1>4, <2>1, <4>2 DEF Owes, Relaying
    <3> QED
      BY <3>1, <3>2
  <2> QED
    BY <1>1, <2>1, <2>2, <2>3, OwesStays
<1>7. ASSUME NEW b \in Connections \ {c}, NEW d \in entitled[b] PROVE Owes(b, d)'
  <2>1. Owes(b, d) /\ d \in Connections
    BY <1>0, <1>7 DEF OwedInv, Typed
  <2>2. handler'[b] = handler[b]
    BY <1>1
  <2>3. /\ IsBusy(b)' /\ handler'[b].step \in Relaying
        /\ session[d] < handler'[b].at => Has(got'[d], handler[b].number)
    BY <1>4, <2>1, <2>2 DEF Owes, IsBusy
  <2> QED
    BY <1>1, <2>1, <2>2, <2>3, OwesStays
<1>8. CASE ~Finished(c)
  <2>1. UNCHANGED <<missed, entitled>>
    BY <1>2, <1>8 DEF Settle
  <2> QED
    BY <1>6, <1>7, <1>8, <2>1 DEF OwedInv
<1>9. CASE Finished(c)
  <2>1. /\ missed' = missed \cup {<<d, handler[c].number>> : d \in {e \in entitled[c] :
                        \A k \in 1 .. Len(got'[e]) : got'[e][k] # handler[c].number}}
        /\ entitled' = [entitled EXCEPT ![c] = {}]
    BY <1>2, <1>9 DEF Settle
  <2>2. ASSUME NEW d \in entitled[c] PROVE Has(got'[d], handler[c].number)
    <3>1. Owes(c, d) /\ d \in Connections
      BY <1>0, <2>2 DEF OwedInv, Typed
    <3>2. Advance(c)
      <4> SUFFICES ASSUME ~Advance(c) PROVE FALSE
        OBVIOUS
      <4>1. handler' = [handler EXCEPT ![c].step = "send"]
        BY DEF TestSession, SendToSession
      <4>2. IsBusy(c)'
        BY <1>0, <4>1, GoOnType DEF Busy, Typed
      <4> QED
        BY <1>9, <4>2, AtRest DEF Finished, IsBusy
    <3>3. handler[c].at = maxOfSessions
      <4>1. \A h \in Work : h # Idle
        BY AtRest DEF Work
      <4> QED
        BY <1>0, <1>9, <3>1, <3>2, <4>1, AdvanceType DEF Finished, Owes
    <3>4. session[d] \in Nat /\ session[d] <= maxOfSessions
      BY <1>3, <3>1 DEF Owes, Present
    <3>5. CASE session[d] = handler[c].at
      BY <1>5, <3>2, <3>5
    <3>6. CASE session[d] < handler[c].at
      BY <1>4, <3>1, <3>6 DEF Owes
    <3> QED
      BY <1>3, <3>3, <3>4, <3>5, <3>6
  <2>3. missed' = {}
    BY <2>1, <2>2 DEF OwedInv, Has
  <2>4. \A b \in Connections : entitled'[b] = IF b = c THEN {} ELSE entitled[b]
    BY <1>0, <2>1 DEF Typed
  <2> QED
    BY <1>7, <2>3, <2>4 DEF OwedInv
<1> QED
  BY <1>8, <1>9

\* Connection x loses its session or its place, and nothing is owed to it or
\* by it any more; the sessions of the others are as they were.
LEMMA OwedWithout ==
  ASSUME Typed, OwedInv, NEW x,
         \A b \in Connections : entitled'[b] \subseteq entitled[b] \ {x},
         x \in Connections => entitled'[x] = {},
         missed' = missed, got' = got,
         \A b \in Connections \ {x} :
           IsBusy(b) /\ handler[b].step \in Relaying => handler'[b] = handler[b],
         \A d \in Connections \ {x} : Present(d) =>
           /\ session'[d] = session[d]
           /\ state'[session[d]] = state[session[d]] /\ holder'[session[d]] = holder[session[d]]
           /\ info'[session[d]] = info[session[d]] /\ mac[session[d]] \subseteq mac'[session[d]]
  PROVE  OwedInv'
<1>1. ASSUME NEW b \in Connections, NEW d \in entitled'[b] PROVE Owes(b, d)'
  <2>1. b # x /\ d # x /\ d \in Connections /\ Owes(b, d)
    BY <1>1 DEF Typed, OwedInv
  <2>2. handler'[b] = handler[b] /\ Present(b) /\ Present(d) /\ IsBusy(b)'
    BY <2>1 DEF Owes, IsBusy
  <2>3. Has(got[d], handler[b].number) => Has(got'[d], handler[b].number)
    BY <2>1, GotStays
  <2>4. handler'[b].step \in Relaying
        /\ (session[d] < handler'[b].at => Has(got'[d], handler[b].number))
    BY <2>1, <2>2, <2>3 DEF Owes
  <2> QED
    BY <2>1, <2>2, <2>4, OwesStays
<1> QED
  BY <1>1 DEF OwedInv

LEMMA NothingOwedEach ==
  ASSUME Typed, NEW x, NothingOwed(x)
  PROVE  /\ \A b \in Connections : entitled'[b] \subseteq entitled[b] \ {x}
         /\ x \in Connections => entitled'[x] = {}
BY DEF NothingOwed, Typed

LEMMA OwedStep ==
  ASSUME Basis, OwedInv, [Next]_vars
  PROVE  OwedInv'
<1>0. /\ Typed /\ HeldByOne /\ NotYet /\ OpeningOne
      /\ handler \in Handlers /\ state \in [Sessions -> {"IDOL", "WAITTOCONNECT", "CONNECTED"}]
      /\ None \notin Connections
  BY Bounds DEF Basis, Structure, Typed
<1>1. \A d \in Connections : Present(d) =>
        session[d] \in Sessions /\ state[session[d]] = "CONNECTED" /\ holder[session[d]] = d
  BY <1>0 DEF Present, Typed
<1>2. CASE InitSession
  <2>1. PICK i \in Sessions : /\ state[i] = "IDOL"
                             /\ state' = [state EXCEPT ![i] = "WAITTOCONNECT"]
                             /\ mac' = TableCleared(i)
    BY <1>2 DEF InitSession
  <2>2. UNCHANGED <<holder, session, info, handler, got, entitled, missed>>
    BY <1>2 DEF InitSession, received, history
  <2>3. \A d \in Connections : Present(d) => session[d] # i
    BY <1>1, <2>1
  <2>4. \A d \in Connections : Present(d) =>
          state'[session[d]] = state[session[d]] /\ mac'[session[d]] = mac[session[d]]
    BY <1>0, <1>1, <2>1, <2>3 DEF TableCleared, Typed
  <2>5. \A b \in Connections : entitled'[b] \subseteq entitled[b] \ {None}
    BY <1>0, <2>2 DEF Typed
  <2> QED
    BY <1>0, <2>2, <2>4, <2>5, OwedWithout
<1>3. CASE Publish
  <2>1. UNCHANGED <<info, mac, handler, got, entitled, missed>>
    BY <1>3 DEF Publish, received, history
  <2>2. /\ state[opening] = "WAITTOCONNECT" /\ opening \in Sessions
        /\ holder' = [holder EXCEPT ![opening] = accepted + 1]
        /\ session' = [session EXCEPT ![accepted + 1] = opening]
        /\ state' = [state EXCEPT ![opening] = "CONNECTED"]
    BY <1>0, <1>3 DEF Publish, Typed
  <2>3. \A d \in Connections : Present(d) => session[d] # opening /\ d # accepted + 1
    <3>1. accepted \in Nat
      BY <1>0 DEF Typed
    <3>2. \A d \in Connections : d > accepted => session[d] = None
      BY <1>0 DEF NotYet
    <3> QED
      BY <1>1, <2>2, <3>1, <3>2 DEF Present
  <2>4. \A d \in Connections : Present(d) =>
          /\ session'[d] = session[d] /\ state'[session[d]] = state[session[d]]
          /\ holder'[session[d]] = holder[session[d]]
    BY <1>0, <1>1, <2>2, <2>3 DEF Typed
  <2>5. \A b \in Connections : entitled'[b] \subseteq entitled[b] \ {None}
    BY <1>0, <2>1 DEF Typed
  <2> QED
    BY <1>0, <2>1, <2>4, <2>5, OwedWithout
<1>4. CASE ClearInfo
  <2> DEFINE x == holder[opening]
  <2>1. /\ opening \in Sessions /\ x \in Connections /\ handler[x] = Gone
        /\ info' = [info EXCEPT ![opening] = NoInfo]
        /\ handler' = [handler EXCEPT ![x] = Idle] /\ NothingOwed(x)
        /\ UNCHANGED <<state, holder, session, mac, got, missed>>
    BY <1>0, <1>4 DEF ClearInfo, OpeningOne, HeldByOne, Typed, received
  <2>2. \A b \in Connections \ {x} : handler'[b] = handler[b]
    BY <1>0, <2>1 DEF Handlers
  <2>3. \A d \in Connections \ {x} : Present(d) => info'[session[d]] = info[session[d]]
    BY <1>0, <1>1, <2>1 DEF Typed
  <2> QED
    BY <1>0, <2>1, <2>2, <2>3, NothingOwedEach, OwedWithout
<1>5. ASSUME NEW c \in Connections, Leave(c) \/ ClosedByPing(c) PROVE OwedInv'
  <2>1. /\ Present(c) /\ NothingOwed(c)
        /\ state' = [state EXCEPT ![session[c]] = "IDOL"]
        /\ handler' = handler \/ handler' = [handler EXCEPT ![c] = Gone]
        /\ UNCHANGED <<holder, session, info, mac, got, missed>>
    BY <1>5 DEF Leave, ClosedByPing, received
  <2>2. \A b \in Connections \ {c} : handler'[b] = handler[b]
    BY <1>0, <2>1 DEF Handlers
  <2>3. \A d \in Connections \ {c} : Present(d) => state'[session[d]] = state[session[d]]
    BY <1>0, <1>1, <2>1
  <2> QED
    BY <1>0, <2>1, <2>2, <2>3, NothingOwedEach, OwedWithout
<1>6. ASSUME NEW c \in Connections, EventThreadEnds(c) PROVE OwedInv'
  <2>1. /\ handler[c] = Idle /\ handler' = [handler EXCEPT ![c] = Gone]
        /\ UNCHANGED <<sessionVars, info, mac, got, entitled, missed>>
    BY <1>6 DEF EventThreadEnds, received, history
  <2>2. \A b \in Connections \ {c} : handler'[b] = handler[b]
    BY <1>0, <2>1 DEF Handlers
  <2>3. entitled[c] = {}
    <3>1. ~IsBusy(c)
      BY <2>1, AtRest DEF IsBusy
    <3> QED
      BY <1>0, <3>1 DEF OwedInv, Owes, Typed
  <2> QED
    BY <1>0, <2>1, <2>2, <2>3, OwedElsewhere
<1>7. ASSUME NEW c \in Connections, LearnSource(c) PROVE OwedInv'
  <2>1. /\ handler[c].step = "learn" /\ IsBusy(c) /\ handler' = [handler EXCEPT ![c].step = "test"]
        /\ UNCHANGED <<sessionVars, info, got, entitled, missed>>
    BY <1>7 DEF LearnSource, received, history, IsBusy, Busy
  <2>2. /\ \A b \in Connections \ {c} : handler'[b] = handler[b]
        /\ IsBusy(c)' /\ handler'[c].step = "test"
        /\ handler'[c].command = handler[c].command /\ handler'[c].at = handler[c].at
        /\ handler'[c].number = handler[c].number
    BY <1>0, <2>1, GoOnType DEF Busy
  <2>3. \A i \in Sessions : mac[i] \subseteq mac'[i]
    BY <1>0, <1>7 DEF LearnSource, Typed
  <2>4. UNCHANGED <<session, state, holder>>
    BY <2>1 DEF sessionVars
  <2>5. ASSUME NEW b \in Connections, NEW d \in entitled'[b] PROVE Owes(b, d)'
    <3>1. d \in Connections /\ Owes(b, d)
      BY <1>0, <2>1, <2>5 DEF Typed, OwedInv
    <3>2. /\ IsBusy(b)' /\ handler'[b].step \in Relaying
          /\ handler'[b].command = handler[b].command /\ handler'[b].at = handler[b].at
          /\ handler'[b].number = handler[b].number
      BY <2>2, <3>1 DEF Owes, IsBusy, Relaying
    <3>3. session[b] \in Sessions /\ session[d] \in Sessions
      BY <1>1, <3>1 DEF Owes
    <3>4. session[d] < handler'[b].at => Has(got'[d], handler[b].number)
      BY <2>1, <3>1, <3>2 DEF Owes
    <3> QED
      BY <2>1, <2>3, <2>4, <3>1, <3>2, <3>3, <3>4, OwesStays
  <2> QED
    BY <2>1, <2>5 DEF OwedInv
<1>8. ASSUME NEW c \in Connections, Announce(c) PROVE OwedInv'
  <2> DEFINE x == holder[session[c]]
  <2>1. /\ handler[c].step = "announce" /\ IsBusy(c) /\ NothingOwed(x)
        /\ \E new : info' = [info EXCEPT ![session[c]] = new]
        /\ UNCHANGED <<sessionVars, mac, got, missed>>
    BY <1>8 DEF Announce, received, IsBusy, Busy
  <2>2. \A b \in Connections \ {c} : handler'[b] = handler[b]
    BY <1>0, <1>8, HandlesEffect DEF Handles
  <2>3. ~(handler[c].step \in Relaying)
    BY <2>1 DEF Relaying
  <2>4. \A d \in Connections \ {x} : Present(d) => info'[session[d]] = info[session[d]]
    <3>1. session[c] \in Sessions
      BY <1>0, <2>1, BusyPlaced
    <3> QED
      BY <1>0, <1>1, <2>1, <3>1 DEF Typed
  <2>5. UNCHANGED <<session, state, holder>>
    BY <2>1 DEF sessionVars
  <2> QED
    BY <1>0, <2>1, <2>2, <2>3, <2>4, <2>5, NothingOwedEach, OwedWithout
<1>9. ASSUME NEW c \in Connections, CopyInfo(c) \/ AnswerList(c) \/ SpreadList(c) PROVE OwedInv'
  <2>1. /\ handler[c].step \notin Relaying
        /\ UNCHANGED <<sessionVars, info, mac, got, entitled, missed>>
    BY <1>9 DEF CopyInfo, AnswerList, SpreadList, At, Relaying, received, history
  <2>2. \A b \in Connections \ {c} : handler'[b] = handler[b]
    BY <1>0, <1>9, HandlesEffect DEF Handles
  <2>3. entitled[c] = {}
    BY <1>0, <2>1 DEF OwedInv, Owes, Typed
  <2> QED
    BY <1>0, <2>1, <2>2, <2>3, OwedElsewhere
<1>10. CASE UNCHANGED vars
  <2>1. UNCHANGED <<session, state, holder, info, mac, handler, got, entitled, missed>>
    BY <1>10 DEF vars, sessionVars, received, history
  <2>2. \A b \in Connections : entitled'[b] \subseteq entitled[b] \ {None}
    BY <1>0, <2>1 DEF Typed
  <2> QED
    BY <1>0, <2>1, <2>2, OwedWithout
<1> QED
  BY <1>2, <1>3, <1>4, <1>5, <1>6, <1>7, <1>8, <1>9, <1>10, BeginOwed, WalkOwed
     DEF Next, Listener, Handling

(***************************************************************************)
(* A client that was to get a command when its handler began, and for      *)
(* which nothing changed until it returned, has got it: in any number of   *)
(* sessions the walk skips nobody while others connect, leave and move.    *)
(***************************************************************************)
THEOREM WalkSkipsNobody == Spec => []NothingMissed
<1>1. Init => OwedInv
  BY DEF Init, OwedInv
<1>2. Basis /\ OwedInv /\ [Next]_vars => OwedInv'
  BY OwedStep
<1>3. OwedInv => NothingMissed
  BY DEF OwedInv, NothingMissed
<1> QED
  BY <1>1, <1>2, <1>3, BasisAlways, PTL DEF Spec
-----------------------------------------------------------------------------
(***************************************************************************)
(* What a step does to the clients that are present, and to the log.       *)
(***************************************************************************)
LEMMA NumberedGrows ==
  ASSUME Basis, [Next]_vars
  PROVE  /\ Len(numbered) \in Nat /\ Len(numbered') \in Nat /\ Len(numbered) <= Len(numbered')
         /\ \A k \in 1 .. Len(numbered) : numbered'[k] = numbered[k]
<1>1. Typed /\ NotYet /\ Len(numbered) \in Nat /\ Len(numbered') \in Nat
  BY TypeStep, NumberedType DEF Basis, Structure
<1>2. ASSUME NEW c \in Connections, Receive(c) \/ ReceivePing(c)
      PROVE  /\ Len(numbered) <= Len(numbered')
             /\ \A k \in 1 .. Len(numbered) : numbered'[k] = numbered[k]
  BY <1>1, <1>2, BeginEffect
<1>3. ASSUME NEW c \in Connections, Handles(c) PROVE numbered' = numbered
  BY <1>1, <1>3, HandlesEffect
<1>4. CASE \/ Listener \/ UNCHANGED vars
           \/ \E c \in Connections : Leave(c) \/ ClosedByPing(c) \/ EventThreadEnds(c)
  BY <1>1, <1>4, OthersEffect
<1> QED
  BY <1>1, <1>2, <1>3, <1>4 DEF Next, Handling, Handles

\* Who gives up its session, and who is given the one that is being opened.
LEMMA PresentStep ==
  ASSUME Basis, [Next]_vars, NEW d \in Connections
  PROVE  /\ Present(d) =>
              \/ Present(d)' /\ session'[d] = session[d]
              \/ Leave(d) /\ handler'[d] = Gone
              \/ ClosedByPing(d)
         /\ Present(d)' =>
              \/ Present(d) /\ session'[d] = session[d]
              \/ Publish /\ session'[d] = opening /\ state[opening] = "WAITTOCONNECT"
<1>0. /\ Typed /\ HeldByOne /\ NotYet /\ OpeningOne /\ handler \in Handlers
      /\ state \in [Sessions -> {"IDOL", "WAITTOCONNECT", "CONNECTED"}]
      /\ session \in [Connections -> Sessions \cup {None}]
      /\ holder \in [Sessions -> Connections \cup {None}] /\ accepted \in 0 .. MaxConnections
      /\ opening \in Sessions \cup {None}
  BY DEF Basis, Structure, Typed
<1>1. /\ session[d] # None => session[d] \in Sessions
      /\ Present(d) => session[d] \in Sessions /\ state[session[d]] = "CONNECTED"
  BY <1>0 DEF Present
<1>2. CASE InitSession
  BY <1>0, <1>1, <1>2 DEF InitSession, Present
<1>3. CASE Publish
  <2>1. /\ opening \in Sessions /\ state[opening] = "WAITTOCONNECT"
        /\ holder' = [holder EXCEPT ![opening] = accepted + 1]
        /\ session' = [session EXCEPT ![accepted + 1] = opening]
        /\ state' = [state EXCEPT ![opening] = "CONNECTED"]
    BY <1>0, <1>3 DEF Publish
  <2>2. Present(d) => d # accepted + 1 /\ session[d] # opening
    BY <1>0, <1>1, <2>1 DEF NotYet, Present
  <2>3. d # accepted + 1 => session'[d] = session[d]
    BY <1>0, <2>1
  <2>4. d = accepted + 1 => session'[d] = opening
    BY <1>0, <2>1
  <2>5. CASE d # accepted + 1
    <3>1. Present(d)' => session[d] # opening
      BY <1>0, <2>1, <2>3, <2>5 DEF Present
    <3>2. session[d] # None /\ session[d] # opening =>
            state'[session[d]] = state[session[d]] /\ holder'[session[d]] = holder[session[d]]
      BY <1>0, <1>1, <2>1
    <3> QED
      BY <2>2, <2>3, <2>5, <3>1, <3>2 DEF Present
  <2> QED
    BY <1>3, <2>1, <2>2, <2>4, <2>5
<1>4. ASSUME NEW c \in Connections, Leave(c) \/ ClosedByPing(c)
      PROVE  /\ Present(d) => \/ Present(d)' /\ session'[d] = session[d]
                              \/ Leave(d) /\ handler'[d] = Gone
                              \/ ClosedByPing(d)
             /\ Present(d)' => Present(d) /\ session'[d] = session[d]
  <2>1. /\ Present(c) /\ state' = [state EXCEPT ![session[c]] = "IDOL"]
        /\ UNCHANGED <<holder, session>>
        /\ Leave(c) => handler' = [handler EXCEPT ![c] = Gone]
    BY <1>4 DEF Leave, ClosedByPing
  <2>2. Leave(c) => handler'[c] = Gone
    BY <1>0, <2>1 DEF Handlers
  <2>3. CASE c = d
    BY <1>0, <1>1, <1>4, <2>1, <2>2, <2>3 DEF Present
  <2>4. CASE c # d
    BY <1>0, <1>1, <2>1, <2>4 DEF Present
  <2> QED
    BY <2>3, <2>4
<1>5. CASE UNCHANGED <<state, holder, session>>
  BY <1>5 DEF Present
<1>6. ASSUME NEW c \in Connections, Receive(c) \/ ReceivePing(c) \/ Handles(c)
      PROVE  UNCHANGED <<state, holder, session>>
  BY <1>6, OwnHandlerOnly DEF sessionVars
<1> QED
  BY <1>2, <1>3, <1>4, <1>5, <1>6
     DEF Next, Listener, ClearInfo, Handling, Handles, EventThreadEnds, vars, sessionVars

\* The session the listener has prepared, and not given to a client yet.
LEMMA PreparedStep ==
  ASSUME Basis, [Next]_vars, opening' # None, state'[opening'] = "WAITTOCONNECT"
  PROVE  \/ InitSession
         \/ opening' = opening /\ state[opening] = "WAITTOCONNECT"
<1>0. /\ opening \in Sessions \cup {None}
      /\ state \in [Sessions -> {"IDOL", "WAITTOCONNECT", "CONNECTED"}]
      /\ session \in [Connections -> Sessions \cup {None}]
  BY DEF Basis, Typed
<1>1. CASE Publish
  BY <1>0, <1>1 DEF Publish
<1>2. CASE ClearInfo
  BY <1>2 DEF ClearInfo
<1>3. ASSUME NEW c \in Connections, Leave(c) \/ ClosedByPing(c)
      PROVE  opening' = opening /\ state[opening] = "WAITTOCONNECT"
  <2>1. opening' = opening /\ state' = [state EXCEPT ![session[c]] = "IDOL"]
    BY <1>3 DEF Leave, ClosedByPing
  <2> QED
    BY <1>0, <2>1
<1>4. ASSUME NEW c \in Connections, Receive(c) \/ ReceivePing(c) \/ Handles(c)
      PROVE  UNCHANGED <<state, opening>>
  BY <1>4, OwnHandlerOnly DEF sessionVars
<1> QED
  BY <1>1, <1>2, <1>3, <1>4
     DEF Next, Listener, Handling, Handles, EventThreadEnds, vars, sessionVars
-----------------------------------------------------------------------------
(***************************************************************************)
(* The tables of addresses.  As long as no PingAction closes a session,    *)
(* whoever handles a command holds its session, so that a frame is learned *)
(* for the client that sent it.                                            *)
(***************************************************************************)
\* A handler that is past the announcement has a number.
Numbering ==
  \A c \in Connections : IsBusy(c) =>
    /\ handler[c].step = "announce" => handler[c].command.type \in {"S", "I"}
    /\ handler[c].step \in Relaying /\ handler[c].command.type # "I" => handler[c].number > 0
    /\ handler[c].step = "learn" => handler[c].command.type # "I"

LEMMA NumberingStep ==
  ASSUME Basis, Numbering, [Next]_vars
  PROVE  Numbering'
<1>0. Typed /\ NotYet
  BY DEF Basis, Structure
<1>1. ASSUME NEW c \in Connections, Receive(c) \/ ReceivePing(c) PROVE Numbering'
  <2>1. /\ \A d \in Connections \ {c} : handler'[d] = handler[d]
        /\ handler'[c].step \in {"learn", "test"} =>
             /\ handler'[c].number > 0
             /\ handler'[c].command.type \in {"C", "D", "Y", "T", "U"}
        /\ handler'[c].step \in {"learn", "test", "announce", "copy"}
        /\ handler'[c].step = "announce" => handler'[c].command.type \in {"S", "I"}
    BY <1>0, <1>1, BeginEffect
  <2> QED
    BY <2>1 DEF Numbering, Relaying, IsBusy
<1>2. ASSUME NEW c \in Connections, Handles(c) PROVE Numbering'
  <2>1. /\ \A d \in Connections \ {c} : handler'[d] = handler[d]
        /\ IsBusy(c)
        /\ IsBusy(c)' => /\ handler'[c].command = handler[c].command
                         /\ handler'[c].number = handler[c].number
        /\ IsBusy(c)' /\ handler'[c].step \in Walking =>
             handler[c].step \in Walking /\ handler'[c].step \in {"test", "send"}
    BY <1>0, <1>2, HandlesEffect
  <2>2. Announce(c) /\ IsBusy(c)' /\ handler'[c].step = "send" => handler[c].command.type # "S"
    <3>1. Announce(c) /\ handler[c].command.type = "S" => handler'[c].step = "copy"
      BY <1>0, <2>1, GoOnType DEF Announce, Busy
    <3> QED
      BY <3>1
  <2>3. handler[c].step = "announce" => Announce(c)
    BY <1>2 DEF Handles, LearnSource, TestSession, SendToSession, CopyInfo, AnswerList, SpreadList, At
  <2>4. Announce(c) /\ IsBusy(c)' => handler'[c].step \in {"send", "copy"}
    BY <1>0, <2>1, GoOnType DEF Announce, Busy
  <2>5. IsBusy(c)' =>
          /\ handler'[c].step # "announce" /\ handler'[c].step # "learn"
          /\ handler'[c].step \in Relaying /\ handler'[c].command.type # "I" =>
               handler'[c].number > 0
    BY <2>1, <2>2, <2>3, <2>4 DEF Numbering, Relaying, Walking
  <2> QED
    BY <2>1, <2>5 DEF Numbering, IsBusy
<1>3. CASE \/ Listener \/ UNCHANGED vars
           \/ \E c \in Connections : Leave(c) \/ ClosedByPing(c) \/ EventThreadEnds(c)
  BY <1>0, <1>3, OthersEffect DEF Numbering
<1> QED
  BY <1>1, <1>2, <1>3 DEF Next, Handling, Handles

Logs(c, m) ==
  \E k \in 1 .. Len(numbered) : numbered[k].from = c /\ numbered[k].command.src = m

MacsInv ==
  ~course.pingCloses =>
    /\ \A c \in Connections : IsBusy(c) => Present(c)
    /\ opening # None /\ state[opening] = "WAITTOCONNECT" => mac[opening] = {}
    /\ \A c \in Connections : Present(c) => \A m \in mac[session[c]] : Logs(c, m)

LEMMA MacsStep ==
  ASSUME Basis, Begun, Numbering, MacsInv, [Next]_vars
  PROVE  MacsInv'
<1>0. Typed /\ NotYet /\ OpeningOne /\ HeldByOne /\ course' = course
  BY CourseStays DEF Basis, Structure
<1> SUFFICES ASSUME ~course.pingCloses PROVE MacsInv'
  BY <1>0 DEF MacsInv
<1>1. /\ \A c \in Connections : IsBusy(c) => Present(c)
      /\ opening # None /\ state[opening] = "WAITTOCONNECT" => mac[opening] = {}
      /\ \A c \in Connections : Present(c) => \A m \in mac[session[c]] : Logs(c, m)
  BY DEF MacsInv
<1>2. \A c \in Connections : ~ClosedByPing(c)
  BY DEF ClosedByPing
<1>3. ASSUME NEW d \in Connections
      PROVE  /\ Present(d) => \/ Present(d)' /\ session'[d] = session[d]
                              \/ Leave(d) /\ handler'[d] = Gone
             /\ Present(d)' => \/ Present(d) /\ session'[d] = session[d]
                               \/ Publish /\ session'[d] = opening /\ state[opening] = "WAITTOCONNECT"
  BY <1>2, PresentStep
<1>4. ASSUME NEW c \in Connections, IsBusy(c)' PROVE Present(c)'
  <2>1. handler'[c] # Gone
    BY <1>4, AtRest DEF IsBusy
  <2>2. Present(c)
    <3>1. ASSUME NEW b \in Connections, Receive(b) \/ ReceivePing(b) PROVE Present(c)
      <4>1. /\ \A d \in Connections \ {b} : handler'[d] = handler[d]
            /\ Present(b)
        BY <1>0, <3>1, BeginEffect
      <4> QED
        BY <1>1, <1>4, <4>1 DEF IsBusy
    <3>2. ASSUME NEW b \in Connections, Handles(b) PROVE Present(c)
      <4>1. /\ \A d \in Connections \ {b} : handler'[d] = handler[d]
            /\ IsBusy(b)
        BY <1>0, <3>2, HandlesEffect
      <4> QED
        BY <1>1, <1>4, <4>1 DEF IsBusy
    <3>3. CASE \/ Listener \/ UNCHANGED vars
               \/ \E b \in Connections : Leave(b) \/ ClosedByPing(b) \/ EventThreadEnds(b)
      BY <1>0, <1>1, <1>4, <3>3, OthersEffect
    <3> QED
      BY <3>1, <3>2, <3>3 DEF Next, Handling, Handles
  <2> QED
    BY <1>3, <2>1, <2>2
<1>5. ASSUME NEW c \in Connections, LearnSource(c)
      PROVE  /\ IsBusy(c) /\ Present(c) /\ session[c] \in Sessions
             /\ Logs(c, handler[c].command.src)
             /\ \A i \in Sessions : i # session[c] => mac'[i] = mac[i]
             /\ mac'[session[c]] \subseteq mac[session[c]] \cup {handler[c].command.src}
             /\ opening' = opening /\ numbered' = numbered /\ UNCHANGED <<state, holder, session>>
  <2>1. IsBusy(c) /\ handler[c].step = "learn" /\ UNCHANGED <<sessionVars, numbered>>
    BY <1>5 DEF LearnSource, IsBusy, Busy
  <2>2. Present(c) /\ session[c] \in Sessions
    BY <1>0, <1>1, <2>1 DEF Present, Typed
  <2>3. handler[c].number > 0 /\ handler[c].number \in Nat /\ handler[c].number <= Len(numbered)
    BY <1>0, <2>1, HandlerShape DEF Numbering, Relaying, WellFormed, Typed
  <2>4. Logs(c, handler[c].command.src)
    BY <1>0, <2>1, <2>3, NumberedType DEF Begun, Logs
  <2>5. /\ \A i \in Sessions : i # session[c] => mac'[i] = mac[i]
        /\ mac'[session[c]] \subseteq mac[session[c]] \cup {handler[c].command.src}
    BY <1>0, <1>5, <2>2 DEF LearnSource, Typed
  <2> QED
    BY <2>1, <2>2, <2>4, <2>5 DEF sessionVars
<1>6. ASSUME opening' # None, state'[opening'] = "WAITTOCONNECT" PROVE mac'[opening'] = {}
  <2>1. CASE InitSession
    <3>1. opening' \in Sessions /\ mac' = TableCleared(opening')
      BY <2>1 DEF InitSession
    <3> QED
      BY <1>0, <3>1 DEF TableCleared, Typed
  <2>2. CASE ~InitSession
    <3>1. opening' = opening /\ state[opening] = "WAITTOCONNECT" /\ mac[opening] = {}
          /\ opening \in Sessions
      BY <1>0, <1>1, <1>6, <2>2, PreparedStep DEF Typed
    <3>2. ASSUME NEW c \in Connections, LearnSource(c) PROVE mac'[opening] = mac[opening]
      BY <1>5, <3>1, <3>2 DEF Present
    <3> QED
      BY <2>2, <3>1, <3>2, TableChanges
  <2> QED
    BY <2>1, <2>2
<1>7. ASSUME NEW c \in Connections, NEW m, Logs(c, m) PROVE Logs(c, m)'
  BY <1>7, NumberedGrows DEF Logs
<1>8. ASSUME NEW c \in Connections, Present(c)', NEW m \in mac'[session'[c]] PROVE Logs(c, m)'
  <2>1. CASE Publish
    <3>1. mac' = mac /\ numbered' = numbered /\ opening # None
      BY <2>1 DEF Publish
    <3> QED
      BY <1>1, <1>3, <1>7, <1>8, <3>1
  <2>2. CASE ~Publish
    <3>1. Present(c) /\ session'[c] = session[c] /\ session[c] \in Sessions
      BY <1>0, <1>3, <1>8, <2>2 DEF Present, Typed
    <3>2. CASE mac' = mac
      BY <1>1, <1>7, <1>8, <3>1, <3>2
    <3>3. CASE InitSession
      <4>1. mac'[session[c]] \subseteq mac[session[c]]
        BY <1>0, <3>1, <3>3 DEF InitSession, TableCleared, Typed
      <4> QED
        BY <1>1, <1>7, <1>8, <3>1, <4>1
    <3>4. ASSUME NEW b \in Connections, LearnSource(b) PROVE Logs(c, m)'
      <4>1. CASE session[b] = session[c]
        <5>1. b = c
          BY <1>5, <3>1, <3>4, <4>1 DEF Present
        <5>2. m \in mac[session[c]] \cup {handler[c].command.src}
          BY <1>5, <1>8, <3>1, <3>4, <5>1
        <5> QED
          BY <1>1, <1>5, <1>7, <3>1, <3>4, <5>1, <5>2
      <4>2. CASE session[b] # session[c]
        BY <1>1, <1>5, <1>7, <1>8, <3>1, <3>4, <4>2
      <4> QED
        BY <4>1, <4>2
    <3> QED
      BY <3>2, <3>3, <3>4, TableChanges
  <2> QED
    BY <2>1, <2>2
<1> QED
  BY <1>4, <1>6, <1>8 DEF MacsInv

(***************************************************************************)
(* The table of a session holds only addresses its present client has sent *)
(* frames from, as long as no PingAction closes a session whose event      *)
(* thread is learning (tunnel-server.cpp 206-224, InitConnection).         *)
(***************************************************************************)
THEOREM TablesAreOwned == Spec => []MacsOwned
<1>1. Init => Begun /\ Numbering /\ MacsInv
  <2> SUFFICES ASSUME Init PROVE Begun /\ Numbering /\ MacsInv
    OBVIOUS
  <2>1. \A c \in Connections : ~IsBusy(c) /\ ~Present(c)
    BY AtRest DEF Init, IsBusy, Present
  <2> QED
    BY <2>1 DEF Init, Begun, Numbering, MacsInv
<1>2. Basis /\ Begun /\ [Next]_vars => Begun'
  BY BegunStep
<1>3. Basis /\ Numbering /\ [Next]_vars => Numbering'
  BY NumberingStep
<1>4. Basis /\ Begun /\ Numbering /\ MacsInv /\ [Next]_vars => MacsInv'
  BY MacsStep
<1>5. MacsInv => MacsOwned
  BY DEF MacsInv, MacsOwned, Logs
<1> QED
  BY <1>1, <1>2, <1>3, <1>4, <1>5, BasisAlways, PTL DEF Spec
-----------------------------------------------------------------------------
(***************************************************************************)
(* The meeting places.  A session that has had no client has no place, and *)
(* the place of one that has had one client is one its client announced.   *)
(* A frame or a party chat that is being relayed has the place its sender  *)
(* still has, and who passed the test had that place, too.                 *)
(***************************************************************************)
Grouped(c) ==
  IsBusy(c) /\ handler[c].step \in Relaying /\ handler[c].command.type \in {"Y", "T"}

Secure(c) == course.pingCloses => Alone(c)

Place(c) == numbered[handler[c].number].command.ssid

Places(d) == groups[d] \cup {NoSsid}

\* The commands that are logged come from clients there have been.
Known == \A k \in 1 .. Len(numbered) : numbered[k].from <= accepted

PlacesInv ==
  /\ \A i \in Sessions :
       (\A c \in Connections : session[c] # i) => info[i].ssid = NoSsid
  /\ \A d \in Connections :
       d <= accepted /\ Alone(d) => info[session[d]].ssid \in Places(d)

SendersInv ==
  \A c \in Connections : Grouped(c) =>
    /\ Secure(c) => Place(c) = info[session[c]].ssid
    /\ handler[c].step = "send" => holder[handler[c].at] # None

PassedInv ==
  \A c, d \in Connections :
    Grouped(c) /\ handler[c].step = "send" /\ Secure(c)
      /\ Alone(d) /\ session[d] = handler[c].at
    => Place(c) \in Places(d)

GroupsInv ==
  Known /\ PlacesInv /\ SendersInv /\ PassedInv /\ KeptInGroup

\* A connection keeps its session number; a new one gets that being opened.
LEMMA UsedStays ==
  ASSUME Basis, [Next]_vars
  PROVE  /\ \A d \in Connections : d <= accepted =>
              /\ session'[d] = session[d] /\ d <= accepted'
              /\ session[d] \in Sessions
              /\ Alone(d)' => Alone(d)
         /\ \A d \in Connections : session[d] # None <=> d <= accepted
         /\ \A d \in Connections : session'[d] # None <=> d <= accepted'
         /\ \A d \in Connections : d <= accepted' =>
              d <= accepted \/ (Publish /\ session'[d] = opening)
         /\ accepted \in Nat /\ accepted' \in Nat
<1>1. Typed /\ Typed' /\ NotYet /\ NotYet'
  BY TypeStep, StructureStep DEF Basis, Structure
<1>2. /\ accepted \in Nat /\ accepted' \in Nat
      /\ session \in [Connections -> Sessions \cup {None}] /\ Connections \subseteq Nat
  BY <1>1, Bounds DEF Typed
<1>3. /\ \A d \in Connections : session[d] # None <=> d <= accepted
      /\ \A d \in Connections : session'[d] # None <=> d <= accepted'
  <2>1. \A d \in Connections : (d > accepted => session[d] = None) /\ (d <= accepted => session[d] # None)
    BY <1>1 DEF NotYet
  <2>2. \A d \in Connections : (d > accepted' => session'[d] = None) /\ (d <= accepted' => session'[d] # None)
    BY <1>1 DEF NotYet
  <2>3. \A d \in Connections : d \in Nat
    BY <1>2
  <2> QED
    BY <1>2, <2>1, <2>2, <2>3
<1>4. \/ UNCHANGED <<session, accepted>>
      \/ Publish /\ accepted' = accepted + 1
           /\ session' = [session EXCEPT ![accepted + 1] = opening]
  <2>1. ASSUME NEW c \in Connections, Receive(c) \/ ReceivePing(c) \/ Handles(c)
        PROVE  UNCHANGED <<session, accepted>>
    BY <2>1, OwnHandlerOnly DEF sessionVars
  <2> QED
    BY <2>1 DEF Next, Listener, InitSession, Publish, ClearInfo, Leave, ClosedByPing, Handling,
       Handles, EventThreadEnds, vars, sessionVars
<1>5. \A d \in Connections : d <= accepted =>
        session'[d] = session[d] /\ d <= accepted' /\ session[d] \in Sessions
  BY <1>2, <1>3, <1>4
<1>6. ASSUME NEW d \in Connections, d <= accepted', ~(d <= accepted)
      PROVE  Publish /\ session'[d] = opening
  <2>1. d \in Nat
    BY <1>2
  <2>2. Publish /\ d = accepted + 1 /\ session' = [session EXCEPT ![d] = opening]
    BY <1>2, <1>4, <1>6, <2>1
  <2> QED
    BY <1>2, <2>2
<1>7. ASSUME NEW d \in Connections, d <= accepted, Alone(d)', NEW e \in Connections,
             session[e] = session[d]
      PROVE  e = d
  <2>1. session'[e] = session'[d]
    BY <1>3, <1>5, <1>7
  <2> QED
    BY <1>7, <2>1 DEF Alone
<1>8. ASSUME NEW d \in Connections, d <= accepted
      PROVE  /\ session'[d] = session[d] /\ d <= accepted'
             /\ session[d] \in Sessions
             /\ Alone(d)' => Alone(d)
  <2>1. Alone(d)' => Alone(d)
    BY <1>7, <1>8 DEF Alone
  <2> QED
    BY <1>5, <1>8, <2>1
<1>9. \A d \in Connections : d <= accepted' =>
        d <= accepted \/ (Publish /\ session'[d] = opening)
  BY <1>6
<1> QED
  BY <1>2, <1>3, <1>8, <1>9

\* The info of a session changes when it is given to a client and when one of
\* its clients announces a place, which counts among those it announced.
LEMMA InfoStep ==
  ASSUME Basis, [Next]_vars
  PROVE  /\ \A i \in Sessions :
              \/ info'[i] = info[i]
              \/ /\ ClearInfo /\ i = opening /\ info'[i] = NoInfo
                 /\ holder[i] \in Connections /\ handler[holder[i]] = Gone
                 /\ session[holder[i]] = i
              \/ \E c \in Connections :
                   /\ Announce(c) /\ i = session[c] /\ handler[c].step = "announce"
                   /\ info'[i].ssid = handler[c].command.ssid
                   /\ handler[c].command.ssid \in groups'[c]
         /\ \A d \in Connections : groups[d] \subseteq groups'[d]
<1>0. /\ Typed /\ HeldByOne /\ OpeningOne
      /\ info \in [Sessions -> Infos] /\ groups \in [Connections -> SUBSET Ssids]
      /\ opening \in Sessions \cup {None}
  BY DEF Basis, Structure, Typed
<1>1. CASE ClearInfo
  <2>1. /\ opening \in Sessions /\ info' = [info EXCEPT ![opening] = NoInfo] /\ groups' = groups
        /\ state[opening] = "CONNECTED" /\ handler[holder[opening]] = Gone
    BY <1>0, <1>1 DEF ClearInfo, OpeningOne, Typed
  <2>2. holder[opening] \in Connections /\ session[holder[opening]] = opening
    BY <1>0, <2>1 DEF HeldByOne, Typed
  <2> QED
    BY <1>0, <1>1, <2>1, <2>2
<1>2. ASSUME NEW c \in Connections, Announce(c)
      PROVE  /\ \A i \in Sessions :
                  \/ info'[i] = info[i]
                  \/ /\ i = session[c] /\ handler[c].step = "announce"
                     /\ info'[i].ssid = handler[c].command.ssid
                     /\ handler[c].command.ssid \in groups'[c]
             /\ \A d \in Connections : groups[d] \subseteq groups'[d]
  <2> DEFINE new == [ssid |-> handler[c].command.ssid, user |-> c]
             place == handler[c].command.ssid
  <2>1. /\ info' = [info EXCEPT ![session[c]] = new] /\ new.ssid = place
        /\ groups' = [groups EXCEPT ![c] = @ \cup {place}]
        /\ handler[c].step = "announce"
    BY <1>2 DEF Announce
  <2> HIDE DEF new, place
  <2>2. \A i \in Sessions : info'[i] = IF i = session[c] THEN new ELSE info[i]
    BY <1>0, <2>1
  <2>3. place \in groups'[c] /\ \A d \in Connections : groups[d] \subseteq groups'[d]
    <3>1. groups'[c] = groups[c] \cup {place}
      BY <1>0, <2>1
    <3>2. \A d \in Connections \ {c} : groups'[d] = groups[d]
      BY <1>0, <2>1
    <3> QED
      BY <3>1, <3>2
  <2>4. \A i \in Sessions : info'[i] = info[i] \/ (i = session[c] /\ info'[i].ssid = place)
    BY <2>1, <2>2
  <2> QED
    BY <2>1, <2>3, <2>4 DEF place
<1>3. CASE UNCHANGED <<info, groups>>
  BY <1>3
<1>4. ASSUME NEW c \in Connections, Receive(c) \/ ReceivePing(c)
      PROVE  UNCHANGED <<info, groups>>
  BY <1>0, <1>4, BeginEffect
<1>5. ASSUME NEW c \in Connections, Handles(c), ~Announce(c)
      PROVE  UNCHANGED <<info, groups>>
  BY <1>5 DEF Handles, LearnSource, TestSession, SendToSession, CopyInfo, AnswerList,
     SpreadList, history
<1>6. CASE \/ InitSession \/ Publish \/ UNCHANGED vars
           \/ \E c \in Connections : Leave(c) \/ ClosedByPing(c) \/ EventThreadEnds(c)
  BY <1>3, <1>6 DEF InitSession, Publish, Leave, ClosedByPing, EventThreadEnds, vars, history
<1> QED
  BY <1>1, <1>2, <1>3, <1>4, <1>5, <1>6 DEF Next, Listener, Handling, Handles

\* A command that is relayed in a meeting place: it has just been taken up,
\* with the place of its sender, or it was being relayed; and it is sent to
\* whom it was sent, or to whom has just passed the test.
LEMMA GroupedStep ==
  ASSUME Basis, Begun, Numbering, [Next]_vars, NEW c \in Connections, Grouped(c)'
  PROVE  \/ /\ Place(c)' = info[session[c]].ssid /\ handler'[c].step # "send"
            /\ UNCHANGED <<info, session>>
         \/ /\ Grouped(c) /\ handler[c].number > 0 /\ handler[c].number <= Len(numbered)
            /\ Place(c)' = Place(c)
            /\ handler[c].command.type = numbered[handler[c].number].command.type
            /\ handler'[c].step = "send" =>
                 /\ handler'[c].at = handler[c].at /\ handler[c].at \in Sessions
                 /\ \/ handler[c].step = "send"
                    \/ /\ Wanted(c, handler[c].at, handler[c].command)
                       /\ UNCHANGED <<info, session, holder, groups>>
<1>0. Typed /\ NotYet /\ \A k \in 1 .. Len(numbered) : numbered'[k] = numbered[k]
  BY NumberedGrows DEF Basis, Structure
<1>1. IsBusy(c)' /\ handler'[c].step \in Relaying /\ handler'[c].command.type \in {"Y", "T"}
  BY DEF Grouped
<1> DEFINE Goes ==
      /\ Grouped(c) /\ handler'[c].number = handler[c].number
      /\ handler'[c].step = "send" =>
           /\ handler'[c].at = handler[c].at
           /\ \/ handler[c].step = "send"
              \/ /\ Wanted(c, handler[c].at, handler[c].command)
                 /\ UNCHANGED <<info, session, holder, groups>>
<1>2. Goes => /\ handler[c].number > 0 /\ handler[c].number <= Len(numbered)
              /\ Place(c)' = Place(c) /\ handler[c].at \in Sessions
              /\ handler[c].command.type = numbered[handler[c].number].command.type
  <2> SUFFICES ASSUME Goes
               PROVE  /\ handler[c].number > 0 /\ handler[c].number <= Len(numbered)
                      /\ Place(c)' = Place(c) /\ handler[c].at \in Sessions
                      /\ handler[c].command.type = numbered[handler[c].number].command.type
    OBVIOUS
  <2>1. handler[c].number > 0 /\ handler[c].number <= Len(numbered) /\ handler[c].at \in Sessions
    BY <1>0 DEF Numbering, Grouped, WellFormed, Typed
  <2>2. handler[c].number \in Nat /\ Len(numbered) \in Nat
    BY <1>0, HandlerShape, NumberedType DEF Typed, Grouped
  <2>3. numbered'[handler[c].number] = numbered[handler[c].number]
    BY <1>0, <2>1, <2>2
  <2>4. handler[c].command.type = numbered[handler[c].number].command.type
    BY <2>1 DEF Begun, Grouped
  <2> QED
    BY <2>1, <2>3, <2>4 DEF Place
<1> HIDE DEF Goes
<1>3. CASE Goes
  BY <1>2, <1>3 DEF Goes
<1>4. ASSUME handler'[c] = handler[c] PROVE Goes
  BY <1>1, <1>4 DEF Goes, Grouped, IsBusy
<1>5. CASE Receive(c) \/ ReceivePing(c)
  <2>1. /\ handler'[c].step \in {"learn", "test", "announce", "copy"}
        /\ handler'[c].number > 0 => handler'[c].number = Len(numbered) + 1
        /\ handler'[c].step \in {"learn", "test"} =>
             /\ handler'[c].number > 0
             /\ numbered'[Len(numbered) + 1].command.ssid = info[session[c]].ssid
        /\ UNCHANGED <<info, sessionVars>>
    BY <1>0, <1>5, BeginEffect
  <2> QED
    BY <1>1, <2>1 DEF Relaying, Place, sessionVars
<1>6. ASSUME Handles(c) PROVE Goes
  <2>1. /\ IsBusy(c) /\ UNCHANGED sessionVars
        /\ handler'[c].command = handler[c].command
        /\ handler'[c].number = handler[c].number
        /\ handler[c].step \in Walking /\ handler'[c].step \in {"test", "send"}
        /\ \/ handler'[c].at = handler[c].at /\ handler[c].step # "send"
           \/ handler'[c].at = handler[c].at + 1 /\ handler'[c].step = "test"
    BY <1>0, <1>1, <1>6, HandlesEffect DEF Relaying, Walking
  <2>2. handler[c].step # "announce"
    BY <1>1, <2>1 DEF Numbering
  <2>3. Grouped(c)
    BY <1>1, <2>1, <2>2 DEF Grouped, Relaying, Walking
  <2>4. ASSUME handler'[c].step = "send"
        PROVE  /\ handler'[c].at = handler[c].at
               /\ Wanted(c, handler[c].at, handler[c].command)
               /\ UNCHANGED <<info, session, holder, groups>>
    <3>1. TestSession(c) \/ LearnSource(c)
      BY <1>6, <2>1, <2>2, <2>4 DEF Handles, Announce, SendToSession, CopyInfo, AnswerList,
         SpreadList, At, Walking
    <3>2. ~LearnSource(c)
      <4>1. LearnSource(c) => handler'[c].step = "test"
        BY <1>0, <2>1, GoOnType DEF LearnSource, Busy
      <4> QED
        BY <2>4, <4>1
    <3>3. ~Advance(c)
      BY <1>0, <2>1, <2>4, AdvanceType, AtRest DEF IsBusy, Busy
    <3> QED
      BY <2>1, <2>4, <3>1, <3>2, <3>3 DEF TestSession, sessionVars
  <2> QED
    BY <2>1, <2>3, <2>4 DEF Goes
<1>7. ASSUME NEW b \in Connections \ {c}, Receive(b) \/ ReceivePing(b) \/ Handles(b) PROVE Goes
  BY <1>4, <1>7, OwnHandlerOnly
<1>8. ASSUME \/ Listener \/ UNCHANGED vars
             \/ \E b \in Connections : Leave(b) \/ ClosedByPing(b) \/ EventThreadEnds(b)
      PROVE  Goes
  BY <1>0, <1>1, <1>4, <1>8, OthersEffect
<1> QED
  BY <1>3, <1>5, <1>6, <1>7, <1>8 DEF Next, Handling, Handles

\* What a client has got it had before, or it is given it in this step.
LEMMA GotStep ==
  ASSUME Basis, [Next]_vars, NEW d \in Connections, NEW k \in 1 .. Len(got'[d]), got'[d][k] > 0
  PROVE  \/ k \in 1 .. Len(got[d]) /\ got'[d][k] = got[d][k]
         \/ \E c \in Connections :
              SendToSession(c) /\ Gets(c, d) /\ got'[d][k] = handler[c].number
<1>0. Typed /\ NotYet /\ Typed'
  BY TypeStep DEF Basis, Structure
<1>1. CASE got' = got
  BY <1>1
<1>2. ASSUME NEW c \in Connections, SendToSession(c)
      PROVE  \/ k \in 1 .. Len(got[d]) /\ got'[d][k] = got[d][k]
             \/ Gets(c, d) /\ got'[d][k] = handler[c].number
  <2>1. /\ Len(got[d]) \in Nat /\ Len(got'[d]) \in Nat
        /\ \A j \in 1 .. Len(got[d]) : got'[d][j] = got[d][j]
        /\ \A j \in 1 .. Len(got'[d]) : j > Len(got[d]) =>
             \/ got'[d][j] <= 0
             \/ Gets(c, d) /\ got'[d][j] = handler[c].number
    BY <1>2, GotAfterSend
  <2>2. got'[d] \in Seq(Int)
    BY <1>0 DEF Typed
  <2>3. got'[d][k] \in Int
    BY <2>2
  <2> QED
    BY <2>1, <2>3
<1>3. CASE \/ Listener \/ UNCHANGED vars
           \/ \E b \in Connections : Leave(b) \/ ClosedByPing(b) \/ EventThreadEnds(b)
  BY <1>0, <1>1, <1>3, OthersEffect
<1> QED
  BY <1>1, <1>2, <1>3, OnlySendGives DEF Next, Handling

LEMMA PlacesStep ==
  ASSUME Basis, PlacesInv, [Next]_vars
  PROVE  PlacesInv'
<1>0. /\ Typed /\ Typed' /\ HeldByOne /\ NotYet /\ OpeningOne /\ Sessions' = Sessions
      /\ None \notin Sessions
  BY TypeStep, CourseStays, CourseBounds DEF Basis, Structure, Typed
<1>1. ASSUME NEW i \in Sessions, \A c \in Connections : session'[c] # i
      PROVE  info'[i].ssid = NoSsid
  <2>1. \A c \in Connections : session[c] # i
    <3>1. \A c \in Connections : session[c] = i => session'[c] = i
      BY <1>0, UsedStays
    <3> QED
      BY <1>1, <3>1
  <2>2. info[i].ssid = NoSsid
    BY <2>1 DEF PlacesInv
  <2>3. NoInfo.ssid = NoSsid
    BY DEF NoInfo
  <2> QED
    BY <2>1, <2>2, <2>3, InfoStep
<1>2. ASSUME NEW d \in Connections, d <= accepted', Alone(d)'
      PROVE  info'[session'[d]].ssid \in Places(d)'
  <2>1. groups[d] \subseteq groups'[d] /\ NoInfo.ssid = NoSsid
    BY InfoStep DEF NoInfo
  <2>2. CASE d <= accepted
    <3>1. session'[d] = session[d] /\ session[d] \in Sessions /\ Alone(d)
      BY <1>2, <2>2, UsedStays
    <3>2. info[session[d]].ssid \in Places(d)
      BY <2>2, <3>1 DEF PlacesInv
    <3>3. ASSUME NEW c \in Connections, session[d] = session[c] PROVE c = d
      BY <3>1, <3>3 DEF Alone
    <3>4. \/ info'[session[d]] = info[session[d]] \/ info'[session[d]] = NoInfo
          \/ \E c \in Connections : /\ session[d] = session[c]
                                   /\ info'[session[d]].ssid = handler[c].command.ssid
                                   /\ handler[c].command.ssid \in groups'[c]
      BY <3>1, InfoStep
    <3> QED
      BY <2>1, <3>1, <3>2, <3>3, <3>4 DEF Places
  <2>3. CASE ~(d <= accepted)
    <3>1. Publish /\ session'[d] = opening /\ opening \in Sessions
      BY <1>0, <1>2, <2>3, UsedStays DEF Publish, Typed
    <3>2. info' = info
      BY <3>1 DEF Publish
    <3>3. \A c \in Connections : session[c] # opening
      <4> SUFFICES ASSUME NEW c \in Connections, session[c] = opening PROVE FALSE
        OBVIOUS
      <4>1. c <= accepted /\ session'[c] = opening
        BY <1>0, <3>1, UsedStays
      <4>2. c = d
        BY <1>2, <3>1, <4>1 DEF Alone
      <4> QED
        BY <2>3, <4>1, <4>2
    <3>4. info[opening].ssid = NoSsid
      BY <3>1, <3>3 DEF PlacesInv
    <3> QED
      BY <3>1, <3>2, <3>4 DEF Places
  <2> QED
    BY <2>2, <2>3
<1> QED
  BY <1>0, <1>1, <1>2 DEF PlacesInv

LEMMA KnownStep ==
  ASSUME Basis, Known, [Next]_vars
  PROVE  Known'
<1>0. /\ Typed /\ NotYet /\ accepted \in Nat /\ accepted' \in Nat /\ accepted <= accepted'
      /\ Len(numbered) \in Nat
      /\ \A k \in 1 .. Len(numbered) : numbered'[k] = numbered[k] /\ numbered[k].from \in Nat
  <2>1. accepted <= accepted'
    <3>1. CASE Publish
      BY <3>1 DEF Publish, Basis, Typed
    <3>2. CASE accepted' = accepted
      BY <3>2 DEF Basis, Typed
    <3>3. ASSUME NEW c \in Connections, Receive(c) \/ ReceivePing(c) \/ Handles(c)
          PROVE  accepted' = accepted
      BY <3>3, OwnHandlerOnly DEF sessionVars
    <3> QED
      BY <3>1, <3>2, <3>3 DEF Next, Listener, InitSession, ClearInfo, Leave, ClosedByPing, Handling,
         Handles, EventThreadEnds, vars, sessionVars
  <2>2. Typed /\ NotYet /\ accepted \in Nat /\ accepted' \in Nat
    BY UsedStays DEF Basis, Structure
  <2> QED
    BY <2>1, <2>2, Bounds, NumberedType, NumberedGrows
<1>1. ASSUME NEW c \in Connections, Receive(c) \/ ReceivePing(c) PROVE Known'
  <2>1. /\ \A k \in 1 .. Len(numbered') : k > Len(numbered) => numbered'[k].from = c
        /\ accepted' = accepted /\ c <= accepted
    BY <1>0, <1>1, BeginEffect, OwnHandlerOnly DEF sessionVars
  <2>2. Len(numbered') \in Nat
    BY NumberedGrows
  <2>3. ASSUME NEW k \in 1 .. Len(numbered') PROVE numbered'[k].from <= accepted'
    <3>1. CASE k > Len(numbered)
      BY <2>1, <3>1
    <3>2. CASE ~(k > Len(numbered))
      <4>1. k \in 1 .. Len(numbered)
        BY <1>0, <2>2, <3>2
      <4> QED
        BY <1>0, <2>1, <4>1 DEF Known
    <3> QED
      BY <3>1, <3>2
  <2> QED
    BY <2>3 DEF Known
<1>2. CASE numbered' = numbered
  BY <1>0, <1>2 DEF Known
<1>3. ASSUME NEW c \in Connections, Handles(c) PROVE numbered' = numbered
  BY <1>0, <1>3, HandlesEffect
<1>4. ASSUME \/ Listener \/ UNCHANGED vars
             \/ \E c \in Connections : Leave(c) \/ ClosedByPing(c) \/ EventThreadEnds(c)
      PROVE  numbered' = numbered
  BY <1>0, <1>4, OthersEffect
<1> QED
  BY <1>1, <1>2, <1>3, <1>4 DEF Next, Handling, Handles

\* A busy client whose commands nobody else's steps can move is alone in its
\* session, or, if no PingAction closes it, present there.
LEMMA SecureStays ==
  ASSUME Basis, MacsInv, [Next]_vars, NEW c \in Connections, IsBusy(c), Secure(c)'
  PROVE  /\ Secure(c) /\ c <= accepted
         /\ session'[c] = session[c] /\ session[c] \in Sessions
         /\ \A d \in Connections : session[d] = session[c] /\ (Present(d) \/ IsBusy(d)) => d = c
<1>0. Typed /\ NotYet /\ course' = course /\ accepted \in Nat /\ Connections \subseteq Nat
  BY CourseStays, UsedStays, Bounds DEF Basis, Structure
<1>1. c <= accepted
  <2>1. handler[c] # Gone
    BY AtRest DEF IsBusy
  <2> QED
    BY <1>0, <2>1 DEF NotYet
<1>2. session'[c] = session[c] /\ session[c] \in Sessions /\ Secure(c)
  BY <1>0, <1>1, UsedStays DEF Secure
<1>3. ASSUME NEW d \in Connections, session[d] = session[c], Present(d) \/ IsBusy(d)
      PROVE  d = c
  <2>1. CASE course.pingCloses
    BY <1>2, <1>3, <2>1 DEF Secure, Alone
  <2>2. CASE ~course.pingCloses
    <3>1. Present(c) /\ Present(d)
      BY <1>3, <2>2 DEF MacsInv
    <3> QED
      BY <1>3, <3>1 DEF Present
  <2> QED
    BY <2>1, <2>2
<1> QED
  BY <1>1, <1>2, <1>3

LEMMA SendersStep ==
  ASSUME Basis, Begun, Numbering, MacsInv, SendersInv, [Next]_vars
  PROVE  SendersInv'
<1>0. /\ Typed /\ HeldByOne /\ NotYet /\ None \notin Connections /\ opening \in Sessions \cup {None}
      /\ holder \in [Sessions -> Connections \cup {None}]
  BY Bounds DEF Basis, Structure, Typed
<1>1. ASSUME NEW i \in Sessions, holder[i] # None PROVE holder'[i] # None
  <2>1. CASE Publish
    <3>1. holder' = [holder EXCEPT ![opening] = accepted + 1] /\ accepted \in Nat
      BY <2>1, UsedStays DEF Publish
    <3>2. holder'[i] = holder[i] \/ holder'[i] = accepted + 1
      BY <1>0, <3>1
    <3> QED
      BY <1>1, <3>1, <3>2 DEF None
  <2>2. CASE holder' = holder
    BY <1>1, <2>2
  <2>3. ASSUME NEW c \in Connections, Receive(c) \/ ReceivePing(c) \/ Handles(c)
        PROVE  holder' = holder
    BY <2>3, OwnHandlerOnly DEF sessionVars
  <2> QED
    BY <2>1, <2>2, <2>3 DEF Next, Listener, InitSession, ClearInfo, Leave, ClosedByPing, Handling,
       Handles, EventThreadEnds, vars, sessionVars
<1>2. ASSUME NEW c \in Connections, Grouped(c)', Secure(c)'
      PROVE  Place(c)' = info'[session'[c]].ssid
  <2>1. CASE Place(c)' = info[session[c]].ssid /\ UNCHANGED <<info, session>>
    BY <2>1
  <2>2. CASE Grouped(c) /\ Place(c)' = Place(c)
    <3>1. /\ Secure(c) /\ session'[c] = session[c] /\ session[c] \in Sessions
          /\ \A d \in Connections : session[d] = session[c] /\ (Present(d) \/ IsBusy(d)) => d = c
      BY <1>2, <2>2, SecureStays DEF Grouped
    <3>2. Place(c) = info[session[c]].ssid
      BY <2>2, <3>1 DEF SendersInv
    <3>3. IsBusy(c) /\ handler[c] # Gone /\ handler[c].step # "announce"
      BY <2>2, AtRest DEF Grouped, Relaying, IsBusy
    <3>4. ASSUME ClearInfo, session[c] = opening, session[holder[opening]] = opening,
                 holder[opening] \in Connections, handler[holder[opening]] = Gone
          PROVE  FALSE
      <4>1. Present(holder[opening])
        BY <1>0, <3>4 DEF Present, ClearInfo, Basis, Structure, OpeningOne
      <4> QED
        BY <3>1, <3>3, <3>4, <4>1
    <3>5. ASSUME NEW b \in Connections, handler[b].step = "announce", session[c] = session[b]
          PROVE  FALSE
      <4>1. IsBusy(b)
        BY <3>5 DEF IsBusy, Busy
      <4> QED
        BY <3>1, <3>3, <3>5, <4>1
    <3>6. info'[session[c]] = info[session[c]]
      BY <3>1, <3>4, <3>5, InfoStep
    <3> QED
      BY <2>2, <3>1, <3>2, <3>6
  <2> QED
    BY <1>2, <2>1, <2>2, GroupedStep
<1>3. ASSUME NEW c \in Connections, Grouped(c)', handler'[c].step = "send"
      PROVE  holder'[handler'[c].at] # None
  <2>1. /\ Grouped(c) /\ handler'[c].at = handler[c].at /\ handler[c].at \in Sessions
        /\ \/ handler[c].step = "send"
           \/ Wanted(c, handler[c].at, handler[c].command)
    BY <1>3, GroupedStep
  <2>2. holder[handler[c].at] # None
    BY <1>0, <2>1 DEF SendersInv, Wanted, HeldByOne
  <2> QED
    BY <1>1, <2>1, <2>2
<1> QED
  BY <1>2, <1>3 DEF SendersInv

LEMMA PassedStep ==
  ASSUME Basis, Begun, Numbering, MacsInv, PlacesInv, SendersInv, PassedInv, [Next]_vars
  PROVE  PassedInv'
<1>0. Typed /\ HeldByOne /\ None \notin Sessions /\ accepted \in Nat
  BY CourseBounds, UsedStays DEF Basis, Structure, Typed
<1> SUFFICES ASSUME NEW c \in Connections, NEW d \in Connections, Grouped(c)', Secure(c)',
                    handler'[c].step = "send", Alone(d)', session'[d] = handler'[c].at
             PROVE  Place(c)' \in Places(d)'
  BY DEF PassedInv
<1>1. /\ Grouped(c) /\ Place(c)' = Place(c)
      /\ handler'[c].at = handler[c].at /\ handler[c].at \in Sessions
      /\ \/ handler[c].step = "send"
         \/ /\ Wanted(c, handler[c].at, handler[c].command)
            /\ UNCHANGED <<info, session, holder, groups>>
  BY GroupedStep
<1>2. Secure(c)
  BY <1>1, SecureStays DEF Grouped
<1>3. groups[d] \subseteq groups'[d]
  BY InfoStep
<1>4. d <= accepted' /\ (d <= accepted => session[d] = handler[c].at /\ Alone(d))
  BY <1>0, <1>1, UsedStays
<1>5. CASE handler[c].step = "send" /\ d <= accepted
  BY <1>1, <1>2, <1>3, <1>4, <1>5 DEF PassedInv, Places
\* A session that passed the test has a client already.
<1>6. CASE handler[c].step = "send" /\ ~(d <= accepted)
  <2> DEFINE e == holder[handler[c].at]
  <2>1. e \in Connections /\ e <= accepted /\ session[e] = handler[c].at
    BY <1>0, <1>1, <1>6 DEF SendersInv, HeldByOne, Typed
  <2>2. session'[e] = session'[d]
    BY <1>1, <2>1, UsedStays
  <2>3. e = d
    BY <2>1, <2>2 DEF Alone
  <2> QED
    BY <1>6, <2>1, <2>3
<1>7. CASE Wanted(c, handler[c].at, handler[c].command) /\ UNCHANGED <<info, session, holder, groups>>
  <2>1. info[handler[c].at].ssid = info[session[c]].ssid
    BY <1>1, <1>7 DEF Wanted, SameGroup, Grouped
  <2>2. Place(c) = info[session[c]].ssid
    BY <1>1, <1>2 DEF SendersInv
  <2>3. d <= accepted /\ session[d] = handler[c].at
    BY <1>0, <1>1, <1>7, UsedStays
  <2>4. info[session[d]].ssid \in Places(d)
    BY <1>4, <2>3 DEF PlacesInv
  <2> QED
    BY <1>1, <1>3, <2>1, <2>2, <2>3, <2>4 DEF Places
<1> QED
  BY <1>1, <1>5, <1>6, <1>7

LEMMA KeptStep ==
  ASSUME Basis, Begun, Numbering, OrderInv, GroupsInv, [Next]_vars
  PROVE  KeptInGroup'
<1>0. /\ Typed /\ HeldByOne /\ NotYet /\ course' = course /\ accepted \in Nat
      /\ Connections \subseteq Nat
      /\ Known /\ PassedInv /\ KeptInGroup
  BY CourseStays, UsedStays, Bounds DEF Basis, Structure, GroupsInv
<1> SUFFICES ASSUME NEW d \in Connections, NEW k \in 1 .. Len(got'[d]), NEW b,
                    got'[d][k] > 0, numbered'[got'[d][k]].from = b,
                    numbered'[got'[d][k]].command.type \in {"T", "Y"},
                    numbered'[got'[d][k]].command.ssid # NoSsid,
                    Alone(d)', course.pingCloses => Alone(b)'
             PROVE  numbered'[got'[d][k]].command.ssid \in groups'[d]
  BY <1>0 DEF KeptInGroup, Alone
<1>1. groups[d] \subseteq groups'[d]
  BY InfoStep
<1>2. CASE k \in 1 .. Len(got[d]) /\ got'[d][k] = got[d][k]
  <2> DEFINE n == got[d][k]
  <2>1. d <= accepted
    BY <1>0, <1>2 DEF NotYet
  <2>2. n \in 1 .. Len(numbered) /\ numbered'[n] = numbered[n]
    <3>1. got[d] \in Seq(Int)
      BY <1>0 DEF Typed
    <3>2. n \in Int /\ n <= Len(numbered) /\ n > 0
      BY <1>2, <3>1 DEF OrderInv
    <3> QED
      BY <3>2, NumberedGrows
  <2>3. b = numbered[n].from /\ b \in Connections /\ b <= accepted
    BY <1>0, <1>2, <2>2, NumberedType DEF Known
  <2>4. Alone(d) /\ (course.pingCloses => Alone(b))
    BY <2>1, <2>3, UsedStays
  <2>5. n > 0 /\ numbered[n].command.type \in {"T", "Y"} /\ numbered[n].command.ssid # NoSsid
    BY <1>2, <2>2
  <2>6. numbered[n].command.ssid \in groups[d]
    BY <1>0, <1>2, <2>3, <2>4, <2>5, SMTT(30) DEF KeptInGroup
  <2> QED
    BY <1>1, <1>2, <2>2, <2>6
<1>3. ASSUME NEW c \in Connections, SendToSession(c), Gets(c, d), got'[d][k] = handler[c].number
      PROVE  numbered'[got'[d][k]].command.ssid \in groups'[d]
  <2>1. /\ IsBusy(c) /\ handler[c].step = "send" /\ handler[c].at \in Sessions
        /\ numbered' = numbered
    BY <1>3, SMTT(30) DEF SendToSession, At, IsBusy, Busy
  <2>2. UNCHANGED <<session, accepted>>
    BY <1>3 DEF SendToSession, sessionVars
  <2>3. numbered[handler[c].number].from = c /\ Grouped(c)
    BY <1>3, <2>1 DEF Begun, Grouped, Relaying
  <2>4. c <= accepted
    BY <1>3, OwnHandlerOnly DEF Handles
  <2>5. session[d] = handler[c].at
    BY <1>0, <1>3, <2>1, Bounds DEF Gets, HeldByOne
  <2>6. d <= accepted /\ Alone(d) /\ Secure(c)
    <3>1. d <= accepted
      BY <1>0, <1>3, <2>1, Bounds DEF Gets, HeldByOne
    <3>2. b = c
      BY <1>3, <2>1, <2>3
    <3> QED
      BY <2>4, <3>1, <3>2, UsedStays DEF Secure
  <2>7. Place(c) \in Places(d)
    BY <1>0, <2>1, <2>3, <2>5, <2>6 DEF PassedInv
  <2> QED
    BY <1>1, <1>3, <2>1, <2>7 DEF Place, Places
<1> QED
  BY <1>2, <1>3, GotStep

(***************************************************************************)
(* Frames and party chat stay in the meeting place they come from: whoever *)
(* has got one, in a session of its own, has announced the place its       *)
(* sender had when the server took it up (tunnel-server.cpp 171-178 and    *)
(* 226-243).                                                               *)
(***************************************************************************)
THEOREM PlacesAreKeptApart == Spec => []KeptInGroup
<1> DEFINE Inv == Basis /\ Begun /\ Numbering /\ OrderInv /\ MacsInv /\ GroupsInv
<1>1. Init => Inv
  <2> SUFFICES ASSUME Init PROVE Inv
    OBVIOUS
  <2>1. Basis
    BY InitBasis
  <2>2. \A c \in Connections : ~IsBusy(c) /\ ~Present(c) /\ Len(got[c]) = 0
    BY AtRest DEF Init, IsBusy, Present
  <2>3. Begun /\ Numbering /\ OrderInv /\ MacsInv
    BY <2>2 DEF Init, Begun, Numbering, OrderInv, SendersInOrder, MacsInv
  <2>4. Known /\ SendersInv /\ PassedInv /\ KeptInGroup
    BY <2>2 DEF Init, Known, SendersInv, PassedInv, Grouped, KeptInGroup
  <2>5. PlacesInv
    <3>1. \A d \in Connections : d \in Nat /\ ~(d <= accepted)
      BY Bounds DEF Init, Connections
    <3>2. NoInfo.ssid = NoSsid
      BY DEF NoInfo
    <3> QED
      BY <3>1, <3>2 DEF Init, PlacesInv
  <2> QED
    BY <2>1, <2>3, <2>4, <2>5 DEF GroupsInv
<1>2. Inv /\ [Next]_vars => Inv'
  <2> SUFFICES ASSUME Inv, [Next]_vars PROVE Inv'
    OBVIOUS
  <2>1. Basis'
    BY TypeStep, StructureStep DEF Basis
  <2>2. Begun' /\ Numbering' /\ OrderInv' /\ MacsInv'
    BY BegunStep, NumberingStep, OrderStep, MacsStep
  <2>3. GroupsInv'
    BY KnownStep, PlacesStep, SendersStep, PassedStep, KeptStep DEF GroupsInv
  <2> QED
    BY <2>1, <2>2, <2>3
<1>3. Inv => KeptInGroup
  BY DEF GroupsInv
<1> QED
  BY <1>1, <1>2, <1>3, PTL DEF Spec
=============================================================================
