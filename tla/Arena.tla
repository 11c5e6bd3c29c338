-------------------------------- MODULE Arena -------------------------------
(***************************************************************************)
(* What the arena server does with the commands of its clients:            *)
(* doServerCommand (tunnel-server.cpp 77-416).  The event thread of each   *)
(* connection runs it, one command at a time, and walks over the sessions  *)
(* while the other threads do the same, and while sessions are closed and  *)
(* given to new clients.  A SendCommand that finds its session CONNECTED   *)
(* is a message its client gets; Stream is about how.                      *)
(*                                                                         *)
(* Clients have the server's version, so that the notice of lines 312-319  *)
(* is never sent; the answer to 'P' changes nothing here.                  *)
(***************************************************************************)
EXTENDS Integers, Sequences, FiniteSets

CONSTANTS
  NumSessions,    \* bound of maxOfSessions, which is 100
  MaxConnections, \* bound: connections accepted in all
  Ssids,          \* meeting places
  NoSsid,         \* the empty szSSID
  Macs,           \* MAC addresses of PSPs
  Broadcast,      \* the address bc
  TableSize,      \* maxMacAddr, 8
  Courses         \* what happens, one of these: how many sessions there are
                  \* and clients that connect, their meeting places and PSPs,
                  \* the commands they send and how many besides answers to a
                  \* ping, and whether a PingAction may close a session,
                  \* whatever its event thread is doing

Types == {"C", "D", "Y", "T", "A", "S", "U", "I", "p"}

Course ==
  [sessions : 1 .. NumSessions, connections : 0 .. MaxConnections,
   ssids : SUBSET Ssids, macs : SUBSET Macs, types : SUBSET Types, commands : Nat,
   pingCloses : BOOLEAN]

ASSUME ArenaAssumption ==
  /\ NumSessions \in Nat \ {0}
  /\ MaxConnections \in Nat /\ TableSize \in Nat
  /\ NoSsid \notin Ssids
  /\ Broadcast \notin Macs
  /\ Courses \subseteq Course

Connections == 1 .. MaxConnections
None == 0
Relayed == {"C", "D", "Y", "T", "U", "I"}

\* USER_INFO: the meeting place and the nickname, here the client itself.
Infos == [ssid : Ssids \cup {NoSsid}, user : Connections \cup {None}]
NoInfo == [ssid |-> NoSsid, user |-> None]

VARIABLES
  state,    \* sessions[i].state
  holder,   \* the connection whose socket is sessions[i].sd
  info,     \* sessions[i].info
  mac,      \* the active entries of sessions[i].mac
  opening,  \* the session the listener is busy with
  accepted, \* how many connections there have been
  session,  \* the session of each connection
  handler,  \* what the event thread of each connection is doing
  numbered, \* the relayed commands, in the order the server took them up
  got,      \* what each client has received of them, by number; the echo of a
            \* private message has its number negated
  view,     \* the user list each client received last
  asked,    \* the session numbers of the 'u' a client has to answer
  entitled, \* history: the clients that were to get the command a thread is
            \* relaying when it began, and for which nothing changed since
  missed,   \* history: the commands such a client has not got in the end
  groups,   \* history: the meeting places a client has announced
  course    \* what happens

sessionVars == <<state, holder, opening, accepted, session>>
received == <<got, view, asked>>
history == <<entitled, missed, groups, course>>
maxOfSessions == course.sessions
Sessions == 1 .. maxOfSessions

vars == <<sessionVars, info, mac, handler, numbered, received, history>>

Commands == [type : Types, ssid : Ssids \cup {NoSsid},
             src : Macs \cup {Broadcast}, dst : Macs \cup {Broadcast}, to : Nat]

Idle == [step |-> "idle"]
Gone == [step |-> "gone"]

TypeOK ==
  /\ state \in [Sessions -> {"IDOL", "WAITTOCONNECT", "CONNECTED"}]
  /\ holder \in [Sessions -> Connections \cup {None}]
  /\ info \in [Sessions -> Infos]
  /\ mac \in [Sessions -> SUBSET Macs]
  /\ \A i \in Sessions : Cardinality(mac[i]) <= TableSize
  /\ opening \in Sessions \cup {None}
  /\ accepted \in 0 .. MaxConnections
  /\ session \in [Connections -> Sessions \cup {None}]
  /\ \A c \in Connections :
       \/ handler[c] \in {Idle, Gone}
       \/ /\ handler[c].step \in {"learn", "announce", "test", "send",
                                  "copy", "answer", "spread"}
          /\ handler[c].command \in Commands
          /\ handler[c].at \in 1 .. maxOfSessions + 1
          /\ handler[c].number \in 0 .. Len(numbered)
          /\ handler[c].list \in Seq(Infos)
  /\ \A k \in 1 .. Len(numbered) : numbered[k] \in [from : Connections, command : Commands]
  /\ got \in [Connections -> Seq(Int)]
  /\ view \in [Connections -> Seq(Infos)]
  /\ asked \in [Connections -> SUBSET Sessions]
  /\ entitled \in [Connections -> SUBSET Connections]
  /\ missed \in SUBSET (Connections \X Nat)
  /\ groups \in [Connections -> SUBSET Ssids]
  /\ course \in Course

Init ==
  /\ course \in Courses
  /\ state = [i \in Sessions |-> "IDOL"]
  /\ holder = [i \in Sessions |-> None]
  /\ info = [i \in Sessions |-> NoInfo]
  /\ mac = [i \in Sessions |-> {}]
  /\ opening = None /\ accepted = 0
  /\ session = [c \in Connections |-> None]
  /\ handler = [c \in Connections |-> Gone]
  /\ numbered = <<>>
  /\ got = [c \in Connections |-> <<>>]
  /\ view = [c \in Connections |-> <<>>]
  /\ asked = [c \in Connections |-> {}]
  /\ entitled = [c \in Connections |-> {}]
  /\ missed = {}
  /\ groups = [c \in Connections |-> {}]
-----------------------------------------------------------------------------
(***************************************************************************)
(* The sessions: AcceptConnection (InitConnection, accept, StartConnection)*)
(* in the listener, and CloseConnection.  StartConnection sets             *)
(* STATE_CONNECTED first and clears the info of the client before it       *)
(* afterwards.                                                             *)
(***************************************************************************)
Present(c) ==
  /\ session[c] # None
  /\ holder[session[c]] = c
  /\ state[session[c]] = "CONNECTED"

\* Wrong: the table of the client before is kept.
TableKept(i) == mac

TableCleared(i) == [mac EXCEPT ![i] = {}]

InitSession ==
  \E i \in Sessions :
    /\ opening = None
    /\ accepted < course.connections
    /\ state[i] = "IDOL"
    /\ \A j \in Sessions : state[j] = "IDOL" => i <= j
    /\ opening' = i
    /\ state' = [state EXCEPT ![i] = "WAITTOCONNECT"]
    /\ mac' = TableCleared(i)
    /\ UNCHANGED <<holder, accepted, session, info, handler, numbered, received, history>>

Publish ==
  LET c == accepted + 1 IN
  /\ opening # None
  /\ state[opening] = "WAITTOCONNECT"
  /\ accepted' = c
  /\ holder' = [holder EXCEPT ![opening] = c]
  /\ session' = [session EXCEPT ![c] = opening]
  /\ state' = [state EXCEPT ![opening] = "CONNECTED"]
  /\ UNCHANGED <<opening, info, mac, handler, numbered, received, history>>

\* What is owed to client c ends when it leaves or its info changes, and so
\* does what it began.
NothingOwed(c) ==
  entitled' = [d \in Connections |-> IF d = c THEN {} ELSE entitled[d] \ {c}]

ClearInfo ==
  /\ opening # None
  /\ state[opening] # "WAITTOCONNECT"
  /\ info' = [info EXCEPT ![opening] = NoInfo]
  /\ handler' = [handler EXCEPT ![holder[opening]] = Idle]
  /\ opening' = None
  /\ NothingOwed(holder[opening])
  /\ UNCHANGED <<state, holder, accepted, session, mac, numbered, received, missed,
                 groups, course>>

Leave(c) ==
  /\ handler[c] = Idle
  /\ Present(c)
  /\ state' = [state EXCEPT ![session[c]] = "IDOL"]
  /\ handler' = [handler EXCEPT ![c] = Gone]
  /\ NothingOwed(c)
  /\ UNCHANGED <<holder, opening, accepted, session, info, mac, numbered, received,
                 missed, groups, course>>

ClosedByPing(c) ==
  /\ course.pingCloses
  /\ handler[c] # Gone
  /\ Present(c)
  /\ state' = [state EXCEPT ![session[c]] = "IDOL"]
  /\ NothingOwed(c)
  /\ UNCHANGED <<holder, opening, accepted, session, info, mac, handler, numbered,
                 received, missed, groups, course>>

EventThreadEnds(c) ==
  /\ handler[c] = Idle
  /\ ~Present(c)
  /\ handler' = [handler EXCEPT ![c] = Gone]
  /\ UNCHANGED <<sessionVars, info, mac, numbered, received, history>>
-----------------------------------------------------------------------------
(***************************************************************************)
(* A command reaches the server and its handler begins.                    *)
(***************************************************************************)
Begin(c, command, step, at) ==
  handler' = [handler EXCEPT ![c] =
    [step |-> step, command |-> command, at |-> at, list |-> <<>>,
     number |-> IF command.type \in Relayed THEN Len(numbered) + 1 ELSE 0]]

Received(c) == handler[c] = Idle /\ Present(c)

Plain == [type |-> "A", ssid |-> NoSsid, src |-> Broadcast, dst |-> Broadcast, to |-> 0]

\* Wrong: the meeting places are not compared.
AnyGroup(c, i) == TRUE

(***************************************************************************)
(* Whether session i is to get a command of connection c: the conditions   *)
(* in the loops over sessions[].  sdex->info is looked at again for every  *)
(* session.                                                                *)
(***************************************************************************)
SameGroup(c, i) == info[i].ssid = info[session[c]].ssid

Wanted(c, i, command) ==
  /\ state[i] = "CONNECTED"
  /\ command.type = "D" => info[i].user = command.to
  /\ command.type = "Y" => SameGroup(c, i)
  /\ command.type = "T" =>
       /\ i # session[c]
       /\ SameGroup(c, i)
       /\ command.dst = Broadcast \/ command.dst \in mac[i]

Relay(c, command, step) ==
  /\ numbered' = Append(numbered, [from |-> c, command |->
                   [command EXCEPT !.ssid = info[session[c]].ssid]])
  /\ entitled' = [entitled EXCEPT ![c] =
                    {d \in Connections : Present(d) /\ Wanted(c, session[d], command)}]
  /\ Begin(c, command, step, 1)

\* Chat to everyone, to one nickname, to the own meeting place; user check.
ReceiveChat(c) ==
  /\ Received(c)
  /\ Len(numbered) < course.commands
  /\ \E type \in course.types \cap {"C", "Y", "U"} : Relay(c, [Plain EXCEPT !.type = type], "test")
  /\ UNCHANGED <<sessionVars, info, mac, received, missed, groups, course>>

ReceiveTell(c) ==
  /\ Received(c)
  /\ "D" \in course.types
  /\ Len(numbered) < course.commands
  /\ \E d \in Connections : Relay(c, [Plain EXCEPT !.type = "D", !.to = d], "test")
  /\ UNCHANGED <<sessionVars, info, mac, received, missed, groups, course>>

\* A tunnelled frame: its source is entered into the table while there is room.
ReceiveFrame(c) ==
  \E src \in course.macs, dst \in course.macs \cup {Broadcast} :
    /\ Received(c)
    /\ "T" \in course.types
    /\ Len(numbered) < course.commands
    /\ Relay(c, [Plain EXCEPT !.type = "T", !.src = src, !.dst = dst], "learn")
    /\ UNCHANGED <<sessionVars, info, mac, received, missed, groups, course>>

LearnSource(c) ==
  /\ handler[c].step = "learn"
  /\ mac' = [mac EXCEPT ![session[c]] =
               IF Cardinality(@) < TableSize THEN @ \cup {handler[c].command.src} ELSE @]
  /\ handler' = [handler EXCEPT ![c].step = "test"]
  /\ UNCHANGED <<sessionVars, info, numbered, received, history>>

\* Change of the meeting place, after which everyone gets a new user list;
\* and the answer to a 'u', which goes to the session number the 'u' came with.
Number(c, command) ==
  numbered' = Append(numbered, [from |-> c, command |-> command])

ReceiveSSID(c) ==
  \E ssid \in course.ssids :
    LET command == [Plain EXCEPT !.type = "S", !.ssid = ssid] IN
    /\ Received(c)
    /\ "S" \in course.types
    /\ Len(numbered) < course.commands
    /\ Number(c, command)
    /\ Begin(c, command, "announce", 1)
    /\ UNCHANGED <<sessionVars, info, mac, received, history>>

ReceiveUserInfo(c) ==
  \E i \in asked[c], ssid \in course.ssids :
    LET command == [Plain EXCEPT !.type = "I", !.ssid = ssid, !.to = i] IN
    /\ Received(c)
    /\ "I" \in course.types
    /\ Len(numbered) < course.commands
    /\ asked' = [asked EXCEPT ![c] = @ \ {i}]
    /\ Number(c, command)
    /\ Begin(c, command, "announce", i)
    /\ UNCHANGED <<sessionVars, info, mac, got, view, history>>

Announce(c) ==
  LET command == handler[c].command IN
  /\ handler[c].step = "announce"
  /\ info' = [info EXCEPT ![session[c]] = [ssid |-> command.ssid, user |-> c]]
  /\ groups' = [groups EXCEPT ![c] = @ \cup {command.ssid}]
  /\ NothingOwed(holder[session[c]])
  /\ handler' = [handler EXCEPT ![c].step = IF command.type = "S" THEN "copy" ELSE "send"]
  /\ UNCHANGED <<sessionVars, mac, numbered, received, missed, course>>

\* The client asks for a list, or answers the ping that PingAction sends it
\* every three seconds.
ReceiveListRequest(c) ==
  /\ Received(c)
  /\ "A" \in course.types
  /\ Len(numbered) < course.commands
  /\ Number(c, Plain)
  /\ Begin(c, Plain, "copy", 1)
  /\ UNCHANGED <<sessionVars, info, mac, received, history>>

\* Wrong: a ping is not answered with a list.
IgnorePing(c) == Received(c) /\ "p" \in course.types /\ UNCHANGED vars

ReceivePing(c) ==
  /\ Received(c)
  /\ "p" \in course.types
  /\ Begin(c, [Plain EXCEPT !.type = "p"], "copy", 1)
  /\ UNCHANGED <<sessionVars, info, mac, numbered, received, history>>
-----------------------------------------------------------------------------
(***************************************************************************)
(* The loops over sessions[], one session at a time.                       *)
(***************************************************************************)
At(c, step) ==
  /\ handler[c].step = step
  /\ step # "answer" => handler[c].at \in Sessions

\* Wrong: after a command was sent the same session is looked at again.
AdvanceLate(c) ==
  LET h == handler[c]
      last == h.at = maxOfSessions \/ h.command.type = "I" IN
  handler' = [handler EXCEPT ![c] =
    IF h.step = "send" THEN [h EXCEPT !.step = "test"]
    ELSE IF ~last THEN [h EXCEPT !.at = @ + 1] ELSE Idle]

\* Wrong: the last session is left out.
AdvanceShort(c) ==
  LET h == handler[c]
      last == h.at + 1 >= maxOfSessions \/ h.command.type = "I" IN
  handler' = [handler EXCEPT ![c] =
    IF ~last THEN [h EXCEPT !.at = @ + 1, !.step = IF h.step = "send" THEN "test" ELSE @]
    ELSE Idle]

\* On to the next session; after the last one the handler returns.
Advance(c) ==
  LET h == handler[c]
      last == h.at = maxOfSessions \/ h.command.type = "I" IN
  handler' = [handler EXCEPT ![c] =
    IF ~last THEN [h EXCEPT !.at = @ + 1, !.step = IF h.step = "send" THEN "test" ELSE @]
    ELSE Idle]

Finished(c) ==
  handler'[c] = Idle

\* The history of what was owed is settled when a handler returns.
Settle(c) ==
  IF Finished(c)
  THEN /\ missed' = missed \cup
            {<<d, handler[c].number>> : d \in {e \in entitled[c] :
               \A k \in 1 .. Len(got'[e]) : got'[e][k] # handler[c].number}}
       /\ entitled' = [entitled EXCEPT ![c] = {}]
  ELSE UNCHANGED <<missed, entitled>>

TestSession(c) ==
  /\ At(c, "test")
  /\ IF Wanted(c, handler[c].at, handler[c].command)
     THEN handler' = [handler EXCEPT ![c].step = "send"]
     ELSE Advance(c)
  /\ UNCHANGED <<sessionVars, info, mac, numbered, received, groups, course>>
  /\ Settle(c)

(***************************************************************************)
(* SendCommand to the session that passed the test, whoever holds it by    *)
(* now.  The sender of a private message gets an echo before.              *)
(***************************************************************************)
Connected(i) == state[i] = "CONNECTED"

Sent(boxes, i, number) ==
  IF Connected(i) THEN [boxes EXCEPT ![holder[i]] = Append(@, number)] ELSE boxes

SendToSession(c) ==
  LET h == handler[c]
      echo == IF h.command.type = "D" THEN Sent(got, session[c], -h.number) ELSE got IN
  /\ At(c, "send")
  /\ got' = Sent(echo, h.at, h.number)
  /\ asked' = IF h.command.type = "U" /\ Connected(h.at)
              THEN [asked EXCEPT ![holder[h.at]] = @ \cup {session[c]}] ELSE asked
  /\ Advance(c)
  /\ Settle(c)
  /\ UNCHANGED <<sessionVars, info, mac, numbered, view, groups, course>>

(***************************************************************************)
(* The user list: every connected session's info is copied, then the list  *)
(* is sent to the client that asked or, after 'S', to everyone.  The count *)
(* taken in a loop before is left out.                                     *)
(***************************************************************************)
CopyInfo(c) ==
  LET h == handler[c]
      copied == IF Connected(h.at) THEN Append(h.list, info[h.at]) ELSE h.list
      next == IF h.command.type = "S" THEN "spread" ELSE "answer" IN
  /\ At(c, "copy")
  /\ handler' = [handler EXCEPT ![c] =
       [h EXCEPT !.list = copied,
                 !.at = IF h.at < maxOfSessions THEN @ + 1 ELSE 1,
                 !.step = IF h.at < maxOfSessions THEN @ ELSE next]]
  /\ UNCHANGED <<sessionVars, info, mac, numbered, received, history>>

Shown(c, i) ==
  view' = IF Connected(i) THEN [view EXCEPT ![holder[i]] = handler[c].list] ELSE view

AnswerList(c) ==
  /\ At(c, "answer")
  /\ Shown(c, session[c])
  /\ handler' = [handler EXCEPT ![c] = Idle]
  /\ UNCHANGED <<sessionVars, info, mac, numbered, got, asked, history>>

SpreadList(c) ==
  /\ At(c, "spread")
  /\ Shown(c, handler[c].at)
  /\ Advance(c)
  /\ UNCHANGED <<sessionVars, info, mac, numbered, got, asked, history>>
-----------------------------------------------------------------------------
Handling(c) ==
  \/ LearnSource(c) \/ Announce(c) \/ TestSession(c) \/ SendToSession(c)
  \/ CopyInfo(c) \/ AnswerList(c) \/ SpreadList(c)
  \/ EventThreadEnds(c)

Receive(c) ==
  \/ ReceiveChat(c) \/ ReceiveTell(c) \/ ReceiveFrame(c) \/ ReceiveSSID(c)
  \/ ReceiveUserInfo(c) \/ ReceiveListRequest(c)

Listener == InitSession \/ Publish \/ ClearInfo

Next ==
  \/ Listener
  \/ \E c \in Connections :
       Receive(c) \/ ReceivePing(c) \/ Handling(c) \/ Leave(c) \/ ClosedByPing(c)

Spec == Init /\ [][Next]_vars

(***************************************************************************)
(* Every thread is scheduled, and clients answer pings.                    *)
(***************************************************************************)
Fairness ==
  /\ WF_vars(Listener)
  /\ \A c \in Connections : WF_vars(Handling(c)) /\ WF_vars(ReceivePing(c))

FairSpec == Spec /\ Fairness
-----------------------------------------------------------------------------
(***************************************************************************)
(* A client gets the commands of one sender in the order the sender gave   *)
(* them, and none twice, however the handlers of the senders overlap.      *)
(***************************************************************************)
SendersInOrder ==
  \A d \in Connections : \A j, k \in 1 .. Len(got[d]) :
    j < k /\ got[d][j] > 0 /\ got[d][k] > 0
      /\ numbered[got[d][j]].from = numbered[got[d][k]].from
    => got[d][j] < got[d][k]

(***************************************************************************)
(* A client that is to get a command when its handler begins, and for      *)
(* which nothing changes until it returns, gets it: the walk over the      *)
(* sessions skips nobody while others connect, leave and change places.    *)
(***************************************************************************)
NothingMissed == missed = {}

(***************************************************************************)
(* Frames and party chat stay in the meeting place they come from ("SSID   *)
(* to tunnel packets are equal to each other", tunnel-server.cpp 227): a   *)
(* client gets them only if it has announced that place itself.  It may be *)
(* otherwise for a client whose session has had another client: that one's *)
(* info is still there when the session is CONNECTED again, or it passed   *)
(* the test and its successor gets the command; and for a sender whose     *)
(* session a PingAction gives away while its command is relayed.           *)
(***************************************************************************)
Alone(c) == \A d \in Connections : session[d] = session[c] => d = c

KeptInGroup ==
  \A d \in Connections : \A k \in 1 .. Len(got[d]) :
    LET n == got[d][k] IN
    /\ n > 0 /\ numbered[n].command.type \in {"T", "Y"} /\ numbered[n].command.ssid # NoSsid
    /\ Alone(d)
    /\ course.pingCloses => Alone(numbered[n].from)
    => numbered[n].command.ssid \in groups[d]

(***************************************************************************)
(* The table of a session holds only addresses of its present client:      *)
(* unicast frames for the PSP of a client that has left find nobody.  As   *)
(* long as no PingAction closes a session whose event thread is learning.  *)
(***************************************************************************)
MacsOwned ==
  \A c \in Connections : Present(c) /\ ~course.pingCloses =>
    \A m \in mac[session[c]] :
      \E k \in 1 .. Len(numbered) : numbered[k].from = c /\ numbered[k].command.src = m

(***************************************************************************)
(* User lists converge: when no client connects, leaves or moves any more, *)
(* everyone comes to see the list of those present, and keeps it, although *)
(* lists copied earlier may be sent later.                                 *)
(***************************************************************************)
Directory ==
  LET upTo[n \in 0 .. maxOfSessions] ==
        IF n = 0 THEN <<>>
        ELSE IF Connected(n) THEN Append(upTo[n - 1], info[n]) ELSE upTo[n - 1]
  IN  upTo[maxOfSessions]

ListsConverge ==
  <>[]("p" \in course.types => \A c \in Connections : Present(c) => view[c] = Directory)
=============================================================================
