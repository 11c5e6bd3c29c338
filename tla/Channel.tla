------------------------------- MODULE Channel ------------------------------
(***************************************************************************)
(* What a connection promises its users: the commands given to SendCommand *)
(* on one side are executed on the other side, each once, unchanged, in    *)
(* the order of their numbers.  Nothing is promised once the connection    *)
(* closes: commands may then be missing at the end.                        *)
(***************************************************************************)
EXTENDS Naturals, Sequences

CONSTANT Payloads

VARIABLES sent, delivered

Init == sent = <<>> /\ delivered = <<>>

Send(data) ==
  /\ sent' = Append(sent, data)
  /\ UNCHANGED delivered

Deliver ==
  LET next == Len(delivered) + 1 IN
  /\ next <= Len(sent)
  /\ delivered' = Append(delivered, [sendCount |-> next, data |-> sent[next]])
  /\ UNCHANGED sent

Next == (\E data \in Payloads : Send(data)) \/ Deliver

Spec == Init /\ [][Next]_<<sent, delivered>>
=============================================================================
