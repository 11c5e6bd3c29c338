---------------------------- MODULE MCStreamCuts ----------------------------
(***************************************************************************)
(* An instance of Stream for TLC in which TCP cuts the stream anywhere.    *)
(***************************************************************************)
EXTENDS MCStream

(***************************************************************************)
(* It is two instances in one: two threads send plain payloads, or one     *)
(* thread sends payloads of any kind while the network may fail.           *)
(***************************************************************************)
VARIABLE senders

CutsInit ==
  /\ Init
  /\ senders \in {{"ping", "handler"}, {"handler"}}

CutsNext ==
  /\ Next
  /\ UNCHANGED senders
  /\ \A t \in Senders \ senders : pc'[t] = "idle"
  /\ "ping" \in senders => PlainSent' /\ link' # "reset"
  /\ "ping" \notin senders => \A k \in 1 .. Len(sent') : sent'[k] # <<0>>

CutsSpec == CutsInit /\ [][CutsNext]_<<vars, senders>>
=============================================================================
