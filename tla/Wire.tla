-------------------------------- MODULE Wire --------------------------------
(***************************************************************************)
(* One direction of the TCP stream between two SOCKET_EX: the bytes given  *)
(* to send() and not yet taken by recv(), in order.  WinSock is not part   *)
(* of the repository; this is how tunnel-common.cpp uses it.               *)
(***************************************************************************)
EXTENDS Ring

CONSTANTS
  WireCapacity,  \* bytes TCP holds before send() would block
  WholeSegments  \* TRUE: send() and recv() move as much as there is room for
                 \* FALSE: TCP may cut the stream anywhere

ASSUME WireAssumption == /\ WireCapacity \in Nat \ {0}
                         /\ WholeSegments \in BOOLEAN

VARIABLES
  wire, \* the bytes in flight
  link  \* "up", "fin" after the sender closed its socket,
        \* "reset" after a network failure

WireTypeOK == /\ wire \in Seq(Int)
              /\ link \in {"up", "fin", "reset"}

WireInit == wire = <<>> /\ link = "up"

Room == WireCapacity - Len(wire)

(***************************************************************************)
(* The byte counts send() may accept of len bytes, and recv() may return   *)
(* into a space of len bytes.  The empty set is WSAEWOULDBLOCK.            *)
(***************************************************************************)
Transfers(len, limit) ==
  IF WholeSegments
  THEN {n \in 1 .. len : n = IF limit < len THEN limit ELSE len}
  ELSE {n \in 1 .. len : n <= limit}

Break == /\ link # "reset"
         /\ link' = "reset"
         /\ UNCHANGED wire
=============================================================================
