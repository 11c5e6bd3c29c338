----------------------------- MODULE MCTunnel05 -----------------------------
(***************************************************************************)
(* Instances of Tunnel05 for TLC: one PSP near each of two clients,        *)
(* and a third client with none.                                           *)
(***************************************************************************)
EXTENDS Tunnel05

CONSTANTS c1, c2, c3, a, b

From(p, dst) == [src |-> p, dst |-> dst]

\* Frames and lines do not meet, except in the queues.
FewThings ==
  { [losses |-> 1, frames |-> {From(b, Broadcast), From(a, b)}, lines |-> 0],
    [losses |-> 1, frames |-> {}, lines |-> 1] }

NearThem == [p \in {a, b} |-> IF p = a THEN c1 ELSE c2]
=============================================================================
