------------------------------ MODULE MCStream ------------------------------
(***************************************************************************)
(* Instances of Stream for TLC.                                            *)
(***************************************************************************)
EXTENDS Stream

\* Payloads without terminator bytes: an empty one and one of one byte.
PlainPayloads == {<<>>, <<0>>}

OnePayload == {<<0>>}

\* All of it: plain, with the terminator in it, as a captured frame may have,
\* and too long.
AllPayloads == PlainPayloads \cup {<<LT, GT>>, <<0, 0, 0, 0>>}

\* What looks like a command and two more, both with the number 0.
NumberZero == {<<1, LT, GT, 0, LT, GT, 0>>}

\* sendState as any earlier connection may leave it.
AnyState == {-1, 0, 1}
=============================================================================
