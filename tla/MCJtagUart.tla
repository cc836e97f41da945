---------------------------- MODULE MCJtagUart ----------------------------
(* Instances of the driver for TLC. *)
EXTENDS JtagUartChannel

CONSTANTS a, b  \* two distinct bytes

\* What write() may be handed: nothing, single bytes, and messages longer
\* than the contiguous room and than the whole ring of the instances.
FewMessages == {<<>>, <<b>>, <<a, b>>, <<b, a, a>>}
===========================================================================
