-------------------------- MODULE MCTimerTakeover --------------------------
(* Lines shorter and longer than the transmit ring. *)
EXTENDS TimerTakeover, MCJtagUart
Lines == {<<a>>, <<a, a, a>>}
===========================================================================
