---------------------------- MODULE MCIrqClock ----------------------------
(* Interrupt dispatch and the system clock, checked side by side: a behaviour *)
(* is one of the first or one of the second, and part says which.             *)
EXTENDS Interrupts, SystemClock

VARIABLE part
partVars == <<irqVars, clockVars, part>>

PartInit == IrqInit /\ Init /\ part \in {"interrupts", "clock"}

PartNext == \/ part = "interrupts" /\ IrqNext /\ UNCHANGED <<clockVars, part>>
            \/ part = "clock" /\ Next /\ UNCHANGED <<irqVars, part>>

PartSpec == /\ PartInit /\ [][PartNext]_partVars
            /\ WF_clockVars(part = "clock" /\ Routine)
            /\ IrqFairness
===========================================================================
