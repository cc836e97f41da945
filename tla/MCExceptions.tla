---------------------------- MODULE MCExceptions ----------------------------
(* Four-bit registers: every pair of operands on registers of no meaning, and *)
(* every choice of registers, the ones with a meaning of their own among      *)
(* them, on one pair of operands.                                             *)
EXTENDS Exceptions

Filled == [r \in GPR |-> IF r = 0 THEN 0 ELSE (3 * r + 1) % 2^W]

Both == {"muldiv", "trap"}

Arithmetic ==
    {[inst |-> [op |-> op, a |-> 2, b |-> 17, c |-> 4, imm |-> y],
      regs |-> [Filled EXCEPT ![2] = x, ![17] = IF op = "muli" THEN @ ELSE y],
      linked |-> Both] :
         op \in MulOps \cup DivOps, x \in Word, y \in Word}

Named == {0, 5, 16, et, gp, sp, fp, ea, ra}

Registers ==
    {[inst |-> [op |-> op, a |-> a, b |-> b, c |-> c, imm |-> 7], regs |-> Filled, linked |-> Both] :
         op \in {"muli", "mulxss"}, a \in Named, b \in Named, c \in Named}

Others == {[inst |-> [op |-> op, a |-> 5, b |-> 5, c |-> 5, imm |-> 0], regs |-> Filled, linked |-> l] :
               op \in {"trap", "other", "mul", "div"}, l \in SUBSET Both}

Cases == Arithmetic \cup Registers \cup Others
===========================================================================
