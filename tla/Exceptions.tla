----------------------------- MODULE Exceptions -----------------------------
(* An exception of the Nios II processor from entry to eret: saving the      *)
(* registers (alt_exception_entry.S), the test for interrupts                *)
(* (alt_irq_entry.S), the emulation of the multiplications and divisions     *)
(* this processor does not have (alt_exception_muldiv.S), the trap handler   *)
(* and the handler a program may register for everything else.               *)
EXTENDS Integers

CONSTANTS
    W,           \* bits of a register (32)
    Situations,  \* programs: the instruction they run, their registers, what is linked in
    Junk         \* what C code, or the stack, leaves where nothing is promised

GPR == 0..31
et == 24  bt == 25  gp == 26  sp == 27  fp == 28  ea == 29  ba == 30  ra == 31

(* What the entry code saves, and C code may change. *)
CallerSaved == 1..15 \cup {ra}

Word == 0..2^W - 1

MulOps == {"muli", "mul", "mulxuu", "mulxsu", "mulxss"}
DivOps == {"div", "divu"}
Instruction == [op : MulOps \cup DivOps \cup {"trap", "other"},
                a : GPR, b : GPR, c : GPR, imm : Word]

ASSUME ExceptionsAssumption ==
    /\ W \in Nat \ {0} /\ Junk \in Word
    /\ Situations \subseteq [inst : Instruction, regs : [GPR -> Word],
                             linked : SUBSET {"muldiv", "trap"}]
    /\ \A s \in Situations : s.regs[0] = 0

VARIABLES
    stage,      \* where the processor is
    inst,       \* the instruction at ea - 4
    regs,       \* the registers, sp excepted: its distance is in pushed
    pushed,     \* bytes below the program's sp
    stack,      \* the registers as saved on the stack
    resume,     \* 72(sp): the instruction itself, or the one after it
    pending,    \* an interrupt is pending and enabled
    alt_instruction_exception_handler,   \* and what it returns
    linked,     \* the optional parts of the exception code in the program
    before, by  \* history: the registers at the exception, and who served it

excVars == <<stage, inst, regs, pushed, stack, resume, pending,
             alt_instruction_exception_handler, linked, before, by>>

ExcInit ==
    /\ stage = "program" /\ \E s \in Situations : inst = s.inst /\ regs = s.regs /\ linked = s.linked
    /\ pushed = 0 /\ stack = [r \in GPR |-> Junk] /\ resume = "this" /\ pending = FALSE
    /\ alt_instruction_exception_handler = "none" /\ before = regs /\ by = "nobody"

alt_instruction_exception_register(h) ==
    /\ stage = "program" /\ alt_instruction_exception_handler' = h
    /\ UNCHANGED <<stage, inst, regs, pushed, stack, resume, pending, linked, before, by>>

(* The instruction is run, for the first time or again, and the processor    *)
(* takes an exception: ea is overwritten by the hardware.                     *)
Raise ==
    /\ stage = "program" /\ resume = "this" /\ stage' = "entry" /\ by' = "nobody"
    /\ before' = regs /\ regs' = [regs EXCEPT ![ea] = Junk]
    /\ pending' \in BOOLEAN
    /\ UNCHANGED <<inst, pushed, stack, resume, alt_instruction_exception_handler, linked>>

Saved == CallerSaved

Entry ==
    /\ stage = "entry" /\ stage' = "irqtest" /\ pushed' = 76 /\ resume' = "this"
    /\ stack' = [r \in GPR |-> IF r \in Saved THEN regs[r] ELSE stack[r]]
    /\ UNCHANGED <<inst, regs, pending, alt_instruction_exception_handler, linked, before, by>>

Scratched == [r \in GPR |-> IF r \in CallerSaved THEN Junk ELSE regs[r]]

IrqHandler ==
    /\ stage = "irqtest" /\ pending
    /\ stage' = "exit" /\ pending' = FALSE /\ regs' = Scratched /\ by' = "irq"
    /\ UNCHANGED <<inst, pushed, stack, resume, alt_instruction_exception_handler, linked, before>>

NotIrq ==
    /\ stage = "irqtest" /\ ~pending /\ stage' = "soft" /\ resume' = "next"
    /\ UNCHANGED <<inst, regs, pushed, stack, pending, alt_instruction_exception_handler, linked, before, by>>

---------------------------------------------------------------------------
(* The arithmetic of the emulation. *)
LowBits(v) == v % 2^W
Msb(v) == v >= 2^(W-1)

DivideRound(y, s) ==
    LET rem == LowBits(2 * s.rem + IF Msb(s.quo) THEN 1 ELSE 0)
        quo == LowBits(2 * s.quo)
    IN  IF rem < y THEN [rem |-> rem, quo |-> quo] ELSE [rem |-> rem - y, quo |-> quo + 1]

Divide(x, y) ==
    LET s[i \in 0..W] == IF i = 0 THEN [rem |-> 0, quo |-> x] ELSE DivideRound(y, s[i-1])
    IN  s[W].quo

Magnitude(v) == IF Msb(v) THEN LowBits(-v) ELSE v

\* Mutant: the sign of the quotient is that of the dividend.
QuotientSignOfDividend(op, x, y) ==
    IF op = "divu" THEN Divide(x, y)
    ELSE LET q == Divide(Magnitude(x), Magnitude(y)) IN IF Msb(x) THEN LowBits(-q) ELSE q

Quotient(op, x, y) ==
    IF op = "divu" THEN Divide(x, y)
    ELSE LET q == Divide(Magnitude(x), Magnitude(y)) IN IF Msb(x) # Msb(y) THEN LowBits(-q) ELSE q

(* One round: mul collects the low half from the multiplier's high end, and  *)
(* mulxuu the high half from its low end, the carry brought in from above.   *)
MultiplyRound(x, s) ==
    LET sum == LowBits(s.mulxuu + x)
        carry == IF sum < x THEN 2^(W-1) ELSE 0
    IN  [mul    |-> LowBits(2 * s.mul + IF Msb(s.left) THEN x ELSE 0),
         mulxuu |-> IF s.right % 2 = 1 THEN sum \div 2 + carry ELSE s.mulxuu \div 2,
         left   |-> LowBits(2 * s.left), right |-> s.right \div 2]

Product(op, x, y) ==
    LET s[i \in 0..W] == IF i = 0 THEN [mul |-> 0, mulxuu |-> 0, left |-> y, right |-> y]
                         ELSE MultiplyRound(x, s[i-1])
        p == s[W]
        su == LowBits(p.mulxuu - IF Msb(x) THEN y ELSE 0)
    IN  CASE op \in {"mul", "muli"} -> p.mul
          [] op = "mulxuu" -> p.mulxuu
          [] op = "mulxsu" -> su
          [] op = "mulxss" -> LowBits(su - IF Msb(y) THEN x ELSE 0)

(* All 32 registers on the stack: et, bt, ea and ba are not stored, and the  *)
(* sp stored is the handler's.                                               *)
Frame == [r \in GPR |->
             CASE r = 0 -> 0
               [] r \in Saved -> stack[r]
               [] r \in 16..23 \cup {gp, fp} -> regs[r]
               [] r = sp -> LowBits(regs[sp] - pushed - 60)
               [] OTHER -> stack[r]]

Destination == IF inst.op = "muli" THEN inst.b ELSE inst.c
Result == LET x == Frame[inst.a]
              y == IF inst.op = "muli" THEN inst.imm ELSE Frame[inst.b]
          IN  IF inst.op \in DivOps THEN Quotient(inst.op, x, y) ELSE Product(inst.op, x, y)

(* The result goes to the destination's place on the stack, and of what the  *)
(* emulation saved itself, r16 to r23 and fp come back from there.           *)
Emulate ==
    /\ stage = "soft" /\ "muldiv" \in linked /\ inst.op \in MulOps \cup DivOps
    /\ stage' = "exit" /\ by' = "emulation"
    /\ stack' = [Frame EXCEPT ![Destination] = Result]
    /\ regs' = [r \in GPR |-> IF r \in 16..23 \cup {fp} THEN stack'[r] ELSE Scratched[r]]
    /\ UNCHANGED <<inst, pushed, resume, pending, alt_instruction_exception_handler, linked, before>>

(* What is not emulated: break, for the debugger, or the program's handler. *)
Unknown == \/ inst.op \in MulOps \cup DivOps /\ "muldiv" \notin linked
           \/ inst.op = "trap" /\ "trap" \notin linked
           \/ inst.op = "other"

Breakpoint ==
    /\ stage = "soft"
    /\ \/ inst.op = "trap" /\ "trap" \in linked
       \/ Unknown /\ alt_instruction_exception_handler = "none"
    /\ stage' = "break"
    /\ UNCHANGED <<inst, regs, pushed, stack, resume, pending, alt_instruction_exception_handler, linked, before, by>>

(* The debugger lets the program go on. *)
Continue ==
    /\ stage = "break" /\ stage' = "exit"
    /\ \/ ~Unknown /\ by' = "trap" /\ UNCHANGED <<regs, resume>>
       \/ Unknown /\ by' = "NIOS2_EXCEPTION_RETURN_REISSUE_INST" /\ regs' = Scratched /\ resume' = "this"
    /\ UNCHANGED <<inst, pushed, stack, pending, alt_instruction_exception_handler, linked, before>>

(* The value returned decides: 0 runs the instruction again. *)
alt_instruction_exception_entry ==
    /\ stage = "soft" /\ Unknown /\ alt_instruction_exception_handler # "none"
    /\ stage' = "exit" /\ regs' = Scratched /\ by' = alt_instruction_exception_handler
    /\ resume' = IF alt_instruction_exception_handler = "NIOS2_EXCEPTION_RETURN_REISSUE_INST"
                 THEN "this" ELSE resume
    /\ UNCHANGED <<inst, pushed, stack, pending, alt_instruction_exception_handler, linked, before>>

Exit ==
    /\ stage = "exit" /\ stage' = "program" /\ pushed' = 0
    /\ regs' = [r \in GPR |-> IF r \in Saved THEN stack[r] ELSE regs[r]]
    /\ UNCHANGED <<inst, stack, resume, pending, alt_instruction_exception_handler, linked, before, by>>

ExcNext ==
    \/ \E h \in {"none", "NIOS2_EXCEPTION_RETURN_REISSUE_INST", "NIOS2_EXCEPTION_RETURN_SKIP_INST"} :
           alt_instruction_exception_register(h)
    \/ Raise \/ Entry \/ IrqHandler \/ NotIrq \/ Emulate
    \/ Breakpoint \/ Continue \/ alt_instruction_exception_entry \/ Exit

ExcSpec == ExcInit /\ [][ExcNext]_excVars
---------------------------------------------------------------------------
Back == stage = "program" /\ by # "nobody"

(* The program finds its registers as it left them, whoever served the       *)
(* exception, but for the destination of an emulated instruction and for ea,  *)
(* and an interrupted instruction is run again                               *)
(* (alt_exception_entry.S:142-167, :355-396, alt_exception_muldiv.S:139-157).  *)
RegistersKept ==
    Back => /\ \A r \in GPR \ {ea} :
                   (by = "emulation" /\ r = Destination) \/ regs[r] = before[r]
            /\ resume = "this" <=> by \in {"irq", "NIOS2_EXCEPTION_RETURN_REISSUE_INST"}

(* What the instructions are defined to compute, of numbers and not of bits. *)
Signed(v) == IF Msb(v) THEN v - 2^W ELSE v
Magnified(v) == IF v < 0 THEN -v ELSE v
Truncated(x, y) == LET q == Magnified(x) \div Magnified(y) IN IF (x < 0) # (y < 0) THEN -q ELSE q

Answer(op, x, y) ==
    CASE op \in {"mul", "muli"} -> LowBits(x * y)
      [] op = "mulxuu" -> (x * y) \div 2^W
      [] op = "mulxsu" -> LowBits((Signed(x) * y) \div 2^W)
      [] op = "mulxss" -> LowBits((Signed(x) * Signed(y)) \div 2^W)
      [] op = "divu" -> x \div y
      [] op = "div" -> LowBits(Truncated(Signed(x), Signed(y)))

Operands == IF inst.op = "muli" THEN {inst.a} ELSE {inst.a, inst.b}
Second == IF inst.op = "muli" THEN inst.imm ELSE before[inst.b]
Defined == inst.op \in DivOps => Second # 0

(* The limitations the comment lists (alt_exception_muldiv.S:63-73). *)
Documented == /\ et \notin Operands
              /\ Destination \notin {sp, ea}
              /\ {ba, bt} \cap ({Destination} \cup Operands) = {}

Matches == regs[Destination] = IF Destination = 0 THEN 0
                               ELSE Answer(inst.op, before[inst.a], Second)

(* An emulated instruction leaves in its destination, also where that is one *)
(* of its sources, what a processor with a multiplier and a divider computes, *)
(* unless it names a register the emulation does not serve: those of the      *)
(* comment, and sp and ea as sources and gp and et as destinations            *)
(* (alt_exception_muldiv.S:276-571).                                          *)
EmulationExact ==
    (/\ Back /\ by = "emulation" /\ Defined /\ Documented
     /\ {sp, ea} \cap Operands = {} /\ Destination \notin {gp, et}) => Matches

(* The program does not notice an exception, but for what it asked for. *)
ExcInv == RegistersKept /\ EmulationExact

(* "The emulations match the instructions, except for the following           *)
(* limitations" (alt_exception_muldiv.S:60): taken at its word.               *)
EmulatesAsDocumented == (Back /\ by = "emulation" /\ Defined /\ Documented) => Matches
---------------------------------------------------------------------------
(* The inductive invariant behind ExcInv.                                     *)

Handler == {"none", "NIOS2_EXCEPTION_RETURN_REISSUE_INST", "NIOS2_EXCEPTION_RETURN_SKIP_INST"}

ExcShape == /\ regs = [r \in GPR |-> regs[r]] /\ before = [r \in GPR |-> before[r]]
            /\ stack = [r \in GPR |-> stack[r]]
            /\ alt_instruction_exception_handler \in Handler

(* Up to the test for interrupts the registers are the program's; from then   *)
(* on those that C code may change are on the stack as well.                   *)
Untouched == \A r \in GPR \ {ea} : regs[r] = before[r]
OnStack == \A r \in Saved : stack[r] = before[r]

(* What the exit leaves of them. *)
Restored == \A r \in GPR \ {ea} : \/ by = "emulation" /\ r = Destination
                                 \/ (IF r \in Saved THEN stack[r] ELSE regs[r]) = before[r]

ResumeInv == resume = "this" <=> by \in {"irq", "NIOS2_EXCEPTION_RETURN_REISSUE_INST"}

ExcIInv ==
    /\ ExcShape /\ RegistersKept
    /\ stage \in {"entry", "irqtest", "soft", "break"} => Untouched
    /\ stage \in {"irqtest", "soft", "break"} => OnStack
    /\ stage = "irqtest" => resume = "this"
    /\ stage \in {"soft", "break"} => resume = "next"
    /\ stage = "exit" => Restored /\ ResumeInv /\ by # "nobody"

(* Until an instruction is emulated what is on the stack and in the registers *)
(* are words, and register 0 is zero; the emulation leaves its answer where   *)
(* the exit looks for it.  Nobody has served an exception on its way in.      *)
WordsInv ==
    /\ by # "emulation" => regs \in [GPR -> Word] /\ stack \in [GPR -> Word]
    /\ before \in [GPR -> Word]
    /\ regs[0] = 0 /\ before[0] = 0
    /\ stage \in {"entry", "irqtest", "soft", "break"} => by = "nobody"

Serviceable == Defined /\ Documented /\ {sp, ea} \cap Operands = {} /\ Destination \notin {gp, et}

AnswerLeft == (stage = "exit" /\ by = "emulation" /\ Serviceable) =>
            (IF Destination \in Saved THEN stack[Destination] ELSE regs[Destination])
                = IF Destination = 0 THEN 0 ELSE Answer(inst.op, before[inst.a], Second)

ExcAllInv == ExcIInv /\ inst \in Instruction /\ WordsInv /\ AnswerLeft /\ EmulationExact
===========================================================================
