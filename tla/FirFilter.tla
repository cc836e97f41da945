----------------------------- MODULE FirFilter -----------------------------
(* fir_filter_fixed of main.c on one axis: 32-bit fixed-point arithmetic,    *)
(* one memory, two sets of coefficients chosen by the difficulty that a     *)
(* message may change between two samples.                                  *)
EXTENDS Integers, Sequences

CONSTANTS FIR_FILTER_COEFF_NUM,   \* taps (25)
          Width,                  \* bits of alt_32 (32)
          Fraction,               \* bits after the point, and of a float's fraction (23)
          easy, hard,             \* *_filter_coeff_float, as sequences
          Data                    \* the coordinates sampled

ASSUME FirAssumption ==
    /\ FIR_FILTER_COEFF_NUM \in Nat \ {0} /\ Width \in Nat \ {0}
    /\ Fraction \in Nat /\ Fraction + 1 < Width
    /\ \A coeff \in {easy, hard} :
           /\ Len(coeff) = FIR_FILTER_COEFF_NUM
           /\ coeff \in Seq([negative : BOOLEAN, exp : 1 - Width..0, fraction : 0..2^Fraction - 1])
    /\ Data \subseteq Int

VARIABLES filter,   \* 0 easy, 1 hard
          memory,   \* memory[1] is the C array's memory[0]
          average,  \* the last output
          past      \* history: the samples filtered, latest first, Taps of them

vars == <<filter, memory, average, past>>

Taps == 1..FIR_FILTER_COEFF_NUM

(* alt_32 arithmetic keeps the low Width bits, two's complement. *)
Wrap(v) == ((v + 2^(Width-1)) % 2^Width) - 2^(Width-1)

(* float_to_fixed23: the implicit 1 put back, the fraction shifted by the    *)
(* exponent, the sign applied last.  No coefficient of the program is zero or  *)
(* has an exponent of -Width or less, which the shift could not serve.         *)
float_to_fixed23(f) ==
    LET fixed == (2^Fraction + f.fraction) \div 2^(-f.exp)
    IN  Wrap(IF f.negative THEN -fixed ELSE fixed)

(* The accumulation loop. *)
Accumulate(coeff, m) ==
    LET acc[i \in {0} \cup Taps] == IF i = 0 THEN 0 ELSE Wrap(acc[i-1] + Wrap(coeff[i] * m[i]))
    IN  acc[FIR_FILTER_COEFF_NUM]

\* Mutant: the shift loop run from the last index down, as a delay line is.
ShiftDown(m) == [i \in Taps |-> IF i = 1 THEN m[1] ELSE m[i-1]]

(* The shift loop, in the order it runs: index 1 upwards. *)
Shift(m) ==
    LET after[i \in {0} \cup Taps] == IF i < 2 THEN m ELSE [after[i-1] EXCEPT ![i] = after[i-1][i-1]]
    IN  after[FIR_FILTER_COEFF_NUM]

Coefficients == LET coeff == IF filter = 0 THEN easy ELSE hard
                IN  [i \in Taps |-> float_to_fixed23(coeff[i])]

Init == /\ filter = 0 /\ average = 0
        /\ memory = [i \in Taps |-> 0] /\ past = [i \in Taps |-> 0]

fir_filter_fixed(data) ==
    LET m == [memory EXCEPT ![1] = data]
    IN  /\ average' = Accumulate(Coefficients, m)
        /\ memory' = Shift(m)
        /\ past' = [i \in Taps |-> IF i = 1 THEN data ELSE past[i-1]]
        /\ UNCHANGED filter

SetDifficulty(f) == filter' = f /\ UNCHANGED <<memory, average, past>>

Next == \/ \E data \in Data : fir_filter_fixed(data)
        \/ \E f \in {0, 1} : SetDifficulty(f)

Spec == Init /\ [][Next]_vars

---------------------------------------------------------------------------
(* What a filter of these coefficients makes of the last samples. *)
Convolution(coeff, x) ==
    LET sum[i \in {0} \cup Taps] == IF i = 0 THEN 0 ELSE sum[i-1] + coeff[i] * x[i]
    IN  Wrap(sum[FIR_FILTER_COEFF_NUM])

(* The output is the convolution of the last samples with the coefficients  *)
(* in force: a finite impulse response of as many taps as coefficients.     *)
IsFir == [][past' # past => average' = Convolution(Coefficients, past')]_vars

(* What the shift loop makes of it (main.c:145-147): the latest sample has  *)
(* its own coefficient and the one before it the sum of all the others,     *)
(* whichever difficulty either was filtered with; older samples count for   *)
(* nothing.  The 32-bit wrap-around of partial sums does not show.          *)
TwoTaps ==
    [][past' # past =>
         average' = Convolution(Coefficients,
                                [i \in Taps |-> IF i = 1 THEN past'[1] ELSE past'[2]])]_vars
---------------------------------------------------------------------------
(* The inductive invariant behind TwoTaps: the shift loop has left the latest *)
(* sample everywhere.                                                          *)
FirInv == past \in [Taps -> Int] /\ memory = [i \in Taps |-> past[1]] /\ filter \in {0, 1}
===========================================================================
