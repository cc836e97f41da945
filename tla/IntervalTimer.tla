--------------------------- MODULE IntervalTimer ---------------------------
(* The interval timer peripheral (nios2system_timer0.v, nios2system_timer1.v): *)
(* a 32-bit down counter of two halves.  One step is one edge of the clock,   *)
(* with the register access the processor makes in that cycle, if any; every  *)
(* register takes its next value from the old ones.                           *)
EXTENDS Integers

CONSTANT WORD   \* values of half of the counter (2^16)

ASSUME TimerAssumption == WORD \in Nat /\ WORD > 1

VARIABLES internal_counter,
          counter_is_running,
          force_reload,
          was_zero,           \* delayed_unxcounter_is_zeroxx0
          timeout_occurred,
          period_h_register, period_l_register,
          control_register,   \* the bits of it that last: ITO and CONT
          counter_snapshot

timerVars == <<internal_counter, counter_is_running, force_reload, was_zero,
               timeout_occurred, period_h_register, period_l_register,
               control_register, counter_snapshot>>

Half == 0..WORD - 1
FULL == WORD * WORD - 1

(* Register accesses; reading one changes nothing in the timer. *)
None       == [reg |-> "none"]
Status     == [reg |-> "status"]
Snap       == [reg |-> "snapl"]
Control(v) == [reg |-> "control", v |-> v]
PeriodL(v) == [reg |-> "periodl", v |-> v]
PeriodH(v) == [reg |-> "periodh", v |-> v]

Strobe(w, reg) == w.reg = reg
Bit(w, b) == Strobe(w, "control") /\ b \in w.v

TimerInit(l) ==
    /\ internal_counter = l /\ period_l_register = l /\ period_h_register = 0
    /\ counter_is_running = FALSE /\ force_reload = FALSE /\ was_zero = FALSE
    /\ timeout_occurred = FALSE /\ control_register = {} /\ counter_snapshot = 0

counter_is_zero == internal_counter = 0
counter_load_value == period_h_register * WORD + period_l_register
irq == timeout_occurred /\ "ITO" \in control_register

Countdown ==
    IF counter_is_zero \/ force_reload THEN counter_load_value ELSE internal_counter - 1

Edge(w) ==
    /\ internal_counter' =
         IF counter_is_running \/ force_reload THEN Countdown ELSE internal_counter
    /\ force_reload' = (Strobe(w, "periodh") \/ Strobe(w, "periodl"))
    /\ counter_is_running' =
         \/ Bit(w, "START")
         \/ /\ counter_is_running
            /\ ~Bit(w, "STOP") /\ ~force_reload
            /\ counter_is_zero => "CONT" \in control_register
    /\ was_zero' = counter_is_zero
    /\ timeout_occurred' = (/\ ~Strobe(w, "status")
                            /\ timeout_occurred \/ (counter_is_zero /\ ~was_zero))
    /\ period_l_register' = IF Strobe(w, "periodl") THEN w.v ELSE period_l_register
    /\ period_h_register' = IF Strobe(w, "periodh") THEN w.v ELSE period_h_register
    /\ control_register' =
         IF Strobe(w, "control") THEN w.v \cap {"ITO", "CONT"} ELSE control_register
    /\ counter_snapshot' = IF Strobe(w, "snapl") THEN internal_counter ELSE counter_snapshot

(* Every register has its width. *)
TimerTypeOK ==
    /\ internal_counter \in 0..FULL /\ counter_snapshot \in 0..FULL
    /\ period_l_register \in Half /\ period_h_register \in Half
    /\ counter_is_running \in BOOLEAN /\ force_reload \in BOOLEAN
    /\ was_zero \in BOOLEAN /\ timeout_occurred \in BOOLEAN
    /\ control_register \subseteq {"ITO", "CONT"}
===========================================================================
