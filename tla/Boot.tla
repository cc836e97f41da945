-------------------------------- MODULE Boot --------------------------------
(* From reset to main and after it: crt0.S, alt_load.c, alt_main.c,           *)
(* alt_sys_init.c, alt_exit.c.  The memory is RAM and keeps its contents over  *)
(* a reset, which may strike at any moment; the only pristine copy of the      *)
(* initialised data is the one alt_load copies from.                          *)
EXTENDS Integers, Sequences, SequencesExt

CONSTANTS Devices,   \* what can interrupt: timer0 and jtag_uart
          Words      \* further words of .rwdata and of .bss, which the program writes

ASSUME BootAssumption == /\ {"timer0", "jtag_uart"} \subseteq Devices
                         /\ IsFiniteSet(Devices) /\ IsFiniteSet(Words)

VARIABLES step, pointer,   \* the step of the start-up, and the pointer of its loops
          rwdata,    \* the initialised data: "initial" or "changed"
          bss,       \* the rest: "zero" or "set"
          PIE, ienable

bootVars == <<step, pointer, rwdata, bss, PIE, ienable>>

(* The variables the start-up itself depends on, and the program's. *)
Rwdata == SetToSeq({"alt_alarm_list", "alt_dev_list", "jtag_uart.timeout"} \cup Words)
Bss == SetToSeq(Devices \cup {"_alt_tick_rate"} \cup Words)    \* alt_irq[s].handler is called s

(* Power-up: the program was loaded over whatever the memory held. *)
BootInit == /\ step = "__reset" /\ pointer = 1 /\ PIE = FALSE /\ ienable = {}
            /\ rwdata = [w \in ToSet(Rwdata) |-> "changed"]
            /\ bss = [w \in ToSet(Bss) |-> "set"]

(* A reset of the processor: interrupts off, the memory as it is. *)
Restart == /\ step # "__reset" /\ step' = "__reset" /\ pointer' = 1 /\ PIE' = FALSE /\ ienable' = {}
           /\ UNCHANGED <<rwdata, bss>>

Step(from, to) == step = from /\ step' = to
LoopStep(from, to, last) ==
    /\ step = from
    /\ IF pointer = last THEN step' = to /\ pointer' = 1
                         ELSE step' = from /\ pointer' = pointer + 1

(* __reset jumps to _start, which sets sp and gp: registers only. *)
__reset == Step("__reset", "bss") /\ UNCHANGED <<pointer, rwdata, bss, PIE, ienable>>

\* Mutant: the loop stops before the last word.
ClearBssShort == /\ LoopStep("bss", "alt_load", Len(Bss))
                 /\ bss' = IF pointer = Len(Bss) THEN bss ELSE [bss EXCEPT ![Bss[pointer]] = "zero"]
                 /\ UNCHANGED <<rwdata, PIE, ienable>>
ClearBss == /\ LoopStep("bss", "alt_load", Len(Bss))
            /\ bss' = [bss EXCEPT ![Bss[pointer]] = "zero"]
            /\ UNCHANGED <<rwdata, PIE, ienable>>

(* alt_load: .rwdata is copied from its load address; .exceptions and .rodata *)
(* are linked where they are loaded, and left.                                *)
alt_load_section == /\ LoopStep("alt_load", "alt_irq_init", Len(Rwdata))
                    /\ rwdata' = [rwdata EXCEPT ![Rwdata[pointer]] = "initial"]
                    /\ UNCHANGED <<bss, PIE, ienable>>

altera_nios2_gen2_irq_init == Step("alt_irq_init", "cpu_enable") /\ ienable' = {}
                              /\ UNCHANGED <<pointer, rwdata, bss, PIE>>
alt_irq_cpu_enable_interrupts == Step("cpu_enable", "timer0_rate") /\ PIE' = TRUE
                                 /\ UNCHANGED <<pointer, rwdata, bss, ienable>>

(* alt_irq_register, with interrupts off inside. *)
alt_irq_register(s) == bss' = [bss EXCEPT ![s] = "set"] /\ ienable' = ienable \cup {s}
                       /\ UNCHANGED <<pointer, rwdata, PIE>>

alt_sysclk_init == bss' = IF bss["_alt_tick_rate"] = "zero" THEN [bss EXCEPT !["_alt_tick_rate"] = "set"] ELSE bss

(* alt_sys_init. *)
alt_avalon_timer_sc_init ==
    \/ Step("timer0_rate", "timer0_irq") /\ alt_sysclk_init /\ UNCHANGED <<pointer, rwdata, PIE, ienable>>
    \/ Step("timer0_irq", "jtag_uart") /\ alt_irq_register("timer0")

(* alt_alarm_start refuses while no system clock is known. *)
altera_avalon_jtag_uart_init ==
    \/ Step("jtag_uart", "jtag_uart_alarm") /\ alt_irq_register("jtag_uart")
    \/ /\ Step("jtag_uart_alarm", "dev_reg")
       /\ rwdata' = [rwdata EXCEPT ![IF bss["_alt_tick_rate"] = "zero" THEN "jtag_uart.timeout"
                                                                  ELSE "alt_alarm_list"] = "changed"]
       /\ UNCHANGED <<pointer, bss, PIE, ienable>>

(* The device lists, the redirection (FileDescriptors) and the constructors. *)
alt_dev_reg == /\ Step("dev_reg", "main") /\ rwdata' = [rwdata EXCEPT !["alt_dev_list"] = "changed"]
               /\ UNCHANGED <<pointer, bss, PIE, ienable>>

(* main changes what it likes, and may return: alt_main then closes and       *)
(* exits, which spins with interrupts on.                                     *)
program ==
    /\ step = "main"
    /\ \/ \E w \in ToSet(Rwdata) : rwdata' = [rwdata EXCEPT ![w] = "changed"] /\ UNCHANGED <<step, bss>>
       \/ \E w \in Words : bss' = [bss EXCEPT ![w] = "set"] /\ UNCHANGED <<step, rwdata>>
       \/ step' = "exit" /\ UNCHANGED <<rwdata, bss>>
    /\ UNCHANGED <<pointer, PIE, ienable>>

(* An interrupt, of a device in any state: its routine runs the alarms and    *)
(* changes the drivers' data.                                                 *)
Irq(s) == /\ PIE /\ s \in ienable
          /\ \E w \in Words : rwdata' = [rwdata EXCEPT ![w] = "changed"]
          /\ UNCHANGED <<step, pointer, bss, PIE, ienable>>

BootNext == \/ __reset \/ ClearBss \/ alt_load_section
            \/ altera_nios2_gen2_irq_init \/ alt_irq_cpu_enable_interrupts
            \/ alt_avalon_timer_sc_init \/ altera_avalon_jtag_uart_init \/ alt_dev_reg
            \/ program \/ (\E s \in Devices : Irq(s)) \/ Restart

BootSpec == BootInit /\ [][BootNext]_bootVars
---------------------------------------------------------------------------
(* Wherever a reset struck, C code starts on initial data and a clear .bss:   *)
(* no alarm, device or handler of the life before is left (crt0.S:434-451,    *)
(* alt_load.c:67-99).                                                         *)
FreshStart == step = "alt_irq_init" => /\ \A w \in DOMAIN rwdata : rwdata[w] = "initial"
                                       /\ \A w \in DOMAIN bss : bss[w] = "zero"

(* The driver's alarm finds a clock: no start-up leaves the driver without    *)
(* its check for a host (altera_avalon_jtag_uart_init.c:89-95).               *)
AlarmStarted == step = "dev_reg" => rwdata["alt_alarm_list"] = "changed"

(* The start-up does not depend on what was before the reset. *)
BootInv == FreshStart /\ AlarmStarted

---------------------------------------------------------------------------
(* The inductive invariant: what the steps before have done.                  *)

BootTypes == /\ rwdata \in [ToSet(Rwdata) -> {"initial", "changed"}]
             /\ bss \in [ToSet(Bss) -> {"zero", "set"}]
             /\ PIE \in BOOLEAN

(* Nothing interrupts until the dispatcher is set up. *)
NoneInterrupts ==
    step \in {"__reset", "bss", "alt_load", "alt_irq_init", "cpu_enable"} => PIE = FALSE

(* A loop has done the words before its pointer, and the loops before all. *)
LoopsDone ==
    /\ step \notin {"bss", "alt_load"} => pointer = 1
    /\ step = "bss" => /\ pointer \in 1..Len(Bss)
                       /\ \A i \in 1..pointer-1 : bss[Bss[i]] = "zero"
    /\ step = "alt_load" => /\ pointer \in 1..Len(Rwdata)
                            /\ \A w \in DOMAIN bss : bss[w] = "zero"
                            /\ \A i \in 1..pointer-1 : rwdata[Rwdata[i]] = "initial"

ClockKnown ==
    step \in {"timer0_irq", "jtag_uart", "jtag_uart_alarm"} => bss["_alt_tick_rate"] = "set"

BootIInv == BootTypes /\ NoneInterrupts /\ LoopsDone /\ ClockKnown /\ FreshStart /\ AlarmStarted
===========================================================================
