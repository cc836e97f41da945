--------------------------- MODULE TimerTakeover ---------------------------
(* The firmware on the JTAG UART driver.  alt_sys_init gives timer 0 to the *)
(* system clock, whose tick runs the driver's alarm; timer_init of main.c   *)
(* registers its sampling routine on the same interrupt, and from then on   *)
(* no tick, and so no alarm, runs.  main reads standard input without        *)
(* blocking and prints to standard output, blocking, on the same device.    *)
EXTENDS JtagUartDriver

VARIABLE timer0Isr   \* what alt_irq_register last put on TIMER0_IRQ

sysVars == <<vars, timer0Isr>>

SysInit == Init /\ timer0Isr = "alt_avalon_timer_sc_irq"

TimerInit ==
    /\ ipc = "idle" /\ timer0Isr = "alt_avalon_timer_sc_irq"
    /\ timer0Isr' = "get_accler_isr"
    /\ UNCHANGED vars

(* The alarm is run by alt_tick, which the system clock's routine calls. *)
Tick == timer0Isr = "alt_avalon_timer_sc_irq" /\ Timeout

(* What the main loop does, after timer_init: read() and alt_printf. *)
MainCalls == /\ timer0Isr = "get_accler_isr"
             /\ \/ \E s \in Spaces : ReadCall(s, TRUE)
                \/ \E m \in Messages : WriteCall(m, FALSE)

CpuStep == MainCalls \/ AppStep

SysNext ==
    \/ TimerInit
    \/ (Tick \/ CpuStep \/ IsrEnter \/ IsrStep \/ HostStep) /\ UNCHANGED timer0Isr

SysFairness ==
    /\ WF_sysVars(TimerInit)
    /\ SF_sysVars(Tick /\ UNCHANGED timer0Isr)
    /\ WF_sysVars(CpuStep /\ UNCHANGED timer0Isr)
    /\ SF_sysVars(IsrEnter /\ UNCHANGED timer0Isr)
    /\ WF_sysVars(IsrStep /\ UNCHANGED timer0Isr)

SysSpec == SysInit /\ [][SysNext]_sysVars /\ SysFairness

(* No host: the same program, nothing on the JTAG side. *)
NoHostNext ==
    \/ TimerInit
    \/ (Tick \/ CpuStep \/ IsrEnter \/ IsrStep) /\ UNCHANGED timer0Isr
NoHostSpec == SysInit /\ [][NoHostNext]_sysVars /\ SysFairness

---------------------------------------------------------------------------
(* With no host the alarm counts the seconds up to the timeout, as it is    *)
(* registered to (init.c:88).                                               *)
AbsenceNoticed == <>(host_inactive >= timeout)
===========================================================================
