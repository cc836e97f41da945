----------------------------- MODULE Timestamp -----------------------------
(* The timestamp driver (altera_avalon_timer_ts.c) on timer 1.  main starts  *)
(* the counter and reads it; an interrupt routine may read it too.  A        *)
(* reading latches the counter and then loads the two halves of the latch.   *)
EXTENDS IntervalTimer

VARIABLES pc,      \* where main is in the driver
          ipc,     \* where the interrupt routine is in alt_timestamp
          lower,   \* main's local
          age,     \* history: clocks since the counter was started
          taken,   \* history: the age at which the latch was written
          since    \* history: the age at which main wrote it

tsVars == <<timerVars, pc, ipc, lower, age, taken, since>>

NeverStarted == -1
Capped(n) == IF n > FULL + 2 THEN FULL + 2 ELSE n
Older == age' = IF age = NeverStarted THEN age ELSE Capped(age + 1)

TsInit(l) == /\ TimerInit(l)
             /\ pc = "idle" /\ ipc = "idle" /\ lower = 0
             /\ age = NeverStarted /\ taken = NeverStarted /\ since = NeverStarted

Low(n) == n % WORD
High(n) == n \div WORD

TsClock == Edge(None) /\ Older /\ UNCHANGED <<pc, ipc, lower, taken, since>>

Main(at) == ipc = "idle" /\ pc = at
Goto(to) == pc' = to /\ UNCHANGED <<ipc, lower, since>>

(* alt_timestamp_start, a register access at a time. *)
StopCounter == /\ Main("idle") /\ Goto("periodl")
               /\ Edge(Control({"STOP"}))
               /\ age' = NeverStarted /\ UNCHANGED taken

WritePeriodL == /\ Main("periodl") /\ Goto("periodh")
                /\ Edge(PeriodL(WORD - 1)) /\ UNCHANGED <<age, taken>>

WritePeriodH == /\ Main("periodh") /\ Goto("start")
                /\ Edge(PeriodH(WORD - 1)) /\ UNCHANGED <<age, taken>>

StartCounter == /\ Main("start") /\ Goto("idle")
                /\ Edge(Control({"START"}))
                /\ age' = 0 /\ taken' = NeverStarted

(* alt_timestamp, by main, in three accesses. *)
Latch == /\ Main("idle") /\ pc' = "lower"
         /\ Edge(Snap) /\ Older
         /\ taken' = age /\ since' = age
         /\ UNCHANGED <<ipc, lower>>

LoadLower == /\ Main("lower") /\ pc' = "upper"
             /\ lower' = Low(counter_snapshot)
             /\ Edge(None) /\ Older /\ UNCHANGED <<ipc, taken, since>>

\* Mutant: the count is returned as the device holds it, down from the period.
alt_timestampDown == High(counter_snapshot) * WORD + lower
(* What the loading of the upper half makes of it. *)
alt_timestamp == FULL - (High(counter_snapshot) * WORD + lower)

LoadUpper == /\ Main("upper") /\ pc' = "idle"
             /\ Edge(None) /\ Older /\ UNCHANGED <<ipc, lower, taken, since>>

(* The interrupt routine latches the counter for itself; what it loads after *)
(* that nobody can disturb.                                                   *)
IsrLatch == /\ ipc = "idle" /\ ipc' = "loads"
            /\ Edge(Snap) /\ Older /\ taken' = age
            /\ UNCHANGED <<pc, lower, since>>

IsrLoads == /\ ipc = "loads" /\ ipc' = "idle"
            /\ Edge(None) /\ Older /\ UNCHANGED <<pc, lower, taken, since>>

TsNext == \/ TsClock
          \/ StopCounter \/ WritePeriodL \/ WritePeriodH \/ StartCounter
          \/ Latch \/ LoadLower \/ LoadUpper
          \/ IsrLatch \/ IsrLoads

TsSpec == (\E l \in Half : TsInit(l)) /\ [][TsNext]_tsVars
---------------------------------------------------------------------------
TsTypeOK == /\ TimerTypeOK
            /\ pc \in {"idle", "periodl", "periodh", "start", "lower", "upper"}
            /\ ipc \in {"idle", "loads"} /\ lower \in Half
            /\ {age, taken, since} \subseteq NeverStarted..(FULL + 2)

(* What is latched counts the clocks since alt_timestamp_start, and zero     *)
(* once the full period has passed: the timer is not continuous, so that     *)
(* roll-over can be told (altera_avalon_timer_ts.c:60, :64-85).              *)
StampIsAge == taken >= 0 /\ age >= 0 =>
                  FULL - counter_snapshot = IF taken <= FULL THEN taken ELSE 0

(* What alt_timestamp returns was the time at some moment of the call,       *)
(* unless an interrupt routine latched the counter between the two loads     *)
(* and the upper half, or the period, had run out meanwhile                   *)
(* (altera_avalon_timer_ts.c:124-128).                                        *)
ReadWithinCall ==
    pc = "upper" /\ since >= 0 /\ age >= 0 /\ taken <= FULL =>
        \/ alt_timestamp \in since..taken
        \/ taken > since /\ High(FULL - since) # High(FULL - taken)

(* What is latched and what is returned, with the registers in their width. *)
TsInv == TsTypeOK /\ StampIsAge /\ ReadWithinCall
---------------------------------------------------------------------------
(* The inductive invariant behind them.                                       *)

(* While it is being started the counter stands still, and is loaded with the *)
(* full period before it is let go.                                            *)
StartInv ==
    /\ pc \in {"periodl", "periodh", "start"} => age = NeverStarted /\ ~counter_is_running
    /\ pc \in {"periodh", "start"} => period_l_register = WORD - 1
    /\ pc = "start" => /\ period_h_register = WORD - 1
                       /\ force_reload \/ internal_counter = FULL

(* Once started it counts the clocks down, one period and no more.            *)
CountInv ==
    age >= 0 => /\ ~force_reload /\ control_register = {}
                /\ counter_load_value = FULL
                /\ counter_is_running <=> age <= FULL
                /\ internal_counter = IF age <= FULL THEN FULL - age ELSE FULL

(* The lower half main holds is of a moment of its call.                      *)
CallInv ==
    age >= 0 => /\ taken <= age
                /\ pc \in {"lower", "upper"} => since <= taken
                /\ pc = "upper" /\ since >= 0 /\ taken <= FULL =>
                       \E n \in since..taken : lower = Low(FULL - n)

TsIInv == TsTypeOK /\ StampIsAge /\ StartInv /\ CountInv /\ CallInv
===========================================================================
