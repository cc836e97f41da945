----------------------------- MODULE TimeOfDay -----------------------------
(* settimeofday and gettimeofday (alt_settod.c, alt_gettod.c) on the tick    *)
(* counter: what is kept is the time at which the counter was zero.          *)
EXTENDS Integers

CONSTANTS ALT_US,           \* microseconds in a second
          Rates,            \* ticks in a second
          Seconds, Micros,  \* what main sets
          MaxNticks         \* bound on the tick counter

ASSUME TodAssumption == /\ ALT_US \in Nat \ {0} /\ Rates \subseteq 1..ALT_US
                        /\ Seconds \subseteq Nat /\ Micros \subseteq 0..ALT_US - 1
                        /\ MaxNticks \in Nat

VARIABLES alt_nticks, alt_ticks_per_second,
          alt_resettime,
          set            \* history: the time last set and the tick it was set at

todVars == <<alt_nticks, alt_ticks_per_second, alt_resettime, set>>

TodInit == /\ alt_nticks = 0 /\ alt_ticks_per_second \in Rates
           /\ alt_resettime = [tv_sec |-> 0, tv_usec |-> 0]
           /\ set = [tv_sec |-> 0, tv_usec |-> 0, at |-> 0]

(* The counter as both calls take it apart. *)
WholeSeconds == alt_nticks \div alt_ticks_per_second
Rest == (alt_nticks * (ALT_US \div alt_ticks_per_second)) % ALT_US

AlarmTick == /\ alt_nticks < MaxNticks /\ alt_nticks' = alt_nticks + 1
             /\ UNCHANGED <<alt_ticks_per_second, alt_resettime, set>>

ALT_SETTIMEOFDAY(sec, usec) ==
    /\ alt_resettime' = [tv_sec |-> sec - WholeSeconds, tv_usec |-> usec - Rest]
    /\ set' = [tv_sec |-> sec, tv_usec |-> usec, at |-> alt_nticks]
    /\ UNCHANGED <<alt_nticks, alt_ticks_per_second>>

(* The two loops that bring tv_usec into range; a time before zero is zero. *)
\* Mutant: nothing is borrowed from the seconds.
BorrowNothing(t) == IF t.tv_usec >= 0 THEN t ELSE [t EXCEPT !.tv_usec = @ + ALT_US]
Borrow(t) == IF t.tv_usec >= 0 THEN t
             ELSE IF t.tv_sec <= 0 THEN [tv_sec |-> 0, tv_usec |-> 0]
             ELSE [tv_sec |-> t.tv_sec - 1, tv_usec |-> t.tv_usec + ALT_US]
Carry(t) == IF t.tv_usec < ALT_US THEN t
            ELSE [tv_sec |-> t.tv_sec + 1, tv_usec |-> t.tv_usec - ALT_US]

ALT_GETTIMEOFDAY == Carry(Borrow([tv_sec  |-> alt_resettime.tv_sec + WholeSeconds,
                                  tv_usec |-> alt_resettime.tv_usec + Rest]))

TodNext == \/ AlarmTick
           \/ \E sec \in Seconds, usec \in Micros : ALT_SETTIMEOFDAY(sec, usec)

TodSpec == TodInit /\ [][TodNext]_todVars
---------------------------------------------------------------------------
Amount(t) == t.tv_sec * ALT_US + t.tv_usec

(* A call made at once gives back the time that was set (alt_settod.c:61),   *)
(* and at any time the microseconds are in range, one round of each loop      *)
(* being enough (alt_gettod.c:92-109).                                        *)
SetThenGet ==
    /\ ALT_GETTIMEOFDAY.tv_usec \in 0..ALT_US - 1
    /\ set.at = alt_nticks => Amount(ALT_GETTIMEOFDAY) = Amount(set)

(* The time runs with the ticks, exactly, where the rate divides a second, as *)
(* the 20000 of this board does; otherwise the seconds and the microseconds   *)
(* come from different roundings and the time may go back                     *)
(* (alt_gettod.c:88-90).                                                      *)
TimeIsExact ==
    ALT_US % alt_ticks_per_second = 0 =>
        (Amount(ALT_GETTIMEOFDAY) - Amount(set)) * alt_ticks_per_second
            = (alt_nticks - set.at) * ALT_US

(* The time is what was set, and what has passed since. *)
TodInv == SetThenGet /\ TimeIsExact

---------------------------------------------------------------------------
(* The inductive invariant behind TodInv: what is kept is the time last set,  *)
(* less what the counter stood at.                                            *)
TodIInv ==
    /\ alt_nticks \in Nat /\ alt_ticks_per_second \in Rates
    /\ set.tv_sec \in Nat /\ set.tv_usec \in 0..ALT_US - 1 /\ set.at \in 0..alt_nticks
    /\ alt_resettime =
          [tv_sec  |-> set.tv_sec - (set.at \div alt_ticks_per_second),
           tv_usec |-> set.tv_usec - ((set.at * (ALT_US \div alt_ticks_per_second)) % ALT_US)]
===========================================================================
