---------------------------- MODULE SystemClock ----------------------------
(* The system clock of the HAL: the tick counter and the list of alarms     *)
(* (alt_tick.c, alt_alarm_start.c, alt_llist.h), driven by the interrupt     *)
(* routine of the timer (altera_avalon_timer_sc.c).  The routine runs with   *)
(* interrupts off, so main only moves between two ticks; an alarm's callback *)
(* runs inside the walk over the list and may start and stop alarms itself.  *)
EXTENDS Integers, FiniteSets

CONSTANTS
    Alarm,       \* alarm structures
    alt_alarm_list, None,
    Delay,       \* ticks asked of alt_alarm_start
    Period,      \* what a callback may return
    WORD,        \* values of half of the 64-bit tick counter
    MaxTicks     \* bound of the instance on the tick counter

Node == Alarm \cup {alt_alarm_list}

ASSUME ClockAssumption ==
    /\ alt_alarm_list \notin Alarm /\ None \notin Node
    /\ Delay \subseteq Nat /\ Period \subseteq Nat
    /\ WORD \in Nat \ {0} /\ MaxTicks \in Nat

VARIABLES
    next, prev,      \* the links of each node; None until first started
    time,            \* the tick each alarm is due at
    nticks,
    tick_rate,  \* 0 until alt_sysclk_init
    walk,            \* alt_tick: where it is, the alarm and the saved next
    half,            \* main in the middle of reading the tick counter
    listed,          \* history: alarms started and not stopped
    polite           \* whether callbacks stop no alarm but their own

links == <<next, prev>>
clockVars == <<next, prev, time, nticks, tick_rate, walk, half, listed, polite>>

Idle == [at |-> "idle", alarm |-> None, next |-> None]
Whole == [at |-> "none", first |-> 0, since |-> 0]

Init ==
    /\ next = [n \in Node |-> IF n = alt_alarm_list THEN n ELSE None]
    /\ prev = next
    /\ time = [a \in Alarm |-> 0]
    /\ nticks = 0 /\ tick_rate = 0
    /\ walk = Idle /\ half = Whole
    /\ listed = {} /\ polite \in BOOLEAN
---------------------------------------------------------------------------
(* alt_llist.h: insertion at the head; a removed entry points to itself. *)

alt_llist_insert(e) ==
    /\ next' = [next EXCEPT ![e] = next[alt_alarm_list], ![alt_alarm_list] = e]
    /\ prev' = [prev EXCEPT ![e] = alt_alarm_list, ![next[alt_alarm_list]] = e]
    /\ listed' = listed \cup {e}

alt_llist_remove(e) ==
    /\ next' = [next EXCEPT ![prev[e]] = next[e], ![e] = e]
    /\ prev' = [prev EXCEPT ![next[e]] = prev[e], ![e] = e]
    /\ listed' = listed \ {e}

\* Mutant: the tick under way counts as a whole one.
DueNow(n) == n + nticks
Due(n) == n + nticks + 1

(* alt_alarm_start; a started alarm is not started again, as its entry    *)
(* would be linked twice.                                                  *)
alt_alarm_start(a, n) ==
    /\ a \notin listed
    /\ IF tick_rate = 0
       THEN UNCHANGED <<time, links, listed>>
       ELSE /\ time' = [time EXCEPT ![a] = Due(n)]
            /\ alt_llist_insert(a)
    /\ UNCHANGED <<nticks, tick_rate, polite>>

(* alt_alarm_stop, of an alarm that has been started at some time. *)
alt_alarm_stop(a) == next[a] # None /\ alt_llist_remove(a)
---------------------------------------------------------------------------
(* main, while no tick is processed. *)

Main == walk = Idle

alt_avalon_timer_sc_init ==
    /\ Main /\ tick_rate = 0
    /\ tick_rate' = 1
    /\ UNCHANGED <<links, time, nticks, walk, half, listed, polite>>

MainStarts(a, n) == Main /\ alt_alarm_start(a, n) /\ UNCHANGED <<walk, half>>

MainStops(a) == /\ Main /\ alt_alarm_stop(a)
                /\ UNCHANGED <<time, nticks, tick_rate, walk, half, polite>>

(* alt_nticks: two loads, in the order the compiler chose, interruptible. *)
Low(n) == n % WORD
High(n) == n \div WORD

ReadHalf(which) ==
    /\ Main /\ half.at = "none"
    /\ half' = [at |-> which, since |-> nticks,
                first |-> IF which = "low" THEN Low(nticks) ELSE High(nticks)]
    /\ UNCHANGED <<links, time, nticks, tick_rate, walk, listed, polite>>

\* Mutant: the halves are put together the wrong way round.
ReadSwapped == IF half.at = "low" THEN half.first * WORD + High(nticks)
                                  ELSE Low(nticks) * WORD + half.first
Read == IF half.at = "low" THEN High(nticks) * WORD + half.first
                           ELSE half.first * WORD + Low(nticks)

ReadRest == /\ Main /\ half.at # "none" /\ half' = Whole
            /\ UNCHANGED <<links, time, nticks, tick_rate, walk, listed, polite>>
---------------------------------------------------------------------------
(* alt_avalon_timer_sc_irq and alt_tick. *)

Tick == /\ Main /\ tick_rate # 0 /\ nticks < MaxTicks
        /\ nticks' = nticks + 1
        /\ walk' = [at |-> "alarm", alarm |-> next[alt_alarm_list], next |-> None]
        /\ UNCHANGED <<links, time, tick_rate, half, listed, polite>>

TickDone == /\ walk.at = "alarm" /\ walk.alarm = alt_alarm_list
            /\ walk' = Idle
            /\ UNCHANGED <<links, time, nticks, tick_rate, half, listed, polite>>

(* The next alarm is fetched before the callback is made. *)
Visit == /\ walk.at = "alarm" /\ walk.alarm # alt_alarm_list
         /\ LET a == walk.alarm
            IN walk' = IF time[a] <= nticks
                       THEN [at |-> "callback", alarm |-> a, next |-> next[a]]
                       ELSE [at |-> "alarm", alarm |-> next[a], next |-> None]
         /\ UNCHANGED <<links, time, nticks, tick_rate, half, listed, polite>>

\* Mutant: the next alarm is fetched after the callback.
CallbackReturnsStale(n) ==
    /\ walk.at = "callback"
    /\ IF n = 0
       THEN alt_llist_remove(walk.alarm) /\ UNCHANGED time
       ELSE time' = [time EXCEPT ![walk.alarm] = @ + n] /\ UNCHANGED <<links, listed>>
    /\ walk' = [at |-> "alarm", alarm |-> next'[walk.alarm], next |-> None]
    /\ UNCHANGED <<nticks, tick_rate, half, polite>>
CallbackReturns(n) ==
    /\ walk.at = "callback"
    /\ IF n = 0
       THEN alt_llist_remove(walk.alarm) /\ UNCHANGED time
       ELSE time' = [time EXCEPT ![walk.alarm] = @ + n] /\ UNCHANGED <<links, listed>>
    /\ walk' = [at |-> "alarm", alarm |-> walk.next, next |-> None]
    /\ UNCHANGED <<nticks, tick_rate, half, polite>>

(* What a callback may call before it returns. *)
CallbackStarts(a, n) == walk.at = "callback" /\ alt_alarm_start(a, n) /\ UNCHANGED <<walk, half>>

CallbackStops(a) == /\ walk.at = "callback" /\ (polite => a = walk.alarm)
                    /\ alt_alarm_stop(a)
                    /\ UNCHANGED <<time, nticks, tick_rate, walk, half, polite>>

Routine == TickDone \/ Visit \/ \E n \in Period : CallbackReturns(n)

Next ==
    \/ alt_avalon_timer_sc_init \/ Tick \/ Routine
    \/ \E a \in Alarm : \/ MainStops(a) \/ CallbackStops(a)
                        \/ \E n \in Delay : MainStarts(a, n) \/ CallbackStarts(a, n)
    \/ \E which \in {"low", "high"} : ReadHalf(which)
    \/ ReadRest

Spec == Init /\ [][Next]_clockVars

(* The routine runs to its end once it has begun: interrupts are off. *)
FairSpec == Spec /\ WF_clockVars(Routine)
---------------------------------------------------------------------------
TypeOK ==
    /\ next \in [Node -> Node \cup {None}] /\ prev \in [Node -> Node \cup {None}]
    /\ time \in [Alarm -> Nat]
    /\ nticks \in Nat /\ tick_rate \in {0, 1}
    /\ walk \in [at : {"idle", "alarm", "callback"}, alarm : Node \cup {None}, next : Node \cup {None}]
    /\ half \in [at : {"none", "low", "high"}, first : Nat, since : Nat]
    /\ listed \subseteq Alarm /\ polite \in BOOLEAN

(* The links stay a ring whatever is started and stopped, twice or from a    *)
(* callback, and an alarm off the list is linked to itself, which is what     *)
(* makes a second alt_alarm_stop harmless (alt_llist.h:110).                  *)
LinksMatch ==
    /\ \A n \in Node : next[n] # None => next[n] \in Node /\ prev[next[n]] = n
    /\ \A n \in Node : prev[n] # None => prev[n] \in Node /\ next[prev[n]] = n
    /\ \A a \in Alarm : next[a] = None <=> prev[a] = None
    /\ next[alt_alarm_list] # None /\ prev[alt_alarm_list] # None

(* Beside the ring: who is linked at all, and where the walk may stand. *)
LinkedOK ==
    /\ \A a \in listed : next[a] # None
    /\ \A a \in Alarm \ listed : next[a] \in {None, a}
    /\ walk.at = "alarm" => walk.alarm \in Node /\ next[walk.alarm] # None
    /\ walk.at = "callback" => /\ walk.alarm \in Alarm /\ next[walk.alarm] # None
                              /\ walk.next \in Node /\ next[walk.next] # None

(* Alarm a is met by following the links from x on, up to the head: it is in *)
(* every set of nodes that holds x and, with each node but the head, the next. *)
Ahead(x, a) ==
    \A S \in SUBSET Node :
        x \in S /\ (\A m \in S \ {alt_alarm_list} : next[m] \in S) => a \in S

Met == {a \in Alarm : Ahead(next[alt_alarm_list], a)}

(* The walk of alt_tick meets exactly the alarms that were started and not  *)
(* stopped (alt_tick.c:87-121).                                             *)
ListIsListed == Met = listed

(* Between ticks no alarm is overdue: every tick serves each alarm due,      *)
(* although callbacks insert and remove alarms while the list is walked      *)
(* (alt_tick.c:102-120, alt_alarm_start.c:84).                               *)
NeverOverdue == Main => \A a \in listed : time[a] > nticks

(* The list is a ring of the started alarms, and none of them is overdue. *)
ClockInv == TypeOK /\ LinksMatch /\ ListIsListed /\ NeverOverdue

(* Reading the 64-bit counter gives a time within the read, unless the low   *)
(* word wrapped around meanwhile (alt_alarm.h:110).                           *)
TornOnlyAtWrap ==
    half.at # "none" =>
        \/ Read \in half.since..nticks
        \/ High(half.since) # High(nticks)

(* The walk stands on an entry that was taken off the list by another       *)
(* alarm's callback after alt_tick had saved it as the next one.              *)
OffTheList == walk.at # "idle" /\ walk.alarm \notin listed \cup {alt_alarm_list}

(* Every tick ends, unless a callback stopped the alarm that follows its own *)
(* (alt_tick.c:102): then the walk goes round on that entry for ever.         *)
TicksEnd == walk.at # "idle" ~> (walk.at = "idle" \/ (~polite /\ OffTheList))
---------------------------------------------------------------------------
(* The inductive invariant, beside LinksMatch and LinkedOK.                   *)

(* What main holds of the counter is a half of what it read then.             *)
HalfRead ==
    half.at # "none" =>
        /\ half.since <= nticks
        /\ half.first = IF half.at = "low" THEN Low(half.since) ELSE High(half.since)

AllAhead == \A a \in listed : Ahead(next[alt_alarm_list], a)

(* An alarm that is due is ahead of the walk, or being served, unless the     *)
(* walk stands on an entry off the list and so never ends.                    *)
DueAhead ==
    /\ \A a \in listed : time[a] >= nticks
    /\ walk.at = "idle" => walk = Idle /\ \A a \in listed : time[a] > nticks
    /\ walk.at = "alarm" =>
          \A a \in listed : \/ time[a] > nticks \/ Ahead(walk.alarm, a)
                            \/ walk.alarm \in Alarm \ listed
    /\ walk.at = "callback" =>
          \A a \in listed : \/ time[a] > nticks \/ a = walk.alarm \/ Ahead(walk.next, a)
                            \/ walk.next \in Alarm \ listed

ClockIInv == TypeOK /\ LinksMatch /\ LinkedOK /\ AllAhead /\ DueAhead /\ HalfRead
===========================================================================
