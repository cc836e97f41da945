----------------------------- MODULE MCServices -----------------------------
(* The parts beside the channel, the descriptors and the interrupts, checked  *)
(* in one run: a behaviour is one of a single part, which part says, and the  *)
(* state of the others stays as it began.                                     *)
EXTENDS Timestamp, Sampling, TimeOfDay, Heap, MCFirFilter, MCSampleLine,
        MCExceptions, Profiler, Boot

VARIABLE part

timestamp == <<pc, ipc, lower, age, taken, since>>
sampling  == <<device, main, isr, handler, triple, filtered>>

Parts == {"timestamp", "sampling", "time of day", "heap", "filter", "line",
          "exceptions", "profiler", "boot"}

partVars == <<timerVars, timestamp, sampling, todVars, heapVars, vars, lineVars,
              excVars, profVars, bootVars, part>>

(* The situation is free only where exceptions are the part looked at, the    *)
(* rate of the tick only where time is.                                       *)
PartInit == /\ TsInit(Reset) /\ SaInit /\ TodInit /\ HeapInit /\ Init /\ LineInit
            /\ ExcInit /\ ProfInit /\ BootInit
            /\ part \in Parts
            /\ part # "exceptions" => inst.op = "trap" /\ linked = {}
            /\ part # "time of day" => alt_ticks_per_second = 2

Except(p, others) == part = p /\ UNCHANGED <<others, part>>

PartNext ==
    \/ /\ Except("timestamp", <<sampling, todVars, heapVars, vars, lineVars, excVars, profVars, bootVars>>)
       /\ TsNext
    \/ /\ Except("sampling", <<timestamp, todVars, heapVars, vars, lineVars, excVars, profVars, bootVars>>)
       /\ SaNext
    \/ /\ Except("time of day", <<timerVars, timestamp, sampling, heapVars, vars, lineVars, excVars, profVars, bootVars>>)
       /\ TodNext
    \/ /\ Except("heap", <<timerVars, timestamp, sampling, todVars, vars, lineVars, excVars, profVars, bootVars>>)
       /\ HeapNext
    \/ /\ Except("filter", <<timerVars, timestamp, sampling, todVars, heapVars, lineVars, excVars, profVars, bootVars>>)
       /\ Next
    \/ /\ Except("line", <<timerVars, timestamp, sampling, todVars, heapVars, vars, excVars, profVars, bootVars>>)
       /\ LineNext
    \/ /\ Except("exceptions", <<timerVars, timestamp, sampling, todVars, heapVars, vars, lineVars, profVars, bootVars>>)
       /\ ExcNext
    \/ /\ Except("profiler", <<timerVars, timestamp, sampling, todVars, heapVars, vars, lineVars, excVars, bootVars>>)
       /\ ProfNext
    \/ /\ Except("boot", <<timerVars, timestamp, sampling, todVars, heapVars, vars, lineVars, excVars, profVars>>)
       /\ BootNext

PartSpec == /\ PartInit /\ [][PartNext]_partVars
            /\ WF_saVars(part = "sampling" /\ SaClock) /\ WF_saVars(Isr)
===========================================================================
