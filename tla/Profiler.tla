------------------------------ MODULE Profiler ------------------------------
(* The call graph profiler: mcount (alt_mcount.S), called at the start of     *)
(* every instrumented function, and __mcount_record (alt_gmon.c), in one      *)
(* bucket of the hash.  An interrupt routine, instrumented as well, may run   *)
(* between any two steps of the program's mcount.  Records are only ever      *)
(* added, at the head of their list: they are numbered in the order of their   *)
(* making, and the next in a list is the last one made before.                *)
EXTENDS Integers, Sequences, FiniteSetsExt

CONSTANTS Selves,     \* functions of the bucket: self_pc
          Sites,      \* where they are called from: from_pc
          MaxMcounts  \* bound on the calls

ASSUME ProfilerAssumption == Selves # {} /\ Sites # {} /\ MaxMcounts \in Nat

VARIABLES fns,      \* the list of mcount_fn_entry: self_pc of each
          arcs,     \* the lists of mcount_fn_arc: entry, from_pc and count of each
          cpu,      \* registers of the program and of the interrupt routine
          running,  \* who runs
          calls,    \* history: the calls completed
          lost      \* history: those counted into a count about to be overwritten

profVars == <<fns, arcs, cpu, running, calls, lost>>

NULL == 0
Idle == [pc |-> "idle", self |-> NULL, from |-> NULL, fn |-> NULL, arc |-> NULL, r2 |-> 0]

ProfInit == /\ fns = <<>> /\ arcs = <<>> /\ running = "main"
            /\ cpu = [c \in {"main", "isr"} |-> Idle]
            /\ calls = [a \in Selves \X Sites |-> 0] /\ lost = calls

Latest(S) == IF S = {} THEN NULL ELSE Max(S)
ArcsOf(fn) == {i \in DOMAIN arcs : arcs[i].fn = fn}

At(p) == cpu[running].pc = p
GoOn(p, changes) == cpu' = [cpu EXCEPT ![running] = [changes EXCEPT !.pc = p]]
This == cpu[running]
Return == /\ cpu' = [cpu EXCEPT ![running] = Idle]
          /\ calls' = [calls EXCEPT ![<<This.self, This.from>>] = @ + 1]

Under == {c \in {"main", "isr"} : cpu[c] # Idle}
Total(f) == FoldSet(LAMBDA a, n : n + f[a], 0, DOMAIN f)

mcount(self, from) ==
    /\ At("idle") /\ Total(calls) + Cardinality(Under) < MaxMcounts
    /\ GoOn("function", [This EXCEPT !.self = self, !.from = from, !.fn = Len(fns)])
    /\ UNCHANGED <<fns, arcs, running, calls, lost>>

FindFunction ==
    /\ At("function")
    /\ IF This.fn = NULL THEN GoOn("record", This)
       ELSE IF fns[This.fn] = This.self
       THEN GoOn("arc", [This EXCEPT !.arc = Latest(ArcsOf(This.fn))])
       ELSE GoOn("function", [This EXCEPT !.fn = @ - 1])
    /\ UNCHANGED <<fns, arcs, running, calls, lost>>

NextArc == Latest({i \in ArcsOf(This.fn) : i < This.arc})

\* Mutant: an arc that is not found is taken for a function that is not found.
FindArcForgetFunction ==
    /\ At("arc")
    /\ IF arcs[This.arc].from = This.from THEN GoOn("load", This)
       ELSE IF NextArc = NULL THEN GoOn("record", [This EXCEPT !.fn = NULL])
       ELSE GoOn("arc", [This EXCEPT !.arc = NextArc])
    /\ UNCHANGED <<fns, arcs, running, calls, lost>>

FindArc ==
    /\ At("arc")
    /\ IF arcs[This.arc].from = This.from THEN GoOn("load", This)
       ELSE IF NextArc = NULL THEN GoOn("record", This)
       ELSE GoOn("arc", [This EXCEPT !.arc = NextArc])
    /\ UNCHANGED <<fns, arcs, running, calls, lost>>

(* The count is loaded, incremented and stored with interrupts on. *)
Load == /\ At("load") /\ GoOn("store", [This EXCEPT !.r2 = arcs[This.arc].count])
        /\ UNCHANGED <<fns, arcs, running, calls, lost>>

Overtaken == running = "isr" /\ cpu["main"].pc = "store" /\ cpu["main"].arc = This.arc

Store == /\ At("store") /\ Return
         /\ arcs' = [arcs EXCEPT ![This.arc].count = This.r2 + 1]
         /\ lost' = IF Overtaken THEN [lost EXCEPT ![<<This.self, This.from>>] = @ + 1] ELSE lost
         /\ UNCHANGED <<fns, running>>

(* With interrupts off: an entry for the function where none was found, and  *)
(* an arc.                                                                    *)
__mcount_record ==
    /\ At("record") /\ Return
    /\ LET fn == IF This.fn = NULL THEN Len(fns) + 1 ELSE This.fn
       IN  /\ fns' = IF This.fn = NULL THEN Append(fns, This.self) ELSE fns
           /\ arcs' = Append(arcs, [fn |-> fn, from |-> This.from, count |-> 1])
    /\ UNCHANGED <<running, lost>>

Interrupt == /\ running = "main" /\ running' = "isr" /\ UNCHANGED <<fns, arcs, cpu, calls, lost>>
Eret == /\ running = "isr" /\ At("idle") /\ running' = "main"
        /\ UNCHANGED <<fns, arcs, cpu, calls, lost>>

ProfNext == \/ \E self \in Selves, from \in Sites : mcount(self, from)
            \/ FindFunction \/ FindArc \/ Load \/ Store \/ __mcount_record
            \/ Interrupt \/ Eret

ProfSpec == ProfInit /\ [][ProfNext]_profVars
---------------------------------------------------------------------------
Copies(a) == {i \in DOMAIN arcs : fns[arcs[i].fn] = a[1] /\ arcs[i].from = a[2]}

(* However the two interleave, a function has at most two entries and an      *)
(* entry at most two records of one call site, and no entry is without a       *)
(* record, which the search relies on (alt_gmon.c:176-180, alt_mcount.S:77).   *)
CopiesBounded ==
    /\ \A f \in Selves : Cardinality({i \in DOMAIN fns : fns[i] = f}) <= 2
    /\ \A i \in DOMAIN fns, from \in Sites :
           /\ ArcsOf(i) # {}
           /\ Cardinality({j \in ArcsOf(i) : arcs[j].from = from}) <= 2

SumOf(n, f) == LET sum[i \in 0..n] == IF i = 0 THEN 0 ELSE sum[i-1] + f[i] IN sum[n]
CountsOf(a) == [i \in DOMAIN arcs |-> IF i \in Copies(a) THEN arcs[i].count ELSE 0]
Counted(a) == SumOf(Len(arcs), CountsOf(a))

(* The copies of an arc together count its calls: the only ones missed are   *)
(* those an interrupt routine made between the program's load and store of    *)
(* the same count (alt_mcount.S:118-123).                                     *)
CallsCounted ==
    \A a \in Selves \X Sites :
        /\ Counted(a) <= calls[a] /\ calls[a] <= Counted(a) + lost[a]
        /\ calls[a] > 0 => Counted(a) > 0

(* The call graph is complete: few copies, and together the calls. *)
ProfInv == CopiesBounded /\ CallsCounted
---------------------------------------------------------------------------
(* The inductive invariant behind ProfInv.                                    *)

Context == {"main", "isr"}
CpuState == [pc : {"idle", "function", "arc", "record", "load", "store"},
             self : Selves \cup {NULL}, from : Sites \cup {NULL},
             fn : Nat, arc : Nat, r2 : Nat]

ProfTypeOK ==
    /\ fns \in Seq(Selves)
    /\ arcs \in Seq([fn : Nat, from : Sites, count : Nat \ {0}])
    /\ \A j \in DOMAIN arcs : arcs[j].fn \in DOMAIN fns
    /\ cpu \in [Context -> CpuState] /\ running \in Context
    /\ calls \in [Selves \X Sites -> Nat] /\ lost \in [Selves \X Sites -> Nat]

(* A function still to be found, or not there; one that was found. *)
FnSought(w) == w.pc = "function" \/ (w.pc = "record" /\ w.fn = NULL)
FnFound(w) == w.pc \in {"arc", "load", "store"} \/ (w.pc = "record" /\ w.fn # NULL)

(* What the registers point to. *)
Found(w) ==
    /\ w.pc = "idle" => w = Idle
    /\ w.pc # "idle" => w.self \in Selves /\ w.from \in Sites
    /\ w.pc = "function" => w.fn \in 0..Len(fns)
    /\ FnFound(w) => w.fn \in DOMAIN fns /\ fns[w.fn] = w.self
    /\ w.pc \in {"arc", "load", "store"} => w.arc \in ArcsOf(w.fn)
    /\ w.pc \in {"load", "store"} => arcs[w.arc].from = w.from

(* What a search has gone past, or not seen because it was added behind it. *)
MissedFns(w) == {i \in DOMAIN fns : FnSought(w) /\ w.fn < i /\ fns[i] = w.self}
MissedArcs(w) == {j \in ArcsOf(w.fn) : /\ (w.pc = "arc" /\ w.arc < j) \/ (w.pc = "record" /\ w.fn # NULL)
                                       /\ arcs[j].from = w.from}

AtMostOne(S) == \A i, j \in S : i = j
AtMostTwo(S) == \A i, j, k \in S : i = j \/ j = k \/ i = k

(* The program may miss what an interrupt routine has added since; it misses   *)
(* nothing else, and the routine nothing at all.                               *)
MissInv ==
    /\ running = "main" => cpu["isr"] = Idle
    /\ AtMostOne(MissedFns(cpu["main"])) /\ AtMostOne(MissedArcs(cpu["main"]))
    /\ MissedFns(cpu["isr"]) = {} /\ MissedArcs(cpu["isr"]) = {}

CopyInv ==
    /\ \A f \in Selves : AtMostTwo({i \in DOMAIN fns : fns[i] = f})
    /\ \A i \in DOMAIN fns, from \in Sites :
           ArcsOf(i) # {} /\ AtMostTwo({j \in ArcsOf(i) : arcs[j].from = from})

(* What the program's store is about to undo of the count of an arc. *)
Undone(a) == LET w == cpu["main"]
             IN  IF w.pc = "store" /\ <<w.self, w.from>> = a THEN arcs[w.arc].count - w.r2 ELSE 0

CountsInv ==
    /\ cpu["main"].pc = "store" => cpu["main"].r2 <= arcs[cpu["main"].arc].count /\ cpu["main"].r2 # 0
    /\ cpu["isr"].pc = "store" => cpu["isr"].r2 = arcs[cpu["isr"].arc].count
    /\ \A a \in Selves \X Sites :
           /\ Counted(a) <= calls[a] /\ calls[a] + Undone(a) <= Counted(a) + lost[a]
           /\ calls[a] > 0 => Copies(a) # {}

ProfIInv == ProfTypeOK /\ Found(cpu["main"]) /\ Found(cpu["isr"]) /\ MissInv /\ CopyInv /\ CountsInv
===========================================================================
