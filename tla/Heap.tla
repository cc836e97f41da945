-------------------------------- MODULE Heap --------------------------------
(* The heap below malloc: ALT_SBRK (alt_sbrk.c), which the C library calls   *)
(* for main and the profiler (alt_gmon.c) calls from wherever an instrumented *)
(* function was entered, interrupt routines included.  Both run with          *)
(* interrupts off, so a call is one step.                                     *)
EXTENDS Integers

CONSTANTS
    HeapStart, HeapLimit,   \* __alt_heap_start, __alt_heap_limit
    ALIGN,                  \* bytes in a word (4)
    MCOUNT_SLAB_INCREMENT,
    RecordSize,             \* an mcount_fn_entry, and an mcount_fn_arc
    Increments,             \* what malloc asks for
    PCSAMPLE_BYTES_PER_BUCKET,
    TextSize                \* s_high_pc - s_low_pc

ASSUME HeapAssumption ==
    /\ HeapStart \in Nat /\ HeapLimit \in Nat /\ HeapStart <= HeapLimit
    /\ ALIGN \in Nat \ {0} /\ RecordSize \in Nat \ {0}
    /\ MCOUNT_SLAB_INCREMENT \in Nat /\ RecordSize <= MCOUNT_SLAB_INCREMENT
    /\ Increments \subseteq Nat \ {0}
    /\ PCSAMPLE_BYTES_PER_BUCKET \in Nat \ {0}
    \* The program fills at least one bucket.
    /\ TextSize \in Nat /\ PCSAMPLE_BYTES_PER_BUCKET <= TextSize

VARIABLES heap_end,
          mcount_slab_ptr, mcount_slab_size,
          s_pcsamples,      \* the histogram: 0 before it is allocated
          granted,          \* history: the regions ALT_SBRK returned
          records,          \* history: where the profiler put its records
          counters          \* history: the counters of the histogram it wrote

slab == <<mcount_slab_ptr, mcount_slab_size, records>>
histogram == <<s_pcsamples, counters>>
heapVars == <<heap_end, granted, slab, histogram>>
profiler == <<slab, histogram>>

Failed == -1    \* (caddr_t)-1

HeapInit == /\ heap_end = HeapStart /\ granted = {}
            /\ mcount_slab_ptr = 0 /\ mcount_slab_size = 0
            /\ s_pcsamples = 0 /\ records = {} /\ counters = {}

Aligned(a) == ((a + ALIGN - 1) \div ALIGN) * ALIGN

Fits(incr) == Aligned(heap_end) + incr <= HeapLimit

(* What a call returns, and what it does to the heap.  The end stays aligned *)
(* even when the call fails.                                                  *)
Break(incr) == IF Fits(incr) THEN Aligned(heap_end) ELSE Failed

ALT_SBRK(who, incr) ==
    /\ heap_end' = IF Fits(incr) THEN Aligned(heap_end) + incr ELSE Aligned(heap_end)
    /\ granted' = IF Fits(incr)
                  THEN granted \cup {[who |-> who, from |-> Aligned(heap_end), to |-> Aligned(heap_end) + incr]}
                  ELSE granted

Malloc(incr) == ALT_SBRK("malloc", incr) /\ UNCHANGED profiler

(* The C library gives back its last region, after it made sure with sbrk(0)  *)
(* that nobody took more since.                                               *)
Trim(g) == /\ g.who = "malloc" /\ g.to = heap_end /\ heap_end = Aligned(heap_end)
           /\ heap_end' = g.from /\ granted' = granted \ {g}
           /\ UNCHANGED profiler

\* Mutant: a new slab is begun only when nothing at all is left of the old one.
SlabNotEmpty == mcount_slab_size > 0
Slab == mcount_slab_size >= RecordSize

(* mcount_allocate, for one record of __mcount_record: what ALT_SBRK returns  *)
(* is used unchecked.                                                         *)
mcount_allocate ==
    LET ptr == IF Slab THEN mcount_slab_ptr ELSE Break(MCOUNT_SLAB_INCREMENT)
        size == IF Slab THEN mcount_slab_size ELSE MCOUNT_SLAB_INCREMENT
    IN /\ IF Slab THEN UNCHANGED <<heap_end, granted>>
                  ELSE ALT_SBRK("mcount", MCOUNT_SLAB_INCREMENT)
       /\ records' = records \cup {ptr}
       /\ mcount_slab_ptr' = ptr + RecordSize /\ mcount_slab_size' = size - RecordSize
       /\ UNCHANGED histogram

Buckets == TextSize \div PCSAMPLE_BYTES_PER_BUCKET
HistogramSize == 2 * Buckets
Counter(histo, bucket) == histo + 2 * bucket

(* nios2_pcsample_init, with the system clock running: the histogram is      *)
(* cleared, at the error value when it was refused.                           *)
nios2_pcsample_init ==
    /\ s_pcsamples = 0
    /\ ALT_SBRK("pcsamples", HistogramSize)
    /\ s_pcsamples' = Break(HistogramSize)
    /\ counters' = {Counter(s_pcsamples', bucket) : bucket \in 0..Buckets-1}
    /\ UNCHANGED slab

(* The alarm of every tick, with the program interrupted somewhere in its    *)
(* text, or outside.                                                          *)
nios2_pcsample ==
    /\ s_pcsamples # 0
    /\ \E pc \in 0..TextSize :
           counters' = IF pc < TextSize
                       THEN counters \cup {Counter(s_pcsamples, pc \div PCSAMPLE_BYTES_PER_BUCKET)}
                       ELSE counters
    /\ UNCHANGED <<heap_end, granted, slab, s_pcsamples>>

HeapNext == \/ \E incr \in Increments : Malloc(incr)
            \/ \E g \in granted : Trim(g)
            \/ mcount_allocate \/ nios2_pcsample_init \/ nios2_pcsample

HeapSpec == HeapInit /\ [][HeapNext]_heapVars
---------------------------------------------------------------------------
Overlap(g, h) == g.from < h.to /\ h.from < g.to

(* Whoever calls and whatever was given back, the regions lie on word        *)
(* boundaries between the two ends of the heap and apart from each other      *)
(* (alt_sbrk.c:84-108).  The comment at alt_sbrk.c:46-48 says otherwise, that *)
(* there is no bounds checking and memory is allocated even past the end of   *)
(* physical memory: it is older than the test at :88, which refuses that.     *)
(* What the heap may still run into, unseen, is the stack, inside the limit.  *)
RegionsApart ==
    \A g \in granted :
        /\ g.from % ALIGN = 0 /\ HeapStart <= g.from /\ g.to <= heap_end /\ g.to <= HeapLimit
        /\ \A h \in granted : g # h => ~Overlap(g, h)

Exhausted == \E p \in records : p < HeapStart

(* The profiler writes its records into its own slabs and never twice to the *)
(* same place, until a slab was refused: from there on it writes through the *)
(* error value (alt_gmon.c:137-146).                                          *)
RecordsInSlabs ==
    Exhausted \/ \A p \in records :
        /\ \E g \in granted : g.who = "mcount" /\ g.from <= p /\ p + RecordSize <= g.to
        /\ \A q \in records : p # q => p + RecordSize <= q \/ q + RecordSize <= p

(* The histogram was allocated, so sampling writes into it, with one          *)
(* exception: the size is rounded down, and where the text does not fill its *)
(* last bucket the samples of that rest are counted in the half word behind   *)
(* the histogram, whoever owns it (alt_gmon.c:226, 265).                      *)
SamplesInHistogram ==
    s_pcsamples \notin {0, Failed} => \A c \in counters :
        \/ \E g \in granted : g.who = "pcsamples" /\ g.from <= c /\ c + 2 <= g.to
        \/ c = s_pcsamples + HistogramSize /\ TextSize % PCSAMPLE_BYTES_PER_BUCKET # 0

(* Nobody's memory is somebody else's: the regions, none past the limit the  *)
(* code tests for, and what the profiler writes in its own.                   *)
HeapInv == RegionsApart /\ RecordsInSlabs /\ SamplesInHistogram

---------------------------------------------------------------------------
(* The inductive invariant behind HeapInv.                                    *)

Region == [who : {"malloc", "mcount", "pcsamples"}, from : Nat, to : Nat]

HeapTypeOK ==
    /\ heap_end \in Nat /\ HeapStart <= heap_end
    /\ granted \subseteq Region /\ \A g \in granted : g.from < g.to
    /\ mcount_slab_ptr \in Int /\ mcount_slab_size \in Nat
    /\ s_pcsamples \in Int /\ records \subseteq Int

(* What is left of the slab ends with it, and no record lies in there. *)
SlabInv ==
    \/ Exhausted
    \/ records = {} /\ mcount_slab_size = 0
    \/ \E g \in granted :
           /\ g.who = "mcount"
           /\ g.from <= mcount_slab_ptr /\ mcount_slab_ptr + mcount_slab_size = g.to
           /\ \A p \in records : p + RecordSize <= mcount_slab_ptr \/ g.to <= p

(* The histogram has its region, and every counter a bucket of the text. *)
HistogramInv ==
    s_pcsamples \notin {0, Failed} =>
        /\ \E g \in granted : /\ g.who = "pcsamples" /\ g.from = s_pcsamples
                               /\ g.to = s_pcsamples + HistogramSize
        /\ \A c \in counters : \E bucket \in 0..Buckets :
               /\ c = Counter(s_pcsamples, bucket)
               /\ bucket = Buckets => TextSize % PCSAMPLE_BYTES_PER_BUCKET # 0

HeapIInv == HeapTypeOK /\ RegionsApart /\ SlabInv /\ RecordsInSlabs /\ HistogramInv
===========================================================================
