--------------------------- MODULE Services_proofs ---------------------------
(* The parts beside the channel, the descriptors, the clock and the            *)
(* interrupts: the heap, the time of day and the boot code, each for every      *)
(* value of its constants.                                                      *)
EXTENDS Heap, TimeOfDay, Boot, FiniteSetTheorems, TLAPS

---------------------------------------------------------------------------
(* The heap. *)

(* Division leaves a remainder below the divisor. *)
LEMMA DivMod ==
    ASSUME NEW a \in Nat, NEW b \in Nat \ {0}
    PROVE  /\ a \div b \in Nat /\ a % b \in Nat /\ a % b < b
           /\ a = b * (a \div b) + (a % b)
  OBVIOUS

(* A multiple leaves no remainder. *)
LEMMA TimesMod ==
    ASSUME NEW q \in Nat, NEW b \in Nat \ {0}
    PROVE  (q * b) % b = 0
  OBVIOUS

(* Aligning moves an address up, to a word boundary. *)
LEMMA AlignedUp ==
    ASSUME NEW a \in Nat
    PROVE  Aligned(a) \in Nat /\ a <= Aligned(a) /\ Aligned(a) % ALIGN = 0
  <1> DEFINE m == a + ALIGN - 1
  <1>1. ALIGN \in Nat \ {0} /\ m \in Nat  BY HeapAssumption
  <1>2. m \div ALIGN \in Nat /\ m % ALIGN < ALIGN /\ m = ALIGN * (m \div ALIGN) + (m % ALIGN)  BY <1>1, DivMod
  <1>3. Aligned(a) = (m \div ALIGN) * ALIGN  BY DEF Aligned
  <1>4. Aligned(a) % ALIGN = 0 BY <1>1, <1>2, <1>3, TimesMod
  <1> QED BY <1>1, <1>2, <1>3, <1>4, HeapAssumption

(* A pc of the text falls into a bucket, or behind the last where the text   *)
(* does not fill it.                                                          *)
LEMMA BucketOfPc ==
    ASSUME NEW b \in Nat \ {0}, NEW t \in Nat, NEW p \in 0..t-1
    PROVE  /\ p \div b \in 0..(t \div b)
           /\ p \div b = t \div b => t % b # 0
  <1>1. /\ p \div b \in Nat /\ p % b \in Nat /\ p % b < b /\ p = b * (p \div b) + (p % b)
    BY DivMod
  <1>2. /\ t \div b \in Nat /\ t % b \in Nat /\ t % b < b /\ t = b * (t \div b) + (t % b)
    BY DivMod
  <1>3. p \div b <= t \div b 
    BY <1>1, <1>2
  <1>4. p \div b = t \div b => t % b # 0
    BY <1>1, <1>2
  <1> QED BY <1>1, <1>2, <1>3, <1>4

(* A call of ALT_SBRK keeps the regions apart, and never moves the end down;  *)
(* when it succeeds, its region is new and lies above all others.              *)
LEMMA SbrkKeepsRegions ==
    ASSUME NEW who \in {"malloc", "mcount", "pcsamples"}, NEW incr \in Nat \ {0},
           HeapTypeOK, RegionsApart, ALT_SBRK(who, incr)
    PROVE  /\ heap_end' \in Nat /\ heap_end <= heap_end'
           /\ granted \subseteq granted'
           /\ granted' \subseteq Region /\ \A g \in granted' : g.from < g.to
           /\ RegionsApart'
           /\ Break(incr) # Failed =>
                 \E g \in granted' : /\ g.who = who /\ g.from = Break(incr)
                                     /\ g.to = Break(incr) + incr
                                     /\ \A h \in granted : h.to <= g.from
           /\ Break(incr) \in Int /\ HeapStart <= heap_end'
  <1> DEFINE at == Aligned(heap_end)
             new == [who |-> who, from |-> at, to |-> at + incr]
  <1>1. at \in Nat /\ heap_end <= at /\ at % ALIGN = 0
    BY AlignedUp DEF HeapTypeOK
  <1>2. HeapStart \in Nat /\ HeapStart <= at  BY <1>1, HeapAssumption DEF HeapTypeOK
  <1>3. CASE Fits(incr)
    <2>1. /\ heap_end' = at + incr /\ granted' = granted \cup {new} /\ Break(incr) = at
      BY <1>3 DEF ALT_SBRK, Break
    <2>2. new \in Region /\ new.who = who /\ new.from = at /\ new.to = at + incr
      BY <1>1 DEF Region
    <2>3. at + incr <= HeapLimit  BY <1>3 DEF Fits
    <2>4. \A g \in granted : /\ g.from \in Nat /\ g.to \in Nat /\ g.to <= at
      BY <1>1 DEF HeapTypeOK, Region, RegionsApart
    <2>5. RegionsApart'
      <3> SUFFICES ASSUME NEW g \in granted'
                   PROVE  /\ g.from % ALIGN = 0 /\ HeapStart <= g.from /\ g.to <= heap_end'
                          /\ g.to <= HeapLimit
                          /\ \A h \in granted' : g # h => ~Overlap(g, h)
        BY DEF RegionsApart
      <3>1. CASE g = new
        BY <3>1, <1>1, <1>2, <2>1, <2>2, <2>3, <2>4 DEF Overlap
      <3>2. CASE g \in granted
        <4>1. /\ g.from % ALIGN = 0 /\ HeapStart <= g.from /\ g.to <= HeapLimit
              /\ \A h \in granted : g # h => ~Overlap(g, h)
          BY <3>2 DEF RegionsApart
        <4>2. g.to <= heap_end' /\ ~Overlap(g, new)
          BY <3>2, <1>1, <2>1, <2>2, <2>4 DEF Overlap
        <4> QED BY <4>1, <4>2, <2>1
      <3> QED BY <3>1, <3>2, <2>1
    <2>6. granted' \subseteq Region /\ \A g \in granted' : g.from < g.to
      BY <1>1, <2>1, <2>2 DEF HeapTypeOK
    <2>7. /\ heap_end' \in Nat /\ heap_end <= heap_end' /\ granted \subseteq granted'
          /\ HeapStart <= heap_end'
      BY <1>1, <1>2, <2>1 DEF HeapTypeOK
    <2>8. \E g \in granted' : /\ g.who = who /\ g.from = Break(incr) /\ g.to = Break(incr) + incr
                              /\ \A h \in granted : h.to <= g.from
      BY <2>1, <2>2, <2>4
    <2> QED BY <1>1, <2>1, <2>5, <2>6, <2>7, <2>8
  <1>4. CASE ~Fits(incr)
    <2>1. heap_end' = at /\ granted' = granted /\ Break(incr) = Failed
      BY <1>4 DEF ALT_SBRK, Break
    <2>2. RegionsApart'
      BY <1>1, <2>1 DEF RegionsApart, Overlap, HeapTypeOK, Region
    <2> QED BY <1>1, <1>2, <2>1, <2>2 DEF HeapTypeOK, Failed
  <1> QED BY <1>3, <1>4

(* What the slab and the records rest on is unchanged as long as the slab's    *)
(* variables are and no slab is given back; the same for the histogram.        *)
LEMMA SlabStays ==
    ASSUME SlabInv, RecordsInSlabs, UNCHANGED slab,
           \A g \in granted : g.who = "mcount" => g \in granted'
    PROVE  SlabInv' /\ RecordsInSlabs'
  BY DEF SlabInv, RecordsInSlabs, Exhausted, slab

LEMMA HistogramStays ==
    ASSUME HistogramInv, UNCHANGED histogram,
           \A g \in granted : g.who = "pcsamples" => g \in granted'
    PROVE  HistogramInv'
  BY DEF HistogramInv, histogram

(* A size of the histogram is positive. *)
LEMMA HistogramNotEmpty == Buckets \in Nat \ {0} /\ HistogramSize \in Nat \ {0}
  <1> DEFINE b == PCSAMPLE_BYTES_PER_BUCKET
  <1>1. b \in Nat \ {0} /\ TextSize \in Nat /\ b <= TextSize  BY HeapAssumption
  <1>2. /\ TextSize \div b \in Nat /\ TextSize % b < b
        /\ TextSize = b * (TextSize \div b) + (TextSize % b)
    BY <1>1, DivMod
  <1>3. TextSize \div b # 0  BY <1>1, <1>2
  <1> QED BY <1>2, <1>3 DEF Buckets, HistogramSize

LEMMA HeapInitInv == HeapInit => HeapIInv
  BY HeapAssumption
  DEF HeapInit, HeapIInv, HeapTypeOK, RegionsApart, SlabInv, RecordsInSlabs,
      HistogramInv, Exhausted

LEMMA MallocStep ==
    ASSUME HeapIInv, NEW incr \in Increments, Malloc(incr)
    PROVE  HeapIInv'
  <1>1. incr \in Nat \ {0}  BY HeapAssumption
  <1>2. /\ ALT_SBRK("malloc", incr) /\ UNCHANGED profiler
        /\ HeapTypeOK /\ RegionsApart /\ SlabInv /\ RecordsInSlabs /\ HistogramInv
    BY DEF Malloc, HeapIInv
  <1>3. /\ heap_end' \in Nat /\ granted \subseteq granted'
        /\ granted' \subseteq Region /\ \A g \in granted' : g.from < g.to
        /\ RegionsApart' /\ HeapStart <= heap_end'
    BY <1>1, <1>2, SbrkKeepsRegions
  <1>4. UNCHANGED slab /\ UNCHANGED histogram  BY <1>2 DEF profiler
  <1>5. SlabInv' /\ RecordsInSlabs' /\ HistogramInv'
    BY <1>2, <1>3, <1>4, SlabStays, HistogramStays
  <1>6. HeapTypeOK'
    BY <1>2, <1>3, <1>4 DEF HeapTypeOK, slab, histogram
  <1> QED BY <1>3, <1>5, <1>6 DEF HeapIInv

(* The region given back is the highest, so the others end below it. *)
LEMMA TrimStep ==
    ASSUME HeapIInv, NEW g \in granted, Trim(g)
    PROVE  HeapIInv'
  <1>1. /\ g.who = "malloc" /\ g.to = heap_end /\ heap_end' = g.from
        /\ granted' = granted \ {g} /\ UNCHANGED slab /\ UNCHANGED histogram
    BY DEF Trim, profiler
  <1>2. HeapTypeOK /\ RegionsApart /\ SlabInv /\ RecordsInSlabs /\ HistogramInv
    BY DEF HeapIInv
  <1>3. \A h \in granted : h.from \in Nat /\ h.to \in Nat /\ h.from < h.to
    BY <1>2 DEF HeapTypeOK, Region
  <1>4. \A h \in granted' : h.to <= g.from
    <2> SUFFICES ASSUME NEW h \in granted, h # g  PROVE h.to <= g.from
      BY <1>1
    <2>1. ~Overlap(g, h) /\ h.to <= heap_end  BY <1>2 DEF RegionsApart
    <2> QED BY <2>1, <1>1, <1>3 DEF Overlap
  <1>5. g.from \in Nat /\ HeapStart <= g.from  BY <1>2, <1>3 DEF RegionsApart
  <1>6. RegionsApart'  BY <1>1, <1>2, <1>4 DEF RegionsApart, Overlap
  <1>7. HeapTypeOK'  BY <1>1, <1>2, <1>5 DEF HeapTypeOK, slab, histogram
  <1>8. SlabInv' /\ RecordsInSlabs' /\ HistogramInv'
    BY <1>1, <1>2, SlabStays, HistogramStays
  <1> QED BY <1>6, <1>7, <1>8 DEF HeapIInv

(* A record taken from the slab begins where the others end; a new slab lies  *)
(* above all records; a refused one puts the record at the error value.        *)
LEMMA RecordStep ==
    ASSUME HeapIInv, mcount_allocate
    PROVE  HeapIInv'
  <1>1. HeapTypeOK /\ RegionsApart /\ SlabInv /\ RecordsInSlabs /\ HistogramInv
    BY DEF HeapIInv
  <1>2. RecordSize \in Nat \ {0} /\ MCOUNT_SLAB_INCREMENT \in Nat \ {0}
        /\ RecordSize <= MCOUNT_SLAB_INCREMENT /\ HeapStart \in Nat
    BY HeapAssumption
  <1>3. Exhausted => Exhausted'
    BY DEF Exhausted, mcount_allocate
  <1>4. UNCHANGED histogram  BY DEF mcount_allocate
  <1>5. CASE Slab
    <2>1. /\ UNCHANGED <<heap_end, granted>>
          /\ records' = records \cup {mcount_slab_ptr}
          /\ mcount_slab_ptr' = mcount_slab_ptr + RecordSize
          /\ mcount_slab_size' = mcount_slab_size - RecordSize
          /\ RecordSize <= mcount_slab_size
      BY <1>5 DEF mcount_allocate, Slab
    <2>2. RegionsApart'  BY <1>1, <2>1 DEF RegionsApart
    <2>3. HeapTypeOK'  BY <1>1, <1>2, <1>4, <2>1 DEF HeapTypeOK, histogram
    <2>4. HistogramInv'  BY <1>1, <1>4, <2>1, HistogramStays
    <2>5. CASE Exhausted
      BY <1>3, <2>2, <2>3, <2>4, <2>5 DEF HeapIInv, SlabInv, RecordsInSlabs
    <2>6. CASE ~Exhausted
      <3>1. PICK g \in granted :
               /\ g.who = "mcount"
               /\ g.from <= mcount_slab_ptr /\ mcount_slab_ptr + mcount_slab_size = g.to
               /\ \A p \in records : p + RecordSize <= mcount_slab_ptr \/ g.to <= p
        BY <1>1, <1>2, <2>1, <2>6 DEF SlabInv
      <3>2. /\ g.from \in Nat /\ g.to \in Nat /\ records \subseteq Int
            /\ mcount_slab_ptr \in Int /\ mcount_slab_size \in Nat
        BY <1>1 DEF HeapTypeOK, Region
      <3>3. SlabInv'
        <4>1. \A p \in records' : p + RecordSize <= mcount_slab_ptr' \/ g.to <= p
          BY <1>2, <2>1, <3>1, <3>2
        <4>2. g.from <= mcount_slab_ptr' /\ mcount_slab_ptr' + mcount_slab_size' = g.to
          BY <1>2, <2>1, <3>1, <3>2
        <4> QED BY <2>1, <3>1, <4>1, <4>2 DEF SlabInv
      <3>4. RecordsInSlabs'
        <4>1. \A p \in records' : \E h \in granted' :
                 h.who = "mcount" /\ h.from <= p /\ p + RecordSize <= h.to
          BY <1>1, <1>2, <2>1, <2>6, <3>1, <3>2 DEF RecordsInSlabs
        <4>2. \A p, q \in records : p # q => p + RecordSize <= q \/ q + RecordSize <= p
          BY <1>1, <2>6 DEF RecordsInSlabs
        <4>3. \A p, q \in records' : p # q => p + RecordSize <= q \/ q + RecordSize <= p
          BY <1>2, <2>1, <3>1, <3>2, <4>2
        <4> QED BY <4>1, <4>3 DEF RecordsInSlabs
      <3> QED BY <2>2, <2>3, <2>4, <3>3, <3>4 DEF HeapIInv
    <2> QED BY <2>5, <2>6
  <1>6. CASE ~Slab
    <2> DEFINE at == Break(MCOUNT_SLAB_INCREMENT)
    <2>1. /\ ALT_SBRK("mcount", MCOUNT_SLAB_INCREMENT)
          /\ records' = records \cup {at}
          /\ mcount_slab_ptr' = at + RecordSize
          /\ mcount_slab_size' = MCOUNT_SLAB_INCREMENT - RecordSize
      BY <1>6 DEF mcount_allocate
    <2>2. /\ heap_end' \in Nat /\ heap_end <= heap_end'
          /\ granted \subseteq granted'
          /\ granted' \subseteq Region /\ \A g \in granted' : g.from < g.to
          /\ RegionsApart'
          /\ at # Failed =>
                \E g \in granted' : /\ g.who = "mcount" /\ g.from = at
                                    /\ g.to = at + MCOUNT_SLAB_INCREMENT
                                    /\ \A h \in granted : h.to <= g.from
          /\ at \in Int /\ HeapStart <= heap_end'
      BY <1>1, <1>2, <2>1, SbrkKeepsRegions
    <2>3. HeapTypeOK'
      <3>1. records \subseteq Int /\ s_pcsamples \in Int  BY <1>1 DEF HeapTypeOK
      <3>2. s_pcsamples' \in Int  BY <1>4, <3>1 DEF histogram
      <3>3. records' \subseteq Int  BY <2>1, <2>2, <3>1
      <3>4. mcount_slab_ptr' \in Int /\ mcount_slab_size' \in Nat  BY <1>2, <2>1, <2>2
      <3> QED BY <2>2, <3>2, <3>3, <3>4 DEF HeapTypeOK
    <2>4. HistogramInv'  BY <1>1, <1>4, <2>2, HistogramStays
    <2>5. CASE Exhausted \/ at = Failed
      <3>1. Exhausted'
        BY <1>2, <1>3, <2>1, <2>5 DEF Exhausted, Failed
      <3> QED BY <2>2, <2>3, <2>4, <3>1 DEF HeapIInv, SlabInv, RecordsInSlabs
    <2>6. CASE ~Exhausted /\ at # Failed
      <3>1. PICK g \in granted' : /\ g.who = "mcount" /\ g.from = at
                                  /\ g.to = at + MCOUNT_SLAB_INCREMENT
                                  /\ \A h \in granted : h.to <= g.from
        BY <2>2, <2>6
      <3>2. /\ at \in Nat /\ records \subseteq Int
            /\ \A h \in granted' : h.from \in Nat /\ h.to \in Nat
        BY <1>1, <2>2, <3>1 DEF HeapTypeOK, Region
      <3>3. \A p \in records : p + RecordSize <= at
        <4> TAKE p \in records
        <4>1. PICK h \in granted : h.from <= p /\ p + RecordSize <= h.to
          BY <1>1, <2>6 DEF RecordsInSlabs
        <4> QED BY <4>1, <1>2, <2>2, <3>1, <3>2
      <3>4. SlabInv'
        <4>1. \A p \in records' : p + RecordSize <= mcount_slab_ptr'
          BY <1>2, <2>1, <3>2, <3>3
        <4>2. g.from <= mcount_slab_ptr' /\ mcount_slab_ptr' + mcount_slab_size' = g.to
          BY <1>2, <2>1, <3>1, <3>2
        <4> QED BY <3>1, <4>1, <4>2 DEF SlabInv
      <3>5. RecordsInSlabs'
        <4>1. \A p \in records' : \E h \in granted' :
                 h.who = "mcount" /\ h.from <= p /\ p + RecordSize <= h.to
          BY <1>1, <1>2, <2>1, <2>2, <2>6, <3>1, <3>2 DEF RecordsInSlabs
        <4>2. \A p, q \in records : p # q => p + RecordSize <= q \/ q + RecordSize <= p
          BY <1>1, <2>6 DEF RecordsInSlabs
        <4>3. \A p, q \in records' : p # q => p + RecordSize <= q \/ q + RecordSize <= p
          BY <1>2, <2>1, <3>2, <3>3, <4>2
        <4> QED BY <4>1, <4>3 DEF RecordsInSlabs
      <3> QED BY <2>2, <2>3, <2>4, <3>4, <3>5 DEF HeapIInv
    <2> QED BY <2>5, <2>6
  <1> QED BY <1>5, <1>6

LEMMA HistogramStep ==
    ASSUME HeapIInv, nios2_pcsample_init
    PROVE  HeapIInv'
  <1> DEFINE at == Break(HistogramSize)
  <1>1. HeapTypeOK /\ RegionsApart /\ SlabInv /\ RecordsInSlabs /\ HistogramInv
    BY DEF HeapIInv
  <1>2. /\ ALT_SBRK("pcsamples", HistogramSize) /\ s_pcsamples' = at /\ UNCHANGED slab
        /\ counters' = {Counter(s_pcsamples', bucket) : bucket \in 0..Buckets-1}
    BY DEF nios2_pcsample_init
  <1>3. /\ heap_end' \in Nat /\ granted \subseteq granted'
        /\ granted' \subseteq Region /\ \A g \in granted' : g.from < g.to
        /\ RegionsApart'
        /\ at # Failed =>
              \E g \in granted' : /\ g.who = "pcsamples" /\ g.from = at
                                  /\ g.to = at + HistogramSize
        /\ at \in Int /\ HeapStart <= heap_end'
    BY <1>1, <1>2, HistogramNotEmpty, SbrkKeepsRegions
  <1>4. HeapTypeOK'  BY <1>1, <1>2, <1>3 DEF HeapTypeOK, slab
  <1>5. SlabInv' /\ RecordsInSlabs'  BY <1>1, <1>2, <1>3, SlabStays
  <1>6. HistogramInv'
    <2>1. \A c \in counters' : \E bucket \in 0..Buckets :
             /\ c = Counter(s_pcsamples', bucket) /\ bucket # Buckets
      BY <1>2, HistogramNotEmpty
    <2> QED BY <1>2, <1>3, <2>1 DEF HistogramInv, Counter
  <1> QED BY <1>3, <1>4, <1>5, <1>6 DEF HeapIInv

LEMMA SampleStep ==
    ASSUME HeapIInv, nios2_pcsample
    PROVE  HeapIInv'
  <1>1. HeapTypeOK /\ RegionsApart /\ SlabInv /\ RecordsInSlabs /\ HistogramInv
    BY DEF HeapIInv
  <1>2. UNCHANGED <<heap_end, granted, slab, s_pcsamples>>  BY DEF nios2_pcsample
  <1>3. HeapTypeOK' /\ RegionsApart' /\ SlabInv' /\ RecordsInSlabs'
    BY <1>1, <1>2, SlabStays DEF HeapTypeOK, RegionsApart, slab
  <1>4. \A c \in counters' \ counters : \E bucket \in 0..Buckets :
           /\ c = Counter(s_pcsamples, bucket)
           /\ bucket = Buckets => TextSize % PCSAMPLE_BYTES_PER_BUCKET # 0
    <2>1. PICK pc \in 0..TextSize :
             counters' = IF pc < TextSize
                         THEN counters \cup {Counter(s_pcsamples, pc \div PCSAMPLE_BYTES_PER_BUCKET)}
                         ELSE counters
      BY DEF nios2_pcsample
    <2>2. CASE pc < TextSize
      <3>1. /\ pc \in 0..TextSize-1 /\ TextSize \in Nat
            /\ PCSAMPLE_BYTES_PER_BUCKET \in Nat \ {0}
        BY <2>2, HeapAssumption
      <3>2. /\ pc \div PCSAMPLE_BYTES_PER_BUCKET \in 0..Buckets
            /\ pc \div PCSAMPLE_BYTES_PER_BUCKET = Buckets
                  => TextSize % PCSAMPLE_BYTES_PER_BUCKET # 0
        BY <3>1, BucketOfPc DEF Buckets
      <3> QED BY <2>1, <2>2, <3>2
    <2> QED BY <2>1, <2>2
  <1>5. HistogramInv'  BY <1>1, <1>2, <1>4 DEF HistogramInv, Counter
  <1> QED BY <1>3, <1>5 DEF HeapIInv

LEMMA HeapNextInv == HeapIInv /\ [HeapNext]_heapVars => HeapIInv'
  <1> SUFFICES ASSUME HeapIInv, [HeapNext]_heapVars  PROVE HeapIInv'
    OBVIOUS
  <1>1. CASE UNCHANGED heapVars
    BY <1>1 DEF heapVars, slab, histogram, HeapIInv, HeapTypeOK, RegionsApart, SlabInv,
                RecordsInSlabs, HistogramInv, Exhausted
  <1> QED
    BY <1>1, MallocStep, TrimStep, RecordStep, HistogramStep, SampleStep DEF HeapNext

(* A counter is a half word of the histogram's region, or the one behind it. *)
LEMMA HeapIInvEnough == HeapIInv => HeapInv
  <1> SUFFICES ASSUME HeapIInv  PROVE SamplesInHistogram
    BY DEF HeapIInv, HeapInv
  <1>1. HeapTypeOK /\ HistogramInv  BY DEF HeapIInv
  <1> SUFFICES ASSUME s_pcsamples \notin {0, Failed}, NEW c \in counters
               PROVE  \/ \E g \in granted : g.who = "pcsamples" /\ g.from <= c /\ c + 2 <= g.to
                      \/ /\ c = s_pcsamples + HistogramSize
                         /\ TextSize % PCSAMPLE_BYTES_PER_BUCKET # 0
    BY DEF SamplesInHistogram
  <1>2. PICK g \in granted : g.who = "pcsamples" /\ g.from = s_pcsamples
                             /\ g.to = s_pcsamples + HistogramSize
    BY <1>1 DEF HistogramInv
  <1>3. PICK bucket \in 0..Buckets :
           /\ c = s_pcsamples + 2 * bucket
           /\ bucket = Buckets => TextSize % PCSAMPLE_BYTES_PER_BUCKET # 0
    BY <1>1 DEF HistogramInv, Counter
  <1>4. s_pcsamples \in Int /\ Buckets \in Nat /\ HistogramSize = 2 * Buckets
    BY <1>1, HistogramNotEmpty DEF HeapTypeOK, HistogramSize
  <1> QED BY <1>2, <1>3, <1>4

(* Nobody's memory is somebody else's, whatever the sizes: the regions of     *)
(* ALT_SBRK lie apart, and records and samples in those of the profiler, with *)
(* the two exceptions HeapInv names (alt_sbrk.c:84-108, alt_gmon.c:133-265).   *)
THEOREM MemoryApart == HeapSpec => []HeapInv
  <1>1. HeapInit => HeapIInv  BY HeapInitInv
  <1>2. HeapIInv /\ [HeapNext]_heapVars => HeapIInv'  BY HeapNextInv
  <1>3. HeapIInv => HeapInv  BY HeapIInvEnough
  <1> QED BY <1>1, <1>2, <1>3, PTL DEF HeapSpec
---------------------------------------------------------------------------
(* The time of day. *)

LEMMA Remainder ==
    ASSUME NEW b \in Nat \ {0}, NEW q \in Nat, NEW m \in 0..b-1
    PROVE  (q * b + m) % b = m
  OBVIOUS

(* A counter at n, split into seconds and microseconds and put together again. *)
Together(n, r, u) == (n \div r) * u + ((n * (u \div r)) % u)
Share(r, u) == u \div r

(* Where the rate divides a second, the whole seconds and the rest together   *)
(* are the ticks, each its share of a second.                                  *)
LEMMA Parts ==
    ASSUME NEW n \in Nat, NEW r \in Nat \ {0}, NEW u \in Nat \ {0}, u % r = 0
    PROVE  r * Share(r, u) = u /\ Together(n, r, u) = n * Share(r, u)
  <1> DEFINE q == u \div r
             w == n \div r
             m == n % r
  <1>1. q \in Nat /\ u = r * q  BY DivMod
  <1>2. w \in Nat /\ m \in 0..r-1 /\ n = r * w + m  BY DivMod
  <1> HIDE DEF q, w, m
  <1>3. n * q = w * u + m * q
    <2>1. n * q = (r * w) * q + m * q  BY <1>1, <1>2
    <2>2. (r * w) * q = w * (r * q)  BY <1>1, <1>2
    <2> QED BY <1>1, <2>1, <2>2
  <1>4. m * q \in 0..u-1
    <2>1. q > 0  BY <1>1
    <2>2. m * q <= (r - 1) * q  BY <1>1, <1>2
    <2>3. (r - 1) * q = u - q  BY <1>1
    <2>4. m * q \in Nat  BY <1>1, <1>2
    <2> QED BY <1>1, <2>1, <2>2, <2>3, <2>4
  <1>5. (n * q) % u = m * q
    BY <1>2, <1>3, <1>4, Remainder
  <1>6. w * u + ((n * q) % u) = n * q
    BY <1>3, <1>5
  <1> QED BY <1>1, <1>6 DEF q, w, Together, Share

(* One round of each loop brings the microseconds into range and, unless the  *)
(* time is before zero, keeps the amount.                                      *)
LEMMA Normalised ==
    ASSUME NEW sec \in Int, NEW usec \in Int, 0 - ALT_US < usec, usec < 2 * ALT_US
    PROVE  LET t == [tv_sec |-> sec, tv_usec |-> usec]
           IN  /\ Carry(Borrow(t)).tv_usec \in 0..ALT_US - 1
               /\ sec * ALT_US + usec >= 0 => Amount(Carry(Borrow(t))) = sec * ALT_US + usec
  <1> DEFINE t == [tv_sec |-> sec, tv_usec |-> usec]
  <1>1. ALT_US \in Nat \ {0}  BY TodAssumption
  <1>2. CASE usec >= ALT_US
    <2>1. Carry(Borrow(t)) = [tv_sec |-> sec + 1, tv_usec |-> usec - ALT_US]
      BY <1>1, <1>2 DEF Carry, Borrow
    <2>2. (sec + 1) * ALT_US = sec * ALT_US + ALT_US  BY <1>1
    <2> QED BY <1>1, <1>2, <2>1, <2>2 DEF Amount
  <1>3. CASE usec >= 0 /\ usec < ALT_US
    <2>1. Carry(Borrow(t)) = t  BY <1>1, <1>3 DEF Carry, Borrow
    <2> QED BY <1>1, <1>3, <2>1 DEF Amount
  <1>4. CASE usec < 0 /\ sec > 0
    <2>1. Carry(Borrow(t)) = [tv_sec |-> sec - 1, tv_usec |-> usec + ALT_US]
      BY <1>1, <1>4 DEF Carry, Borrow
    <2>2. (sec - 1) * ALT_US = sec * ALT_US - ALT_US  BY <1>1
    <2> QED BY <1>1, <1>4, <2>1, <2>2 DEF Amount
  <1>5. CASE usec < 0 /\ sec <= 0
    <2>1. Carry(Borrow(t)) = [tv_sec |-> 0, tv_usec |-> 0]
      BY <1>1, <1>5 DEF Carry, Borrow
    <2>2. sec * ALT_US <= 0  BY <1>1, <1>5
    <2> QED BY <1>1, <1>5, <2>1, <2>2
  <1> QED BY <1>1, <1>2, <1>3, <1>4, <1>5

LEMMA TodInitInv == TodInit => TodIInv
  <1> SUFFICES ASSUME TodInit  PROVE TodIInv
    OBVIOUS
  <1>1. /\ ALT_US \in Nat \ {0} /\ alt_ticks_per_second \in Nat \ {0}
        /\ alt_ticks_per_second \in Rates
    BY TodAssumption DEF TodInit
  <1> DEFINE q == ALT_US \div alt_ticks_per_second
  <1>2. q \in Nat  BY <1>1, DivMod
  <1>3. 0 \div alt_ticks_per_second = 0  BY <1>1
  <1>4. (0 * q) % ALT_US = 0  BY <1>1, <1>2
  <1> HIDE DEF q
  <1>5. /\ set = [tv_sec |-> 0, tv_usec |-> 0, at |-> 0] /\ alt_nticks = 0
        /\ alt_resettime = [tv_sec |-> 0, tv_usec |-> 0]
    BY DEF TodInit
  <1> QED BY <1>1, <1>3, <1>4, <1>5 DEF TodIInv, q

LEMMA TodNextInv == TodIInv /\ [TodNext]_todVars => TodIInv'
  <1> SUFFICES ASSUME TodIInv, [TodNext]_todVars  PROVE TodIInv'
    OBVIOUS
  <1>1. CASE AlarmTick
    <2>1. /\ alt_nticks' = alt_nticks + 1
          /\ UNCHANGED <<alt_ticks_per_second, alt_resettime, set>>
      BY <1>1 DEF AlarmTick
    <2> QED BY <2>1 DEF TodIInv
  <1>2. ASSUME NEW sec \in Seconds, NEW usec \in Micros, ALT_SETTIMEOFDAY(sec, usec)
        PROVE  TodIInv'
    <2>1. /\ alt_resettime' = [tv_sec |-> sec - WholeSeconds, tv_usec |-> usec - Rest]
          /\ set' = [tv_sec |-> sec, tv_usec |-> usec, at |-> alt_nticks]
          /\ UNCHANGED <<alt_nticks, alt_ticks_per_second>>
      BY <1>2 DEF ALT_SETTIMEOFDAY
    <2>2. sec \in Nat /\ usec \in 0..ALT_US - 1  BY TodAssumption
    <2> QED BY <2>1, <2>2 DEF TodIInv, WholeSeconds, Rest
  <1>3. CASE UNCHANGED todVars
    BY <1>3 DEF todVars, TodIInv
  <1> QED BY <1>1, <1>2, <1>3 DEF TodNext

(* With the counter at n and set at s, both split at the same rate. *)
LEMMA TodIInvEnough == TodIInv => TodInv
  <1> SUFFICES ASSUME TodIInv  PROVE TodInv
    OBVIOUS
  <1> DEFINE n == alt_nticks
             s == set.at
             r == alt_ticks_per_second
             q == ALT_US \div r
             wn == n \div r
             ws == s \div r
             mn == (n * q) % ALT_US
             ms == (s * q) % ALT_US
             sec == set.tv_sec - ws + wn
             usec == set.tv_usec - ms + mn
  <1>1. /\ ALT_US \in Nat \ {0} /\ r \in Nat \ {0} /\ n \in Nat /\ s \in 0..n
        /\ set.tv_sec \in Nat /\ set.tv_usec \in 0..ALT_US - 1
    BY TodAssumption DEF TodIInv
  <1>2. q \in Nat  BY <1>1, DivMod
  <1>3. wn \in Nat /\ ws \in Nat  BY <1>1, DivMod
  <1>4. mn \in 0..ALT_US - 1 /\ ms \in 0..ALT_US - 1
    <2>1. n * q \in Nat /\ s * q \in Nat  BY <1>1, <1>2
    <2> QED BY <1>1, <2>1, DivMod
  <1>5. ALT_GETTIMEOFDAY = Carry(Borrow([tv_sec |-> sec, tv_usec |-> usec]))
    BY DEF ALT_GETTIMEOFDAY, TodIInv, WholeSeconds, Rest
  <1>6. s = n => ws = wn /\ ms = mn  OBVIOUS
  <1>7. ALT_US % r = 0 => /\ r * q = ALT_US
                          /\ wn * ALT_US + mn = n * q /\ ws * ALT_US + ms = s * q
    <2> SUFFICES ASSUME ALT_US % r = 0
                 PROVE  /\ r * q = ALT_US
                        /\ wn * ALT_US + mn = n * q /\ ws * ALT_US + ms = s * q
      OBVIOUS
    <2> HIDE DEF n, s, r
    <2>1. s \in Nat  BY <1>1
    <2>2. r * Share(r, ALT_US) = ALT_US  BY <1>1, Parts
    <2>3. Together(n, r, ALT_US) = n * Share(r, ALT_US)  BY <1>1, Parts
    <2>4. Together(s, r, ALT_US) = s * Share(r, ALT_US)  BY <1>1, <2>1, Parts
    <2> QED BY <2>2, <2>3, <2>4, Zenon DEF Together, Share
  <1> DEFINE amount == sec * ALT_US + usec
             first == set.tv_sec * ALT_US + set.tv_usec
  <1>8. Amount(set) = first  BY DEF Amount
  <1> HIDE DEF n, s, r, q, wn, ws, mn, ms
  <1>9. sec \in Int /\ usec \in Int /\ 0 - ALT_US < usec /\ usec < 2 * ALT_US
    BY <1>1, <1>3, <1>4
  <1>10. amount = first + (wn * ALT_US + mn) - (ws * ALT_US + ms)
    BY <1>1, <1>3, <1>4
  <1>11. first \in Nat  BY <1>1
  <1> HIDE DEF sec, usec
  <1>12. /\ ALT_GETTIMEOFDAY.tv_usec \in 0..ALT_US - 1
         /\ amount >= 0 => Amount(ALT_GETTIMEOFDAY) = amount
    BY <1>5, <1>9, Normalised
  <1> HIDE DEF amount, first
  <1>13. SetThenGet
    <2>1. s = n => amount = first  BY <1>1, <1>3, <1>4, <1>6, <1>10, <1>11
    <2> QED BY <1>8, <1>11, <1>12, <2>1 DEF SetThenGet, s, n
  <1>14. TimeIsExact
    <2> SUFFICES ASSUME ALT_US % r = 0
                 PROVE  (Amount(ALT_GETTIMEOFDAY) - Amount(set)) * r = (n - s) * ALT_US
      BY DEF TimeIsExact, r, n, s
    <2>1. amount = first + n * q - s * q  BY <1>1, <1>2, <1>3, <1>4, <1>7, <1>10, <1>11
    <2>2. n * q - s * q = (n - s) * q /\ (n - s) * q \in Nat  BY <1>1, <1>2
    <2>3. n * q \in Nat /\ s * q \in Nat  BY <1>1, <1>2
    <2>4. amount = first + (n - s) * q /\ amount >= 0  BY <1>11, <2>1, <2>2, <2>3
    <2>5. Amount(ALT_GETTIMEOFDAY) - Amount(set) = (n - s) * q
      BY <1>8, <1>11, <1>12, <2>2, <2>4
    <2>6. ((n - s) * q) * r = (n - s) * (r * q)  BY <1>1, <1>2
    <2> QED BY <1>7, <2>5, <2>6
  <1> QED BY <1>13, <1>14 DEF TodInv

(* settimeofday() and gettimeofday() agree for every rate, time and tick, and *)
(* where the rate divides a second the clock runs exactly with the ticks        *)
(* (alt_settod.c:82-85, alt_gettod.c:88-112).                                   *)
THEOREM TimeKept == TodSpec => []TodInv
  <1>1. TodInit => TodIInv  BY TodInitInv
  <1>2. TodIInv /\ [TodNext]_todVars => TodIInv'  BY TodNextInv
  <1>3. TodIInv => TodInv  BY TodIInvEnough
  <1> QED BY <1>1, <1>2, <1>3, PTL DEF TodSpec
---------------------------------------------------------------------------
(* The boot code. *)

(* SetToSeq lists the elements of a finite set. *)
LEMMA ListOfSet ==
    ASSUME NEW S, IsFiniteSet(S), S # {}
    PROVE  /\ SetToSeq(S) \in [1..Len(SetToSeq(S)) -> S]
           /\ Len(SetToSeq(S)) \in Nat \ {0}
           /\ \A x \in S : \E i \in 1..Len(SetToSeq(S)) : SetToSeq(S)[i] = x
           /\ ToSet(SetToSeq(S)) = S
<1> DEFINE n == Cardinality(S)
           s == SetToSeq(S)
<1>1. n \in Nat /\ n # 0
  BY FS_CardinalityType, FS_EmptySet
<1>2. \E f \in [1..n -> S] : IsInjective(f)
  BY FS_CardinalityType DEF ExistsBijection, Bijection, Injection
<1>3. s \in [1..n -> S] /\ IsInjective(s)
  BY <1>2 DEF SetToSeq
<1>4. Len(s) = n
  <2> HIDE DEF s, n
  <2>1. s \in Seq(S)
    BY <1>1, <1>3, SMT
  <2> QED BY <1>1, <1>3, <2>1, SMT
<1>5. s \in Surjection(1..n, S)
  <2>1. s \in Injection(1..n, S)
    BY <1>3 DEF Injection
  <2>2. Cardinality(1..n) = n
    BY <1>1, FS_Interval, SMT
  <2> HIDE DEF s, n
  <2>3. Cardinality(1..n) = Cardinality(S)
    BY <2>2 DEF n
  <2> QED BY <2>1, <2>3, FS_Injection
<1>6. \A x \in S : \E i \in 1..n : s[i] = x
  BY <1>5 DEF Surjection
<1> HIDE DEF s, n
<1>7. ToSet(s) = S
  <2>1. DOMAIN s = 1..n
    BY <1>3
  <2> QED BY <1>3, <1>6, <2>1 DEF ToSet
<1> QED BY <1>1, <1>3, <1>4, <1>6, <1>7 DEF s

(* The words the loops of the start-up go over. *)
LEMMA Layout ==
    /\ Rwdata \in [1..Len(Rwdata) -> ToSet(Rwdata)] /\ Len(Rwdata) \in Nat \ {0}
    /\ \A w \in ToSet(Rwdata) : \E i \in 1..Len(Rwdata) : Rwdata[i] = w
    /\ {"alt_alarm_list", "alt_dev_list", "jtag_uart.timeout"} \cup Words = ToSet(Rwdata)
    /\ Bss \in [1..Len(Bss) -> ToSet(Bss)] /\ Len(Bss) \in Nat \ {0}
    /\ \A w \in ToSet(Bss) : \E i \in 1..Len(Bss) : Bss[i] = w
    /\ Devices \cup {"_alt_tick_rate"} \cup Words = ToSet(Bss)
<1> DEFINE R == {"alt_alarm_list", "alt_dev_list", "jtag_uart.timeout"} \cup Words
           B == Devices \cup {"_alt_tick_rate"} \cup Words
<1>1. IsFiniteSet(R) /\ R # {}
  <2>1. /\ IsFiniteSet(Words \cup {"alt_alarm_list"})
        /\ IsFiniteSet((Words \cup {"alt_alarm_list"}) \cup {"alt_dev_list"})
        /\ IsFiniteSet(((Words \cup {"alt_alarm_list"}) \cup {"alt_dev_list"}) \cup {"jtag_uart.timeout"})
    BY BootAssumption, FS_AddElement
  <2>2. ((Words \cup {"alt_alarm_list"}) \cup {"alt_dev_list"}) \cup {"jtag_uart.timeout"} = R
    OBVIOUS
  <2> QED BY <2>1, <2>2
<1>2. IsFiniteSet(B) /\ B # {}
  <2>1. IsFiniteSet(Devices \cup {"_alt_tick_rate"})
    BY BootAssumption, FS_AddElement
  <2>2. IsFiniteSet(B)
    BY <2>1, BootAssumption, FS_Union
  <2> QED BY <2>2
<1> HIDE DEF R, B
<1>3. Rwdata = SetToSeq(R) /\ Bss = SetToSeq(B)
  BY DEF Rwdata, Bss, R, B
<1>4. /\ Rwdata \in [1..Len(Rwdata) -> R] /\ Len(Rwdata) \in Nat \ {0}
      /\ \A w \in R : \E i \in 1..Len(Rwdata) : Rwdata[i] = w
      /\ ToSet(Rwdata) = R
  BY <1>1, <1>3, ListOfSet
<1>5. /\ Bss \in [1..Len(Bss) -> B] /\ Len(Bss) \in Nat \ {0}
      /\ \A w \in B : \E i \in 1..Len(Bss) : Bss[i] = w
      /\ ToSet(Bss) = B
  BY <1>2, <1>3, ListOfSet
<1>6. R = {"alt_alarm_list", "alt_dev_list", "jtag_uart.timeout"} \cup Words
      /\ B = Devices \cup {"_alt_tick_rate"} \cup Words
  BY DEF R, B
<1> QED BY <1>4, <1>5, <1>6

LEMMA BootInitInv == BootInit => BootIInv
<1> SUFFICES ASSUME BootInit PROVE BootIInv
  OBVIOUS
<1>1. BootTypes
  <2>1. PIE \in BOOLEAN
    BY Zenon DEF BootInit
  <2> QED BY <2>1 DEF BootInit, BootTypes
<1> QED BY <1>1 DEF BootInit, BootIInv, NoneInterrupts, LoopsDone, ClockKnown, FreshStart, AlarmStarted

(* A pass of the loop that clears .bss. *)
LEMMA ClearBssStep ==
    ASSUME BootIInv, ClearBss
    PROVE  BootIInv'
<1>1. /\ step = "bss" /\ pointer \in 1..Len(Bss) /\ PIE = FALSE
      /\ \A i \in 1..pointer-1 : bss[Bss[i]] = "zero"
      /\ bss \in [ToSet(Bss) -> {"zero", "set"}]
      /\ bss' = [bss EXCEPT ![Bss[pointer]] = "zero"]
      /\ rwdata' = rwdata /\ PIE' = PIE
  BY DEF ClearBss, LoopStep, BootIInv, BootTypes, NoneInterrupts, LoopsDone
<1>2. Bss[pointer] \in ToSet(Bss) /\ Len(Bss) \in Nat \ {0}
  BY <1>1, Layout
<1>3. \A w \in ToSet(Bss) : bss'[w] = IF w = Bss[pointer] THEN "zero" ELSE bss[w]
  BY <1>1, <1>2
<1>4. \A i \in 1..pointer : bss'[Bss[i]] = "zero"
  <2>1. \A i \in 1..pointer : i \in 1..Len(Bss) /\ (i = pointer \/ i \in 1..pointer-1)
    BY <1>1, <1>2, SMT
  <2> QED BY <1>1, <1>3, <2>1, Layout
<1>5. BootTypes'
  <2>1. bss' \in [ToSet(Bss) -> {"zero", "set"}]
    BY <1>1, <1>2
  <2>2. PIE' \in BOOLEAN
    BY Zenon, <1>1 DEF BootIInv, BootTypes
  <2> QED BY <1>1, <2>1, <2>2 DEF BootIInv, BootTypes
<1>6. CASE pointer = Len(Bss)
  <2>1. step' = "alt_load" /\ pointer' = 1
    BY <1>6 DEF ClearBss, LoopStep
  <2>2. \A w \in ToSet(Bss) : bss'[w] = "zero"
    BY <1>4, <1>6, Layout
  <2>3. DOMAIN bss' = ToSet(Bss)
    BY <1>1
  <2>4. 1 \in 1..Len(Rwdata) /\ \A i \in 1..1-1 : FALSE
    BY Layout, SMT
  <2>5. LoopsDone'
    BY <2>1, <2>2, <2>3, <2>4 DEF LoopsDone
  <2> QED BY <1>1, <1>5, <2>1, <2>5
          DEF BootIInv, NoneInterrupts, ClockKnown, FreshStart, AlarmStarted
<1>7. CASE pointer # Len(Bss)
  <2>1. step' = "bss" /\ pointer' = pointer + 1
    BY <1>7 DEF ClearBss, LoopStep
  <2>2. pointer + 1 \in 1..Len(Bss) /\ pointer + 1 - 1 = pointer
    BY <1>1, <1>2, <1>7, SMT
  <2>3. LoopsDone'
    <3>1. pointer' - 1 = pointer /\ pointer' \in 1..Len(Bss)
      BY <1>1, <1>2, <2>1, <2>2, SMT
    <3>2. \A i \in 1..pointer'-1 : bss'[Bss[i]] = "zero"
      BY <1>4, <3>1
    <3> QED BY <2>1, <3>1, <3>2 DEF LoopsDone
  <2> QED BY <1>1, <1>5, <2>1, <2>3
          DEF BootIInv, NoneInterrupts, ClockKnown, FreshStart, AlarmStarted
<1> QED BY <1>6, <1>7

(* A pass of the loop that copies .rwdata. *)
LEMMA LoadStep ==
    ASSUME BootIInv, alt_load_section
    PROVE  BootIInv'
<1>1. /\ step = "alt_load" /\ pointer \in 1..Len(Rwdata) /\ PIE = FALSE
      /\ \A i \in 1..pointer-1 : rwdata[Rwdata[i]] = "initial"
      /\ \A w \in DOMAIN bss : bss[w] = "zero"
      /\ rwdata \in [ToSet(Rwdata) -> {"initial", "changed"}]
      /\ rwdata' = [rwdata EXCEPT ![Rwdata[pointer]] = "initial"]
      /\ bss' = bss /\ PIE' = PIE
  BY DEF alt_load_section, LoopStep, BootIInv, BootTypes, NoneInterrupts, LoopsDone
<1>2. Rwdata[pointer] \in ToSet(Rwdata) /\ Len(Rwdata) \in Nat \ {0}
  BY <1>1, Layout
<1>3. \A w \in ToSet(Rwdata) : rwdata'[w] = IF w = Rwdata[pointer] THEN "initial" ELSE rwdata[w]
  BY <1>1, <1>2
<1>4. \A i \in 1..pointer : rwdata'[Rwdata[i]] = "initial"
  <2>1. \A i \in 1..pointer : i \in 1..Len(Rwdata) /\ (i = pointer \/ i \in 1..pointer-1)
    BY <1>1, <1>2, SMT
  <2> QED BY <1>1, <1>3, <2>1, Layout
<1>5. BootTypes'
  <2>1. rwdata' \in [ToSet(Rwdata) -> {"initial", "changed"}]
    BY <1>1, <1>2
  <2>2. PIE' \in BOOLEAN
    BY Zenon, <1>1 DEF BootIInv, BootTypes
  <2> QED BY <1>1, <2>1, <2>2 DEF BootIInv, BootTypes
<1>6. CASE pointer = Len(Rwdata)
  <2>1. step' = "alt_irq_init" /\ pointer' = 1
    BY <1>6 DEF alt_load_section, LoopStep
  <2>2. \A w \in ToSet(Rwdata) : rwdata'[w] = "initial"
    BY <1>4, <1>6, Layout
  <2>3. DOMAIN rwdata' = ToSet(Rwdata)
    BY <1>1
  <2>4. FreshStart'
    BY <1>1, <2>2, <2>3 DEF FreshStart
  <2> QED BY <1>1, <1>5, <2>1, <2>4
          DEF BootIInv, NoneInterrupts, LoopsDone, ClockKnown, AlarmStarted
<1>7. CASE pointer # Len(Rwdata)
  <2>1. step' = "alt_load" /\ pointer' = pointer + 1
    BY <1>7 DEF alt_load_section, LoopStep
  <2>2. pointer + 1 \in 1..Len(Rwdata) /\ pointer + 1 - 1 = pointer
    BY <1>1, <1>2, <1>7, SMT
  <2>3. LoopsDone'
    BY <1>1, <1>4, <2>1, <2>2 DEF LoopsDone
  <2> QED BY <1>1, <1>5, <2>1, <2>3
          DEF BootIInv, NoneInterrupts, ClockKnown, FreshStart, AlarmStarted
<1> QED BY <1>6, <1>7

(* Writing a word keeps the types. *)
LEMMA WordsKept ==
    ASSUME BootTypes
    PROVE  /\ \A w, v : v \in {"initial", "changed"} =>
                  [rwdata EXCEPT ![w] = v] \in [ToSet(Rwdata) -> {"initial", "changed"}]
           /\ \A w, v : v \in {"zero", "set"} =>
                  [bss EXCEPT ![w] = v] \in [ToSet(Bss) -> {"zero", "set"}]
  BY DEF BootTypes

(* The steps that start the drivers. *)
LEMMA SysInitStep ==
    ASSUME BootIInv, alt_avalon_timer_sc_init \/ altera_avalon_jtag_uart_init \/ alt_dev_reg
    PROVE  BootIInv'
<1>1. /\ pointer' = 1 /\ PIE' = PIE /\ PIE \in BOOLEAN
      /\ rwdata \in [ToSet(Rwdata) -> {"initial", "changed"}]
      /\ bss \in [ToSet(Bss) -> {"zero", "set"}]
      /\ "_alt_tick_rate" \in ToSet(Bss) /\ "alt_alarm_list" \in ToSet(Rwdata)
  BY Layout DEF alt_avalon_timer_sc_init, altera_avalon_jtag_uart_init, alt_dev_reg, alt_irq_register,
     Step, BootIInv, BootTypes, LoopsDone
<1>2. BootTypes'
  <2>1. rwdata' \in [ToSet(Rwdata) -> {"initial", "changed"}] /\ bss' \in [ToSet(Bss) -> {"zero", "set"}]
    BY <1>1, WordsKept DEF alt_avalon_timer_sc_init, altera_avalon_jtag_uart_init, alt_dev_reg,
       alt_irq_register, alt_sysclk_init, BootIInv
  <2> QED BY <1>1, <2>1, Zenon DEF BootTypes
<1>3. ClockKnown'
  <2>1. CASE step = "timer0_rate"
    <3>1. bss'["_alt_tick_rate"] = "set"
      BY <1>1, <2>1 DEF alt_avalon_timer_sc_init, altera_avalon_jtag_uart_init, alt_dev_reg, Step, alt_sysclk_init
    <3> QED BY <3>1 DEF ClockKnown
  <2>2. CASE step # "timer0_rate"
    <3>1. \/ step' \notin {"timer0_irq", "jtag_uart", "jtag_uart_alarm"}
          \/ (step \in {"timer0_irq", "jtag_uart", "jtag_uart_alarm"}
              /\ bss' = [bss EXCEPT !["timer0"] = "set"])
          \/ (step \in {"timer0_irq", "jtag_uart", "jtag_uart_alarm"}
              /\ bss' = [bss EXCEPT !["jtag_uart"] = "set"])
      BY <2>2 DEF alt_avalon_timer_sc_init, altera_avalon_jtag_uart_init, alt_dev_reg, Step, alt_irq_register
    <3>2. step \in {"timer0_irq", "jtag_uart", "jtag_uart_alarm"} => bss["_alt_tick_rate"] = "set"
      BY DEF BootIInv, ClockKnown
    <3> QED BY <1>1, <3>1, <3>2 DEF ClockKnown
  <2> QED BY <2>1, <2>2
<1>4. AlarmStarted'
  <2>1. step' = "dev_reg" => /\ step = "jtag_uart_alarm"
                             /\ rwdata' = [rwdata EXCEPT ![IF bss["_alt_tick_rate"] = "zero" THEN "jtag_uart.timeout"
                                                                  ELSE "alt_alarm_list"] = "changed"]
    BY DEF alt_avalon_timer_sc_init, altera_avalon_jtag_uart_init, alt_dev_reg, Step
  <2>2. step = "jtag_uart_alarm" => bss["_alt_tick_rate"] = "set"
    BY DEF BootIInv, ClockKnown
  <2> QED BY <1>1, <2>1, <2>2 DEF AlarmStarted
<1>5. step' \in {"timer0_irq", "jtag_uart", "jtag_uart_alarm", "dev_reg", "main"}
  BY DEF alt_avalon_timer_sc_init, altera_avalon_jtag_uart_init, alt_dev_reg, Step
<1> QED BY <1>1, <1>2, <1>3, <1>4, <1>5 DEF BootIInv, NoneInterrupts, LoopsDone, FreshStart

(* An interrupt finds the dispatcher set up, and changes only what the       *)
(* program may change.                                                        *)
LEMMA IrqStep ==
    ASSUME BootIInv, NEW s \in Devices, Irq(s)
    PROVE  BootIInv'
<1>1. /\ PIE /\ UNCHANGED <<step, pointer, bss, PIE>>
      /\ \E w \in Words : rwdata' = [rwdata EXCEPT ![w] = "changed"]
  BY DEF Irq
<1>2. PICK w \in Words : rwdata' = [rwdata EXCEPT ![w] = "changed"]
  BY <1>1
<1>3. rwdata \in [ToSet(Rwdata) -> {"initial", "changed"}] /\ w \in ToSet(Rwdata)
      /\ "alt_alarm_list" \in ToSet(Rwdata)
  BY Layout DEF BootIInv, BootTypes
<1>4. step \notin {"__reset", "bss", "alt_load", "alt_irq_init", "cpu_enable"}
  BY <1>1 DEF BootIInv, NoneInterrupts
<1>5. BootTypes'
  <2>1. PIE' \in BOOLEAN /\ bss' \in [ToSet(Bss) -> {"zero", "set"}]
    BY <1>1, Zenon DEF BootIInv, BootTypes
  <2>2. rwdata' \in [ToSet(Rwdata) -> {"initial", "changed"}]
    BY <1>2, <1>3
  <2> QED BY <2>1, <2>2 DEF BootTypes
<1>6. AlarmStarted'
  BY <1>1, <1>2, <1>3 DEF BootIInv, AlarmStarted
<1> QED BY <1>1, <1>4, <1>5, <1>6 DEF BootIInv, NoneInterrupts, LoopsDone, ClockKnown, FreshStart

(* The processor's own steps, and main's. *)
LEMMA OtherSteps ==
    ASSUME BootIInv,
           \/ __reset \/ altera_nios2_gen2_irq_init \/ alt_irq_cpu_enable_interrupts
           \/ program \/ Restart
    PROVE  BootIInv'
<1>1. CASE __reset
  <2>1. step = "__reset" /\ step' = "bss" /\ UNCHANGED <<pointer, rwdata, bss, PIE>>
    BY <1>1 DEF __reset, Step
  <2>2. pointer = 1 /\ PIE = FALSE
    BY <2>1 DEF BootIInv, LoopsDone, NoneInterrupts
  <2>3. pointer' \in 1..Len(Bss) /\ \A i \in 1..pointer'-1 : FALSE
    BY <2>1, <2>2, Layout, SMT
  <2>4. BootTypes'
    BY <2>1 DEF BootIInv, BootTypes
  <2> QED BY <2>1, <2>2, <2>3, <2>4
          DEF BootIInv, LoopsDone, NoneInterrupts, ClockKnown, FreshStart, AlarmStarted
<1>2. CASE altera_nios2_gen2_irq_init
  BY <1>2 DEF altera_nios2_gen2_irq_init, Step, BootIInv, BootTypes,
     LoopsDone, NoneInterrupts, ClockKnown, FreshStart, AlarmStarted
<1>3. CASE alt_irq_cpu_enable_interrupts
  <2>1. PIE' \in BOOLEAN /\ step' = "timer0_rate" /\ step = "cpu_enable" /\ UNCHANGED <<pointer, rwdata, bss>>
    BY <1>3 DEF alt_irq_cpu_enable_interrupts, Step
  <2> QED BY <2>1 DEF BootIInv, BootTypes, LoopsDone, NoneInterrupts, ClockKnown, FreshStart, AlarmStarted
<1>4. CASE program
  <2>1. step = "main" /\ step' \in {"main", "exit"} /\ UNCHANGED <<pointer, PIE>> /\ pointer = 1
    BY <1>4 DEF program, BootIInv, LoopsDone
  <2>2. rwdata' \in [ToSet(Rwdata) -> {"initial", "changed"}] /\ bss' \in [ToSet(Bss) -> {"zero", "set"}]
    BY <1>4, WordsKept DEF program, BootIInv, BootTypes
  <2>3. BootTypes'
    BY <2>1, <2>2 DEF BootIInv, BootTypes
  <2> QED BY <2>1, <2>3
          DEF BootIInv, LoopsDone, NoneInterrupts, ClockKnown, FreshStart, AlarmStarted
<1>5. CASE Restart
  <2>1. PIE' = FALSE /\ step' = "__reset" /\ pointer' = 1 /\ UNCHANGED <<rwdata, bss>>
    BY <1>5 DEF Restart
  <2>2. BootTypes'
    BY <2>1, Zenon DEF BootIInv, BootTypes
  <2> QED BY <2>1, <2>2
          DEF BootIInv, LoopsDone, NoneInterrupts, ClockKnown, FreshStart, AlarmStarted
<1> QED BY <1>1, <1>2, <1>3, <1>4, <1>5

LEMMA BootNextInv == BootIInv /\ [BootNext]_bootVars => BootIInv'
<1> SUFFICES ASSUME BootIInv, [BootNext]_bootVars PROVE BootIInv'
  OBVIOUS
<1>1. CASE BootNext
  BY <1>1, ClearBssStep, LoadStep, SysInitStep, IrqStep, OtherSteps DEF BootNext
<1>2. CASE UNCHANGED bootVars
  BY <1>2 DEF bootVars, BootIInv, BootTypes, LoopsDone, NoneInterrupts, ClockKnown, FreshStart, AlarmStarted
<1> QED BY <1>1, <1>2

(* Wherever a reset strikes, C code starts on initial data and a clear .bss, *)
(* and the driver's alarm finds a clock (crt0.S:434-451, alt_load.c:67-99,    *)
(* altera_avalon_jtag_uart_init.c:89-95).                                     *)
THEOREM BootsAfresh == BootSpec => []BootInv
<1>1. BootIInv => BootInv
  BY DEF BootIInv, BootInv
<1> QED BY <1>1, BootInitInv, BootNextInv, PTL DEF BootSpec
=============================================================================
