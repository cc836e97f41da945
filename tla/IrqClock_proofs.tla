--------------------------- MODULE IrqClock_proofs ---------------------------
(* Proofs about interrupt dispatch and the system clock: for any number of    *)
(* lines, nested handlers and sections, a section is not interrupted, main    *)
(* runs with all its lines, a search ends at a line with a handler, and       *)
(* priorities are kept; whatever main and the callbacks start and stop, the   *)
(* links stay a ring, the ring holds the alarms that were started, no tick    *)
(* leaves one overdue, and a reading of the counter is torn only where its    *)
(* low word wrapped.                                                          *)
EXTENDS Interrupts, SystemClock, TLAPS, SequenceTheorems, WellFoundedInduction

---------------------------------------------------------------------------
(* Interrupt dispatch. *)

(* The lowest line of a list is one of it. *)
LEMMA Least ==
    ASSUME NEW S \in SUBSET Irq, S # {}
    PROVE  Lowest(S) \in S
<1>1. S \subseteq Nat  BY DEF Irq
<1>2. PICK i \in S : \A j \in S : ~(<<j, i>> \in OpToRel(<, Nat))
  BY <1>1, NatLessThanWellFounded, WFMin
<1>3. \A j \in S : ~(j < i)
  BY <1>1, <1>2 DEF OpToRel
<1>4. \A j \in S : i <= j
  BY <1>1, <1>3
<1> QED BY <1>4 DEF Lowest

(* Positions of a stack that holds more than main. *)
LEMMA Index ==
    ASSUME NEW n \in Nat \ {0}, n # 1
    PROVE  n \in 2..n /\ n - 1 \in 1..n - 1 /\ n - 1 \in 1..n /\ (n # 2 => n > 2 /\ n - 1 > 1)
  OBVIOUS

LEMMA Popped ==
    ASSUME NEW S, NEW s \in Seq(S), s # <<>>, Len(s) # 1
    PROVE  /\ SubSeq(s, 1, Len(s) - 1) \in Seq(S) /\ SubSeq(s, 1, Len(s) - 1) # <<>>
           /\ Len(SubSeq(s, 1, Len(s) - 1)) = Len(s) - 1
           /\ \A k \in 1..Len(s) - 1 : SubSeq(s, 1, Len(s) - 1)[k] = s[k]
<1>1. Len(s) \in Nat /\ Len(s) > 1 /\ \A k \in 1..Len(s) - 1 : s[k] \in S
  OBVIOUS
<1>2. /\ SubSeq(s, 1, Len(s) - 1) \in Seq(S)
      /\ Len(SubSeq(s, 1, Len(s) - 1)) = Len(s) - 1
      /\ \A k \in 1..Len(s) - 1 : SubSeq(s, 1, Len(s) - 1)[k] = s[k]
  BY <1>1, SubSeqProperties
<1>3. \A t : t = <<>> => Len(t) = 0
  OBVIOUS
<1>4. Len(s) - 1 # 0
  BY <1>1
<1> QED BY <1>2, <1>3, <1>4, Zenon

(* The stack when only the running code's frame changes. *)
LEMMA CurrentLemma ==
    ASSUME IrqTypeOK, NEW f \in Activation, Current(f)
    PROVE  /\ Len(level) \in Nat \ {0} /\ Top \in Activation
           /\ level' \in Seq(Activation) /\ level' # <<>> /\ Len(level') = Len(level)
           /\ Top' = f /\ InMain' = InMain
           /\ \A k \in 1..Len(level) - 1 : level'[k] = level[k]
  BY DEF IrqTypeOK, Current, Top, InMain

(* A step of the running code, on the same line. *)
LEMMA CodeStep ==
    ASSUME IrqIInv, NEW f \in Activation, Current(f),
           InCode, f.at # "scan", InMain => f.at = "served",
           f.id = Top.id, f.open => ~InMain /\ f.old = Above(level[Len(level) - 1].id),
           widened' \in BOOLEAN, widened => widened'
    PROVE  /\ level' \in Seq(Activation) /\ level' # <<>>
           /\ StackInv' /\ ScanInv' /\ SearchEnds' /\ PriorityKept'
<1>1. IrqTypeOK  BY DEF IrqIInv
<1>2. /\ Len(level) \in Nat \ {0} /\ Top \in Activation
      /\ level' \in Seq(Activation) /\ level' # <<>> /\ Len(level') = Len(level)
      /\ Top' = f /\ InMain' = InMain
      /\ \A k \in 1..Len(level) - 1 : level'[k] = level[k]
  BY <1>1, CurrentLemma
<1>3. level'[Len(level)] = f /\ level[Len(level)] = Top
  BY <1>2 DEF Top
<1>4. Top.at # "scan"  BY DEF InCode
<1>5. StackInv'
  <2>1. level'[1].id = ALT_NIRQ /\ level'[1].at = "served" /\ ~level'[1].open
    BY <1>2, <1>3 DEF IrqIInv, StackInv, InMain
  <2>2. \A k \in 1..Len(level') - 1 :
           level'[k].held = <<>> /\ level'[k].at # "scan" /\ (k > 1 => level'[k].open)
    BY <1>2 DEF IrqIInv, StackInv
  <2>3. ASSUME NEW k \in 2..Len(level')
        PROVE  /\ level'[k].at # "scan" => level'[k].id \in Irq
               /\ level'[k].open => level'[k].at # "scan" /\ level'[k].old = Above(level'[k - 1].id)
    <3>1. k - 1 \in 1..Len(level) - 1 /\ level'[k - 1] = level[k - 1]
      BY <1>2
    <3>2. CASE k = Len(level)
      BY <1>2, <1>3, <1>4, <3>1, <3>2 DEF IrqIInv, StackInv, InMain
    <3>3. CASE k # Len(level)
      BY <1>2, <3>1, <3>3, SMTT(30) DEF IrqIInv, StackInv
    <3> QED BY <3>2, <3>3
  <2> QED BY <2>1, <2>2, <2>3 DEF StackInv, Above
<1>6. ScanInv' /\ SearchEnds'
  BY <1>2 DEF ScanInv, SearchEnds
<1>7. PriorityKept'
  <2> SUFFICES ASSUME NEW k \in 1..Len(level') - 1, level'[k + 1].at # "scan", ~widened'
               PROVE  level'[k + 1].id < level'[k].id
    BY DEF PriorityKept
  <2>1. level'[k] = level[k] /\ ~widened  BY <1>2
  <2>2. CASE k + 1 = Len(level)
    BY <1>2, <1>3, <1>4, <2>1, <2>2 DEF IrqIInv, PriorityKept
  <2>3. CASE k + 1 # Len(level)
    BY <1>2, <2>1, <2>3 DEF IrqIInv, PriorityKept
  <2> QED BY <2>2, <2>3
<1> QED BY <1>2, <1>5, <1>6, <1>7

LEMMA IrqInitInv == IrqInit => IrqIInv
<1> SUFFICES ASSUME IrqInit PROVE IrqIInv
  OBVIOUS
<1>1. Len(level) = 1 /\ level[1] = MainFrame /\ Top = MainFrame
  BY DEF IrqInit, Top
<1>2. MainFrame \in Activation
  BY IrqAssumption DEF MainFrame, Frame, Activation, Irq
<1>3. IrqTypeOK
  <2>1. level = <<MainFrame>>  BY DEF IrqInit
  <2> HIDE DEF MainFrame
  <2>2. level \in Seq(Activation) /\ level # <<>>
    BY <1>2, <2>1
  <2> QED BY <2>2 DEF IrqInit, IrqTypeOK
<1>4. Above(ALT_NIRQ) = Irq
  BY DEF Above, Irq
<1>5. StackInv
  BY <1>1 DEF StackInv, MainFrame, Frame
<1>6. SectionInv /\ MaskInv
  BY <1>1, <1>4 DEF IrqInit, SectionInv, MaskInv, InMain, MainFrame, Frame, Narrowed
<1>7. ScanInv /\ SearchEnds /\ PriorityKept
  BY <1>1 DEF ScanInv, SearchEnds, PriorityKept, MainFrame, Frame
<1> QED BY <1>3, <1>5, <1>6, <1>7 DEF IrqIInv

LEMMA RaiseStep == ASSUME IrqIInv, NEW i \in Irq, Raise(i) PROVE IrqIInv'
  BY DEF Raise, IrqIInv, IrqTypeOK, StackInv, SectionInv, MaskInv, ScanInv, SearchEnds,
         PriorityKept, Top, InMain, Narrowed

(* What is interrupted is in its code, outside a section and interruptible. *)
LEMMA EnterStep == ASSUME IrqIInv, Enter PROVE IrqIInv'
<1> DEFINE n == Len(level)
           f == Frame(ALT_NIRQ, "scan", alt_irq_pending)
<1>1. /\ IrqTypeOK /\ n \in Nat \ {0} /\ Top = level[n] /\ Top \in Activation
      /\ \A k \in 1..n : level[k] \in Activation
  BY DEF IrqIInv, IrqTypeOK, Top
<1>2. f \in Activation /\ f.at = "scan" /\ f.held = <<>> /\ ~f.open /\ f.active = alt_irq_pending
  BY <1>1, IrqAssumption DEF Frame, Activation, IrqTypeOK, alt_irq_pending, Irq
<1>3. /\ level' = Append(level, f) /\ pie /\ pie' = FALSE /\ alt_irq_pending # {}
      /\ UNCHANGED <<raised, ienable, alt_irq_active, alt_priority_mask, registered, widened>>
  BY DEF Enter
<1> HIDE DEF f
<1>4. /\ level' \in Seq(Activation) /\ level' # <<>> /\ Len(level') = n + 1
      /\ level'[n + 1] = f /\ Top' = f /\ \A k \in 1..n : level'[k] = level[k]
      /\ ~InMain'
  BY <1>1, <1>2, <1>3 DEF Top, InMain, IrqTypeOK
<1>5. Top.held = <<>> /\ (n = 1 \/ Top.open) /\ Top.at # "scan"
  <2>1. Top.held = <<>> /\ (n = 1 \/ Top.open)
    BY <1>3 DEF IrqIInv, SectionInv, InMain
  <2>2. CASE n = 1  BY <1>1, <2>1, <2>2 DEF IrqIInv, StackInv
  <2>3. CASE n # 1  BY <1>1, <2>1, <2>3 DEF IrqIInv, StackInv
  <2> QED BY <2>1, <2>2, <2>3
<1>6. IrqTypeOK'
  BY <1>1, <1>3, <1>4 DEF IrqTypeOK
<1>7. StackInv'
  <2>1. level'[1].id = ALT_NIRQ /\ level'[1].at = "served" /\ ~level'[1].open
    BY <1>1, <1>4 DEF IrqIInv, StackInv
  <2>2. \A k \in 1..n : level'[k].held = <<>> /\ level'[k].at # "scan" /\ (k > 1 => level'[k].open)
    BY <1>1, <1>4, <1>5 DEF IrqIInv, StackInv
  <2>3. ASSUME NEW k \in 2..n + 1
        PROVE  /\ level'[k].at # "scan" => level'[k].id \in Irq
               /\ level'[k].open => level'[k].at # "scan" /\ level'[k].old = Above(level'[k - 1].id)
    <3>1. k - 1 \in 1..n  BY <1>1
    <3>2. CASE k = n + 1  BY <1>2, <1>4, <3>2
    <3>3. CASE k # n + 1  BY <1>1, <1>4, <3>1, <3>3 DEF IrqIInv, StackInv
    <3> QED BY <3>2, <3>3
  <2>4. Len(level') - 1 = n /\ 2..Len(level') = 2..n + 1
    BY <1>1, <1>4
  <2> QED BY <2>1, <2>2, <2>3, <2>4 DEF StackInv, Above
<1>8. SectionInv'
  BY <1>2, <1>3, <1>4 DEF SectionInv
<1>9. alt_priority_mask = Above(level[n].id) /\ MaskInv'
  <2>1. alt_priority_mask = Above(level[n].id)
    BY <1>1, <1>5 DEF IrqIInv, MaskInv, InMain
  <2>2. Len(level') - 1 = n /\ level'[n] = level[n]
    BY <1>1, <1>4
  <2> QED BY <1>2, <1>3, <1>4, <2>1, <2>2 DEF IrqIInv, MaskInv, Narrowed, Above, InMain
<1>10. ScanInv' /\ SearchEnds'
  BY <1>2, <1>3, <1>4 DEF ScanInv, SearchEnds, IrqIInv, MaskInv, alt_irq_pending
<1>11. PriorityKept'
  <2> SUFFICES ASSUME NEW k \in 1..n, level'[k + 1].at # "scan", ~widened'
               PROVE  level'[k + 1].id < level'[k].id
    BY <1>1, <1>4 DEF PriorityKept
  <2>1. k + 1 # n + 1  BY <1>2, <1>4
  <2>2. k + 1 \in 1..n /\ k \in 1..n - 1  BY <1>1, <2>1
  <2> QED BY <1>3, <1>4, <2>2 DEF IrqIInv, PriorityKept
<1> QED BY <1>6, <1>7, <1>8, <1>9, <1>10, <1>11 DEF IrqIInv

(* Where the running code stands. *)
LEMMA TopLemma ==
    ASSUME IrqIInv
    PROVE  /\ IrqTypeOK /\ Len(level) \in Nat \ {0} /\ Top = level[Len(level)] /\ Top \in Activation
           /\ InMain => Top.at = "served" /\ Top.id = ALT_NIRQ
           /\ Top.open => ~InMain /\ Top.old = Above(level[Len(level) - 1].id)
           /\ ~InMain => Len(level) - 1 \in 1..Len(level) - 1
           /\ ~InMain /\ InCode => Top.id \in Irq
<1>1. IrqTypeOK /\ Len(level) \in Nat \ {0} /\ Top = level[Len(level)] /\ Top \in Activation
  BY DEF IrqIInv, IrqTypeOK, Top
<1>2. InMain => Top.at = "served" /\ Top.id = ALT_NIRQ /\ ~Top.open
  BY <1>1 DEF InMain, IrqIInv, StackInv
<1>3. ASSUME ~InMain
      PROVE  /\ Len(level) - 1 \in 1..Len(level) - 1
             /\ InCode => Top.id \in Irq
             /\ Top.open => Top.old = Above(level[Len(level) - 1].id)
  <2>1. Len(level) \in 2..Len(level) /\ Len(level) - 1 \in 1..Len(level) - 1
    BY <1>1, <1>3, Index DEF InMain
  <2> QED BY <1>1, <2>1 DEF InCode, IrqIInv, StackInv
<1> QED BY <1>1, <1>2, <1>3

(* A step of the running code that enables and masks nothing. *)
LEMMA QuietMask ==
    ASSUME IrqIInv, NEW f \in Activation, Current(f), f.open = Top.open, f.id = Top.id,
           UNCHANGED <<ienable, alt_irq_active, alt_priority_mask, registered, widened>>
    PROVE  MaskInv'
<1>1. /\ Top' = f /\ InMain' = InMain /\ Len(level') = Len(level)
      /\ \A k \in 1..Len(level) - 1 : level'[k] = level[k]
  BY CurrentLemma DEF IrqIInv
<1>2. ~InMain => level'[Len(level) - 1] = level[Len(level) - 1]
  BY <1>1, TopLemma
<1>3. (IF InMain \/ Top.open THEN Top.id ELSE level[Len(level) - 1].id)'
        = IF InMain \/ Top.open THEN Top.id ELSE level[Len(level) - 1].id
  BY <1>1, <1>2
<1>4. alt_priority_mask' = Above(IF InMain \/ Top.open THEN Top.id ELSE level[Len(level) - 1].id)'
  BY <1>3 DEF IrqIInv, MaskInv, Above
<1> QED BY <1>4 DEF IrqIInv, MaskInv, Narrowed

(* A step of the loop of alt_irq_handler, between two handlers. *)
LEMMA LoopStep ==
    ASSUME IrqIInv, ~InMain, NEW f \in Activation, Current(f), ~Top.open, ~f.open, f.held = <<>>,
           f.at = "scan" => /\ f.active # {} /\ f.active \subseteq registered
                            /\ ~widened => f.active \subseteq alt_priority_mask,
           f.at # "scan" => f.id \in Irq /\ (~widened => f.id < level[Len(level) - 1].id),
           UNCHANGED <<raised, ienable, pie, alt_irq_active, alt_priority_mask, registered, widened>>
    PROVE  IrqIInv'
<1> DEFINE n == Len(level)
<1>1. /\ IrqTypeOK /\ n \in Nat \ {0} /\ n # 1 /\ n - 1 \in 1..n - 1
      /\ \A k \in 1..n : level[k] \in Activation
  BY TopLemma DEF IrqTypeOK, InMain
<1>2. /\ level' \in Seq(Activation) /\ level' # <<>> /\ Len(level') = n /\ level'[n] = f
      /\ Top' = f /\ InMain' = InMain /\ \A k \in 1..n - 1 : level'[k] = level[k]
  BY <1>1, CurrentLemma DEF Top
<1>3. ~pie  BY DEF IrqIInv, SectionInv
<1>4. IrqTypeOK'
  BY <1>1, <1>2 DEF IrqTypeOK
<1>5. StackInv'
  <2>1. level'[1].id = ALT_NIRQ /\ level'[1].at = "served" /\ ~level'[1].open
    BY <1>1, <1>2 DEF IrqIInv, StackInv
  <2>2. \A k \in 1..n - 1 : level'[k].held = <<>> /\ level'[k].at # "scan" /\ (k > 1 => level'[k].open)
    BY <1>2 DEF IrqIInv, StackInv
  <2>3. ASSUME NEW k \in 2..n
        PROVE  /\ level'[k].at # "scan" => level'[k].id \in Irq
               /\ level'[k].open => level'[k].at # "scan" /\ level'[k].old = Above(level'[k - 1].id)
    <3>1. k - 1 \in 1..n - 1  BY <1>1
    <3>2. CASE k = n  BY <1>2, <3>2
    <3>3. CASE k # n  BY <1>1, <1>2, <3>1, <3>3 DEF IrqIInv, StackInv
    <3> QED BY <3>2, <3>3
  <2> QED BY <1>2, <2>1, <2>2, <2>3 DEF StackInv, Above
<1>6. SectionInv'
  BY <1>2, <1>3 DEF SectionInv
<1>7. MaskInv'
  <2>1. alt_priority_mask = Above(level[n - 1].id)
    BY DEF IrqIInv, MaskInv
  <2> QED BY <1>1, <1>2, <2>1 DEF IrqIInv, MaskInv, Narrowed, Above
<1>8. ScanInv' /\ SearchEnds'
  BY <1>2 DEF ScanInv, SearchEnds
<1>9. PriorityKept'
  <2> SUFFICES ASSUME NEW k \in 1..n - 1, level'[k + 1].at # "scan", ~widened
               PROVE  level'[k + 1].id < level'[k].id
    BY <1>2 DEF PriorityKept
  <2>1. CASE k + 1 = n
    <3>1. k = n - 1  BY <1>1, <2>1
    <3> QED BY <1>2, <2>1, <3>1
  <2>2. CASE k + 1 # n
    <3>1. k + 1 \in 1..n - 1  BY <1>1, <2>2
    <3> QED BY <1>2, <3>1 DEF IrqIInv, PriorityKept
  <2> QED BY <2>1, <2>2
<1> QED BY <1>4, <1>5, <1>6, <1>7, <1>8, <1>9 DEF IrqIInv

(* The mask a handler that is not interruptible runs under. *)
LEMMA MaskBelow ==
    ASSUME IrqIInv, ~InMain, ~Top.open
    PROVE  /\ alt_priority_mask = Above(level[Len(level) - 1].id)
           /\ \A i \in Irq : i \in alt_priority_mask => i < level[Len(level) - 1].id
<1>1. alt_priority_mask = Above(level[Len(level) - 1].id)
  BY DEF IrqIInv, MaskInv
<1>2. level[Len(level) - 1].id \in 0..ALT_NIRQ
  <2>1. Len(level) - 1 \in 1..Len(level)  BY TopLemma
  <2>2. level \in Seq(Activation)  BY TopLemma DEF IrqTypeOK
  <2>3. level[Len(level) - 1] \in Activation  BY <2>1, <2>2
  <2> QED BY <2>3 DEF Activation
<1> QED BY <1>1, <1>2, IrqAssumption DEF Above, Irq

(* The line found is on the list, and was pending with priority. *)
LEMMA DispatchStep == ASSUME IrqIInv, Dispatch PROVE IrqIInv'
<1> DEFINE i == Lowest(Top.active)
           f == Frame(i, "called", {})
<1>1. /\ Top.at = "scan" /\ Current(f)
      /\ UNCHANGED <<raised, ienable, pie, alt_irq_active, alt_priority_mask, registered, widened>>
  BY DEF Dispatch
<1>2. i \in Top.active /\ i \in Irq
  <2>1. Top.active \in SUBSET Irq /\ Top.active # {}
    BY <1>1, TopLemma DEF IrqIInv, SearchEnds, Activation
  <2> QED BY <2>1, Least
<1> HIDE DEF i
<1>3. f \in Activation /\ f.at = "called" /\ f.held = <<>> /\ ~f.open /\ f.id = i
  BY <1>2, IrqAssumption DEF Frame, Activation, Irq
<1> HIDE DEF f
<1>4. ~InMain  BY <1>1, TopLemma
<1>5. ~Top.open
  <2>1. Len(level) \in 2..Len(level)  BY <1>4, TopLemma, Index DEF InMain
  <2> QED BY <1>1, <2>1, TopLemma DEF IrqIInv, StackInv
<1>6. ~widened => i < level[Len(level) - 1].id
  BY <1>1, <1>2, <1>4, <1>5, MaskBelow DEF IrqIInv, ScanInv
<1> QED BY <1>1, <1>2, <1>3, <1>4, <1>5, <1>6, LoopStep

LEMMA AcknowledgeStep == ASSUME IrqIInv, Acknowledge PROVE IrqIInv'
<1> DEFINE f == [Top EXCEPT !.at = "served"]
<1>1. IrqTypeOK /\ Top \in Activation
  BY TopLemma
<1>2. /\ Top.at = "called" /\ Current(f) /\ raised' = raised \ {Top.id}
      /\ UNCHANGED <<ienable, pie, alt_irq_active, alt_priority_mask, registered, widened>>
  BY DEF Acknowledge
<1>3. /\ f \in Activation /\ f.at = "served" /\ f.id = Top.id /\ f.open = Top.open
      /\ f.old = Top.old /\ f.held = Top.held
  BY <1>1 DEF Activation
<1> HIDE DEF f
<1>4. f.open => ~InMain /\ f.old = Above(level[Len(level) - 1].id)
  BY <1>3, TopLemma
<1>5. /\ level' \in Seq(Activation) /\ level' # <<>>
      /\ StackInv' /\ ScanInv' /\ SearchEnds' /\ PriorityKept'
  <2>1. InCode /\ widened' \in BOOLEAN /\ (widened => widened')
    BY <1>1, <1>2 DEF InCode, IrqTypeOK
  <2> QED BY <1>2, <1>3, <1>4, <2>1, CodeStep
<1>6. /\ Top' = f /\ InMain' = InMain
  BY <1>1, <1>2, <1>3, CurrentLemma
<1>7. IrqTypeOK'
  BY <1>1, <1>2, <1>5 DEF IrqTypeOK
<1>8. SectionInv'
  BY <1>2, <1>3, <1>6 DEF IrqIInv, SectionInv
<1>9. MaskInv'
  BY <1>2, <1>3, QuietMask
<1> QED BY <1>5, <1>7, <1>8, <1>9 DEF IrqIInv

(* A call of the API, which leaves the frame f but for the count of calls. *)
LEMMA CallStep ==
    ASSUME IrqIInv, NEW f \in Activation, Calls(f), f.at = Top.at, f.id = Top.id,
           f.open => ~InMain /\ f.old = Above(level[Len(level) - 1].id),
           widened' \in BOOLEAN, widened => widened'
    PROVE  /\ level' \in Seq(Activation) /\ level' # <<>>
           /\ StackInv' /\ ScanInv' /\ SearchEnds' /\ PriorityKept'
           /\ InMain' = InMain
           /\ Top' \in Activation /\ Top'.held = f.held /\ Top'.open = f.open /\ Top'.id = f.id
           /\ Current(Top')
<1> DEFINE g == [f EXCEPT !.calls = IF InMain THEN 0 ELSE @ + 1]
<1>1. InCode /\ Current(g)
  BY DEF Calls
<1>2. /\ g \in Activation /\ g.at = f.at /\ g.id = f.id /\ g.open = f.open
      /\ g.old = f.old /\ g.held = f.held
  BY DEF Activation
<1> HIDE DEF g
<1>3. g.at # "scan" /\ (InMain => g.at = "served")
  BY <1>1, <1>2, TopLemma DEF InCode
<1>4. /\ level' \in Seq(Activation) /\ level' # <<>>
      /\ StackInv' /\ ScanInv' /\ SearchEnds' /\ PriorityKept'
  BY <1>1, <1>2, <1>3, CodeStep
<1>5. Top' = g /\ InMain' = InMain
  BY <1>1, <1>2, CurrentLemma, TopLemma
<1> QED BY <1>1, <1>2, <1>4, <1>5

(* Enabling, disabling and registering: the lines enabled are the active      *)
(* ones, and where that undoes a mask it is noted.                            *)
LEMMA SetActiveStep ==
    ASSUME IrqIInv, Calls(Top), NEW active \in SUBSET Irq, SetActive(active),
           registered' \in SUBSET Irq, active \subseteq registered'
    PROVE  IrqIInv'
<1>1. /\ alt_irq_active' = active /\ ienable' = active /\ pie' = pie
      /\ widened' = (widened \/ Narrowed)
      /\ raised' = raised /\ alt_priority_mask' = alt_priority_mask
  BY DEF SetActive, alt_irq_enable_all
<1>2. IrqTypeOK /\ Top \in Activation  BY TopLemma
<1>3. widened' \in BOOLEAN /\ (widened => widened')
  BY <1>1, <1>2 DEF IrqTypeOK, Narrowed
<1>4. /\ level' \in Seq(Activation) /\ level' # <<>>
      /\ StackInv' /\ ScanInv' /\ SearchEnds' /\ PriorityKept'
      /\ InMain' = InMain
      /\ Top' \in Activation /\ Top'.held = Top.held /\ Top'.open = Top.open /\ Top'.id = Top.id
      /\ Current(Top')
  BY <1>2, <1>3, TopLemma, CallStep
<1>5. IrqTypeOK'
  BY <1>1, <1>2, <1>3, <1>4 DEF IrqTypeOK
<1>6. SectionInv'
  BY <1>1, <1>4 DEF IrqIInv, SectionInv
<1>7. MaskInv'
  <2>1. /\ Len(level') = Len(level)
        /\ ~InMain => level'[Len(level) - 1] = level[Len(level) - 1]
    BY <1>2, <1>4, CurrentLemma, TopLemma
  <2>2. alt_priority_mask' = Above(IF InMain \/ Top.open THEN Top.id ELSE level[Len(level) - 1].id)'
    BY <1>1, <1>4, <2>1 DEF IrqIInv, MaskInv, Above
  <2>3. ~widened' => ienable' \subseteq alt_priority_mask'
    BY <1>1 DEF Narrowed
  <2> QED BY <1>1, <2>2, <2>3 DEF MaskInv, Narrowed
<1> QED BY <1>4, <1>5, <1>6, <1>7 DEF IrqIInv

LEMMA EnableStep == ASSUME IrqIInv, NEW i \in Irq, alt_irq_enable(i) PROVE IrqIInv'
<1>1. alt_irq_active \subseteq registered /\ registered \subseteq Irq
  BY DEF IrqIInv, MaskInv, IrqTypeOK
<1> QED BY <1>1, SetActiveStep DEF alt_irq_enable

LEMMA DisableStep == ASSUME IrqIInv, NEW i \in Irq, alt_irq_disable(i) PROVE IrqIInv'
<1>1. alt_irq_active \subseteq registered /\ registered \subseteq Irq
  BY DEF IrqIInv, MaskInv, IrqTypeOK
<1> QED BY <1>1, SetActiveStep DEF alt_irq_disable

LEMMA RegisterStep ==
    ASSUME IrqIInv, NEW i \in Irq, NEW handler \in BOOLEAN, alt_irq_register(i, handler)
    PROVE  IrqIInv'
<1>1. alt_irq_active \subseteq registered /\ registered \subseteq Irq
  BY DEF IrqIInv, MaskInv, IrqTypeOK
<1>2. CASE handler
  BY <1>1, <1>2, SetActiveStep DEF alt_irq_register
<1>3. CASE ~handler
  BY <1>1, <1>3, SetActiveStep DEF alt_irq_register
<1> QED BY <1>2, <1>3

(* The first context is that of the code, all others say off. *)
LEMMA DisableAllStep == ASSUME IrqIInv, alt_irq_disable_all PROVE IrqIInv'
<1> DEFINE f == [Top EXCEPT !.held = Append(@, pie)]
<1>1. IrqTypeOK /\ Top \in Activation  BY TopLemma
<1>2. /\ Calls(f) /\ pie' = FALSE
      /\ UNCHANGED <<raised, ienable, alt_irq_active, alt_priority_mask, registered, widened>>
  BY DEF alt_irq_disable_all
<1>3. /\ f \in Activation /\ f.at = Top.at /\ f.id = Top.id /\ f.open = Top.open
      /\ f.old = Top.old /\ f.held = Append(Top.held, pie)
  <2>1. Top.held \in Seq(BOOLEAN) /\ pie \in BOOLEAN  BY <1>1 DEF Activation, IrqTypeOK
  <2>2. Append(Top.held, pie) \in Seq(BOOLEAN)  BY <2>1, AppendProperties
  <2> QED BY <1>1, <2>2 DEF Activation
<1> HIDE DEF f
<1>4. widened' \in BOOLEAN /\ (widened => widened')
  BY <1>1, <1>2 DEF IrqTypeOK
<1>5. f.open => ~InMain /\ f.old = Above(level[Len(level) - 1].id)
  BY <1>3, TopLemma
<1>6. /\ level' \in Seq(Activation) /\ level' # <<>>
      /\ StackInv' /\ ScanInv' /\ SearchEnds' /\ PriorityKept'
      /\ InMain' = InMain
      /\ Top' \in Activation /\ Top'.held = f.held /\ Top'.open = f.open /\ Top'.id = f.id
      /\ Current(Top')
  BY <1>2, <1>3, <1>4, <1>5, CallStep
<1>7. IrqTypeOK'
  BY <1>1, <1>2, <1>6 DEF IrqTypeOK
<1>8. MaskInv'
  BY <1>2, <1>3, <1>6, QuietMask
<1>9. SectionInv'
  <2>1. Top.held \in Seq(BOOLEAN) /\ pie \in BOOLEAN  BY <1>1 DEF Activation, IrqTypeOK
  <2> SUFFICES ASSUME NEW n \in 1..Len(Append(Top.held, pie)), Append(Top.held, pie)[n]
               PROVE  n = 1 /\ (InMain \/ Top.open)
    BY <1>2, <1>3, <1>6 DEF SectionInv
  <2>2. CASE n \in 1..Len(Top.held)
    <3>1. Append(Top.held, pie)[n] = Top.held[n]  BY <2>1, <2>2, AppendProperties, ZenonT(60)
    <3> QED BY <2>2, <3>1 DEF IrqIInv, SectionInv
  <2>3. CASE n = Len(Top.held) + 1
    <3>1. Append(Top.held, pie)[n] = pie  BY <2>1, <2>3, AppendProperties
    <3>2. pie  BY <3>1
    <3>3. Top.held = <<>> /\ (InMain \/ Top.open)
      BY <3>2 DEF IrqIInv, SectionInv
    <3> QED BY <2>3, <3>3
  <2> QED BY <2>1, <2>2, <2>3
<1> QED BY <1>6, <1>7, <1>8, <1>9 DEF IrqIInv

(* Only the outermost section lets interrupts in again. *)
LEMMA EnableAllStep == ASSUME IrqIInv, EnableAll PROVE IrqIInv'
<1> DEFINE n == Len(Top.held)
           f == [Top EXCEPT !.held = SubSeq(@, 1, n - 1)]
<1>1. IrqTypeOK /\ Top \in Activation  BY TopLemma
<1>2. /\ InCode /\ Top.held # <<>> /\ Current(f) /\ pie' = Top.held[n]
      /\ UNCHANGED <<raised, ienable, alt_irq_active, alt_priority_mask, registered, widened>>
  BY DEF EnableAll, alt_irq_enable_all
<1>3. Top.held \in Seq(BOOLEAN) /\ n \in Nat \ {0} /\ Top.held[n] \in BOOLEAN
  BY <1>1, <1>2 DEF Activation
<1>4. SubSeq(Top.held, 1, n - 1) \in Seq(BOOLEAN)
  BY <1>3
<1>5. /\ f \in Activation /\ f.at = Top.at /\ f.id = Top.id /\ f.open = Top.open
      /\ f.old = Top.old /\ f.held = SubSeq(Top.held, 1, n - 1)
  BY <1>1, <1>4 DEF Activation
<1> HIDE DEF f
<1>6. /\ widened' \in BOOLEAN /\ (widened => widened')
      /\ f.at # "scan" /\ (InMain => f.at = "served")
      /\ f.open => ~InMain /\ f.old = Above(level[Len(level) - 1].id)
  BY <1>1, <1>2, <1>5, TopLemma DEF IrqTypeOK, InCode
<1>7. /\ level' \in Seq(Activation) /\ level' # <<>>
      /\ StackInv' /\ ScanInv' /\ SearchEnds' /\ PriorityKept'
  BY <1>2, <1>5, <1>6, CodeStep
<1>8. Top' = f /\ InMain' = InMain
  BY <1>1, <1>2, <1>5, CurrentLemma
<1>9. IrqTypeOK'
  BY <1>1, <1>2, <1>3, <1>7 DEF IrqTypeOK
<1>10. MaskInv'
  BY <1>2, <1>5, QuietMask
<1>11. SectionInv'
  <2>1. \A m \in 1..n : Top.held[m] => m = 1 /\ (InMain \/ Top.open)
    BY DEF IrqIInv, SectionInv
  <2>2. pie' => f.held = <<>> /\ (InMain \/ Top.open)
    <3> SUFFICES ASSUME Top.held[n] PROVE SubSeq(Top.held, 1, n - 1) = <<>> /\ (InMain \/ Top.open)
      BY <1>2, <1>5
    <3>0. n \in 1..n  BY <1>3
    <3>1. n = 1 /\ (InMain \/ Top.open)  BY <2>1, <3>0
    <3> QED BY <1>3, <3>1
  <2>3. ASSUME NEW m \in 1..Len(f.held), f.held[m] PROVE m = 1 /\ (InMain \/ Top.open)
    <3>1. m \in 1..n /\ SubSeq(Top.held, 1, n - 1)[m] = Top.held[m]
      BY <1>3, <1>5
    <3> QED BY <1>5, <2>1, <2>3, <3>1
  <2> QED BY <1>5, <1>8, <2>2, <2>3 DEF SectionInv
<1> QED BY <1>7, <1>9, <1>10, <1>11 DEF IrqIInv

LEMMA InterruptibleStep == ASSUME IrqIInv, alt_irq_interruptible PROVE IrqIInv'
<1> DEFINE f == [Top EXCEPT !.open = TRUE, !.old = alt_priority_mask]
<1>1. IrqTypeOK /\ Top \in Activation  BY TopLemma
<1>2. /\ ~InMain /\ ~Top.open /\ Top.held = <<>> /\ Calls(f)
      /\ alt_priority_mask' = Above(Top.id) /\ ienable' = alt_irq_active \cap Above(Top.id)
      /\ pie' = TRUE /\ UNCHANGED <<raised, alt_irq_active, registered, widened>>
  BY DEF alt_irq_interruptible
<1>3. /\ f \in Activation /\ f.at = Top.at /\ f.id = Top.id /\ f.open
      /\ f.old = alt_priority_mask /\ f.held = Top.held
  BY <1>1 DEF Activation, IrqTypeOK
<1>4. Top.id \in Irq
  BY <1>2, TopLemma DEF Calls
<1> HIDE DEF f
<1>5. widened' \in BOOLEAN /\ (widened => widened')
  BY <1>1, <1>2 DEF IrqTypeOK
<1>6. /\ level' \in Seq(Activation) /\ level' # <<>>
      /\ StackInv' /\ ScanInv' /\ SearchEnds' /\ PriorityKept'
      /\ InMain' = InMain
      /\ Top' \in Activation /\ Top'.held = f.held /\ Top'.open = f.open /\ Top'.id = f.id
  BY <1>2, <1>3, <1>5, CallStep, MaskBelow
<1>7. Above(Top.id) \subseteq Irq /\ Top.id \notin Above(Top.id)
  BY <1>4, IrqAssumption DEF Above, Irq
<1>8. IrqTypeOK'
  BY <1>1, <1>2, <1>6, <1>7 DEF IrqTypeOK
<1>9. SectionInv'
  BY <1>2, <1>3, <1>6 DEF SectionInv
<1>10. MaskInv'
  BY <1>2, <1>3, <1>4, <1>6, <1>7 DEF IrqIInv, MaskInv, Narrowed, Above
<1> QED BY <1>6, <1>8, <1>9, <1>10 DEF IrqIInv

(* The mask goes back to that of the code below. *)
LEMMA NonInterruptibleStep == ASSUME IrqIInv, alt_irq_non_interruptible PROVE IrqIInv'
<1> DEFINE f == [Top EXCEPT !.open = FALSE, !.old = {}]
<1>1. IrqTypeOK /\ Top \in Activation  BY TopLemma
<1>2. /\ InCode /\ Top.open /\ Top.held = <<>> /\ pie' = FALSE /\ Current(f)
      /\ alt_priority_mask' = Top.old /\ ienable' = Top.old \cap alt_irq_active
      /\ UNCHANGED <<raised, alt_irq_active, registered, widened>>
  BY DEF alt_irq_non_interruptible
<1>3. /\ f \in Activation /\ f.at = Top.at /\ f.id = Top.id /\ ~f.open /\ f.held = Top.held
  BY <1>1 DEF Activation
<1> HIDE DEF f
<1>4. ~InMain /\ Top.old = Above(level[Len(level) - 1].id) /\ Top.old \subseteq Irq
  BY <1>1, <1>2, TopLemma DEF Activation
<1>5. widened' \in BOOLEAN /\ (widened => widened') /\ f.at # "scan"
  BY <1>1, <1>2, <1>3 DEF IrqTypeOK, InCode
<1>6. /\ level' \in Seq(Activation) /\ level' # <<>>
      /\ StackInv' /\ ScanInv' /\ SearchEnds' /\ PriorityKept'
  BY <1>2, <1>3, <1>4, <1>5, CodeStep
<1>7. /\ Top' = f /\ InMain' = InMain /\ Len(level') = Len(level)
      /\ level'[Len(level) - 1] = level[Len(level) - 1]
  BY <1>1, <1>2, <1>3, <1>4, CurrentLemma, TopLemma
<1>8. IrqTypeOK'
  BY <1>1, <1>2, <1>4, <1>6 DEF IrqTypeOK
<1>9. SectionInv'
  BY <1>2, <1>3, <1>7 DEF SectionInv
<1>10. MaskInv'
  <2>1. alt_priority_mask' = Above(level'[Len(level') - 1].id)
    BY <1>2, <1>4, <1>7
  <2>2. alt_irq_active \subseteq Irq  BY <1>1 DEF IrqTypeOK
  <2> QED BY <1>2, <1>3, <1>4, <1>7, <2>1, <2>2 DEF IrqIInv, MaskInv, Narrowed, Above
<1> QED BY <1>6, <1>8, <1>9, <1>10 DEF IrqIInv

(* A handler returns to the loop, or to what it interrupted. *)
LEMMA ReturnStep == ASSUME IrqIInv, Return PROVE IrqIInv'
<1> DEFINE n == Len(level)
           f == Frame(ALT_NIRQ, "scan", alt_irq_pending)
<1>1. /\ IrqTypeOK /\ n \in Nat \ {0} /\ n # 1 /\ n - 1 \in 1..n - 1
      /\ ~InMain /\ Top.held = <<>> /\ ~Top.open
      /\ UNCHANGED <<raised, ienable, alt_irq_active, alt_priority_mask, registered>>
  BY TopLemma DEF Return, InMain
<1>2. alt_priority_mask = Above(level[n - 1].id)
  BY <1>1, MaskBelow
<1>3. CASE alt_irq_pending # {}
  <2>1. Current(f) /\ UNCHANGED <<pie, widened>>
    BY <1>3 DEF Return
  <2>2. f \in Activation /\ f.at = "scan" /\ f.held = <<>> /\ ~f.open /\ f.active = alt_irq_pending
    BY <1>1, IrqAssumption DEF Frame, Activation, IrqTypeOK, alt_irq_pending, Irq
  <2> HIDE DEF f
  <2>3. alt_irq_pending \subseteq registered /\ (~widened => alt_irq_pending \subseteq alt_priority_mask)
    BY DEF IrqIInv, MaskInv, alt_irq_pending
  <2> QED BY <1>1, <1>3, <2>1, <2>2, <2>3, LoopStep
<1>4. CASE alt_irq_pending = {}
  <2>1. /\ level' = SubSeq(level, 1, n - 1) /\ pie' = TRUE /\ widened' = (widened /\ n > 2)
    BY <1>4 DEF Return
  <2>2. /\ level' \in Seq(Activation) /\ Len(level') = n - 1 /\ level' # <<>>
        /\ \A k \in 1..n - 1 : level'[k] = level[k]
    <3>1. level \in Seq(Activation) /\ level # <<>>  BY <1>1 DEF IrqTypeOK
    <3> QED BY <1>1, <2>1, <3>1, Popped
  <2>3. Top' = level[n - 1] /\ Top'.held = <<>> /\ Top'.at # "scan" /\ (n - 1 > 1 => Top'.open)
    BY <1>1, <2>2 DEF Top, IrqIInv, StackInv
  <2>4. InMain' \/ Top'.open
    <3>1. CASE n = 2  BY <2>2, <3>1 DEF InMain
    <3>2. CASE n # 2
      <4>1. n - 1 > 1  BY <1>1, <3>2, Index
      <4> QED BY <2>3, <4>1
    <3> QED BY <3>1, <3>2
  <2>5. IrqTypeOK'
    BY <1>1, <2>1, <2>2 DEF IrqTypeOK
  <2>6. StackInv'
    <3>1. level'[1].id = ALT_NIRQ /\ level'[1].at = "served" /\ ~level'[1].open
      BY <1>1, <2>2 DEF IrqIInv, StackInv
    <3>2. ASSUME NEW k \in 1..(n - 1) - 1
          PROVE  level'[k].held = <<>> /\ level'[k].at # "scan" /\ (k > 1 => level'[k].open)
      <4>1. k \in 1..n - 1  BY <1>1
      <4> QED BY <2>2, <4>1 DEF IrqIInv, StackInv
    <3>3. ASSUME NEW k \in 2..n - 1
          PROVE  /\ level'[k].at # "scan" => level'[k].id \in Irq
                 /\ level'[k].open => level'[k].at # "scan" /\ level'[k].old = Above(level'[k - 1].id)
      <4>1. k \in 2..n /\ k \in 1..n - 1 /\ k - 1 \in 1..n - 1  BY <1>1
      <4> QED BY <2>2, <4>1 DEF IrqIInv, StackInv
    <3> QED BY <2>2, <3>1, <3>2, <3>3 DEF StackInv, Above
  <2>7. SectionInv'
    BY <2>3, <2>4 DEF SectionInv
  <2>8. MaskInv'
    <3>1. alt_priority_mask' = Above(Top'.id)
      BY <1>1, <1>2, <2>3
    <3>2. ~widened' => ienable' \subseteq alt_priority_mask'
      <4>1. CASE n > 2  BY <1>1, <2>1, <4>1 DEF IrqIInv, MaskInv
      <4>2. CASE ~(n > 2)
        <5>1. n = 2  BY <1>1, <4>2, Index
        <5>2. alt_priority_mask = Irq
          BY <1>2, <5>1 DEF IrqIInv, StackInv, Above, Irq
        <5> QED BY <1>1, <5>2 DEF IrqTypeOK
      <4> QED BY <4>1, <4>2
    <3> QED BY <1>1, <2>4, <3>1, <3>2 DEF IrqIInv, MaskInv, Narrowed, Above
  <2>9. ScanInv' /\ SearchEnds'
    BY <2>3 DEF ScanInv, SearchEnds
  <2>10. PriorityKept'
    <3> SUFFICES ASSUME NEW k \in 1..(n - 1) - 1, level'[k + 1].at # "scan", ~widened'
                 PROVE  level'[k + 1].id < level'[k].id
      BY <2>2 DEF PriorityKept
    <3>1. k \in 1..n - 1 /\ k + 1 \in 1..n - 1 /\ n > 2  BY <1>1
    <3>2. ~widened  BY <2>1, <3>1
    <3> QED BY <2>2, <3>1, <3>2 DEF IrqIInv, PriorityKept
  <2> QED BY <2>5, <2>6, <2>7, <2>8, <2>9, <2>10 DEF IrqIInv
<1> QED BY <1>3, <1>4

LEMMA IrqNextInv == IrqIInv /\ [IrqNext]_irqVars => IrqIInv'
<1> SUFFICES ASSUME IrqIInv, [IrqNext]_irqVars PROVE IrqIInv'
  OBVIOUS
<1>1. CASE UNCHANGED irqVars
  BY <1>1 DEF irqVars, IrqIInv, IrqTypeOK, StackInv, SectionInv, MaskInv, ScanInv, SearchEnds,
              PriorityKept, Top, InMain, Narrowed
<1>2. CASE Handler
  BY <1>2, DispatchStep, AcknowledgeStep, ReturnStep, EnableAllStep, NonInterruptibleStep DEF Handler
<1>3. ASSUME NEW i \in Irq, NEW handler \in BOOLEAN,
             Raise(i) \/ alt_irq_enable(i) \/ alt_irq_disable(i) \/ alt_irq_register(i, handler)
      PROVE  IrqIInv'
  BY <1>3, RaiseStep, EnableStep, DisableStep, RegisterStep
<1>4. CASE Enter \/ alt_irq_disable_all \/ alt_irq_interruptible
  BY <1>4, EnterStep, DisableAllStep, InterruptibleStep
<1> QED BY <1>1, <1>2, <1>3, <1>4 DEF IrqNext

LEMMA IrqInvariant == IrqSpec => []IrqIInv
  BY IrqInitInv, IrqNextInv, PTL DEF IrqSpec

(* Sections are not interrupted and main runs with the lines that are active, *)
(* however handlers nest and whatever they enable, disable and register       *)
(* (alt_irq.h:113-159, alt_legacy_irq.h:118-149).                             *)
THEOREM SectionsAndMasks == IrqSpec => []IrqInv
<1>1. IrqIInv => IrqInv
  <2> SUFFICES ASSUME IrqIInv PROVE IrqInv
    OBVIOUS
  <2>1. SectionsHold  BY DEF IrqIInv, StackInv, SectionsHold
  <2>2. ASSUME InMain PROVE alt_priority_mask = Irq /\ ienable = alt_irq_active
    <3>1. alt_priority_mask = Above(ALT_NIRQ)
      BY <2>2, TopLemma DEF IrqIInv, MaskInv
    <3>2. alt_priority_mask = Irq  BY <3>1 DEF Above, Irq
    <3> QED BY <3>2 DEF IrqIInv, MaskInv, Narrowed
  <2> QED BY <2>1, <2>2 DEF IrqIInv, IrqInv, MainUnmasked
<1> QED BY <1>1, IrqInvariant, PTL

(* The search of alt_irq_handler always finds a line with a handler           *)
(* (alt_irq_handler.c:117-155).                                               *)
THEOREM SearchFinds == IrqSpec => []SearchEnds
<1>1. IrqIInv => SearchEnds  BY DEF IrqIInv
<1> QED BY <1>1, IrqInvariant, PTL

(* A handler is interrupted by lines of higher priority only, as long as no  *)
(* mask was undone (alt_legacy_irq.h:95, 103).                                *)
THEOREM PriorityHolds == IrqSpec => []PriorityKept
<1>1. IrqIInv => PriorityKept  BY DEF IrqIInv
<1> QED BY <1>1, IrqInvariant, PTL

---------------------------------------------------------------------------
(* The system clock. *)

LinksOK == /\ next \in [Node -> Node \cup {None}] /\ prev \in [Node -> Node \cup {None}]
           /\ listed \subseteq Alarm
           /\ walk \in [at : {"idle", "alarm", "callback"}, alarm : Node \cup {None}, next : Node \cup {None}]

IInv == LinksOK /\ LinksMatch /\ LinkedOK

LEMMA InitInv == Init => IInv
  BY ClockAssumption DEF Init, Idle, Node, IInv, LinksOK, LinksMatch, LinkedOK

(* What an insertion leaves. *)
LEMMA InsertLemma ==
    ASSUME IInv, NEW e \in Alarm, e \notin listed, alt_llist_insert(e)
    PROVE  /\ next' \in [Node -> Node \cup {None}] /\ prev' \in [Node -> Node \cup {None}]
           /\ listed' = listed \cup {e} /\ LinksMatch'
           /\ \A n \in Node : next[n] # None => next'[n] # None
           /\ \A a \in Alarm \ listed' : next'[a] = next[a]
           /\ next'[e] # None
<1> DEFINE first == next[alt_alarm_list]
<1>1. /\ next \in [Node -> Node \cup {None}] /\ prev \in [Node -> Node \cup {None}]
      /\ e \in Node /\ alt_alarm_list \in Node /\ e # alt_alarm_list /\ None \notin Node
      /\ first \in Node /\ prev[first] = alt_alarm_list
      /\ next[e] \in {None, e} /\ listed \subseteq Alarm
  BY ClockAssumption DEF IInv, LinksOK, LinksMatch, LinkedOK, Node
<1>2. prev[e] \in {None, e}
  BY <1>1 DEF IInv, LinksMatch
<1>3. first # e
  BY <1>1, <1>2
<1>4. /\ next' = [next EXCEPT ![e] = first, ![alt_alarm_list] = e]
      /\ prev' = [prev EXCEPT ![e] = alt_alarm_list, ![first] = e]
      /\ listed' = listed \cup {e}
  BY DEF alt_llist_insert
<1> HIDE DEF first
<1>5. /\ next' \in [Node -> Node \cup {None}] /\ prev' \in [Node -> Node \cup {None}]
      /\ next'[e] = first /\ next'[alt_alarm_list] = e
      /\ \A n \in Node \ {e, alt_alarm_list} : next'[n] = next[n]
      /\ prev'[e] = alt_alarm_list /\ prev'[first] = e
      /\ \A n \in Node \ {e, first} : prev'[n] = prev[n]
  BY <1>1, <1>3, <1>4
<1>6. \A n \in Node : next'[n] # None => next'[n] \in Node /\ prev'[next'[n]] = n
  <2> SUFFICES ASSUME NEW n \in Node, next'[n] # None PROVE next'[n] \in Node /\ prev'[next'[n]] = n
    OBVIOUS
  <2>1. CASE n = e \/ n = alt_alarm_list
    BY <1>1, <1>5, <2>1
  <2>2. CASE n # e /\ n # alt_alarm_list
    <3>1. next'[n] = next[n] /\ next[n] \in Node /\ prev[next[n]] = n
      BY <1>1, <1>5, <2>2 DEF IInv, LinksMatch
    <3>2. next[n] # first /\ next[n] # e
      BY <1>1, <1>2, <2>2, <3>1
    <3> QED BY <1>5, <3>1, <3>2
  <2> QED BY <2>1, <2>2
<1>7. \A n \in Node : prev'[n] # None => prev'[n] \in Node /\ next'[prev'[n]] = n
  <2> SUFFICES ASSUME NEW n \in Node, prev'[n] # None PROVE prev'[n] \in Node /\ next'[prev'[n]] = n
    OBVIOUS
  <2>1. CASE n = e \/ n = first
    BY <1>1, <1>5, <2>1
  <2>2. CASE n # e /\ n # first
    <3>1. prev'[n] = prev[n] /\ prev[n] \in Node /\ next[prev[n]] = n
      BY <1>1, <1>5, <2>2 DEF IInv, LinksMatch
    <3>2. prev[n] # e /\ prev[n] # alt_alarm_list
      BY <1>1, <2>2, <3>1 DEF first
    <3> QED BY <1>5, <3>1, <3>2
  <2> QED BY <2>1, <2>2
<1>8. \A a \in Alarm : next'[a] = None <=> prev'[a] = None
  <2> SUFFICES ASSUME NEW a \in Alarm PROVE next'[a] = None <=> prev'[a] = None
    OBVIOUS
  <2>1. a \in Node /\ a # alt_alarm_list
    BY ClockAssumption DEF Node
  <2>2. CASE a = e
    BY <1>1, <1>5, <2>2
  <2>3. CASE a # e
    BY <1>1, <1>5, <2>1, <2>3 DEF IInv, LinksMatch
  <2> QED BY <2>2, <2>3
<1>9. next'[alt_alarm_list] # None /\ prev'[alt_alarm_list] # None
  BY <1>1, <1>5 DEF IInv, LinksMatch
<1> QED BY <1>1, <1>4, <1>5, <1>6, <1>7, <1>8, <1>9, ClockAssumption DEF LinksMatch, Node

(* What a removal leaves, of an entry that may have been removed before. *)
LEMMA RemoveLemma ==
    ASSUME IInv, NEW e \in Alarm, next[e] # None, alt_llist_remove(e)
    PROVE  /\ next' \in [Node -> Node \cup {None}] /\ prev' \in [Node -> Node \cup {None}]
           /\ listed' = listed \ {e} /\ LinksMatch'
           /\ \A n \in Node : next[n] # None => next'[n] # None
           /\ \A a \in Alarm \ listed' : next'[a] \in {None, a}
<1> DEFINE p == prev[e]
           s == next[e]
<1>1. /\ next \in [Node -> Node \cup {None}] /\ prev \in [Node -> Node \cup {None}]
      /\ e \in Node /\ alt_alarm_list \in Node /\ e # alt_alarm_list /\ None \notin Node
      /\ p \in Node /\ s \in Node /\ next[p] = e /\ prev[s] = e
      /\ listed \subseteq Alarm
  BY ClockAssumption DEF IInv, LinksOK, LinksMatch, Node
<1>2. /\ next' = [next EXCEPT ![p] = s, ![e] = e]
      /\ prev' = [prev EXCEPT ![s] = p, ![e] = e]
      /\ listed' = listed \ {e}
  BY DEF alt_llist_remove
<1>3. p = e <=> s = e
  BY <1>1
<1>4. /\ next' \in [Node -> Node \cup {None}] /\ prev' \in [Node -> Node \cup {None}]
      /\ next'[e] = e /\ prev'[e] = e
      /\ p # e => next'[p] = s
      /\ s # e => prev'[s] = p
      /\ \A n \in Node \ {e, p} : next'[n] = next[n]
      /\ \A n \in Node \ {e, s} : prev'[n] = prev[n]
  BY <1>1, <1>2
<1>5. \A n \in Node : next'[n] # None => next'[n] \in Node /\ prev'[next'[n]] = n
  <2> SUFFICES ASSUME NEW n \in Node, next'[n] # None PROVE next'[n] \in Node /\ prev'[next'[n]] = n
    OBVIOUS
  <2>1. CASE n = e \/ n = p
    BY <1>1, <1>3, <1>4, <2>1
  <2>2. CASE n # e /\ n # p
    <3>1. next'[n] = next[n] /\ next[n] \in Node /\ prev[next[n]] = n
      BY <1>1, <1>4, <2>2 DEF IInv, LinksMatch
    <3>2. next[n] # e /\ next[n] # s
      BY <1>1, <2>2, <3>1
    <3> QED BY <1>4, <3>1, <3>2
  <2> QED BY <2>1, <2>2
<1>6. \A n \in Node : prev'[n] # None => prev'[n] \in Node /\ next'[prev'[n]] = n
  <2> SUFFICES ASSUME NEW n \in Node, prev'[n] # None PROVE prev'[n] \in Node /\ next'[prev'[n]] = n
    OBVIOUS
  <2>1. CASE n = e \/ n = s
    BY <1>1, <1>3, <1>4, <2>1
  <2>2. CASE n # e /\ n # s
    <3>1. prev'[n] = prev[n] /\ prev[n] \in Node /\ next[prev[n]] = n
      BY <1>1, <1>4, <2>2 DEF IInv, LinksMatch
    <3>2. prev[n] # e /\ prev[n] # p
      BY <1>1, <2>2, <3>1
    <3> QED BY <1>4, <3>1, <3>2
  <2> QED BY <2>1, <2>2
<1>7. \A a \in Alarm : next'[a] = None <=> prev'[a] = None
  <2> SUFFICES ASSUME NEW a \in Alarm PROVE next'[a] = None <=> prev'[a] = None
    OBVIOUS
  <2>1. a \in Node /\ a # alt_alarm_list /\ (next[a] = None <=> prev[a] = None)
    BY ClockAssumption DEF Node, IInv, LinksMatch
  <2>2. next'[a] = None <=> next[a] = None
    BY <1>1, <1>3, <1>4, <2>1
  <2>3. prev'[a] = None <=> prev[a] = None
    BY <1>1, <1>3, <1>4, <2>1
  <2> QED BY <2>1, <2>2, <2>3
<1>8. next'[alt_alarm_list] # None /\ prev'[alt_alarm_list] # None
  BY <1>1, <1>3, <1>4 DEF IInv, LinksMatch
<1>9. \A n \in Node : next[n] # None => next'[n] # None
  BY <1>1, <1>3, <1>4
<1>10. ASSUME NEW a \in Alarm \ listed' PROVE next'[a] \in {None, a}
  <2>1. a \in Node
    BY DEF Node
  <2>2. CASE a = e
    BY <1>4, <2>2
  <2>3. CASE a # e
    <3>1. next[a] \in {None, a}
      BY <1>2, <2>3 DEF IInv, LinkedOK
    <3>2. a # p
      BY <1>1, <2>3, <3>1
    <3> QED BY <1>4, <2>1, <2>3, <3>1, <3>2
  <2> QED BY <2>2, <2>3
<1> QED BY <1>2, <1>4, <1>5, <1>6, <1>7, <1>8, <1>9, <1>10 DEF LinksMatch
---------------------------------------------------------------------------
(* A step that starts or stops an alarm and leaves the walk where it is. *)
LEMMA ChangeKeeps ==
    ASSUME IInv, UNCHANGED walk, NEW a \in Alarm,
           \/ a \notin listed /\ alt_llist_insert(a)
           \/ next[a] # None /\ alt_llist_remove(a)
    PROVE  IInv'
<1>1. /\ next' \in [Node -> Node \cup {None}] /\ prev' \in [Node -> Node \cup {None}]
      /\ listed' \subseteq Alarm /\ LinksMatch'
      /\ \A n \in Node : next[n] # None => next'[n] # None
      /\ \A b \in listed' : next'[b] # None
      /\ \A b \in Alarm \ listed' : next'[b] \in {None, b}
  <2>1. CASE a \notin listed /\ alt_llist_insert(a)
    BY <2>1, InsertLemma DEF IInv, LinkedOK, LinksOK, Node
  <2>2. CASE next[a] # None /\ alt_llist_remove(a)
    BY <2>2, RemoveLemma DEF IInv, LinkedOK, LinksOK, Node
  <2> QED BY <2>1, <2>2
<1>2. LinksOK'
  BY <1>1 DEF IInv, LinksOK
<1>3. LinkedOK'
  <2>1. walk.alarm \in Alarm => walk.alarm \in Node
    BY DEF Node
  <2> QED BY <1>1, <2>1 DEF IInv, LinkedOK
<1> QED BY <1>1, <1>2, <1>3 DEF IInv

(* A step of the walk that leaves the links alone. *)
LEMMA WalkKeeps ==
    ASSUME IInv, UNCHANGED <<links, listed>>, LinksOK', LinkedOK'
    PROVE  IInv'
  BY DEF IInv, LinksMatch, links

LEMMA StartKeeps ==
    ASSUME IInv, NEW a \in Alarm, NEW n, alt_alarm_start(a, n), UNCHANGED walk
    PROVE  IInv'
<1>1. CASE tick_rate = 0
  BY <1>1 DEF alt_alarm_start, links, IInv, LinksOK, LinksMatch, LinkedOK
<1>2. CASE tick_rate # 0
  BY <1>2, ChangeKeeps DEF alt_alarm_start
<1> QED BY <1>1, <1>2

LEMMA StepInv == IInv /\ [Next]_clockVars => IInv'
<1> SUFFICES ASSUME IInv, [Next]_clockVars PROVE IInv'
  OBVIOUS
<1>1. /\ next \in [Node -> Node \cup {None}] /\ listed \subseteq Alarm
      /\ alt_alarm_list \in Node /\ next[alt_alarm_list] \in Node
      /\ \A n \in Node : next[n] # None => next[n] \in Node
      /\ \A n \in Node : next[n] # None => next[next[n]] # None
      /\ next[next[alt_alarm_list]] # None
      /\ Alarm \subseteq Node /\ None \notin Node
      /\ walk \in [at : {"idle", "alarm", "callback"}, alarm : Node \cup {None}, next : Node \cup {None}]
  <2>1. \A n \in Node : next[n] # None => next[n] \in Node /\ prev[next[n]] = n
    BY DEF IInv, LinksMatch
  <2>2. ASSUME NEW n \in Node, next[n] # None PROVE next[next[n]] # None
    <3>1. next[n] \in Node /\ prev[next[n]] # None
      BY <2>1, <2>2, ClockAssumption
    <3> QED BY <3>1, ClockAssumption DEF IInv, LinksMatch, Node
  <2>3. alt_alarm_list \in Node /\ next[alt_alarm_list] # None /\ None \notin Node /\ Alarm \subseteq Node
    BY ClockAssumption DEF IInv, LinksMatch, Node
  <2> QED BY <2>1, <2>2, <2>3 DEF IInv, LinksOK
<1>2. CASE UNCHANGED clockVars \/ alt_avalon_timer_sc_init \/ ReadRest \/ \E which \in {"low", "high"} : ReadHalf(which)
  BY <1>2 DEF clockVars, links, alt_avalon_timer_sc_init, ReadRest, ReadHalf, IInv, LinksOK, LinksMatch, LinkedOK
<1>3. CASE Tick
  <2>1. LinksOK' /\ LinkedOK'
    BY <1>1, <1>3 DEF Tick, links, IInv, LinksOK, LinkedOK
  <2> QED BY <1>3, <2>1, WalkKeeps DEF Tick
<1>4. CASE TickDone
  <2>1. LinksOK' /\ LinkedOK'
    BY <1>4 DEF TickDone, Idle, links, IInv, LinksOK, LinkedOK
  <2> QED BY <1>4, <2>1, WalkKeeps DEF TickDone
<1>5. CASE Visit
  <2>1. walk.alarm \in Alarm /\ next[walk.alarm] # None
    BY <1>5 DEF Visit, Node, IInv, LinkedOK
  <2>2. LinksOK' /\ LinkedOK'
    BY <1>1, <1>5, <2>1 DEF Visit, links, IInv, LinksOK, LinkedOK
  <2> QED BY <1>5, <2>2, WalkKeeps DEF Visit
<1>6. ASSUME NEW n \in Period, CallbackReturns(n) PROVE IInv'
  <2>1. /\ walk.alarm \in Alarm /\ next[walk.alarm] # None
        /\ walk.next \in Node /\ next[walk.next] # None
        /\ walk' = [at |-> "alarm", alarm |-> walk.next, next |-> None]
    BY <1>6 DEF CallbackReturns, IInv, LinkedOK
  <2>2. CASE n = 0
    <3>1. alt_llist_remove(walk.alarm)
      BY <1>6, <2>2 DEF CallbackReturns
    <3>2. LinksOK' /\ LinkedOK' /\ LinksMatch'
      BY <1>1, <2>1, <3>1, RemoveLemma DEF IInv, LinksOK, LinkedOK
    <3> QED BY <3>2 DEF IInv
  <2>3. CASE n # 0
    <3>1. UNCHANGED <<links, listed>>
      BY <1>6, <2>3 DEF CallbackReturns
    <3>2. LinksOK' /\ LinkedOK'
      BY <1>1, <2>1, <3>1 DEF links, IInv, LinksOK, LinkedOK
    <3> QED BY <3>1, <3>2, WalkKeeps
  <2> QED BY <2>2, <2>3
<1>7. ASSUME NEW a \in Alarm, MainStops(a) \/ CallbackStops(a) PROVE IInv'
  BY <1>7, ChangeKeeps DEF MainStops, CallbackStops, alt_alarm_stop
<1>8. ASSUME NEW a \in Alarm, NEW n \in Delay, MainStarts(a, n) \/ CallbackStarts(a, n) PROVE IInv'
  BY <1>8, StartKeeps DEF MainStarts, CallbackStarts
<1> QED BY <1>2, <1>3, <1>4, <1>5, <1>6, <1>7, <1>8 DEF Next, Routine

---------------------------------------------------------------------------
(* What is met by following the links.                                        *)

AheadIn(links_, x, a) ==
    \A S \in SUBSET Node :
        x \in S /\ (\A m \in S \ {alt_alarm_list} : links_[m] \in S) => a \in S

(* What is met from x on, x apart, is met from the next one on. *)
LEMMA AheadStep ==
    ASSUME NEW f, NEW x \in Node, NEW a, AheadIn(f, x, a), a # x, f[x] \in Node
    PROVE  AheadIn(f, f[x], a)
<1> SUFFICES ASSUME NEW S \in SUBSET Node, f[x] \in S,
                    \A m \in S \ {alt_alarm_list} : f[m] \in S
             PROVE  a \in S
  BY DEF AheadIn
<1> DEFINE T == S \cup {x}
<1>1. T \in SUBSET Node /\ x \in T /\ \A m \in T \ {alt_alarm_list} : f[m] \in T
  OBVIOUS
<1>2. a \in T
  BY <1>1 DEF AheadIn
<1> QED BY <1>2

(* Nothing is met from the head itself on. *)
LEMMA HeadEnds ==
    ASSUME NEW f, NEW a \in Alarm
    PROVE  ~AheadIn(f, alt_alarm_list, a)
<1>1. {alt_alarm_list} \in SUBSET Node /\ a \notin {alt_alarm_list}
  BY ClockAssumption DEF Node
<1> QED BY <1>1 DEF AheadIn

(* An insertion takes nothing off any walk that is under way. *)
LEMMA InsertAhead ==
    ASSUME IInv, NEW c \in Alarm, c \notin listed, alt_llist_insert(c),
           NEW x \in Node, x # c, NEW a, AheadIn(next, x, a)
    PROVE  AheadIn(next', x, a)
<1> SUFFICES ASSUME NEW S \in SUBSET Node, x \in S,
                    \A m \in S \ {alt_alarm_list} : next'[m] \in S
             PROVE  a \in S
  BY DEF AheadIn
<1> DEFINE T == S \ {c}
<1>1. /\ next \in [Node -> Node \cup {None}] /\ c \in Node /\ c # alt_alarm_list /\ None \notin Node
      /\ next' = [next EXCEPT ![c] = next[alt_alarm_list], ![alt_alarm_list] = c]
      /\ next[c] \in {None, c}
  BY ClockAssumption DEF IInv, LinksOK, LinkedOK, Node, alt_llist_insert
<1>2. prev[c] \in {None, c}
  BY <1>1 DEF IInv, LinksMatch
<1>3. ASSUME NEW m \in T \ {alt_alarm_list} PROVE next[m] \in T
  <2>1. next'[m] = next[m] /\ next[m] \in S /\ m \in Node
    BY <1>1, <1>3
  <2>2. prev[next[m]] = m
    BY <1>1, <2>1 DEF IInv, LinksMatch
  <2> QED BY <1>1, <1>2, <1>3, <2>1, <2>2
<1>4. T \in SUBSET Node /\ x \in T
  OBVIOUS
<1>5. a \in T
  BY <1>3, <1>4 DEF AheadIn
<1> QED BY <1>5

(* A removal takes nothing but the removed entry off a walk that does not     *)
(* stand on it.                                                               *)
LEMMA RemoveAhead ==
    ASSUME IInv, NEW e \in Alarm, next[e] # None, alt_llist_remove(e),
           NEW x \in Node, x # e, NEW a, a # e, AheadIn(next, x, a)
    PROVE  AheadIn(next', x, a)
<1> SUFFICES ASSUME NEW S \in SUBSET Node, x \in S,
                    \A m \in S \ {alt_alarm_list} : next'[m] \in S
             PROVE  a \in S
  BY DEF AheadIn
<1> DEFINE p == prev[e]
           s == next[e]
<1>1. /\ next \in [Node -> Node \cup {None}] /\ prev \in [Node -> Node \cup {None}]
      /\ e \in Node /\ alt_alarm_list \in Node /\ e # alt_alarm_list /\ None \notin Node
      /\ p \in Node /\ s \in Node /\ next[p] = e /\ prev[s] = e
      /\ next' = [next EXCEPT ![p] = s, ![e] = e]
  BY ClockAssumption DEF IInv, LinksOK, LinksMatch, Node, alt_llist_remove
<1>2. \A m \in Node : next[m] = e => m = p
  BY <1>1 DEF IInv, LinksMatch
<1> HIDE DEF p, s
<1>3. /\ \A m \in Node \ {e, p} : next'[m] = next[m]
      /\ p # e => next'[p] = s
  BY <1>1
<1>4. CASE p \in S \ {alt_alarm_list} /\ p # e
  <2> DEFINE T == S \cup {e}
  <2>1. ASSUME NEW m \in T \ {alt_alarm_list} PROVE next[m] \in T
    <3>1. CASE m = e
      BY <1>3, <1>4, <3>1 DEF s
    <3>2. CASE m = p
      BY <1>1, <3>2
    <3>3. CASE m # e /\ m # p
      BY <1>3, <2>1, <3>3
    <3> QED BY <3>1, <3>2, <3>3
  <2>2. T \in SUBSET Node /\ x \in T
    BY <1>1
  <2>3. a \in T
    BY <2>1, <2>2 DEF AheadIn
  <2> QED BY <2>3
<1>5. CASE ~(p \in S \ {alt_alarm_list} /\ p # e)
  <2> DEFINE T == S \ {e}
  <2>1. ASSUME NEW m \in T \ {alt_alarm_list} PROVE next[m] \in T
    <3>1. m # e /\ m # p /\ m \in Node
      BY <1>5, <2>1
    <3>2. next'[m] = next[m] /\ next[m] \in S /\ next[m] # e
      BY <1>2, <1>3, <2>1, <3>1
    <3> QED BY <3>2
  <2>2. T \in SUBSET Node /\ x \in T
    OBVIOUS
  <2>3. a \in T
    BY <2>1, <2>2 DEF AheadIn
  <2> QED BY <2>3
<1> QED BY <1>4, <1>5

(* Every listed alarm is met from the head, whatever is inserted ... *)
LEMMA InsertAll ==
    ASSUME IInv, AllAhead, NEW c \in Alarm, c \notin listed, alt_llist_insert(c)
    PROVE  AllAhead' /\ \A a \in listed' : AheadIn(next', c, a)
<1> DEFINE first == next[alt_alarm_list]
<1>1. /\ next \in [Node -> Node \cup {None}] /\ c \in Node /\ c # alt_alarm_list /\ None \notin Node
      /\ alt_alarm_list \in Node /\ first \in Node /\ prev[first] = alt_alarm_list
      /\ next' = [next EXCEPT ![c] = first, ![alt_alarm_list] = c]
      /\ listed' = listed \cup {c} /\ next[c] \in {None, c}
  BY ClockAssumption DEF IInv, LinksOK, LinksMatch, LinkedOK, Node, alt_llist_insert
<1>2. first # c
  BY <1>1 DEF IInv, LinksMatch
<1> HIDE DEF first
<1>3. next'[alt_alarm_list] = c /\ next'[c] = first
  BY <1>1
<1>4. ASSUME NEW a \in listed' PROVE AheadIn(next', c, a)
  <2>1. CASE a = c
    BY <2>1 DEF AheadIn
  <2>2. CASE a # c
    <3>1. AheadIn(next, first, a)
      BY <1>1, <1>4, <2>2 DEF AllAhead, Ahead, AheadIn, first
    <3>2. AheadIn(next', first, a)
      BY <1>1, <1>2, <3>1, InsertAhead
    <3> QED BY <1>1, <1>3, <3>2 DEF AheadIn
  <2> QED BY <2>1, <2>2
<1>5. AllAhead'
  BY <1>3, <1>4 DEF AllAhead, Ahead, AheadIn
<1> QED BY <1>4, <1>5

(* ... or removed. *)
LEMMA RemoveAll ==
    ASSUME IInv, AllAhead, NEW e \in Alarm, next[e] # None, alt_llist_remove(e)
    PROVE  AllAhead'
<1> DEFINE p == prev[e]
           s == next[e]
           first == next[alt_alarm_list]
<1>1. /\ next \in [Node -> Node \cup {None}] /\ prev \in [Node -> Node \cup {None}]
      /\ e \in Node /\ alt_alarm_list \in Node /\ e # alt_alarm_list /\ None \notin Node
      /\ p \in Node /\ s \in Node /\ next[p] = e /\ prev[s] = e /\ first \in Node
      /\ next' = [next EXCEPT ![p] = s, ![e] = e]
      /\ listed' = listed \ {e}
      /\ prev[first] = alt_alarm_list
  BY ClockAssumption DEF IInv, LinksOK, LinksMatch, Node, alt_llist_remove
<1>2. ASSUME NEW a \in listed' PROVE AheadIn(next', next'[alt_alarm_list], a)
  <2>1. AheadIn(next, first, a) /\ a # e
    BY <1>1, <1>2 DEF AllAhead, Ahead, AheadIn
  <2>2. CASE p = alt_alarm_list
    <3>1. first = e /\ s # e /\ next'[alt_alarm_list] = s
      BY <1>1, <2>2
    <3>2. AheadIn(next, s, a)
      BY <1>1, <2>1, <3>1, AheadStep
    <3> QED BY <1>1, <2>1, <3>1, <3>2, RemoveAhead
  <2>3. CASE p # alt_alarm_list
    <3>1. first # e /\ next'[alt_alarm_list] = first
      BY <1>1, <2>3
    <3> QED BY <1>1, <2>1, <3>1, RemoveAhead
  <2> QED BY <2>2, <2>3
<1> QED BY <1>2 DEF AllAhead, Ahead, AheadIn

---------------------------------------------------------------------------
(* Types, and the halves of the counter.                                      *)

(* A number is put together from its quotient and its remainder. *)
LEMMA Halves ==
    ASSUME NEW x \in Nat
    PROVE  Low(x) \in Nat /\ High(x) \in Nat /\ x = High(x) * WORD + Low(x)
  BY ClockAssumption, SMT DEF Low, High

LEMMA TypesKept ==
    ASSUME TypeOK, IInv', [Next]_clockVars
    PROVE  TypeOK'
<1>1. /\ next' \in [Node -> Node \cup {None}] /\ prev' \in [Node -> Node \cup {None}]
      /\ listed' \subseteq Alarm
      /\ walk' \in [at : {"idle", "alarm", "callback"}, alarm : Node \cup {None}, next : Node \cup {None}]
  BY DEF IInv, LinksOK
<1>2. nticks' \in Nat /\ tick_rate' \in {0, 1}
  <2>1. CASE Tick
    BY <2>1, SMT DEF Tick, TypeOK
  <2>2. CASE ~Tick
    BY <2>2 DEF TypeOK, Next, clockVars, alt_avalon_timer_sc_init, Routine, TickDone, Visit, CallbackReturns,
       MainStops, CallbackStops, MainStarts, CallbackStarts, alt_alarm_start, ReadHalf, ReadRest
  <2> QED BY <2>1, <2>2
<1>3. polite' \in BOOLEAN
  <2>1. polite' = polite
    BY DEF Next, clockVars, alt_avalon_timer_sc_init, Tick, Routine, TickDone, Visit, CallbackReturns,
       MainStops, CallbackStops, MainStarts, CallbackStarts, alt_alarm_start, ReadHalf, ReadRest
  <2> QED BY <2>1, Zenon DEF TypeOK
<1>4. half' \in [at : {"none", "low", "high"}, first : Nat, since : Nat]
  <2>1. CASE \E which \in {"low", "high"} : ReadHalf(which)
    <3>1. PICK which \in {"low", "high"} : ReadHalf(which)
      BY <2>1
    <3>2. Low(nticks) \in Nat /\ High(nticks) \in Nat /\ nticks \in Nat
      BY Halves DEF TypeOK
    <3> QED BY <3>1, <3>2 DEF ReadHalf
  <2>2. CASE ReadRest
    BY <2>2 DEF ReadRest, Whole
  <2>3. half' = half => half' \in [at : {"none", "low", "high"}, first : Nat, since : Nat]
    BY DEF TypeOK
  <2> QED BY <2>1, <2>2, <2>3 DEF Next, clockVars, alt_avalon_timer_sc_init, Tick, Routine, TickDone,
          Visit, CallbackReturns, MainStops, CallbackStops, MainStarts, CallbackStarts, alt_alarm_start
<1>5. time' \in [Alarm -> Nat]
  <2>1. time \in [Alarm -> Nat] /\ nticks \in Nat
    BY DEF TypeOK
  <2>2. ASSUME NEW a \in Alarm, NEW n \in Delay, alt_alarm_start(a, n) PROVE time' \in [Alarm -> Nat]
    <3>1. Due(n) \in Nat
      BY <2>1, ClockAssumption, SMT DEF Due
    <3> QED BY <2>1, <2>2, <3>1 DEF alt_alarm_start
  <2>3. ASSUME NEW n \in Period, CallbackReturns(n) PROVE time' \in [Alarm -> Nat]
    <3>1. time' = time \/ time' = [time EXCEPT ![walk.alarm] = @ + n]
      BY <2>3 DEF CallbackReturns
    <3>2. n \in Nat /\ \A a \in Alarm : time[a] + n \in Nat
      BY <2>1, ClockAssumption, SMT
    <3> QED BY <2>1, <3>1, <3>2
  <2>4. time' = time => time' \in [Alarm -> Nat]
    BY <2>1
  <2> QED BY <2>2, <2>3, <2>4 DEF Next, clockVars, alt_avalon_timer_sc_init, Tick, Routine, TickDone,
          Visit, MainStops, CallbackStops, MainStarts, CallbackStarts, ReadHalf, ReadRest
<1> QED BY <1>1, <1>2, <1>3, <1>4, <1>5 DEF TypeOK

LEMMA HalfKept ==
    ASSUME TypeOK, HalfRead, [Next]_clockVars
    PROVE  HalfRead'
<1>1. nticks \in Nat /\ half.since \in Nat
  BY DEF TypeOK
<1>2. CASE \E which \in {"low", "high"} : ReadHalf(which)
  BY <1>1, <1>2, SMT DEF ReadHalf, HalfRead
<1>3. CASE ReadRest
  BY <1>3 DEF ReadRest, Whole, HalfRead
<1>4. CASE half' = half /\ (nticks' = nticks \/ nticks' = nticks + 1)
  BY <1>1, <1>4, SMT DEF HalfRead
<1> QED BY <1>2, <1>3, <1>4 DEF Next, clockVars, alt_avalon_timer_sc_init, Tick, Routine, TickDone,
        Visit, CallbackReturns, MainStops, CallbackStops, MainStarts, CallbackStarts, alt_alarm_start

---------------------------------------------------------------------------
(* What is due stays ahead of the walk.                                       *)

Facts ==
    /\ next \in [Node -> Node \cup {None}] /\ listed \subseteq Alarm
    /\ alt_alarm_list \in Node /\ alt_alarm_list \notin Alarm /\ Alarm \subseteq Node /\ None \notin Node
    /\ time \in [Alarm -> Nat] /\ nticks \in Nat

LEMMA FactsHold == TypeOK => Facts
  BY ClockAssumption DEF TypeOK, Facts, Node

(* The steps that only move the walk. *)
LEMMA WalkSteps ==
    ASSUME TypeOK, IInv, AllAhead, DueAhead, Tick \/ TickDone \/ Visit
    PROVE  AllAhead' /\ DueAhead'
<1>1. Facts
  BY FactsHold
<1>2. UNCHANGED <<next, listed, time>>
  BY DEF Tick, TickDone, Visit, links
<1>3. AllAhead'
  BY <1>2 DEF AllAhead, Ahead
<1>4. CASE Tick
  <2>1. /\ nticks' = nticks + 1 /\ walk.at = "idle"
        /\ walk' = [at |-> "alarm", alarm |-> next[alt_alarm_list], next |-> None]
    BY <1>4 DEF Tick, Main, Idle
  <2>2. \A a \in listed : time[a] >= nticks'
    <3>1. \A a \in listed : time[a] > nticks /\ time[a] \in Nat
      BY <1>1, <2>1 DEF DueAhead, Facts
    <3> QED BY <1>1, <2>1, <3>1, SMT DEF Facts
  <2>3. \A a \in listed : Ahead(next[alt_alarm_list], a)
    BY DEF AllAhead
  <2> QED BY <1>2, <1>3, <2>1, <2>2, <2>3 DEF DueAhead, Ahead
<1>5. CASE TickDone
  <2>1. nticks' = nticks /\ walk.at = "alarm" /\ walk.alarm = alt_alarm_list /\ walk' = Idle
    BY <1>5 DEF TickDone
  <2>2. \A a \in listed : ~Ahead(alt_alarm_list, a)
    BY <1>1, HeadEnds DEF Facts, Ahead, AheadIn
  <2>3. \A a \in listed : time[a] > nticks
    BY <1>1, <2>1, <2>2 DEF DueAhead, Facts
  <2> QED BY <1>2, <1>3, <2>1, <2>3 DEF DueAhead, Idle
<1>6. CASE Visit
  <2> DEFINE x == walk.alarm
  <2>1. /\ nticks' = nticks /\ walk.at = "alarm" /\ x # alt_alarm_list
        /\ walk' = IF time[x] <= nticks
                   THEN [at |-> "callback", alarm |-> x, next |-> next[x]]
                   ELSE [at |-> "alarm", alarm |-> next[x], next |-> None]
    BY <1>6 DEF Visit
  <2>2. x \in Node /\ x \in Alarm /\ next[x] \in Node
    BY <2>1 DEF IInv, LinkedOK, LinksMatch, Node
  <2> HIDE DEF x
  <2>3. ASSUME NEW a \in listed, ~(time[a] > nticks), a # x
        PROVE  Ahead(next[x], a) \/ next[x] \in Alarm \ listed
    <3>1. CASE Ahead(x, a)
      BY <2>2, <2>3, <3>1, AheadStep DEF Ahead, AheadIn
    <3>2. CASE x \in Alarm \ listed
      <4>1. next[x] = x
        BY <2>2, <3>2, <1>1 DEF IInv, LinkedOK, Facts
      <4> QED BY <3>2, <4>1
    <3> QED BY <2>1, <2>3, <3>1, <3>2 DEF DueAhead, x
  <2>4. CASE time[x] <= nticks
    <3>1. walk' = [at |-> "callback", alarm |-> x, next |-> next[x]]
      BY <2>1, <2>4
    <3> QED BY <1>2, <2>1, <2>3, <3>1, <1>3 DEF DueAhead, Ahead
  <2>5. CASE ~(time[x] <= nticks)
    <3>1. walk' = [at |-> "alarm", alarm |-> next[x], next |-> None]
      BY <2>1, <2>5
    <3>2. time[x] > nticks
      BY <1>1, <2>2, <2>5, SMT DEF Facts
    <3> QED BY <1>2, <2>1, <2>3, <3>1, <3>2, <1>3 DEF DueAhead, Ahead
  <2> QED BY <2>4, <2>5
<1> QED BY <1>3, <1>4, <1>5, <1>6

(* main or a callback starts an alarm: it is not due before the next tick. *)
LEMMA StartStep ==
    ASSUME TypeOK, IInv, AllAhead, DueAhead, NEW c \in Alarm, NEW n \in Delay,
           alt_alarm_start(c, n), UNCHANGED <<walk, nticks>>
    PROVE  AllAhead' /\ DueAhead'
<1>1. Facts
  BY FactsHold
<1>2. CASE tick_rate = 0
  <2>1. UNCHANGED <<next, listed, time>>
    BY <1>2 DEF alt_alarm_start, links
  <2>2. AllAhead'
    BY <2>1 DEF AllAhead, Ahead
  <2>3. DueAhead'
    BY <2>1 DEF DueAhead, Ahead, Idle
  <2> QED BY <2>2, <2>3
<1>3. CASE tick_rate # 0
  <2>1. /\ c \notin listed /\ alt_llist_insert(c)
        /\ time' = [time EXCEPT ![c] = Due(n)] /\ listed' = listed \cup {c}
    BY <1>3 DEF alt_alarm_start, alt_llist_insert
  <2>2. AllAhead' /\ \A a \in listed' : AheadIn(next', c, a)
    BY <2>1, InsertAll
  <2>3. /\ \A a \in listed : a # c /\ time'[a] = time[a]
        /\ time'[c] >= nticks /\ time'[c] > nticks
    <3>1. Due(n) >= nticks /\ Due(n) > nticks
      BY <1>1, ClockAssumption, SMT DEF Due, Facts
    <3> QED BY <1>1, <2>1, <3>1 DEF Facts
  <2>4. ASSUME NEW x \in Node, NEW a \in listed, Ahead(x, a) \/ x \in Alarm \ listed
        PROVE  AheadIn(next', x, a) \/ x \in Alarm \ listed'
    <3>1. CASE x = c
      BY <2>1, <2>2, <3>1
    <3>2. CASE x # c /\ Ahead(x, a)
      BY <2>1, <3>2, InsertAhead DEF Ahead, AheadIn
    <3>3. CASE x # c /\ x \in Alarm \ listed
      BY <2>1, <3>3
    <3> QED BY <2>4, <3>1, <3>2, <3>3
  <2>5. \A a \in listed' : time'[a] >= nticks
    BY <2>1, <2>3 DEF DueAhead
  <2>6. walk.at = "idle" => \A a \in listed' : time'[a] > nticks
    BY <2>1, <2>3 DEF DueAhead
  <2>7. ASSUME walk.at = "alarm", NEW a \in listed'
        PROVE  time'[a] > nticks \/ AheadIn(next', walk.alarm, a) \/ walk.alarm \in Alarm \ listed'
    <3>1. CASE a = c
      BY <2>3, <3>1
    <3>2. CASE a # c
      <4>1. a \in listed /\ walk.alarm \in Node
        BY <2>1, <2>7, <3>2 DEF IInv, LinkedOK
      <4>2. time[a] > nticks \/ Ahead(walk.alarm, a) \/ walk.alarm \in Alarm \ listed
        BY <2>7, <4>1 DEF DueAhead
      <4> QED BY <2>3, <2>4, <4>1, <4>2
    <3> QED BY <3>1, <3>2
  <2>8. ASSUME walk.at = "callback", NEW a \in listed'
        PROVE  time'[a] > nticks \/ a = walk.alarm \/ AheadIn(next', walk.next, a) \/ walk.next \in Alarm \ listed'
    <3>1. CASE a = c
      BY <2>3, <3>1
    <3>2. CASE a # c
      <4>1. a \in listed /\ walk.next \in Node
        BY <2>1, <2>8, <3>2 DEF IInv, LinkedOK
      <4>2. time[a] > nticks \/ a = walk.alarm \/ Ahead(walk.next, a) \/ walk.next \in Alarm \ listed
        BY <2>8, <4>1 DEF DueAhead
      <4> QED BY <2>3, <2>4, <4>1, <4>2
    <3> QED BY <3>1, <3>2
  <2>9. walk.at = "idle" => walk = Idle
    BY DEF DueAhead
  <2>10. DueAhead'
    BY <2>5, <2>6, <2>7, <2>8, <2>9 DEF DueAhead, Ahead, AheadIn, Idle
  <2> QED BY <2>2, <2>10
<1> QED BY <1>2, <1>3

(* main or a callback stops an alarm; if the walk was to go on with it, it   *)
(* stands on an entry off the list.                                           *)
LEMMA StopStep ==
    ASSUME TypeOK, IInv, AllAhead, DueAhead, NEW e \in Alarm,
           next[e] # None, alt_llist_remove(e), UNCHANGED <<time, nticks>>,
           walk.at # "alarm",
           \/ walk' = walk
           \/ walk.at = "callback" /\ e = walk.alarm
              /\ walk' = [at |-> "alarm", alarm |-> walk.next, next |-> None]
    PROVE  AllAhead' /\ DueAhead'
<1>1. Facts
  BY FactsHold
<1>2. AllAhead'
  BY RemoveAll
<1>3. listed' = listed \ {e}
  BY DEF alt_llist_remove
<1>4. ASSUME NEW x \in Node, NEW a \in listed', Ahead(x, a) \/ x \in Alarm \ listed
      PROVE  AheadIn(next', x, a) \/ x \in Alarm \ listed'
  <2>1. CASE x = e
    BY <1>3, <2>1
  <2>2. CASE x # e /\ Ahead(x, a)
    BY <1>3, <2>2, RemoveAhead DEF Ahead, AheadIn
  <2>3. CASE x # e /\ x \in Alarm \ listed
    BY <1>3, <2>3
  <2> QED BY <1>4, <2>1, <2>2, <2>3
<1>5. ASSUME walk.at = "callback", NEW a \in listed'
      PROVE  time[a] > nticks \/ a = walk.alarm \/ AheadIn(next', walk.next, a) \/ walk.next \in Alarm \ listed'
  <2>1. a \in listed /\ walk.next \in Node
    BY <1>3, <1>5 DEF IInv, LinkedOK
  <2>2. time[a] > nticks \/ a = walk.alarm \/ Ahead(walk.next, a) \/ walk.next \in Alarm \ listed
    BY <1>5, <2>1 DEF DueAhead
  <2> QED BY <1>4, <2>1, <2>2
<1>6. /\ \A a \in listed' : time[a] >= nticks
      /\ walk.at = "idle" => walk = Idle /\ \A a \in listed' : time[a] > nticks
  BY <1>3 DEF DueAhead
<1>7. DueAhead'
  <2>1. CASE walk' = walk
    BY <1>5, <1>6, <2>1 DEF DueAhead, Ahead, AheadIn, Idle
  <2>2. CASE walk.at = "callback" /\ e = walk.alarm
              /\ walk' = [at |-> "alarm", alarm |-> walk.next, next |-> None]
    BY <1>3, <1>5, <1>6, <2>2 DEF DueAhead, Ahead, AheadIn, Idle
  <2> QED BY <2>1, <2>2
<1> QED BY <1>2, <1>7

(* A callback asks to be called again: that is after this tick. *)
LEMMA AgainStep ==
    ASSUME TypeOK, IInv, AllAhead, DueAhead, NEW n \in Period, n # 0, CallbackReturns(n)
    PROVE  AllAhead' /\ DueAhead'
<1> DEFINE x == walk.alarm
<1>1. Facts
  BY FactsHold
<1>2. /\ walk.at = "callback" /\ UNCHANGED <<next, listed, nticks>>
      /\ time' = [time EXCEPT ![x] = @ + n]
      /\ walk' = [at |-> "alarm", alarm |-> walk.next, next |-> None]
  BY DEF CallbackReturns, links
<1>3. x \in Alarm
  BY <1>2 DEF IInv, LinkedOK
<1> HIDE DEF x
<1>4. AllAhead'
  BY <1>2 DEF AllAhead, Ahead
<1>5. ASSUME NEW a \in listed
      PROVE  /\ time'[a] >= nticks /\ (time[a] > nticks => time'[a] > nticks)
             /\ a = x => time'[a] > nticks
  <2>1. time[a] >= nticks /\ a \in Alarm
    BY <1>1, <1>5 DEF DueAhead, Facts
  <2>2. CASE a = x
    <3>1. time'[a] = time[a] + n /\ time[a] \in Nat /\ nticks \in Nat
      BY <1>1, <1>2, <1>3, <2>2 DEF Facts
    <3>2. n \in Nat \ {0}
      BY ClockAssumption
    <3> QED BY <2>1, <3>1, <3>2, SMT
  <2>3. CASE a # x
    <3>1. time'[a] = time[a]
      BY <1>1, <1>2, <2>1, <2>3 DEF Facts
    <3> QED BY <2>1, <2>3, <3>1
  <2> QED BY <2>2, <2>3
<1>6. \A a \in listed : time[a] > nticks \/ a = x \/ Ahead(walk.next, a) \/ walk.next \in Alarm \ listed
  BY <1>2 DEF DueAhead, x
<1>7. DueAhead'
  BY <1>2, <1>5, <1>6 DEF DueAhead, Ahead
<1> QED BY <1>4, <1>7

LEMMA DueKept ==
    ASSUME TypeOK, IInv, AllAhead, DueAhead, [Next]_clockVars
    PROVE  AllAhead' /\ DueAhead'
<1>1. CASE Tick \/ TickDone \/ Visit
  BY <1>1, WalkSteps
<1>2. ASSUME NEW n \in Period, CallbackReturns(n) PROVE AllAhead' /\ DueAhead'
  <2>1. CASE n = 0
    <3>1. /\ walk.at = "callback" /\ alt_llist_remove(walk.alarm) /\ UNCHANGED <<time, nticks>>
          /\ walk' = [at |-> "alarm", alarm |-> walk.next, next |-> None]
          /\ walk.alarm \in Alarm /\ next[walk.alarm] # None
      BY <1>2, <2>1 DEF CallbackReturns, IInv, LinkedOK
    <3> QED BY <3>1, StopStep
  <2>2. CASE n # 0
    BY <1>2, <2>2, AgainStep
  <2> QED BY <2>1, <2>2
<1>3. ASSUME NEW a \in Alarm, MainStops(a) \/ CallbackStops(a) PROVE AllAhead' /\ DueAhead'
  BY <1>3, StopStep DEF MainStops, CallbackStops, alt_alarm_stop, Main, Idle
<1>4. ASSUME NEW a \in Alarm, NEW n \in Delay, MainStarts(a, n) \/ CallbackStarts(a, n)
      PROVE  AllAhead' /\ DueAhead'
  <2>1. alt_alarm_start(a, n) /\ UNCHANGED <<walk, nticks>>
    BY <1>4 DEF MainStarts, CallbackStarts, alt_alarm_start
  <2> QED BY <2>1, StartStep
<1>5. CASE UNCHANGED clockVars \/ alt_avalon_timer_sc_init \/ ReadRest \/ \E which \in {"low", "high"} : ReadHalf(which)
  <2>1. UNCHANGED <<next, listed, time, nticks, walk>>
    BY <1>5 DEF clockVars, links, alt_avalon_timer_sc_init, ReadRest, ReadHalf
  <2>2. AllAhead'
    BY <2>1 DEF AllAhead, Ahead
  <2>3. DueAhead'
    BY <2>1 DEF DueAhead, Ahead, Idle
  <2> QED BY <2>2, <2>3
<1> QED BY <1>1, <1>2, <1>3, <1>4, <1>5 DEF Next, Routine

---------------------------------------------------------------------------
LEMMA ClockInit == Init => ClockIInv
<1> SUFFICES ASSUME Init PROVE ClockIInv
  OBVIOUS
<1>1. IInv
  BY InitInv
<1>2. TypeOK
  <2>1. polite \in BOOLEAN
    BY Zenon DEF Init
  <2> QED BY <1>1, <2>1 DEF IInv, LinksOK, TypeOK, Init, Whole
<1>3. AllAhead /\ DueAhead /\ HalfRead
  BY DEF Init, AllAhead, DueAhead, HalfRead, Idle, Whole
<1> QED BY <1>1, <1>2, <1>3 DEF ClockIInv, IInv

LEMMA ClockStep == ClockIInv /\ [Next]_clockVars => ClockIInv'
<1> SUFFICES ASSUME ClockIInv, [Next]_clockVars PROVE ClockIInv'
  OBVIOUS
<1>1. IInv /\ TypeOK
  BY DEF ClockIInv, IInv, LinksOK, TypeOK
<1>2. IInv'
  BY <1>1, StepInv
<1> QED BY <1>1, <1>2, TypesKept, HalfKept, DueKept DEF ClockIInv, IInv

(* What the walk of alt_tick meets is what was started and not stopped. *)
LEMMA MetIsListed == ClockIInv => ListIsListed
<1> SUFFICES ASSUME ClockIInv PROVE Met = listed
  BY DEF ListIsListed
<1>1. Facts
  BY FactsHold DEF ClockIInv
<1> DEFINE S == listed \cup {alt_alarm_list}
<1>2. ASSUME NEW m \in S PROVE next[m] \in S
  <2>1. next[m] # None /\ m \in Node
    BY <1>1, <1>2 DEF ClockIInv, LinkedOK, LinksMatch, Facts
  <2>2. next[m] \in Node /\ prev[next[m]] = m
    BY <2>1 DEF ClockIInv, LinksMatch
  <2>3. ASSUME next[m] \notin S PROVE FALSE
    <3>1. next[m] \in Alarm \ listed
      BY <2>2, <2>3 DEF Node
    <3>2. next[next[m]] = next[m]
      <4>1. prev[next[m]] # None
        BY <1>1, <2>1, <2>2 DEF Facts
      <4>2. next[next[m]] # None
        BY <3>1, <4>1 DEF ClockIInv, LinksMatch
      <4> QED BY <3>1, <4>2 DEF ClockIInv, LinkedOK
    <3>3. prev[next[m]] = next[m]
      BY <1>1, <2>2, <3>2 DEF ClockIInv, LinksMatch, Facts
    <3> QED BY <1>2, <2>2, <2>3, <3>3
  <2> QED BY <2>3
<1>3. S \in SUBSET Node /\ next[alt_alarm_list] \in S
  BY <1>1, <1>2 DEF Facts
<1>4. ASSUME NEW a \in Met PROVE a \in listed
  <2>1. a \in S /\ a \in Alarm
    BY <1>2, <1>3, <1>4 DEF Met, Ahead
  <2> QED BY <1>1, <2>1 DEF Facts
<1>5. listed \subseteq Met
  BY <1>1 DEF ClockIInv, AllAhead, Met, Facts
<1> QED BY <1>4, <1>5

(* With no carry between the halves, a reading is the count at its one end   *)
(* or the other.                                                              *)
LEMMA NotTorn == ClockIInv => TornOnlyAtWrap
<1> SUFFICES ASSUME ClockIInv, half.at # "none", High(half.since) = High(nticks)
             PROVE  Read \in half.since..nticks
  BY DEF TornOnlyAtWrap
<1>1. /\ nticks \in Nat /\ half.since \in Nat /\ half.since <= nticks
      /\ half.first = IF half.at = "low" THEN Low(half.since) ELSE High(half.since)
  BY DEF ClockIInv, TypeOK, HalfRead
<1>2. /\ nticks = High(nticks) * WORD + Low(nticks)
      /\ half.since = High(half.since) * WORD + Low(half.since)
  BY <1>1, Halves
<1>3. Read = half.since \/ Read = nticks
  BY <1>1, <1>2 DEF Read
<1> QED BY <1>1, <1>3, SMT

(* For any number of alarms: the links form a ring, the walk of every tick   *)
(* meets exactly the alarms that were started and not stopped, and between   *)
(* ticks none is overdue, although callbacks insert and remove alarms while  *)
(* the list is walked                                                        *)
(* (alt_llist.h:90-117, alt_tick.c:87-121, alt_alarm_start.c:84).            *)
THEOREM AlarmsServed == Spec => []ClockInv
<1>1. ClockIInv => ClockInv
  BY MetIsListed DEF ClockIInv, ClockInv, NeverOverdue, DueAhead, Main, Idle
<1> QED BY <1>1, ClockInit, ClockStep, PTL DEF Spec

(* For every width of the counter's halves: what main reads of it is a time  *)
(* within the read, unless the low half wrapped around (alt_alarm.h:110).    *)
THEOREM TornOnlyWhereWrapped == Spec => []TornOnlyAtWrap
  BY NotTorn, ClockInit, ClockStep, PTL DEF Spec
===========================================================================
