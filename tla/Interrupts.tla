----------------------------- MODULE Interrupts -----------------------------
(* Interrupt dispatch of the HAL, for the internal controller and the legacy *)
(* API this board is built with: alt_irq_handler.c, alt_irq_register.c,      *)
(* alt_legacy_irq.h, alt_irq.h.  Code runs at levels, main at the bottom and *)
(* above it one activation of alt_irq_handler per interrupt that was taken;  *)
(* a handler lets others in with alt_irq_interruptible.                      *)
EXTENDS Integers, Sequences

CONSTANTS
    ALT_NIRQ,    \* number of interrupt lines; the lowest has priority
    MaxCalls,    \* bound: calls of the API in one activation of a handler
    Nesting,     \* bound: critical sections within each other
    Levels       \* bound: handlers that interrupt each other, and main

Irq == 0..ALT_NIRQ - 1

ASSUME IrqAssumption == ALT_NIRQ \in Nat /\ MaxCalls \in Nat
                         /\ Nesting \in Nat /\ Levels \in Nat

VARIABLES
    raised,             \* lines whose device asks for service
    ienable, pie,       \* the processor: control register, status.PIE
    alt_irq_active, alt_priority_mask,
    registered,         \* lines with a handler other than NULL in alt_irq
    level,              \* the code running: main, then the activations
    widened             \* history: see PriorityKept

irqVars == <<raised, ienable, pie, alt_irq_active, alt_priority_mask,
             registered, level, widened>>

(* at: the loop of alt_irq_handler, or the code of the handler before and    *)
(* after it cleared its device; held: the contexts alt_irq_disable_all       *)
(* returned; open: interruptible; old: what alt_irq_interruptible returned.  *)
Frame(id, at, active) == [id |-> id, at |-> at, active |-> active, calls |-> 0,
                          held |-> <<>>, open |-> FALSE, old |-> {}]
MainFrame == Frame(ALT_NIRQ, "served", {})

Top == level[Len(level)]
Current(f) == level' = [level EXCEPT ![Len(level)] = f]
InCode == Top.at # "scan"
InMain == Len(level) = 1

(* After alt_irq_init, before any driver: interrupts are on, no line enabled. *)
IrqInit ==
    /\ raised = {} /\ ienable = {} /\ pie = TRUE
    /\ alt_irq_active = {} /\ alt_priority_mask = Irq
    /\ registered = {} /\ level = <<MainFrame>> /\ widened = FALSE
---------------------------------------------------------------------------
(* The hardware. *)

alt_irq_pending == raised \cap ienable

Raise(i) == /\ i \notin raised /\ raised' = raised \cup {i}
            /\ UNCHANGED <<ienable, pie, alt_irq_active, alt_priority_mask,
                           registered, level, widened>>

(* Exception entry, and the first reading of alt_irq_handler. *)
Enter == /\ pie /\ alt_irq_pending # {} /\ Len(level) < Levels
         /\ pie' = FALSE
         /\ level' = Append(level, Frame(ALT_NIRQ, "scan", alt_irq_pending))
         /\ UNCHANGED <<raised, ienable, alt_irq_active, alt_priority_mask,
                        registered, widened>>

(* The inner loop of alt_irq_handler: the lowest line of the list. *)
\* Mutant: the list is searched from its other end.
LowestReversed(S) == CHOOSE i \in S : \A j \in S : j <= i
Lowest(S) == CHOOSE i \in S : \A j \in S : i <= j

Dispatch == /\ Top.at = "scan"
            /\ Current(Frame(Lowest(Top.active), "called", {}))
            /\ UNCHANGED <<raised, ienable, pie, alt_irq_active, alt_priority_mask,
                           registered, widened>>

(* The handler clears its device, once, before it returns. *)
Acknowledge == /\ Top.at = "called"
               /\ raised' = raised \ {Top.id}
               /\ Current([Top EXCEPT !.at = "served"])
               /\ UNCHANGED <<ienable, pie, alt_irq_active, alt_priority_mask,
                              registered, widened>>

(* The handler returns and alt_irq_handler reads the pending lines again;    *)
(* eret gives the interrupted code its PIE back, which was set.               *)
Return ==
    /\ ~InMain /\ Top.at = "served" /\ Top.held = <<>> /\ ~Top.open
    /\ IF alt_irq_pending # {}
       THEN Current(Frame(ALT_NIRQ, "scan", alt_irq_pending)) /\ UNCHANGED <<pie, widened>>
       ELSE /\ level' = SubSeq(level, 1, Len(level) - 1)
            /\ pie' = TRUE
            /\ widened' = (widened /\ Len(level) > 2)
    /\ UNCHANGED <<raised, ienable, alt_irq_active, alt_priority_mask, registered>>

---------------------------------------------------------------------------
(* What the running code may call.  A handler makes only MaxCalls calls.     *)

Calls(f) == /\ InCode /\ (InMain \/ Top.calls < MaxCalls)
            /\ Current([f EXCEPT !.calls = IF InMain THEN 0 ELSE @ + 1])

Narrowed == alt_priority_mask # Irq

\* Mutant: the context is not looked at.
alt_irq_enable_allAlways(context) == TRUE
alt_irq_enable_all(context) == context

(* alt_irq_enable, alt_irq_disable: between disable_all and enable_all; the  *)
(* register gets every active line, whatever alt_priority_mask says.          *)
SetActive(active) ==
    /\ alt_irq_active' = active
    /\ ienable' = active
    /\ pie' = alt_irq_enable_all(pie)
    /\ widened' = (widened \/ Narrowed)
    /\ UNCHANGED <<raised, alt_priority_mask>>

(* Only a line with a handler is enabled. *)
alt_irq_enable(i) == /\ Calls(Top) /\ i \in registered
                     /\ SetActive(alt_irq_active \cup {i}) /\ UNCHANGED registered

alt_irq_disable(i) == /\ Calls(Top)
                      /\ SetActive(alt_irq_active \ {i}) /\ UNCHANGED registered

\* Mutant: registering NULL does not disable the line.
alt_irq_registerNull(i, handler) ==
    /\ Calls(Top)
    /\ registered' = IF handler THEN registered \cup {i} ELSE registered \ {i}
    /\ SetActive(IF handler THEN alt_irq_active \cup {i} ELSE alt_irq_active)
alt_irq_register(i, handler) ==
    /\ Calls(Top)
    /\ registered' = IF handler THEN registered \cup {i} ELSE registered \ {i}
    /\ SetActive(IF handler THEN alt_irq_active \cup {i} ELSE alt_irq_active \ {i})

alt_irq_disable_all ==
    /\ Len(Top.held) < Nesting
    /\ Calls([Top EXCEPT !.held = Append(@, pie)])
    /\ pie' = FALSE
    /\ UNCHANGED <<raised, ienable, alt_irq_active, alt_priority_mask, registered, widened>>

(* The contexts are given back in the order the calls nest. *)
EnableAll ==
    /\ InCode /\ Top.held # <<>>
    /\ LET n == Len(Top.held)
       IN /\ pie' = alt_irq_enable_all(Top.held[n])
          /\ Current([Top EXCEPT !.held = SubSeq(@, 1, n - 1)])
    /\ UNCHANGED <<raised, ienable, alt_irq_active, alt_priority_mask, registered, widened>>

\* Mutant: the line of the handler, and the next, are left enabled.
AboveTwo(priority) == 0..priority
Above(priority) == 0..priority - 1

(* In a handler, with its own line as the priority, outside any section. *)
alt_irq_interruptible ==
    /\ ~InMain /\ ~Top.open /\ Top.held = <<>>
    /\ Calls([Top EXCEPT !.open = TRUE, !.old = alt_priority_mask])
    /\ alt_priority_mask' = Above(Top.id)
    /\ ienable' = alt_irq_active \cap Above(Top.id)
    /\ pie' = TRUE
    /\ UNCHANGED <<raised, alt_irq_active, registered, widened>>

alt_irq_non_interruptible ==
    /\ InCode /\ Top.open /\ Top.held = <<>>
    /\ pie' = FALSE
    /\ alt_priority_mask' = Top.old /\ ienable' = Top.old \cap alt_irq_active
    /\ Current([Top EXCEPT !.open = FALSE, !.old = {}])
    /\ UNCHANGED <<raised, alt_irq_active, registered, widened>>
---------------------------------------------------------------------------
Handler == Dispatch \/ Acknowledge \/ Return \/ EnableAll \/ alt_irq_non_interruptible

LeaveSection == Len(Top.held) = 1 /\ EnableAll

IrqNext ==
    \/ Enter \/ Handler
    \/ \E i \in Irq : \/ Raise(i) \/ alt_irq_enable(i) \/ alt_irq_disable(i)
                      \/ \E handler \in BOOLEAN : alt_irq_register(i, handler)
    \/ alt_irq_disable_all \/ alt_irq_interruptible

IrqSpec == IrqInit /\ [][IrqNext]_irqVars

(* Handlers run on to their end; the processor takes an interrupt as soon as *)
(* it is let in, and a critical section ends.                                 *)
IrqFairness == WF_irqVars(Handler) /\ SF_irqVars(Enter) /\ SF_irqVars(LeaveSection)
---------------------------------------------------------------------------
Activation == [id : 0..ALT_NIRQ, at : {"scan", "called", "served"}, active : SUBSET Irq,
               calls : Nat, held : Seq(BOOLEAN), open : BOOLEAN, old : SUBSET Irq]

IrqTypeOK ==
    /\ raised \subseteq Irq /\ ienable \subseteq Irq /\ pie \in BOOLEAN
    /\ alt_irq_active \subseteq Irq /\ alt_priority_mask \subseteq Irq
    /\ registered \subseteq Irq /\ widened \in BOOLEAN
    /\ level \in Seq(Activation) /\ level # <<>>

(* The search of alt_irq_handler finds a line, as it would not end           *)
(* otherwise, and that line has a handler (alt_irq_handler.c:117-155),        *)
(* whatever was registered and disabled by the handlers before it.            *)
SearchEnds == Top.at = "scan" => Top.active # {} /\ Top.active \subseteq registered

(* Code is not interrupted between an alt_irq_disable_all and the            *)
(* alt_irq_enable_all that ends it, whatever it calls in between and however *)
(* sections nest (alt_irq.h:113-159).                                         *)
SectionsHold == \A k \in 1..Len(level) - 1 : level[k].held = <<>>

(* When main runs every handler has undone its alt_irq_interruptible: the    *)
(* lines enabled are those that are active, those disabled by a handler that *)
(* interrupted another not among them (alt_legacy_irq.h:118-149).             *)
MainUnmasked == InMain => alt_priority_mask = Irq /\ ienable = alt_irq_active

(* A handler is interrupted by lines of higher priority only                  *)
(* (alt_legacy_irq.h:103), unless one was enabled, disabled or registered     *)
(* in a handler that is interruptible: that writes ienable without            *)
(* alt_priority_mask (alt_legacy_irq.h:95).                                   *)
PriorityKept ==
    \A k \in 1..Len(level) - 1 :
        level[k + 1].at # "scan" /\ ~widened => level[k + 1].id < level[k].id

(* The masks and sections together, on fields of their types. *)
IrqInv == IrqTypeOK /\ SectionsHold /\ MainUnmasked

(* A request on the line of highest priority is served however many others   *)
(* there are, unless its line is disabled (alt_irq_handler.c:98-107).         *)
HighestServed == 0 \in raised ~> (0 \notin raised \/ 0 \notin alt_irq_active)

---------------------------------------------------------------------------
(* The inductive invariant behind IrqInv, SearchEnds and PriorityKept.        *)

(* Whoever was interrupted was in its code, outside any section and, unless   *)
(* it is main, interruptible.                                                 *)
StackInv ==
    /\ level[1].id = ALT_NIRQ /\ level[1].at = "served" /\ ~level[1].open
    /\ \A k \in 1..Len(level) - 1 :
           level[k].held = <<>> /\ level[k].at # "scan" /\ (k > 1 => level[k].open)
    /\ \A k \in 2..Len(level) :
           /\ level[k].at # "scan" => level[k].id \in Irq
           /\ level[k].open => level[k].at # "scan" /\ level[k].old = Above(level[k - 1].id)

(* Interrupts are off in a section and in a handler that is not               *)
(* interruptible, and no section within another turns them on.                *)
SectionInv ==
    /\ pie => Top.held = <<>> /\ (InMain \/ Top.open)
    /\ \A n \in 1..Len(Top.held) : Top.held[n] => n = 1 /\ (InMain \/ Top.open)

(* The mask is that of the innermost that is interruptible, or main's; only   *)
(* active lines are enabled, of them no masked ones, as long as the mask was  *)
(* heeded, and all where there is no mask.                                    *)
MaskInv ==
    /\ alt_priority_mask = Above(IF InMain \/ Top.open THEN Top.id ELSE level[Len(level) - 1].id)
    /\ ienable \subseteq alt_irq_active /\ alt_irq_active \subseteq registered
    /\ ~Narrowed => ienable = alt_irq_active
    /\ ~widened => ienable \subseteq alt_priority_mask

(* What a handler has still to look at. *)
ScanInv == ~widened /\ Top.at = "scan" => Top.active \subseteq alt_priority_mask

IrqIInv == /\ IrqTypeOK /\ StackInv /\ SectionInv /\ MaskInv
           /\ ScanInv /\ SearchEnds /\ PriorityKept
=============================================================================
