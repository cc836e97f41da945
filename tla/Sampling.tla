------------------------------ MODULE Sampling ------------------------------
(* From the accelerometer to the printed triple: timer 0, which alt_sys_init  *)
(* starts for the system clock and timer_init of main.c sets up anew, the     *)
(* interrupt routine that reads the three axes byte by byte from a chip that  *)
(* keeps measuring, and the main loop, which filters them one by one.         *)
(* A measurement is known by its number; a byte is known by its measurement   *)
(* and its place.                                                             *)
EXTENDS IntervalTimer, Sequences

CONSTANTS
    Reset,      \* period the timer has from reset
    PERIODL,    \* lower half of the period timer_init writes
    MaxChip,    \* bound on the measurements
    MaxSamples  \* bound on the runs of get_accler_isr

ASSUME SamplingAssumption == /\ Reset \in Half /\ PERIODL \in Half \ {0}
                             /\ MaxChip \in Nat /\ MaxSamples \in Nat

VARIABLES chip,      \* measurements the accelerometer has made
          address,   \* its register last addressed, "none" at first
          main,      \* where main is
          isr,       \* the accesses the routine still has to make
          handler,   \* what alt_irq_register put on TIMER0_IRQ
          coords,    \* [low, high] of each axis
          coord_data_ready,
          filtered,  \* the sample each axis was last filtered from
          samples,   \* history: runs of get_accler_isr so far
          started    \* history: chip when the run under way began

saVars == <<timerVars, chip, address, main, isr, handler, coords,
            coord_data_ready, filtered, samples, started>>
device == <<chip, address>>
triple == <<coords, coord_data_ready, samples, started>>

Axis == 1..3
Register == Axis \X {"low", "high"}
Nothing == <<>>
Loop == {"wait", "x", "y", "z", "print", "clear"}

SaInit ==
    /\ TimerInit(Reset)
    /\ chip = 0 /\ address = Nothing
    /\ main = "sysclk" /\ isr = <<>> /\ handler = "none"
    /\ coords = [i \in Axis |-> [low |-> Nothing, high |-> Nothing, sample |-> 0]]
    /\ coord_data_ready = FALSE
    /\ filtered = [i \in Axis |-> 0] /\ samples = 0 /\ started = 0

InMain(at) == isr = <<>> /\ main = at
---------------------------------------------------------------------------
SaClock == Edge(None) /\ UNCHANGED <<device, main, isr, handler, triple, filtered>>

Measure == /\ chip < MaxChip /\ chip' = chip + 1
           /\ UNCHANGED <<timerVars, address, main, isr, handler, triple, filtered>>

(* The accesses main makes to timer 0, in order, and where each leads:       *)
(* alt_avalon_timer_sc_init, then timer_init.                                 *)
\* Mutant: the timer is started before its period is written.
SetupStartFirst == [
    sysclk  |-> [access |-> Control({"ITO", "CONT", "START"}), next |-> "tick"],
    control |-> [access |-> Control({"ITO", "CONT", "START"}), next |-> "status"],
    status  |-> [access |-> Status, next |-> "periodl"],
    periodl |-> [access |-> PeriodL(PERIODL), next |-> "periodh"],
    periodh |-> [access |-> PeriodH(0), next |-> "sample"],
    start   |-> [access |-> Control({"ITO", "CONT"}), next |-> "wait"]]
Setup == [
    sysclk  |-> [access |-> Control({"ITO", "CONT", "START"}), next |-> "tick"],
    control |-> [access |-> Control({"ITO", "CONT"}), next |-> "status"],
    status  |-> [access |-> Status, next |-> "periodl"],
    periodl |-> [access |-> PeriodL(PERIODL), next |-> "periodh"],
    periodh |-> [access |-> PeriodH(0), next |-> "sample"],
    start   |-> [access |-> Control({"ITO", "CONT", "START"}), next |-> "wait"]]

SetupStep(at) == /\ InMain(at)
                 /\ Edge(Setup[at].access) /\ main' = Setup[at].next
                 /\ UNCHANGED <<device, isr, handler, triple, filtered>>

(* alt_irq_register, by the one and by the other. *)
Register0 == /\ \/ InMain("tick") /\ handler' = "alt_avalon_timer_sc_irq" /\ main' = "control"
                \/ InMain("sample") /\ handler' = "get_accler_isr" /\ main' = "start"
             /\ UNCHANGED <<timerVars, device, isr, triple, filtered>>
---------------------------------------------------------------------------
(* The interrupt routines. *)

\* Mutant: the upper byte of the second axis is read from the first.
AccessesCopied == <<<<1, "low">>, <<1, "high">>, <<2, "low">>, <<1, "high">>, <<3, "low">>, <<3, "high">>>>
(* read_accerometer: the registers read, in order. *)
Accesses == <<<<1, "low">>, <<1, "high">>, <<2, "low">>, <<2, "high">>, <<3, "low">>, <<3, "high">>>>

Enter == /\ isr = <<>> /\ irq /\ handler # "none"
         /\ handler = "get_accler_isr" => samples < MaxSamples
         /\ isr' = IF handler = "get_accler_isr" THEN <<Nothing>> \o Accesses ELSE <<Nothing>>
         /\ UNCHANGED <<timerVars, device, main, handler, triple, filtered>>

(* Both routines clear the timer first. *)
ClearTimer == /\ isr # <<>> /\ Head(isr) = Nothing
              /\ Edge(Status) /\ isr' = Tail(isr)
              /\ started' = chip
              /\ UNCHANGED <<device, main, handler, coords, coord_data_ready, samples, filtered>>

AddressAxis == /\ isr # <<>> /\ Head(isr) # Nothing /\ address # Head(isr)
               /\ address' = Head(isr)
               /\ UNCHANGED <<timerVars, chip, main, isr, handler, triple, filtered>>

(* The byte of the axis being read; the last one sets the flag. *)
ReadAxis ==
    /\ isr # <<>> /\ Head(isr) # Nothing /\ address = Head(isr)
    /\ LET i == (8 - Len(isr)) \div 2
           byte == <<address, chip>>
           lower == Len(isr) % 2 = 0
       IN coords' = [coords EXCEPT ![i] = [low    |-> IF lower THEN byte ELSE @.low,
                                           high   |-> IF lower THEN @.high ELSE byte,
                                           sample |-> samples + 1]]
    /\ isr' = Tail(isr)
    /\ coord_data_ready' = (coord_data_ready \/ Len(isr) = 1)
    /\ samples' = IF Len(isr) = 1 THEN samples + 1 ELSE samples
    /\ UNCHANGED <<timerVars, device, main, handler, filtered, started>>
---------------------------------------------------------------------------
(* The main loop. *)

Wait == /\ InMain("wait") /\ coord_data_ready /\ main' = "x"
        /\ UNCHANGED <<timerVars, device, isr, handler, triple, filtered>>

Following == [x |-> "y", y |-> "z", z |-> "print"]
AxisOf == [x |-> 1, y |-> 2, z |-> 3]

Filter(at) == /\ InMain(at) /\ main' = Following[at]
              /\ filtered' = [filtered EXCEPT ![AxisOf[at]] = coords[AxisOf[at]].sample]
              /\ UNCHANGED <<timerVars, device, isr, handler, triple>>

PrintTriple == /\ InMain("print") /\ main' = "clear"
               /\ UNCHANGED <<timerVars, device, isr, handler, triple, filtered>>

Clear == /\ InMain("clear") /\ main' = "wait" /\ coord_data_ready' = FALSE
         /\ UNCHANGED <<timerVars, device, isr, handler, coords, filtered, samples, started>>

Isr == Enter \/ ClearTimer \/ AddressAxis \/ ReadAxis

MainStep == \/ \E at \in DOMAIN Setup : SetupStep(at)
            \/ Register0 \/ Wait \/ (\E at \in DOMAIN AxisOf : Filter(at)) \/ PrintTriple \/ Clear

SaNext == SaClock \/ Measure \/ Isr \/ MainStep

SaSpec == SaInit /\ [][SaNext]_saVars
---------------------------------------------------------------------------
SaTypeOK ==
    /\ TimerTypeOK
    /\ chip \in 0..MaxChip /\ samples \in 0..MaxSamples /\ started \in 0..chip
    /\ address \in Register \cup {Nothing}
    /\ main \in DOMAIN Setup \cup Loop \cup {"tick", "sample"}
    /\ isr \in Seq(Register \cup {Nothing})
    /\ handler \in {"none", "alt_avalon_timer_sc_irq", "get_accler_isr"}
    /\ coord_data_ready \in BOOLEAN
    /\ filtered \in [Axis -> 0..MaxSamples]

(* Every axis is put together from its own two bytes, read in order during  *)
(* the routine's last run: an axis mixes two measurements, or two axes come  *)
(* from different ones, only if the chip measured while the routine read     *)
(* (altera_up_avalon_accelerometer_spi.c:114-194).                            *)
Byte(n) == LET axis == coords[(n + 1) \div 2] IN IF n % 2 = 1 THEN axis.low ELSE axis.high
AxesInOrder ==
    isr = <<>> /\ samples > 0 =>
        /\ \A n \in 1..6 : Byte(n)[1] = <<(n + 1) \div 2, IF n % 2 = 1 THEN "low" ELSE "high">>
        /\ \A n \in 1..6 : Byte(n)[2] \in started..chip
        /\ \A n \in 1..5 : Byte(n)[2] <= Byte(n + 1)[2]

(* A printed triple may mix samples, as coords is rewritten while main       *)
(* filters (main.c:317-319), but only forwards: no axis is older than the    *)
(* ones filtered before it.                                                   *)
TripleInOrder ==
    main = "print" => /\ filtered[1] <= filtered[2] /\ filtered[2] <= filtered[3]
                      /\ filtered[1] >= 1 /\ filtered[3] <= samples

(* The timer timer_init leaves keeps interrupting: stopping and reloading    *)
(* it by writing its period loses neither the start nor its repetition        *)
(* (main.c:188-196).                                                          *)
SamplesKeepComing == main \in Loop /\ isr = <<>> ~> isr # <<>> \/ samples = MaxSamples

(* The bytes of an axis and the axes of a triple, both in order. *)
SaInv == SaTypeOK /\ AxesInOrder /\ TripleInOrder

---------------------------------------------------------------------------
(* The inductive invariant behind the three.                                  *)

Left == Len(isr)
Reading == isr # <<>> /\ Head(isr) # Nothing

(* Between two runs of the routine all axes are of one sample; during one,    *)
(* those it has begun are of the next.                                        *)
CoordsInv ==
    /\ samples \in Nat /\ coord_data_ready \in BOOLEAN
    /\ coords = [i \in Axis |-> coords[i]]
    /\ \A i \in Axis : coords[i].sample =
          IF Reading /\ Left + 2 * i <= 7 THEN samples + 1 ELSE samples

(* Only the first thing a routine does is to clear the timer.                 *)
IsrInv ==
    /\ isr \in Seq(Register \cup {Nothing}) /\ Len(isr) <= 7
    /\ Len(isr) = 7 => isr[1] = Nothing
    /\ \A n \in 1..Len(isr) : isr[n] = Nothing => n = 1 /\ Len(isr) \in {1, 7}

(* Main goes on only between runs of the routine, with what it left. *)
FilteredInv ==
    /\ filtered \in [Axis -> Nat]
    /\ coord_data_ready \/ main \in {"x", "y", "z", "print", "clear"} => samples >= 1
    /\ main \in {"y", "z", "print"} => filtered[1] \in 1..samples
    /\ main \in {"z", "print"} => filtered[2] \in filtered[1]..samples
    /\ main = "print" => filtered[3] \in filtered[2]..samples

(* Samples are taken once timer_init has registered their routine, and only   *)
(* the tick's routine is over when the timer is cleared.                       *)
RoutineInv ==
    /\ handler = "get_accler_isr" <=> main \in Loop \cup {"start"}
    /\ samples > 0 \/ Left > 1 \/ Reading => handler = "get_accler_isr"
    /\ Left = 1 /\ ~Reading => handler # "get_accler_isr"
    /\ Left > 1 \/ Reading => samples < MaxSamples

(* The bytes of the last run that are read, the measurements they are of, and *)
(* the ones still to come.                                                     *)
Done == IF Reading THEN 6 - Left ELSE IF isr = <<>> /\ samples > 0 THEN 6 ELSE 0

BytesInv ==
    /\ Left > 1 \/ Reading =>
          \A n \in 1..Left : n + 6 - Left >= 1 => isr[n] = Accesses[n + 6 - Left]
    /\ \A n \in 1..Done : Byte(n)[1] = Accesses[n] /\ Byte(n)[2] \in started..chip
    /\ \A n \in 2..Done : Byte(n - 1)[2] <= Byte(n)[2]

SaIInv == SaTypeOK /\ CoordsInv /\ IsrInv /\ FilteredInv /\ RoutineInv /\ BytesInv
===========================================================================
