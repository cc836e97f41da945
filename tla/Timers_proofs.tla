--------------------------- MODULE Timers_proofs ---------------------------
(* The users of the two interval timers: the sampling of the accelerometer on  *)
(* timer 0 and the timestamp on timer 1.  For every width of the timers,        *)
(* period, chip and number of samples: what is sampled and what is printed is   *)
(* in order, and what alt_timestamp() returns was the time during the call.     *)
EXTENDS Sampling, Timestamp, TLAPS

---------------------------------------------------------------------------
(* The timer.                                                                 *)

(* Two halves make a number of the full width. *)
LEMMA Halves ==
    ASSUME NEW h \in Half, NEW l \in Half
    PROVE  h * WORD + l \in 0..FULL
  <1>1. WORD \in Nat /\ WORD > 1 /\ h \in 0..WORD - 1 /\ l \in 0..WORD - 1
    BY TimerAssumption DEF Half
  <1>2. h * WORD \in Nat /\ h * WORD <= (WORD - 1) * WORD
    BY <1>1
  <1>3. (WORD - 1) * WORD = WORD * WORD - WORD /\ WORD * WORD \in Nat
    BY <1>1
  <1> QED BY <1>1, <1>2, <1>3 DEF FULL

Fits(w) == Strobe(w, "periodl") \/ Strobe(w, "periodh") => w.v \in Half

LEMMA AccessesFit ==
    /\ Fits(None) /\ Fits(Status) /\ Fits(Snap)
    /\ \A v : Fits(Control(v))
    /\ \A v \in Half : Fits(PeriodL(v)) /\ Fits(PeriodH(v))
  BY DEF Fits, Strobe, None, Status, Snap, Control, PeriodL, PeriodH

(* A clock edge keeps every register in its width. *)
LEMMA EdgeTypes ==
    ASSUME TimerTypeOK, NEW w, Fits(w), Edge(w)
    PROVE  TimerTypeOK'
  <1>1. counter_load_value \in 0..FULL
    BY Halves DEF TimerTypeOK, counter_load_value
  <1>2. Countdown \in 0..FULL
    <2>1. internal_counter \in 0..FULL  BY DEF TimerTypeOK
    <2>2. internal_counter # 0 => internal_counter - 1 \in 0..FULL
      BY <2>1, TimerAssumption DEF FULL
    <2> QED BY <1>1, <2>2 DEF Countdown, counter_is_zero
  <1>3. internal_counter' \in 0..FULL /\ counter_snapshot' \in 0..FULL
    BY <1>2 DEF Edge, TimerTypeOK
  <1>4. period_l_register' \in Half /\ period_h_register' \in Half
    BY DEF Edge, TimerTypeOK, Fits
  <1>5. control_register' \subseteq {"ITO", "CONT"}
    BY DEF Edge, TimerTypeOK
  <1>6. /\ counter_is_running' \in BOOLEAN /\ force_reload' \in BOOLEAN
        /\ was_zero' \in BOOLEAN /\ timeout_occurred' \in BOOLEAN
    BY DEF Edge, counter_is_zero
  <1> QED BY <1>3, <1>4, <1>5, <1>6 DEF TimerTypeOK

LEMMA TimerStays ==
    ASSUME TimerTypeOK, UNCHANGED timerVars
    PROVE  TimerTypeOK'
  BY DEF TimerTypeOK, timerVars
---------------------------------------------------------------------------
(* Sampling: the routine, the coordinates and what main makes of them.         *)

Coordinates == CoordsInv /\ IsrInv /\ FilteredInv

LEMMA AccessesFacts ==
    /\ Accesses \in Seq(Register) /\ Len(Accesses) = 6
    /\ \A n \in 1..6 : Accesses[n] # Nothing
  BY DEF Accesses, Register, Axis, Nothing

(* Taking the first element of a sequence, and putting one before it. *)
LEMMA Taken ==
    ASSUME NEW S, NEW s \in Seq(S), s # <<>>
    PROVE  /\ Head(s) = s[1] /\ Len(s) \in Nat \ {0}
           /\ Tail(s) \in Seq(S) /\ Len(Tail(s)) = Len(s) - 1
           /\ \A n \in 1..Len(Tail(s)) : Tail(s)[n] = s[n + 1]
  OBVIOUS

LEMMA Put ==
    ASSUME NEW S, NEW e \in S, NEW s \in Seq(S)
    PROVE  /\ <<e>> \o s \in Seq(S) /\ Len(<<e>> \o s) = 1 + Len(s)
           /\ (<<e>> \o s)[1] = e /\ Head(<<e>> \o s) = e
           /\ \A n \in 2..Len(s) + 1 : (<<e>> \o s)[n] = s[n - 1]
  <1>1. <<e>> \o s \in Seq(S) /\ Len(<<e>> \o s) = 1 + Len(s) /\ (<<e>> \o s)[1] = e
    OBVIOUS
  <1>2. Head(<<e>> \o s) = e  OBVIOUS
  <1>3. \A n \in 2..Len(s) + 1 : (<<e>> \o s)[n] = s[n - 1]  OBVIOUS
  <1> QED BY <1>1, <1>2, <1>3

LEMMA NotEmpty ==
    ASSUME NEW S, NEW s \in Seq(S)
    PROVE  s = <<>> <=> Len(s) = 0
  OBVIOUS

(* A routine makes its first access: what is left is an ending of it again,    *)
(* and reads bytes if anything.                                                *)
LEMMA RoutineStep ==
    ASSUME IsrInv, isr # <<>>, isr' = Tail(isr)
    PROVE  /\ IsrInv' /\ Left \in 1..7 /\ Left' = Left - 1
           /\ Reading' <=> Left # 1
           /\ Reading => Left # 7
           /\ ~Reading => Left \in {1, 7}
           /\ isr' = <<>> <=> Left = 1
  <1> DEFINE S == Register \cup {Nothing}
             len == Len(isr)
             rest == Tail(isr)
  <1>1. /\ isr \in Seq(S) /\ len <= 7
        /\ len = 7 => isr[1] = Nothing
        /\ \A n \in 1..len : isr[n] = Nothing => n = 1 /\ len \in {1, 7}
    BY DEF IsrInv
  <1> HIDE DEF S, len, rest
  <1>2. /\ Head(isr) = isr[1] /\ len \in Nat \ {0}
        /\ rest \in Seq(S) /\ Len(rest) = len - 1
        /\ \A n \in 1..Len(rest) : rest[n] = isr[n + 1]
    BY <1>1, Taken DEF rest, len
  <1>3. \A n \in 1..Len(rest) : rest[n] # Nothing
    <2> SUFFICES ASSUME NEW n \in 1..Len(rest)  PROVE rest[n] # Nothing
      OBVIOUS
    <2>1. n + 1 \in 1..len /\ n + 1 # 1  BY <1>2
    <2>2. isr[n + 1] # Nothing  BY <1>1, <2>1, Zenon
    <2> QED BY <1>2, <2>2, Zenon
  <1>4. rest = <<>> <=> len = 1
    <2>1. rest = <<>> <=> Len(rest) = 0  BY <1>2, NotEmpty
    <2> QED BY <1>2, <2>1
  <1>5. rest # <<>> => Head(rest) # Nothing
    <2> SUFFICES ASSUME rest # <<>>  PROVE Head(rest) # Nothing
      OBVIOUS
    <2>1. Head(rest) = rest[1] /\ Len(rest) \in Nat \ {0}  BY <1>2, Taken
    <2> QED BY <1>3, <2>1
  <1>6. /\ Head(isr) = Nothing => len \in {1, 7}
        /\ Head(isr) # Nothing => len # 7
    BY <1>1, <1>2
  <1>7. isr' = rest  BY DEF rest
  <1>8. IsrInv'
    <2>1. /\ rest \in Seq(S) /\ Len(rest) <= 7 /\ Len(rest) # 7
          /\ \A n \in 1..Len(rest) : rest[n] = Nothing => n = 1 /\ Len(rest) \in {1, 7}
      BY <1>1, <1>2, <1>3
    <2> QED BY <1>7, <2>1, Zenon DEF IsrInv, S
  <1>9. Left = len /\ Left' = Len(rest)
    BY <1>7 DEF Left, len
  <1>10. Left \in 1..7 /\ Left' = Left - 1  BY <1>1, <1>2, <1>9
  <1>11. Reading' <=> len # 1
    BY <1>4, <1>5, <1>7, Zenon DEF Reading
  <1>12. /\ Reading <=> Head(isr) # Nothing
         /\ isr' = <<>> <=> len = 1
    BY <1>4, <1>7, Zenon DEF Reading
  <1> QED BY <1>6, <1>8, <1>9, <1>10, <1>11, <1>12, Zenon

(* A step of main, the chip or the timer leaves the routine's part alone. *)
LEMMA CoordsStay ==
    ASSUME CoordsInv, IsrInv, UNCHANGED <<isr, coords, samples>>, coord_data_ready' \in BOOLEAN
    PROVE  CoordsInv' /\ IsrInv'
  <1>1. UNCHANGED <<Reading, Left>>  BY DEF Reading, Left
  <1>2. CoordsInv'  BY <1>1 DEF CoordsInv
  <1> QED BY <1>2, Zenon DEF IsrInv

LEMMA FilteredStays ==
    ASSUME FilteredInv, UNCHANGED <<main, samples, filtered, coord_data_ready>>
    PROVE  FilteredInv'
  BY DEF FilteredInv

LEMMA InitInv == SaInit => Coordinates
  <1> SUFFICES ASSUME SaInit  PROVE Coordinates
    OBVIOUS
  <1>1. CoordsInv  BY DEF SaInit, CoordsInv, Reading
  <1>2. IsrInv  BY DEF SaInit, IsrInv
  <1>3. FilteredInv  BY DEF SaInit, FilteredInv, Axis
  <1> QED BY <1>1, <1>2, <1>3 DEF Coordinates

(* The accesses of a run of get_accler_isr. *)
LEMMA Routine ==
    LET all == <<Nothing>> \o Accesses
    IN  /\ all \in Seq(Register \cup {Nothing}) /\ Len(all) = 7 /\ all # <<>>
        /\ all[1] = Nothing /\ Head(all) = Nothing
        /\ \A n \in 2..7 : all[n] = Accesses[n - 1]
  <1> DEFINE all == <<Nothing>> \o Accesses
  <1> DEFINE S == Register \cup {Nothing}
  <1>1. Accesses \in Seq(S) /\ Nothing \in S /\ Len(Accesses) = 6  BY AccessesFacts
  <1> HIDE DEF S
  <1>2. /\ all \in Seq(S) /\ Len(all) = 1 + 6 /\ all[1] = Nothing /\ Head(all) = Nothing
        /\ \A n \in 2..6 + 1 : all[n] = Accesses[n - 1]
    <2>1. /\ all \in Seq(S) /\ Len(all) = 1 + Len(Accesses)
          /\ all[1] = Nothing /\ Head(all) = Nothing
          /\ \A n \in 2..Len(Accesses) + 1 : all[n] = Accesses[n - 1]
      <3> DEFINE e == Nothing
                 acc == Accesses
      <3>1. e \in S /\ acc \in Seq(S)  BY <1>1
      <3> HIDE DEF e, acc
      <3>2. /\ <<e>> \o acc \in Seq(S) /\ Len(<<e>> \o acc) = 1 + Len(acc)
            /\ (<<e>> \o acc)[1] = e /\ Head(<<e>> \o acc) = e
            /\ \A n \in 2..Len(acc) + 1 : (<<e>> \o acc)[n] = acc[n - 1]
        BY <3>1, Put
      <3> QED BY <3>2 DEF e, acc
    <2> QED BY <1>1, <2>1
  <1>3. all # <<>>  BY <1>2, NotEmpty
  <1> QED BY <1>2, <1>3 DEF S

LEMMA EnterStep ==
    ASSUME Coordinates, Enter
    PROVE  Coordinates'
  <1> DEFINE all == <<Nothing>> \o Accesses
  <1>1. CoordsInv /\ FilteredInv  BY DEF Coordinates
  <1>2. /\ isr = <<>> /\ isr' \in {all, <<Nothing>>}
        /\ UNCHANGED <<main, filtered, coords, coord_data_ready, samples>>
    BY DEF Enter, triple
  <1>3. /\ all \in Seq(Register \cup {Nothing}) /\ Len(all) = 7 /\ all # <<>>
        /\ all[1] = Nothing /\ Head(all) = Nothing
        /\ \A n \in 2..7 : all[n] = Accesses[n - 1]
    BY Routine
  <1>4. \A n \in 2..7 : all[n] # Nothing
    BY <1>3, AccessesFacts
  <1>5. IsrInv'
    <2>1. CASE isr' = all  BY <2>1, <1>3, <1>4 DEF IsrInv
    <2>2. CASE isr' = <<Nothing>>  BY <2>2 DEF IsrInv
    <2> QED BY <1>2, <2>1, <2>2
  <1>6. Head(isr') = Nothing  BY <1>2, <1>3
  <1>7. CoordsInv'
    <2>1. ~Reading /\ ~Reading'  BY <1>2, <1>6, Zenon DEF Reading
    <2> QED BY <1>1, <1>2, <2>1 DEF CoordsInv
  <1>8. FilteredInv'  BY <1>1, <1>2, FilteredStays
  <1> QED BY <1>5, <1>7, <1>8 DEF Coordinates

LEMMA ClearTimerStep ==
    ASSUME Coordinates, ClearTimer
    PROVE  Coordinates'
  <1>1. CoordsInv /\ IsrInv /\ FilteredInv  BY DEF Coordinates
  <1>2. /\ isr # <<>> /\ Head(isr) = Nothing /\ isr' = Tail(isr)
        /\ UNCHANGED <<main, filtered, coords, coord_data_ready, samples>>
    BY DEF ClearTimer
  <1>3. ~Reading  BY <1>2 DEF Reading
  <1>4. IsrInv' /\ Left \in {1, 7} /\ Left' = Left - 1 /\ (Reading' => Left # 1)
    BY <1>1, <1>2, <1>3, RoutineStep, Zenon
  <1>5. CoordsInv'
    <2>1. \A i \in Axis : ~(Reading' /\ Left' + 2 * i <= 7)
      BY <1>4 DEF Axis
    <2> QED BY <1>1, <1>2, <1>3, <2>1 DEF CoordsInv
  <1>6. FilteredInv'  BY <1>1, <1>2, FilteredStays
  <1> QED BY <1>4, <1>5, <1>6 DEF Coordinates

LEMMA ReadAxisStep ==
    ASSUME Coordinates, ReadAxis
    PROVE  Coordinates'
  <1> DEFINE i == (8 - Left) \div 2
  <1>1. CoordsInv /\ IsrInv /\ FilteredInv  BY DEF Coordinates
  <1>2. /\ isr # <<>> /\ Reading /\ isr' = Tail(isr)
        /\ \E low, high : coords' = [coords EXCEPT ![i] = [low |-> low, high |-> high,
                                                           sample |-> samples + 1]]
        /\ coord_data_ready' = (coord_data_ready \/ Left = 1)
        /\ samples' = IF Left = 1 THEN samples + 1 ELSE samples
        /\ UNCHANGED <<main, filtered>>
    BY DEF ReadAxis, Reading, Left
  <1>3. /\ IsrInv' /\ Left \in 1..6 /\ Left' = Left - 1 /\ (Reading' <=> Left # 1)
    BY <1>1, <1>2, RoutineStep
  <1>4. samples \in Nat /\ coord_data_ready \in BOOLEAN  BY <1>1 DEF CoordsInv
  <1>5. i \in Axis /\ Left + 2 * i <= 8 /\ Left + 2 * i >= 7
    BY <1>3 DEF Axis
  <1>6. coords' = [j \in Axis |-> coords'[j]]
        /\ \A j \in Axis : coords'[j].sample = IF j = i THEN samples + 1 ELSE coords[j].sample
    <2> HIDE DEF i
    <2>1. coords = [j \in Axis |-> coords[j]]  BY <1>1 DEF CoordsInv
    <2> QED BY <1>2, <1>5, <2>1, SMTT(30)
  <1>7. CoordsInv'
    <2>1. \A j \in Axis : coords[j].sample = IF Left + 2 * j <= 7 THEN samples + 1 ELSE samples
      BY <1>1, <1>2 DEF CoordsInv
    <2>2. \A j \in Axis : coords'[j].sample =
             IF Reading' /\ Left' + 2 * j <= 7 THEN samples' + 1 ELSE samples'
      <3> HIDE DEF i
      <3>1. \A j \in Axis : coords'[j].sample = IF Left - 1 + 2 * j <= 7 THEN samples + 1 ELSE samples
        BY <1>3, <1>5, <1>6, <2>1 DEF Axis
      <3> QED BY <1>2, <1>3, <1>4, <3>1 DEF Axis
    <2>3. samples' \in Nat /\ coord_data_ready' \in BOOLEAN  BY <1>2, <1>4
    <2> QED BY <1>6, <2>2, <2>3 DEF CoordsInv
  <1>8. FilteredInv'
    <2>1. samples' \in Nat /\ samples <= samples'  BY <1>2, <1>4
    <2>2. coord_data_ready' => coord_data_ready \/ samples' >= 1
      BY <1>2, <1>4
    <2> QED BY <1>1, <1>2, <1>4, <2>1, <2>2 DEF FilteredInv, Axis
  <1> QED BY <1>3, <1>7, <1>8 DEF Coordinates

LEMMA AddressStep ==
    ASSUME Coordinates, AddressAxis
    PROVE  Coordinates'
  BY CoordsStay, FilteredStays DEF AddressAxis, Coordinates, CoordsInv, triple

(* Main passes from one axis to the next only while the routine is not running, *)
(* and then all axes are of the last sample.                                    *)
LEMMA FilterStep ==
    ASSUME Coordinates, NEW at \in DOMAIN AxisOf, Filter(at)
    PROVE  Coordinates'
  <1>1. CoordsInv /\ IsrInv /\ FilteredInv  BY DEF Coordinates
  <1>2. /\ isr = <<>> /\ main = at /\ main' = Following[at]
        /\ filtered' = [filtered EXCEPT ![AxisOf[at]] = coords[AxisOf[at]].sample]
        /\ UNCHANGED <<isr, coords, samples, coord_data_ready>>
    BY DEF Filter, InMain, triple
  <1>3. \A i \in Axis : coords[i].sample = samples
    BY <1>1, <1>2 DEF CoordsInv, Reading
  <1>4. CoordsInv' /\ IsrInv'
    BY <1>1, <1>2, CoordsStay DEF CoordsInv
  <1>5. FilteredInv'
    <2>1. samples \in Nat /\ filtered \in [Axis -> Nat]  BY <1>1 DEF CoordsInv, FilteredInv
    <2>2. samples >= 1 /\ main' = Following[at] /\ main = at  BY <1>1, <1>2 DEF FilteredInv, AxisOf
    <2>3. CASE at = "x"
      <3>1. Following["x"] = "y" /\ AxisOf["x"] = 1 /\ 1 \in Axis
        BY DEF Following, AxisOf, Axis
      <3>2. filtered' = [filtered EXCEPT ![1] = samples]
        BY <1>2, <1>3, <2>3, <3>1
      <3>3. /\ filtered' \in [Axis -> Nat] /\ filtered'[1] = samples
        BY <2>1, <3>1, <3>2 DEF Axis
      <3>4. main' = "y"  BY <2>2, <2>3, <3>1
      <3> QED BY <1>2, <2>1, <2>2, <3>3, <3>4 DEF FilteredInv
    <2>4. CASE at = "y"
      <3>1. Following["y"] = "z" /\ AxisOf["y"] = 2 /\ 2 \in Axis
        BY DEF Following, AxisOf, Axis
      <3>2. filtered' = [filtered EXCEPT ![2] = samples]
        BY <1>2, <1>3, <2>4, <3>1
      <3>3. /\ filtered' \in [Axis -> Nat] /\ filtered'[2] = samples
            /\ filtered'[1] = filtered[1]
        BY <2>1, <3>1, <3>2 DEF Axis
      <3>4. main' = "z"  BY <2>2, <2>4, <3>1
      <3>5. filtered[1] \in 1..samples
        BY <1>1, <2>2, <2>4, Zenon DEF FilteredInv
      <3> QED BY <1>2, <2>1, <2>2, <3>3, <3>4, <3>5 DEF FilteredInv
    <2>5. CASE at = "z"
      <3>1. Following["z"] = "print" /\ AxisOf["z"] = 3 /\ 3 \in Axis
        BY DEF Following, AxisOf, Axis
      <3>2. filtered' = [filtered EXCEPT ![3] = samples]
        BY <1>2, <1>3, <2>5, <3>1
      <3>3. /\ filtered' \in [Axis -> Nat] /\ filtered'[3] = samples
            /\ filtered'[1] = filtered[1]
            /\ filtered'[2] = filtered[2]
        BY <2>1, <3>1, <3>2 DEF Axis
      <3>4. main' = "print"  BY <2>2, <2>5, <3>1
      <3>5. filtered[1] \in 1..samples /\ filtered[2] \in filtered[1]..samples
        BY <1>1, <2>2, <2>5, Zenon DEF FilteredInv
      <3> QED BY <1>2, <2>1, <2>2, <3>3, <3>4, <3>5 DEF FilteredInv
    <2> QED BY <2>3, <2>4, <2>5 DEF AxisOf
  <1> QED BY <1>4, <1>5 DEF Coordinates

(* Until main waits for the first sample it prints nothing. *)
LEMMA SetupSteps ==
    ASSUME Coordinates, Register0 \/ \E at \in DOMAIN Setup : SetupStep(at)
    PROVE  Coordinates'
  <1>1. CoordsInv /\ IsrInv /\ FilteredInv  BY DEF Coordinates
  <1>2. /\ UNCHANGED <<isr, coords, samples, coord_data_ready, filtered>>
        /\ main' \in {"tick", "status", "periodl", "periodh", "sample", "wait", "control", "start"}
    <2>1. CASE Register0  BY <2>1 DEF Register0, triple
    <2>2. ASSUME NEW at \in DOMAIN Setup, SetupStep(at)
          PROVE  /\ UNCHANGED <<isr, coords, samples, coord_data_ready, filtered>>
                 /\ main' \in {"tick", "status", "periodl", "periodh", "sample", "wait"}
      <3>1. UNCHANGED <<isr, coords, samples, coord_data_ready, filtered>> /\ main' = Setup[at].next
        BY <2>2 DEF SetupStep, triple
      <3>2. Setup[at].next \in {"tick", "status", "periodl", "periodh", "sample", "wait"}
        BY DEF Setup
      <3> QED BY <3>1, <3>2
    <2> QED BY <2>1, <2>2
  <1>3. CoordsInv' /\ IsrInv'  BY <1>1, <1>2, CoordsStay DEF CoordsInv
  <1>4. FilteredInv'  BY <1>1, <1>2 DEF FilteredInv
  <1> QED BY <1>3, <1>4 DEF Coordinates

LEMMA LoopSteps ==
    ASSUME Coordinates, Wait \/ PrintTriple \/ Clear
    PROVE  Coordinates'
  <1>1. CoordsInv /\ IsrInv /\ FilteredInv  BY DEF Coordinates
  <1>2. /\ UNCHANGED <<isr, coords, samples, filtered>>
        /\ \/ main' = "x" /\ coord_data_ready /\ coord_data_ready'
           \/ main = "print" /\ main' = "clear" /\ coord_data_ready' = coord_data_ready
           \/ main' = "wait" /\ ~coord_data_ready'
        /\ coord_data_ready' \in BOOLEAN
    BY <1>1 DEF Wait, PrintTriple, Clear, InMain, triple, CoordsInv
  <1>3. CoordsInv' /\ IsrInv'  BY <1>1, <1>2, CoordsStay
  <1>4. FilteredInv'  BY <1>1, <1>2 DEF FilteredInv
  <1> QED BY <1>3, <1>4 DEF Coordinates

LEMMA NextInv == Coordinates /\ [SaNext]_saVars => Coordinates'
  <1> SUFFICES ASSUME Coordinates, [SaNext]_saVars  PROVE Coordinates'
    OBVIOUS
  <1>1. CASE \/ UNCHANGED saVars \/ SaClock \/ Measure
    <2>1. UNCHANGED <<isr, main, coords, samples, coord_data_ready, filtered>>
      BY <1>1 DEF saVars, SaClock, Measure, triple
    <2> QED BY <2>1, CoordsStay, FilteredStays DEF Coordinates, CoordsInv
  <1>2. CASE Isr
    BY <1>2, EnterStep, ClearTimerStep, AddressStep, ReadAxisStep DEF Isr
  <1>3. CASE MainStep
    BY <1>3, SetupSteps, LoopSteps, FilterStep DEF MainStep
  <1> QED BY <1>1, <1>2, <1>3 DEF SaNext

---------------------------------------------------------------------------
(* Sampling: types.                                                            *)

LEMMA SaInitTypes == SaInit => SaTypeOK
  <1> SUFFICES ASSUME SaInit  PROVE SaTypeOK
    OBVIOUS
  <1>1. TimerTypeOK
    <2>1. Reset \in Half /\ 0 \in Half /\ Reset \in 0..FULL /\ 0 \in 0..FULL
      <3>1. Reset \in Half /\ 0 \in Half  BY SamplingAssumption, TimerAssumption DEF Half
      <3>2. 0 * WORD + Reset \in 0..FULL /\ 0 * WORD + 0 \in 0..FULL  BY <3>1, Halves
      <3> QED BY <3>1, <3>2, TimerAssumption DEF Half
    <2> QED BY <2>1 DEF SaInit, TimerInit, TimerTypeOK
  <1>2. isr \in Seq(Register \cup {Nothing})  BY DEF SaInit
  <1>3. filtered \in [Axis -> 0..MaxSamples]  BY SamplingAssumption DEF SaInit
  <1>4. "sysclk" \in DOMAIN Setup  BY DEF Setup
  <1>5. 0 \in 0..MaxChip /\ 0 \in 0..MaxSamples /\ 0 \in 0..0  BY SamplingAssumption
  <1> QED BY <1>1, <1>2, <1>3, <1>4, <1>5 DEF SaInit, SaTypeOK

LEMMA TypesKept ==
    ASSUME SaTypeOK, Coordinates, RoutineInv, [SaNext]_saVars, IsrInv'
    PROVE  SaTypeOK'
  <1> USE DEF triple, device
  <1>1. /\ TimerTypeOK
        /\ chip \in 0..MaxChip /\ samples \in 0..MaxSamples /\ started \in 0..chip
        /\ address \in Register \cup {Nothing}
        /\ main \in DOMAIN Setup \cup Loop \cup {"tick", "sample"}
        /\ handler \in {"none", "alt_avalon_timer_sc_irq", "get_accler_isr"}
        /\ coord_data_ready \in BOOLEAN
        /\ filtered \in [Axis -> 0..MaxSamples]
    BY DEF SaTypeOK
  <1>2. isr' \in Seq(Register \cup {Nothing})  BY DEF IsrInv
  <1> DEFINE Rest == /\ chip' \in 0..MaxChip /\ samples' \in 0..MaxSamples /\ started' \in 0..chip'
                     /\ address' \in Register \cup {Nothing}
                     /\ main' \in DOMAIN Setup \cup Loop \cup {"tick", "sample"}
                     /\ handler' \in {"none", "alt_avalon_timer_sc_irq", "get_accler_isr"}
                     /\ coord_data_ready' \in BOOLEAN
                     /\ filtered' \in [Axis -> 0..MaxSamples]
  <1>3. SUFFICES TimerTypeOK' /\ Rest
    BY <1>2 DEF SaTypeOK
  <1>4. TimerTypeOK'
    <2>1. CASE UNCHANGED timerVars  BY <1>1, <2>1, TimerStays
    <2>2. CASE Edge(None) \/ Edge(Status)  BY <1>1, <2>2, EdgeTypes, AccessesFit
    <2>3. ASSUME NEW at \in DOMAIN Setup, Edge(Setup[at].access)  PROVE TimerTypeOK'
      <3>1. Fits(Setup[at].access)
        <4>1. 0 \in Half /\ PERIODL \in Half  BY SamplingAssumption, TimerAssumption DEF Half
        <4> QED BY <4>1, AccessesFit DEF Setup
      <3> QED BY <1>1, <2>3, <3>1, EdgeTypes
    <2> QED BY <2>1, <2>2, <2>3 DEF SaNext, SaClock, Measure, Isr, Enter, ClearTimer, AddressAxis, ReadAxis,
               MainStep, SetupStep, Register0, Wait, Filter, PrintTriple, Clear, saVars
  <1>5. Rest
    <2>1. CASE UNCHANGED saVars \/ SaClock  BY <1>1, <2>1 DEF saVars, SaClock
    <2>2. CASE Measure  BY <1>1, <2>2, SamplingAssumption DEF Measure
    <2>3. CASE Enter  BY <1>1, <2>3 DEF Enter
    <2>4. CASE ClearTimer  BY <1>1, <2>4 DEF ClearTimer
    <2>5. CASE AddressAxis
      <3>1. Head(isr) \in Register \cup {Nothing}
        <4> DEFINE S == Register \cup {Nothing}
        <4>1. isr \in Seq(S) /\ isr # <<>>  BY <2>5 DEF AddressAxis, SaTypeOK
        <4> HIDE DEF S
        <4>2. Head(isr) \in S  BY <4>1
        <4> QED BY <4>2 DEF S
      <3> QED BY <1>1, <2>5, <3>1 DEF AddressAxis
    <2>6. CASE ReadAxis
      <3>1. Reading  BY <2>6 DEF ReadAxis, Reading
      <3>2. samples < MaxSamples  BY <3>1 DEF RoutineInv
      <3>3. samples' \in 0..MaxSamples
        BY <1>1, <2>6, <3>2, SamplingAssumption DEF ReadAxis
      <3>4. coord_data_ready' \in BOOLEAN  BY <2>6 DEF ReadAxis
      <3> QED BY <1>1, <2>6, <3>3, <3>4 DEF ReadAxis
    <2>7. ASSUME NEW at \in DOMAIN Setup, SetupStep(at)  PROVE Rest
      <3>1. Setup[at].next \in DOMAIN Setup \cup Loop \cup {"tick", "sample"}  BY DEF Setup, Loop
      <3> QED BY <1>1, <2>7, <3>1 DEF SetupStep
    <2>8. CASE Register0  BY <1>1, <2>8 DEF Register0, Setup
    <2>9. CASE Wait \/ PrintTriple \/ Clear  BY <1>1, <2>9 DEF Wait, PrintTriple, Clear, Loop
    <2>10. ASSUME NEW at \in DOMAIN AxisOf, Filter(at)  PROVE Rest
      <3>1. isr = <<>>  BY <2>10 DEF Filter, InMain
      <3>2. AxisOf[at] \in Axis /\ Following[at] \in Loop  BY DEF AxisOf, Axis, Following, Loop
      <3>3. coords[AxisOf[at]].sample = samples
        BY <3>1, <3>2 DEF Coordinates, CoordsInv, Reading
      <3>4. filtered' \in [Axis -> 0..MaxSamples]
        BY <1>1, <2>10, <3>2, <3>3 DEF Filter
      <3> QED BY <1>1, <2>10, <3>2, <3>4 DEF Filter
    <2> QED BY <2>1, <2>2, <2>3, <2>4, <2>5, <2>6, <2>7, <2>8, <2>9, <2>10 DEF SaNext, Isr, MainStep
  <1> QED BY <1>4, <1>5

(* Who serves the interrupt, and how far its routine may still be. *)
LEMMA RoutineKept ==
    ASSUME SaTypeOK, Coordinates, RoutineInv, [SaNext]_saVars
    PROVE  RoutineInv'
  <1> USE DEF triple, device
  <1>1. /\ samples \in Nat /\ samples <= MaxSamples /\ MaxSamples \in Nat
    BY SamplingAssumption DEF SaTypeOK
  <1>2. /\ isr = <<>> => Left = 0 /\ ~Reading
        /\ isr # <<>> => Left \in 1..7
    <2>1. isr = <<>> => Left = 0 /\ ~Reading  BY DEF Left, Reading
    <2>2. ASSUME isr # <<>>  PROVE Left \in 1..7
      <3> DEFINE S == Register \cup {Nothing}
      <3>1. isr \in Seq(S) /\ Len(isr) <= 7  BY DEF Coordinates, IsrInv
      <3> HIDE DEF S
      <3>2. Len(isr) \in Nat \ {0}  BY <2>2, <3>1, Taken
      <3>3. Left <= 7 /\ Left \in Nat \ {0}  BY <3>1, <3>2 DEF Left
      <3> QED BY <3>3
    <2> QED BY <2>1, <2>2
  <1>3. CASE UNCHANGED <<isr, handler, main, samples>>
    <2>1. UNCHANGED <<Left, Reading>>  BY <1>3 DEF Left, Reading
    <2> QED BY <1>3, <2>1 DEF RoutineInv
  <1>4. CASE Enter
    <2>1. /\ isr = <<>> /\ UNCHANGED <<handler, main, samples>>
          /\ handler = "get_accler_isr" => samples < MaxSamples /\ isr' = <<Nothing>> \o Accesses
          /\ handler # "get_accler_isr" => isr' = <<Nothing>>
      BY <1>4 DEF Enter
    <2>2. CASE handler # "get_accler_isr"
      <3>1. Left' = 1 /\ ~Reading'  BY <2>1, <2>2 DEF Left, Reading
      <3> QED BY <2>1, <2>2, <3>1 DEF RoutineInv
    <2>3. CASE handler = "get_accler_isr"
      <3>1. Len(isr') = 7
        BY <2>1, <2>3, Routine
      <3> QED BY <2>1, <2>3, <3>1 DEF RoutineInv, Left
    <2> QED BY <2>2, <2>3
  <1>5. CASE ClearTimer \/ ReadAxis
    <2>1. /\ isr # <<>> /\ isr' = Tail(isr) /\ UNCHANGED <<handler, main>>
          /\ samples' = IF ReadAxis /\ Left = 1 THEN samples + 1 ELSE samples
          /\ ReadAxis => Reading
          /\ ClearTimer => ~Reading
      <3>1. CASE ClearTimer  BY <3>1 DEF ClearTimer, ReadAxis, Reading
      <3>2. CASE ReadAxis  BY <3>2 DEF ReadAxis, ClearTimer, Reading, Left
      <3> QED BY <1>5, <3>1, <3>2
    <2>2. /\ Left \in 1..7 /\ Left' = Left - 1 /\ (Reading' <=> Left # 1)
      BY <2>1, RoutineStep DEF Coordinates
    <2>3. ReadAxis => handler = "get_accler_isr"  BY <2>1 DEF RoutineInv
    <2>4. Left # 1 => Left > 1  BY <2>2
    <2>5. samples' \in Nat /\ (Left # 1 => samples' = samples)  BY <1>1, <2>1
    <2>6. samples' > 0 => samples > 0 \/ ReadAxis  BY <1>1, <2>1
    <2>7. ~(Left' = 1 /\ ~Reading')  BY <2>2
    <2>8. Left' > 1 \/ Reading' => Left > 1  BY <2>2
    <2>9. handler' = "get_accler_isr" <=> main' \in Loop \cup {"start"}
      BY <2>1 DEF RoutineInv
    <2>10. samples' > 0 \/ Left' > 1 \/ Reading' => handler' = "get_accler_isr"
      BY <2>1, <2>3, <2>6, <2>8, Zenon DEF RoutineInv
    <2>11. Left' > 1 \/ Reading' => samples' < MaxSamples
      <3>1. Left > 1 => samples < MaxSamples  BY DEF RoutineInv
      <3>2. Left > 1 => Left # 1  BY <2>2
      <3> QED BY <2>5, <2>8, <3>1, <3>2, Zenon
    <2> QED BY <2>7, <2>9, <2>10, <2>11, Zenon DEF RoutineInv
  <1>6. ASSUME NEW at \in DOMAIN Setup, SetupStep(at)  PROVE RoutineInv'
    <2>1. /\ isr = <<>> /\ UNCHANGED <<isr, handler, samples>> /\ main = at /\ main' = Setup[at].next
      BY <1>6 DEF SetupStep, InMain
    <2>2. UNCHANGED <<Left, Reading>>  BY <2>1 DEF Left, Reading
    <2>3. main' \in Loop \cup {"start"} <=> main \in Loop \cup {"start"}
      BY <2>1 DEF Setup, Loop
    <2> QED BY <2>1, <2>2, <2>3 DEF RoutineInv
  <1>7. CASE Register0
    <2>1. isr = <<>> /\ UNCHANGED <<isr, samples>>  BY <1>7 DEF Register0, InMain
    <2>2. ~Reading' /\ Left' = 0  BY <1>2, <2>1 DEF Left, Reading
    <2>3. /\ handler' = "get_accler_isr" <=> main' \in Loop \cup {"start"}
          /\ main \in {"tick", "sample"} /\ (main = "tick" => main' = "control") /\ (main = "sample" => main' = "start")
      BY <1>7 DEF Register0, InMain, Loop
    <2>4. samples = 0
      BY <1>1, <2>3 DEF RoutineInv, Loop
    <2> QED BY <2>1, <2>2, <2>3, <2>4 DEF RoutineInv
  <1>8. CASE Wait \/ PrintTriple \/ Clear \/ \E at \in DOMAIN AxisOf : Filter(at)
    <2>1. UNCHANGED <<isr, handler, samples>> /\ main \in Loop /\ main' \in Loop
      BY <1>8 DEF Wait, PrintTriple, Clear, Filter, InMain, Loop, AxisOf, Following
    <2>2. UNCHANGED <<Left, Reading>>  BY <2>1 DEF Left, Reading
    <2> QED BY <2>1, <2>2 DEF RoutineInv
  <1>9. CASE UNCHANGED saVars \/ SaClock \/ Measure \/ AddressAxis
    BY <1>3, <1>9 DEF saVars, SaClock, Measure, AddressAxis
  <1> QED BY <1>4, <1>5, <1>6, <1>7, <1>8, <1>9 DEF SaNext, Isr, MainStep
---------------------------------------------------------------------------
(* Sampling: the bytes.                                                        *)

(* While a routine that reads runs, what is left are the last of its accesses. *)
AccessesLeft == \A n \in 1..Left : n + 6 - Left >= 1 => isr[n] = Accesses[n + 6 - Left]

LEMMA AccessesTaken ==
    ASSUME IsrInv, isr # <<>>, isr' = Tail(isr), AccessesLeft
    PROVE  AccessesLeft'
  <1> DEFINE S == Register \cup {Nothing}
  <1>1. isr \in Seq(S)  BY DEF IsrInv
  <1> HIDE DEF S
  <1>2. /\ Len(isr) \in Nat \ {0} /\ Len(isr') = Len(isr) - 1
        /\ \A n \in 1..Len(isr') : isr'[n] = isr[n + 1]
    BY <1>1, Taken
  <1> SUFFICES ASSUME NEW n \in 1..Left', n + 6 - Left' >= 1
               PROVE  isr'[n] = Accesses[n + 6 - Left']
    BY DEF AccessesLeft
  <1>3. n + 1 \in 1..Left /\ (n + 1) + 6 - Left = n + 6 - Left' /\ isr'[n] = isr[n + 1]
    BY <1>2 DEF Left
  <1>4. isr[n + 1] = Accesses[(n + 1) + 6 - Left]
    BY <1>3 DEF AccessesLeft
  <1> QED BY <1>3, <1>4

LEMMA AccessesAre ==
    \A n \in 1..6 : Accesses[n] = <<(n + 1) \div 2, IF n % 2 = 1 THEN "low" ELSE "high">>
  <1> SUFFICES ASSUME NEW n \in 1..6
               PROVE  Accesses[n] = <<(n + 1) \div 2, IF n % 2 = 1 THEN "low" ELSE "high">>
    OBVIOUS
  <1>1. n = 1 \/ n = 2 \/ n = 3 \/ n = 4 \/ n = 5 \/ n = 6  OBVIOUS
  <1>2. CASE n = 1  BY <1>2 DEF Accesses
  <1>3. CASE n = 2  BY <1>3 DEF Accesses
  <1>4. CASE n = 3  BY <1>4 DEF Accesses
  <1>5. CASE n = 4  BY <1>5 DEF Accesses
  <1>6. CASE n = 5  BY <1>6 DEF Accesses
  <1>7. CASE n = 6  BY <1>7 DEF Accesses
  <1> QED BY <1>1, <1>2, <1>3, <1>4, <1>5, <1>6, <1>7

(* The byte read is the next of the six, and the others stay. *)
LEMMA ByteRead ==
    ASSUME CoordsInv, NEW k \in 1..6, Left = 7 - k, ReadAxis
    PROVE  /\ Byte(k)' = <<address, chip>>
           /\ \A n \in 1..6 : n # k => Byte(n)' = Byte(n)
  <1> DEFINE i == (8 - Left) \div 2
             new == [low    |-> IF Left % 2 = 0 THEN <<address, chip>> ELSE coords[i].low,
                     high   |-> IF Left % 2 = 0 THEN coords[i].high ELSE <<address, chip>>,
                     sample |-> samples + 1]
  <1>1. i \in Axis  BY DEF Axis
  <1>2. coords' = [coords EXCEPT ![i] = new]  BY DEF ReadAxis, Left
  <1>3. coords = [j \in Axis |-> coords[j]]  BY DEF CoordsInv
  <1>4. \A j \in Axis : coords'[j] = IF j = i THEN new ELSE coords[j]
    <2> HIDE DEF i, new
    <2> QED BY <1>1, <1>2, <1>3
  <1>5. /\ coords'[i].low = IF Left % 2 = 0 THEN <<address, chip>> ELSE coords[i].low
        /\ coords'[i].high = IF Left % 2 = 0 THEN coords[i].high ELSE <<address, chip>>
    BY <1>1, <1>4
  <1>6. Byte(k)' = <<address, chip>>
    <2>1. (k + 1) \div 2 = i  OBVIOUS
    <2>2. k % 2 = 1 <=> Left % 2 = 0  OBVIOUS
    <2> HIDE DEF i, new
    <2> QED BY <1>5, <2>1, <2>2 DEF Byte
  <1>7. ASSUME NEW n \in 1..6, n # k  PROVE Byte(n)' = Byte(n)
    <2> DEFINE j == (n + 1) \div 2
    <2>1. j \in Axis  BY DEF Axis
    <2>2. CASE j # i
      <3>1. coords'[j] = coords[j]  BY <1>4, <2>1, <2>2
      <3> QED BY <3>1 DEF Byte
    <2>3. CASE j = i
      <3>1. n % 2 = 1 <=> Left % 2 # 0  BY <1>7, <2>3
      <3> HIDE DEF i, j, new
      <3>2. coords'[j].low = coords[j].low \/ n % 2 # 1  BY <1>5, <2>3, <3>1
      <3>3. coords'[j].high = coords[j].high \/ n % 2 = 1  BY <1>5, <2>3, <3>1
      <3>4. /\ Byte(n) = IF n % 2 = 1 THEN coords[j].low ELSE coords[j].high
            /\ Byte(n)' = IF n % 2 = 1 THEN coords'[j].low ELSE coords'[j].high
        BY DEF Byte, j
      <3> QED BY <3>2, <3>3, <3>4
    <2> QED BY <2>2, <2>3
  <1> QED BY <1>6, <1>7

LEMMA BytesKept ==
    ASSUME SaTypeOK, Coordinates, RoutineInv, BytesInv, [SaNext]_saVars
    PROVE  BytesInv'
  <1> USE DEF triple, device
  <1>1. IsrInv /\ CoordsInv  BY DEF Coordinates
  <1>2. started \in Nat /\ chip \in Nat /\ started <= chip /\ samples \in Nat
    BY SamplingAssumption DEF SaTypeOK
  <1>3. /\ Left > 1 \/ Reading => AccessesLeft
        /\ \A n \in 1..Done : Byte(n)[1] = Accesses[n] /\ Byte(n)[2] \in started..chip
        /\ \A n \in 2..Done : Byte(n - 1)[2] <= Byte(n)[2]
    BY DEF BytesInv, AccessesLeft
  <1>4. SUFFICES /\ Left' > 1 \/ Reading' => AccessesLeft'
                 /\ \A n \in 1..Done' : Byte(n)'[1] = Accesses[n] /\ Byte(n)'[2] \in started'..chip'
                 /\ \A n \in 2..Done' : Byte(n - 1)'[2] <= Byte(n)'[2]
    BY DEF BytesInv, AccessesLeft
  <1>5. CASE UNCHANGED <<isr, coords, samples, started>> /\ chip' \in Nat /\ chip' >= chip
    <2>1. /\ UNCHANGED <<Left, Reading, Done>> /\ AccessesLeft' = AccessesLeft
          /\ \A n : Byte(n)' = Byte(n)
      BY <1>5 DEF Left, Reading, Done, AccessesLeft, Byte
    <2>2. \A m \in started..chip : m \in started'..chip'  BY <1>2, <1>5
    <2> QED BY <1>3, <2>1, <2>2
  <1>6. CASE Enter
    <2>1. /\ isr = <<>> /\ UNCHANGED <<coords, samples, started, chip>>
          /\ isr' = <<Nothing>> \/ isr' = <<Nothing>> \o Accesses
      BY <1>6 DEF Enter
    <2>2. isr' # <<>> /\ ~Reading'  BY <2>1, Routine DEF Reading
    <2>3. Done' = 0  BY <2>2 DEF Done
    <2>4. Left' > 1 => AccessesLeft'
      <3>1. CASE isr' = <<Nothing>>  BY <3>1 DEF Left
      <3>2. CASE isr' = <<Nothing>> \o Accesses
        <4>1. Len(isr') = 7 /\ \A n \in 2..7 : isr'[n] = Accesses[n - 1]  BY <3>2, Routine
        <4>2. \A n \in 1..7 : n + 6 - 7 >= 1 => n \in 2..7 /\ n + 6 - 7 = n - 1  OBVIOUS
        <4> QED BY <4>1, <4>2 DEF AccessesLeft, Left
      <3> QED BY <2>1, <3>1, <3>2
    <2> QED BY <2>2, <2>3, <2>4
  <1>7. CASE ClearTimer
    <2>1. /\ isr # <<>> /\ isr' = Tail(isr) /\ ~Reading
          /\ started' = chip /\ UNCHANGED <<coords, samples, chip>>
      BY <1>7 DEF ClearTimer, Reading
    <2>2. Left \in {1, 7} /\ Left' = Left - 1 /\ (Reading' <=> Left # 1)
      BY <1>1, <2>1, RoutineStep
    <2>3. Left' > 1 \/ Reading' => AccessesLeft'
      BY <1>1, <1>3, <2>1, <2>2, AccessesTaken
    <2>4. Done' = 0
      <3>1. CASE Left = 7  BY <2>2, <3>1 DEF Done
      <3>2. CASE Left = 1
        <4>1. handler # "get_accler_isr"  BY <2>1, <3>2 DEF RoutineInv
        <4>2. ~(samples > 0)  BY <4>1 DEF RoutineInv
        <4> QED BY <2>1, <2>2, <3>2, <4>2 DEF Done
      <3> QED BY <2>2, <3>1, <3>2
    <2> QED BY <2>3, <2>4
  <1>8. CASE ReadAxis
    <2>1. /\ isr # <<>> /\ isr' = Tail(isr) /\ Reading /\ address = Head(isr)
          /\ UNCHANGED <<started, chip>> /\ samples' = IF Left = 1 THEN samples + 1 ELSE samples
      BY <1>8 DEF ReadAxis, Reading, Left
    <2>2. /\ Left \in 1..6 /\ Left' = Left - 1 /\ (Reading' <=> Left # 1) /\ (isr' = <<>> <=> Left = 1)
      BY <1>1, <2>1, RoutineStep
    <2>3. Left' > 1 \/ Reading' => AccessesLeft'
      BY <1>1, <1>3, <2>1, <2>2, AccessesTaken
    <2>4. PICK k \in 1..6 : Left = 7 - k
      <3>1. 7 - Left \in 1..6 /\ Left = 7 - (7 - Left)  BY <2>2
      <3> QED BY <3>1
    <2>5. Done = k - 1 /\ Done' = k
      <3>1. Done = k - 1
        <4>1. Done = 6 - Left  BY <2>1 DEF Done
        <4> QED BY <2>4, <4>1
      <3>2. CASE Left = 1
        <4>1. samples' > 0  BY <1>2, <2>1, <3>2
        <4>2. isr' = <<>> /\ ~Reading'  BY <2>2, <3>2
        <4>3. Done' = 6  BY <4>1, <4>2 DEF Done
        <4> QED BY <3>1, <2>4, <3>2, <4>3
      <3>3. CASE Left # 1
        <4>1. Done' = 6 - Left'  BY <2>2, <3>3 DEF Done
        <4> QED BY <3>1, <2>2, <2>4, <4>1
      <3> QED BY <3>1, <3>2, <3>3
    <2>6. Byte(k)' = <<address, chip>> /\ \A n \in 1..6 : n # k => Byte(n)' = Byte(n)
      BY <1>1, <1>8, <2>4, ByteRead
    <2>7. address = Accesses[k]
      <3> DEFINE S == Register \cup {Nothing}
      <3>1. isr \in Seq(S)  BY <1>1 DEF IsrInv
      <3> HIDE DEF S
      <3>2. Head(isr) = isr[1]  BY <2>1, <3>1, Taken
      <3>3. isr[1] = Accesses[1 + 6 - Left]  BY <1>3, <2>1, <2>2 DEF AccessesLeft
      <3>4. 1 + 6 - Left = k  BY <2>4
      <3> QED BY <2>1, <3>2, <3>3, <3>4
    <2>8. /\ Byte(k)'[1] = Accesses[k] /\ Byte(k)'[2] = chip
          /\ \A n \in 1..k - 1 : Byte(n)' = Byte(n)
      BY <2>4, <2>6, <2>7
    <2>9. \A n \in 1..k - 1 : Byte(n)[1] = Accesses[n] /\ Byte(n)[2] \in started..chip
      BY <1>3, <2>5
    <2>10. \A n \in 1..k : Byte(n)'[1] = Accesses[n] /\ Byte(n)'[2] \in started..chip
      BY <1>2, <2>4, <2>8, <2>9
    <2>11. ASSUME NEW n \in 2..k  PROVE Byte(n - 1)'[2] <= Byte(n)'[2]
      <3>1. n - 1 \in 1..k - 1 /\ Byte(n - 1)'[2] = Byte(n - 1)[2] /\ Byte(n - 1)[2] <= chip
        BY <1>2, <2>4, <2>8, <2>9
      <3>2. CASE n = k  BY <2>8, <3>1, <3>2
      <3>3. CASE n # k
        <4>1. n \in 2..Done /\ n \in 1..k - 1  BY <2>4, <2>5, <3>3
        <4>2. Byte(n - 1)[2] <= Byte(n)[2]  BY <1>3, <4>1
        <4> QED BY <2>8, <3>1, <4>1, <4>2
      <3> QED BY <3>2, <3>3
    <2> QED BY <2>1, <2>3, <2>5, <2>10, <2>11
  <1>9. CASE SaNext \/ UNCHANGED saVars
    <2>1. CASE SaClock \/ AddressAxis \/ MainStep \/ UNCHANGED saVars
      <3>1. UNCHANGED <<isr, coords, samples, started, chip>>
        BY <2>1 DEF SaClock, AddressAxis, MainStep, saVars, SetupStep, Register0, Wait, Filter, PrintTriple, Clear
      <3> QED BY <1>2, <1>5, <3>1
    <2>2. CASE Measure
      BY <1>2, <1>5, <2>2 DEF Measure
    <2> QED BY <1>6, <1>7, <1>8, <1>9, <2>1, <2>2 DEF SaNext, Isr
  <1> QED BY <1>9

LEMMA SaInitInv == SaInit => SaIInv
  <1> SUFFICES ASSUME SaInit  PROVE SaIInv
    OBVIOUS
  <1>1. RoutineInv  BY DEF SaInit, RoutineInv, Reading, Left, Loop
  <1>2. BytesInv
    <2>1. Left = 0 /\ ~Reading /\ Done = 0  BY DEF SaInit, Left, Reading, Done
    <2> QED BY <2>1 DEF BytesInv
  <1> QED BY <1>1, <1>2, SaInitTypes, InitInv DEF SaIInv, Coordinates

LEMMA SaNextInv == SaIInv /\ [SaNext]_saVars => SaIInv'
  <1> SUFFICES ASSUME SaIInv, [SaNext]_saVars  PROVE SaIInv'
    OBVIOUS
  <1>1. SaTypeOK /\ Coordinates /\ RoutineInv /\ BytesInv  BY DEF SaIInv, Coordinates
  <1>2. Coordinates'  BY <1>1, NextInv
  <1>3. SaTypeOK'  BY <1>1, <1>2, TypesKept DEF Coordinates
  <1> QED BY <1>1, <1>2, <1>3, RoutineKept, BytesKept DEF SaIInv, Coordinates

LEMMA SaIInvEnough == SaIInv => SaInv
  <1> SUFFICES ASSUME SaIInv  PROVE SaInv
    OBVIOUS
  <1>1. TripleInOrder
    BY DEF SaIInv, CoordsInv, FilteredInv, TripleInOrder, Axis
  <1>2. AxesInOrder
    <2> SUFFICES ASSUME isr = <<>>, samples > 0
                 PROVE  /\ \A n \in 1..6 : Byte(n)[1] = <<(n + 1) \div 2, IF n % 2 = 1 THEN "low" ELSE "high">>
                        /\ \A n \in 1..6 : Byte(n)[2] \in started..chip
                        /\ \A n \in 1..5 : Byte(n)[2] <= Byte(n + 1)[2]
      BY DEF AxesInOrder
    <2>1. Done = 6  BY DEF Done, Reading
    <2>2. \A n \in 1..6 : Byte(n)[1] = Accesses[n] /\ Byte(n)[2] \in started..chip
      BY <2>1 DEF SaIInv, BytesInv
    <2>3. ASSUME NEW n \in 1..5  PROVE Byte(n)[2] <= Byte(n + 1)[2]
      <3>1. n + 1 \in 2..Done /\ (n + 1) - 1 = n  BY <2>1
      <3>2. Byte((n + 1) - 1)[2] <= Byte(n + 1)[2]  BY <3>1 DEF SaIInv, BytesInv
      <3> QED BY <3>1, <3>2
    <2> QED BY <2>2, <2>3, AccessesAre
  <1> QED BY <1>1, <1>2 DEF SaInv, SaIInv

(* Every axis is put together from its own two bytes, read in order in one run *)
(* of the routine, and the triple main prints never goes back in time, wherever  *)
(* the interrupts of the timer and the measurements of the chip fall             *)
(* (altera_up_avalon_accelerometer_spi.c:114-194, main.c:313-337).               *)
THEOREM SamplesInOrder == SaSpec => []SaInv
  BY SaInitInv, SaNextInv, SaIInvEnough, PTL DEF SaSpec

(* In particular no axis of a printed triple is older than the ones filtered   *)
(* before it (main.c:317-319).                                                  *)
THEOREM TripleForwards == SaSpec => []TripleInOrder
  BY SamplesInOrder, PTL DEF SaInv
---------------------------------------------------------------------------
(* The timestamp.                                                              *)

(* A number is its two halves, and what is not smaller has no smaller upper half. *)
LEMMA HalvesOf ==
    ASSUME NEW n \in 0..FULL
    PROVE  /\ High(n) \in Half /\ Low(n) \in Half /\ n = High(n) * WORD + Low(n)
           /\ FULL - n \in 0..FULL
  <1>1. WORD \in Nat \ {0} /\ WORD * WORD \in Nat /\ n \in Nat /\ n <= WORD * WORD - 1
    BY TimerAssumption DEF FULL
  <1>2. n \div WORD \in Nat /\ n % WORD \in 0..WORD - 1 /\ n = WORD * (n \div WORD) + (n % WORD)
    BY <1>1
  <1>3. n \div WORD < WORD
    <2>1. SUFFICES ASSUME n \div WORD >= WORD  PROVE FALSE
      BY <1>1, <1>2
    <2>2. WORD * (n \div WORD) >= WORD * WORD  BY <1>1, <1>2, <2>1
    <2> QED BY <1>1, <1>2, <2>2
  <1>4. WORD * (n \div WORD) = (n \div WORD) * WORD  BY <1>1, <1>2
  <1>5. FULL - n \in 0..FULL  BY <1>1 DEF FULL
  <1> QED BY <1>1, <1>2, <1>3, <1>4, <1>5 DEF High, Low, Half

LEMMA HighGrows ==
    ASSUME NEW m \in 0..FULL, NEW n \in 0..FULL, m <= n
    PROVE  High(m) <= High(n)
  <1>1. /\ m = High(m) * WORD + Low(m) /\ n = High(n) * WORD + Low(n)
        /\ High(m) \in Nat /\ High(n) \in Nat /\ Low(m) \in 0..WORD - 1 /\ Low(n) \in 0..WORD - 1
        /\ WORD \in Nat
    BY HalvesOf, TimerAssumption DEF Half
  <1>2. SUFFICES ASSUME High(n) + 1 <= High(m)  PROVE FALSE
    BY <1>1
  <1> DEFINE a == High(m)
             b == High(n)
  <1>3. (b + 1) * WORD <= a * WORD
    <2>1. a \in Nat /\ b + 1 \in Nat /\ b + 1 <= a  BY <1>1, <1>2
    <2> HIDE DEF a, b
    <2> QED BY <1>1, <2>1
  <1>4. (b + 1) * WORD = b * WORD + WORD  BY <1>1
  <1> QED BY <1>1, <1>3, <1>4

(* A moment from the upper half of a later one and its own lower half. *)
LEMMA Mixed ==
    ASSUME NEW s \in 0..FULL, NEW t \in 0..FULL, NEW n \in s..t, High(FULL - s) = High(FULL - t)
    PROVE  FULL - (High(FULL - t) * WORD + Low(FULL - n)) = n
  <1>1. FULL \in Nat /\ n \in 0..FULL
    BY TimerAssumption DEF FULL
  <1>2. /\ FULL - s \in 0..FULL /\ FULL - t \in 0..FULL /\ FULL - n \in 0..FULL
        /\ FULL - t <= FULL - n /\ FULL - n <= FULL - s
    BY <1>1
  <1>3. High(FULL - t) <= High(FULL - n) /\ High(FULL - n) <= High(FULL - s)
    BY <1>2, HighGrows
  <1>4. High(FULL - n) = High(FULL - t)
    <2>1. High(FULL - n) \in Int /\ High(FULL - t) \in Int
      BY <1>2, HalvesOf, TimerAssumption DEF Half
    <2> QED BY <1>3, <2>1
  <1>5. FULL - n = High(FULL - n) * WORD + Low(FULL - n)
    BY <1>2, HalvesOf
  <1> QED BY <1>1, <1>4, <1>5

Quiet(w) == w.reg \in {"none", "snapl"}

LEMMA QuietOnes == Quiet(None) /\ Quiet(Snap)
  BY DEF Quiet, None, Snap

LEMMA FullFacts == FULL \in Nat /\ FULL > 0 /\ WORD - 1 \in Half /\ (WORD - 1) * WORD + (WORD - 1) = FULL
  BY TimerAssumption DEF FULL, Half

LEMMA QuietEdge ==
    ASSUME NEW w, Quiet(w), Edge(w)
    PROVE  /\ UNCHANGED <<period_l_register, period_h_register, control_register>>
           /\ ~force_reload'
           /\ internal_counter' = IF counter_is_running \/ force_reload THEN Countdown ELSE internal_counter
           /\ counter_is_running' = (/\ counter_is_running /\ ~force_reload
                                     /\ counter_is_zero => "CONT" \in control_register)
           /\ counter_snapshot' = IF w.reg = "snapl" THEN internal_counter ELSE counter_snapshot
  BY DEF Quiet, Edge, Strobe, Bit

(* A clock of a counter that has been started. *)
LEMMA CountStep ==
    ASSUME TsTypeOK, CountInv, NEW w, Quiet(w), Edge(w), Older
    PROVE  CountInv'
  <1> SUFFICES ASSUME age' >= 0
               PROVE  /\ ~force_reload' /\ control_register' = {}
                      /\ counter_load_value' = FULL
                      /\ counter_is_running' <=> age' <= FULL
                      /\ internal_counter' = IF age' <= FULL THEN FULL - age' ELSE FULL
    BY DEF CountInv
  <1>1. age \in Int /\ age >= -1 /\ age <= FULL + 2 /\ FULL \in Nat /\ FULL > 0
    BY FullFacts DEF TsTypeOK, NeverStarted
  <1>2. age >= 0  BY <1>1 DEF Older, NeverStarted
  <1>3. /\ ~force_reload /\ control_register = {} /\ counter_load_value = FULL
        /\ counter_is_running <=> age <= FULL
        /\ internal_counter = IF age <= FULL THEN FULL - age ELSE FULL
    BY <1>2 DEF CountInv
  <1>4. age' = IF age + 1 > FULL + 2 THEN FULL + 2 ELSE age + 1
    BY <1>1, <1>2 DEF Older, Capped, NeverStarted
  <1>5. /\ ~force_reload' /\ control_register' = {}
        /\ counter_load_value' = FULL
    BY <1>3, QuietEdge DEF counter_load_value
  <1>6. CASE age < FULL
    <2>1. internal_counter = FULL - age /\ counter_is_running /\ ~counter_is_zero
      BY <1>1, <1>3, <1>6 DEF counter_is_zero
    <2>2. internal_counter' = FULL - age - 1 /\ counter_is_running'
      <3>1. internal_counter' = internal_counter - 1  BY <1>3, <2>1, QuietEdge DEF Countdown
      <3>2. counter_is_running'  BY <1>3, <2>1, QuietEdge
      <3> QED BY <2>1, <3>1, <3>2
    <2>3. age' = age + 1 /\ age' <= FULL  BY <1>1, <1>4, <1>6
    <2>4. internal_counter' = FULL - age'  BY <1>1, <2>2, <2>3
    <2> QED BY <1>5, <2>2, <2>3, <2>4
  <1>7. CASE age = FULL
    <2>1. internal_counter = 0 /\ counter_is_running /\ counter_is_zero
      BY <1>1, <1>3, <1>7 DEF counter_is_zero
    <2>2. internal_counter' = FULL  BY <1>3, <2>1, QuietEdge DEF Countdown
    <2>3. ~counter_is_running'  BY <1>3, <2>1, QuietEdge
    <2>4. ~(age' <= FULL)  BY <1>1, <1>4, <1>7
    <2> QED BY <1>5, <2>2, <2>3, <2>4
  <1>8. CASE age > FULL
    <2>1. internal_counter = FULL /\ ~counter_is_running
      BY <1>1, <1>3, <1>8
    <2>2. internal_counter' = FULL /\ ~counter_is_running'  BY <1>3, <2>1, QuietEdge
    <2>3. ~(age' <= FULL)  BY <1>1, <1>4, <1>8
    <2> QED BY <1>5, <2>2, <2>3
  <1> QED BY <1>1, <1>6, <1>7, <1>8

LEMMA TsTypesKept ==
    ASSUME TsTypeOK, [TsNext]_tsVars
    PROVE  TsTypeOK'
  <1>1. /\ TimerTypeOK
        /\ pc \in {"idle", "periodl", "periodh", "start", "lower", "upper"}
        /\ ipc \in {"idle", "loads"} /\ lower \in Half
        /\ age \in NeverStarted..(FULL + 2) /\ taken \in NeverStarted..(FULL + 2) /\ since \in NeverStarted..(FULL + 2)
    BY DEF TsTypeOK
  <1>2. TimerTypeOK'
    <2>1. CASE UNCHANGED timerVars  BY <1>1, <2>1, TimerStays
    <2>2. ASSUME NEW w, Fits(w), Edge(w)  PROVE TimerTypeOK'
      BY <1>1, <2>2, EdgeTypes
    <2>3. TsNext => \E w : Fits(w) /\ Edge(w)
      BY AccessesFit, FullFacts DEF TsNext, TsClock, StopCounter, WritePeriodL, WritePeriodH, StartCounter,
         Latch, LoadLower, LoadUpper, IsrLatch, IsrLoads
    <2> QED BY <2>1, <2>2, <2>3 DEF tsVars
  <1>3. counter_snapshot \in 0..FULL  BY <1>1 DEF TimerTypeOK
  <1>4. Low(counter_snapshot) \in Half  BY <1>3, HalvesOf
  <1>5. Older => age' \in NeverStarted..(FULL + 2)
    BY <1>1, FullFacts DEF Older, Capped, NeverStarted
  <1>6. {age', taken', since'} \subseteq NeverStarted..(FULL + 2)
    <2>1. NeverStarted \in NeverStarted..(FULL + 2) /\ 0 \in NeverStarted..(FULL + 2)
      BY FullFacts DEF NeverStarted
    <2> HIDE DEF NeverStarted
    <2>2. CASE UNCHANGED tsVars  BY <1>1, <2>2 DEF tsVars
    <2>3. CASE StopCounter \/ WritePeriodL \/ WritePeriodH \/ StartCounter
      BY <1>1, <2>1, <2>3 DEF StopCounter, WritePeriodL, WritePeriodH, StartCounter, Goto
    <2>4. CASE TsClock \/ Latch \/ LoadLower \/ LoadUpper \/ IsrLatch \/ IsrLoads
      <3>1. age' \in NeverStarted..(FULL + 2)
        BY <1>5, <2>4 DEF TsClock, Latch, LoadLower, LoadUpper, IsrLatch, IsrLoads
      <3>2. taken' \in {taken, age} /\ since' \in {since, age}
        BY <2>4 DEF TsClock, Latch, LoadLower, LoadUpper, IsrLatch, IsrLoads
      <3> QED BY <1>1, <3>1, <3>2
    <2> QED BY <2>2, <2>3, <2>4 DEF TsNext
  <1>7. /\ pc' \in {"idle", "periodl", "periodh", "start", "lower", "upper"}
        /\ ipc' \in {"idle", "loads"} /\ lower' \in Half
    BY <1>1, <1>4 DEF TsNext, TsClock, StopCounter, WritePeriodL, WritePeriodH, StartCounter,
       Latch, LoadLower, LoadUpper, IsrLatch, IsrLoads, Goto, tsVars
  <1> QED BY <1>2, <1>6, <1>7 DEF TsTypeOK

(* A clock in which main does not touch the counter, except for its snapshot. *)
LEMMA QuietSteps ==
    ASSUME TsNext
    PROVE  \/ StopCounter \/ WritePeriodL \/ WritePeriodH \/ StartCounter
           \/ \E w : Quiet(w) /\ Edge(w) /\ Older /\ (pc' = pc \/ pc' \in {"idle", "lower", "upper"})
  BY QuietOnes DEF TsNext, TsClock, Latch, LoadLower, LoadUpper, IsrLatch, IsrLoads

LEMMA StartKept ==
    ASSUME TsTypeOK, StartInv, TsNext
    PROVE  StartInv'
  <1>1. CASE StopCounter
    <2>1. pc' = "periodl" /\ age' = NeverStarted  BY <1>1 DEF StopCounter, Goto
    <2>2. ~counter_is_running'  BY <1>1 DEF StopCounter, Edge, Bit, Strobe, Control
    <2> QED BY <2>1, <2>2 DEF StartInv
  <1>2. CASE WritePeriodL
    <2>1. pc = "periodl" /\ pc' = "periodh" /\ age' = age  BY <1>2 DEF WritePeriodL, Main, Goto
    <2>2. age = NeverStarted /\ ~counter_is_running  BY <2>1 DEF StartInv
    <2>3. ~counter_is_running' /\ period_l_register' = WORD - 1
      BY <1>2, <2>2 DEF WritePeriodL, Edge, Bit, Strobe, PeriodL
    <2> QED BY <2>1, <2>2, <2>3 DEF StartInv
  <1>3. CASE WritePeriodH
    <2>1. pc = "periodh" /\ pc' = "start" /\ age' = age  BY <1>3 DEF WritePeriodH, Main, Goto
    <2>2. age = NeverStarted /\ ~counter_is_running /\ period_l_register = WORD - 1  BY <2>1 DEF StartInv
    <2>3. ~counter_is_running' /\ period_l_register' = WORD - 1 /\ period_h_register' = WORD - 1 /\ force_reload'
      BY <1>3, <2>2 DEF WritePeriodH, Edge, Bit, Strobe, PeriodH
    <2> QED BY <2>1, <2>2, <2>3 DEF StartInv
  <1>4. CASE StartCounter
    <2>1. pc' = "idle"  BY <1>4 DEF StartCounter, Goto
    <2> QED BY <2>1 DEF StartInv
  <1>5. ASSUME NEW w, Quiet(w), Edge(w), Older, pc' = pc \/ pc' \in {"idle", "lower", "upper"}
        PROVE StartInv'
    <2>1. CASE pc' \notin {"periodl", "periodh", "start"}  BY <2>1 DEF StartInv
    <2>2. CASE pc' \in {"periodl", "periodh", "start"}
      <3>1. pc' = pc  BY <1>5, <2>2
      <3>2. age = NeverStarted /\ ~counter_is_running  BY <2>2, <3>1 DEF StartInv
      <3>3. age' = NeverStarted  BY <1>5, <3>2 DEF Older
      <3>4. /\ ~counter_is_running' /\ UNCHANGED <<period_l_register, period_h_register>>
            /\ internal_counter' = IF force_reload THEN Countdown ELSE internal_counter
        BY <1>5, <3>2, QuietEdge
      <3>5. ASSUME pc = "start"  PROVE internal_counter' = FULL
        <4>1. /\ period_l_register = WORD - 1 /\ period_h_register = WORD - 1
              /\ force_reload \/ internal_counter = FULL
          BY <3>5 DEF StartInv
        <4>2. counter_load_value = FULL  BY <4>1, FullFacts DEF counter_load_value
        <4> QED BY <3>4, <4>1, <4>2 DEF Countdown
      <3> QED BY <3>1, <3>2, <3>3, <3>4, <3>5 DEF StartInv
    <2> QED BY <2>1, <2>2
  <1> QED BY <1>1, <1>2, <1>3, <1>4, <1>5, QuietSteps

LEMMA CountKept ==
    ASSUME TsTypeOK, StartInv, CountInv, TsNext
    PROVE  CountInv'
  <1>1. CASE StopCounter
    BY <1>1 DEF StopCounter, CountInv, NeverStarted
  <1>2. CASE WritePeriodL \/ WritePeriodH
    <2>1. age' = NeverStarted
      BY <1>2 DEF WritePeriodL, WritePeriodH, Main, StartInv
    <2> QED BY <2>1 DEF CountInv, NeverStarted
  <1>3. CASE StartCounter
    <2>1. /\ ~counter_is_running /\ period_l_register = WORD - 1 /\ period_h_register = WORD - 1
          /\ force_reload \/ internal_counter = FULL
      BY <1>3 DEF StartCounter, Main, StartInv
    <2>2. counter_load_value = FULL  BY <2>1, FullFacts DEF counter_load_value
    <2>3. internal_counter' = FULL
      BY <1>3, <2>1, <2>2 DEF StartCounter, Edge, Countdown
    <2>4. /\ ~force_reload' /\ control_register' = {} /\ counter_is_running'
          /\ UNCHANGED <<period_l_register, period_h_register>>
      BY <1>3 DEF StartCounter, Edge, Bit, Strobe, Control
    <2>5. counter_load_value' = FULL  BY <2>2, <2>4 DEF counter_load_value
    <2>6. age' = 0 /\ FULL - 0 = FULL /\ 0 <= FULL  BY <1>3, FullFacts DEF StartCounter
    <2> QED BY <2>3, <2>4, <2>5, <2>6 DEF CountInv
  <1>4. ASSUME NEW w, Quiet(w), Edge(w), Older  PROVE CountInv'
    BY <1>4, CountStep
  <1> QED BY <1>1, <1>2, <1>3, <1>4, QuietSteps

(* What is latched. *)
LEMMA StampKept ==
    ASSUME TsTypeOK, StartInv, CountInv, StampIsAge, TsNext
    PROVE  StampIsAge'
  <1>1. age \in Int /\ age >= -1 /\ taken \in Int  BY FullFacts DEF TsTypeOK, NeverStarted
  <1>2. CASE StopCounter \/ WritePeriodL \/ WritePeriodH
    <2>1. age' = NeverStarted
      BY <1>2 DEF StopCounter, WritePeriodL, WritePeriodH, Main, StartInv
    <2> QED BY <2>1 DEF StampIsAge, NeverStarted
  <1>3. CASE StartCounter
    BY <1>3 DEF StartCounter, StampIsAge, NeverStarted
  <1>4. CASE Latch \/ IsrLatch
    <2>1. taken' = age /\ Older  BY <1>4 DEF Latch, IsrLatch
    <2>2. counter_snapshot' = internal_counter
      BY <1>4 DEF Latch, IsrLatch, Edge, Strobe, Snap
    <2>3. SUFFICES ASSUME age >= 0
                   PROVE  FULL - counter_snapshot' = IF age <= FULL THEN age ELSE 0
      BY <2>1 DEF StampIsAge
    <2>4. internal_counter = IF age <= FULL THEN FULL - age ELSE FULL
      BY <2>3 DEF CountInv
    <2> QED BY <1>1, <2>2, <2>4, FullFacts
  <1>5. CASE TsClock \/ LoadLower \/ LoadUpper \/ IsrLoads
    <2>1. taken' = taken /\ Older /\ counter_snapshot' = counter_snapshot
      BY <1>5 DEF TsClock, LoadLower, LoadUpper, IsrLoads, Edge, Strobe, None
    <2>2. age' >= 0 => age >= 0  BY <1>1, <2>1 DEF Older, NeverStarted
    <2> QED BY <2>1, <2>2 DEF StampIsAge
  <1> QED BY <1>2, <1>3, <1>4, <1>5 DEF TsNext

(* What main has loaded. *)
LEMMA CallKept ==
    ASSUME TsTypeOK, StartInv, CountInv, StampIsAge, CallInv, TsNext
    PROVE  CallInv'
  <1>1. /\ age \in Int /\ age >= -1 /\ age <= FULL + 2 /\ FULL \in Nat
        /\ taken \in Int /\ since \in Int /\ taken >= -1 /\ since >= -1
    BY FullFacts DEF TsTypeOK, NeverStarted
  <1>2. CASE StopCounter \/ WritePeriodL \/ WritePeriodH
    <2>1. age' = NeverStarted
      BY <1>2 DEF StopCounter, WritePeriodL, WritePeriodH, Main, StartInv
    <2> QED BY <2>1 DEF CallInv, NeverStarted
  <1>3. CASE StartCounter
    BY <1>3 DEF StartCounter, CallInv, NeverStarted, Goto
  <1> DEFINE Held(l, s, t) == s >= 0 /\ t <= FULL => \E n \in s..t : l = Low(FULL - n)
  <1>4. ASSUME Older, age' >= 0, taken' \in {taken, age},
               pc' \in {"lower", "upper"} => since' <= taken', pc' = "upper" => Held(lower', since', taken')
        PROVE  CallInv'
    <2>1. age >= 0 /\ age' = IF age + 1 > FULL + 2 THEN FULL + 2 ELSE age + 1
      BY <1>1, <1>4 DEF Older, Capped, NeverStarted
    <2>2. taken <= age  BY <2>1 DEF CallInv
    <2>3. taken' <= age'  BY <1>1, <1>4, <2>1, <2>2
    <2> QED BY <1>4, <2>3 DEF CallInv
  <1>5. ASSUME TsClock \/ Latch \/ LoadLower \/ LoadUpper \/ IsrLatch \/ IsrLoads
        PROVE  CallInv'
    <2>1. Older /\ taken' \in {taken, age}
      BY <1>5 DEF TsClock, Latch, LoadLower, LoadUpper, IsrLatch, IsrLoads
    <2>2. SUFFICES ASSUME age' >= 0  PROVE CallInv'
      BY DEF CallInv
    <2>3. age >= 0  BY <1>1, <2>1, <2>2 DEF Older, NeverStarted
    <2>4. /\ taken <= age
          /\ pc \in {"lower", "upper"} => since <= taken
          /\ pc = "upper" => Held(lower, since, taken)
      BY <2>3 DEF CallInv
    <2>5. CASE TsClock \/ IsrLoads
      <3>1. UNCHANGED <<pc, lower, since, taken>>  BY <2>5 DEF TsClock, IsrLoads
      <3> QED BY <1>4, <2>1, <2>2, <2>4, <3>1
    <2>6. CASE Latch
      <3>1. pc' = "lower" /\ since' = age /\ taken' = age  BY <2>6 DEF Latch
      <3> QED BY <1>1, <1>4, <2>1, <2>2, <3>1
    <2>7. CASE LoadUpper
      <3>1. pc' = "idle"  BY <2>7 DEF LoadUpper
      <3> QED BY <1>4, <2>1, <2>2, <3>1
    <2>8. CASE LoadLower
      <3>1. /\ pc = "lower" /\ pc' = "upper" /\ UNCHANGED <<since, taken>>
            /\ lower' = Low(counter_snapshot)
        BY <2>8 DEF LoadLower, Main
      <3>2. Held(lower', since', taken')
        <4>1. SUFFICES ASSUME since >= 0, taken <= FULL  PROVE \E n \in since..taken : lower' = Low(FULL - n)
          BY <3>1
        <4>2. since <= taken  BY <2>4, <3>1
        <4>3. FULL - counter_snapshot = taken  BY <1>1, <2>3, <4>1, <4>2 DEF StampIsAge
        <4>4. counter_snapshot \in Int  BY FullFacts DEF TsTypeOK, TimerTypeOK
        <4>5. counter_snapshot = FULL - taken /\ taken \in since..taken  BY <1>1, <4>2, <4>3, <4>4
        <4> QED BY <3>1, <4>5
      <3> QED BY <1>4, <2>1, <2>2, <2>4, <3>1, <3>2
    <2>9. CASE IsrLatch
      <3>1. UNCHANGED <<pc, lower, since>> /\ taken' = age  BY <2>9 DEF IsrLatch
      <3>2. pc = "upper" => Held(lower, since, age)
        <4>1. SUFFICES ASSUME pc = "upper", since >= 0, age <= FULL
                       PROVE  \E n \in since..age : lower = Low(FULL - n)
          OBVIOUS
        <4>2. taken <= FULL  BY <1>1, <2>4, <4>1
        <4>3. PICK n \in since..taken : lower = Low(FULL - n)  BY <2>4, <4>1, <4>2
        <4>4. n \in since..age  BY <1>1, <2>4
        <4> QED BY <4>3, <4>4
      <3>3. pc \in {"lower", "upper"} => since <= age  BY <1>1, <2>4
      <3> QED BY <1>4, <2>1, <2>2, <3>1, <3>2, <3>3
    <2> QED BY <1>5, <2>5, <2>6, <2>7, <2>8, <2>9
  <1> QED BY <1>2, <1>3, <1>5 DEF TsNext

LEMMA TsInitInv ==
    ASSUME NEW l \in Half, TsInit(l)
    PROVE  TsIInv
  <1>1. 0 \in Half /\ 0 * WORD + l \in 0..FULL /\ l \in Int /\ 0 \in 0..FULL
    BY Halves, FullFacts, TimerAssumption DEF Half
  <1>2. TimerTypeOK
    <2>1. 0 * WORD + l = l  BY <1>1, TimerAssumption
    <2>2. l \in 0..FULL  BY <1>1, <2>1
    <2> QED BY <1>1, <2>2 DEF TsInit, TimerInit, TimerTypeOK
  <1>3. TsTypeOK  BY <1>1, <1>2, FullFacts DEF TsInit, TsTypeOK, NeverStarted
  <1> QED BY <1>3 DEF TsIInv, TsInit, StampIsAge, StartInv, CountInv, CallInv, NeverStarted

LEMMA TsNextInv == TsIInv /\ [TsNext]_tsVars => TsIInv'
  <1> SUFFICES ASSUME TsIInv, [TsNext]_tsVars  PROVE TsIInv'
    OBVIOUS
  <1>1. TsTypeOK /\ StampIsAge /\ StartInv /\ CountInv /\ CallInv  BY DEF TsIInv
  <1>2. CASE TsNext
    BY <1>1, <1>2, TsTypesKept, StampKept, StartKept, CountKept, CallKept DEF TsIInv
  <1>3. CASE UNCHANGED tsVars
    <2>1. TsTypeOK'  BY <1>1, TsTypesKept
    <2>2. StampIsAge' /\ StartInv'  BY <1>1, <1>3 DEF tsVars, timerVars, StampIsAge, StartInv
    <2>3. CountInv'  BY <1>1, <1>3 DEF tsVars, timerVars, CountInv, counter_load_value
    <2>4. CallInv'  BY <1>1, <1>3 DEF tsVars, CallInv
    <2> QED BY <2>1, <2>2, <2>3, <2>4 DEF TsIInv
  <1> QED BY <1>2, <1>3

LEMMA TsIInvEnough == TsIInv => TsInv
  <1> SUFFICES ASSUME TsIInv, pc = "upper", since >= 0, age >= 0, taken <= FULL,
                      ~(taken > since /\ High(FULL - since) # High(FULL - taken))
               PROVE  alt_timestamp \in since..taken
    BY DEF TsIInv, TsInv, ReadWithinCall
  <1>1. FULL \in Nat /\ taken \in Int /\ since \in Int
    BY FullFacts DEF TsIInv, TsTypeOK, NeverStarted
  <1>2. since <= taken  BY DEF TsIInv, CallInv
  <1>3. PICK n \in since..taken : lower = Low(FULL - n)  BY DEF TsIInv, CallInv
  <1>4. since \in 0..FULL /\ taken \in 0..FULL  BY <1>1, <1>2
  <1>5. High(FULL - since) = High(FULL - taken)
    <2>1. taken = since \/ taken > since  BY <1>1, <1>2
    <2> QED BY <2>1
  <1>6. counter_snapshot = FULL - taken
    <2>1. FULL - counter_snapshot = taken  BY <1>4 DEF TsIInv, StampIsAge
    <2>2. counter_snapshot \in Int  BY FullFacts DEF TsIInv, TsTypeOK, TimerTypeOK
    <2> QED BY <1>1, <2>1, <2>2
  <1>7. alt_timestamp = n
    BY <1>3, <1>4, <1>5, <1>6, Mixed DEF alt_timestamp
  <1> QED BY <1>7

(* What alt_timestamp() returns was the time at some moment of the call,        *)
(* wherever interrupt routines latch the counter for themselves, unless its     *)
(* upper half or its period ran out meanwhile                                   *)
(* (altera_avalon_timer_ts.c:60-85, :124-128).                                   *)
THEOREM TimeOfTheCall == TsSpec => []TsInv
  <1>1. (\E l \in Half : TsInit(l)) => TsIInv  BY TsInitInv
  <1> QED BY <1>1, TsNextInv, TsIInvEnough, PTL DEF TsSpec
===========================================================================
