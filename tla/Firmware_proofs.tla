-------------------------- MODULE Firmware_proofs --------------------------
(* Proofs about the main loop: the flag it shares with the sampling          *)
(* interrupt, the text it scrolls in place, the score, the messages it makes  *)
(* of what it reads, and the types of its variables.                          *)
EXTENDS Firmware, SequenceTheorems, WellFoundedInduction, TLAPS

---------------------------------------------------------------------------
(* The sampling flag.                                                        *)

LEMMA InitSample == Init => SampleInv
  BY DEF Init, SampleInv

LEMMA StepKeepsSample == SampleInv /\ [Next]_vars => SampleInv'
<1> SUFFICES ASSUME SampleInv, [Next]_vars PROVE SampleInv'
  OBVIOUS
<1> USE DEF SampleInv, At, Goto, sample, Axes
<1>1. CASE Read \/ Parse \/ EndOfBuffer
  BY <1>1 DEF Read, Parse, EndOfBuffer
<1>2. CASE Handle
  BY <1>2 DEF Handle
<1>3. CASE TestReady
  BY <1>3 DEF TestReady
<1>4. CASE FilterAxis("x", "y") \/ FilterAxis("y", "z") \/ FilterAxis("z", "refresh")
  BY <1>4 DEF FilterAxis
<1>5. CASE Refresh
  BY <1>5 DEF Refresh
<1>6. CASE Clear
  BY <1>6 DEF Clear
<1>7. CASE get_accler_isr
  BY <1>7 DEF get_accler_isr
<1>8. CASE HostSends
  BY <1>8 DEF HostSends
<1>9. CASE UNCHANGED vars
  BY <1>9 DEF vars
<1> QED BY <1>1, <1>2, <1>3, <1>4, <1>5, <1>6, <1>7, <1>8, <1>9 DEF Next, MainStep

(* main filters no coordinate it has filtered before, wherever the sampling *)
(* interrupt strikes (main.c:313-337).                                      *)
THEOREM SamplesOnce == Spec => []OnlyNewSamples
<1>1. SampleInv => OnlyNewSamples
  BY DEF SampleInv, OnlyNewSamples, Axes
<1> QED BY <1>1, InitSample, StepKeepsSample, PTL DEF Spec

---------------------------------------------------------------------------
(* The scrolled text.                                                        *)

(* The buffer has cells. *)
LEMMA DispLemma == DISP \in Nat /\ DISP >= 1
  BY FirmwareAssumption, SMT

(* Where a cell comes from, without the modulo. *)
LEMMA TurnLemma ==
    ASSUME NEW i \in 1..DISP, NEW r \in 0..DISP-1
    PROVE  (i - 1 + r) % DISP = IF i - 1 + r < DISP THEN i - 1 + r ELSE i - 1 + r - DISP
  BY DispLemma, SMT

(* shiftBuffer moves every cell one to the left and the first to the end. *)
LEMMA RotatedLemma ==
    ASSUME NEW S, NEW s \in [1..DISP -> S]
    PROVE  Rotated(s) = [i \in 1..DISP |-> IF i = DISP THEN s[1] ELSE s[i+1]]
<1>1. s \in Seq(S) /\ Len(s) = DISP /\ s # <<>> /\ s[1] \in S
  BY DispLemma, SMT
<1>2. Tail(s) \in Seq(S) /\ Len(Tail(s)) = DISP - 1
      /\ \A i \in 1..DISP-1 : Tail(s)[i] = s[i+1]
  BY <1>1, DispLemma, SMT
<1> QED BY <1>1, <1>2, DispLemma, SMT DEF Rotated

(* Turning a turned text once more. *)
LEMMA TurnedAgain ==
    ASSUME NEW p, NEW r \in 0..DISP-1
    PROVE  \E q \in 0..DISP-1 : Rotated(Turned(p, r)) = Turned(p, q)
<1> DEFINE q == IF r = DISP - 1 THEN 0 ELSE r + 1
           S == {Turned(p, r)[i] : i \in 1..DISP}
<1>1. q \in 0..DISP-1
  BY DispLemma, SMT
<1>2. Turned(p, r) \in [1..DISP -> S]
  BY Zenon DEF Turned
<1>3. Rotated(Turned(p, r))
        = [i \in 1..DISP |-> IF i = DISP THEN Turned(p, r)[1] ELSE Turned(p, r)[i+1]]
  BY <1>2, RotatedLemma
<1>4. ASSUME NEW i \in 1..DISP
      PROVE  (IF i = DISP THEN Turned(p, r)[1] ELSE Turned(p, r)[i+1]) = Turned(p, q)[i]
  <2> DEFINE j == IF i = DISP THEN 1 ELSE i + 1
  <2>1. j \in 1..DISP
    BY DispLemma, SMT
  <2>2. (j - 1 + r) % DISP = (i - 1 + q) % DISP
    BY <2>1, <1>1, TurnLemma, DispLemma, SMT
  <2>3. Turned(p, r)[j] = Turned(p, q)[i]
    BY <2>1, <2>2 DEF Turned
  <2> QED BY <2>3
<1>5. Turned(p, q) = [i \in 1..DISP |-> Turned(p, q)[i]]
  BY DEF Turned
<1> QED BY <1>1, <1>3, <1>4, <1>5

(* A text not turned at all. *)
LEMMA TurnedZero ==
    ASSUME NEW w
    PROVE  Turned(Padded(w, DISP), 0) = Padded(w, DISP)
<1>1. ASSUME NEW i \in 1..DISP PROVE ((i - 1 + 0) % DISP) + 1 = i
  BY DispLemma, TurnLemma, SMT
<1> QED BY <1>1 DEF Turned, Padded

LEMMA InitScroll == Init => ScrollInv
<1> SUFFICES ASSUME Init PROVE ScrollInv
  OBVIOUS
<1>1. Len(word) = DISP /\ word = [i \in 1..DISP |-> Nul] /\ display_buff = word
  BY DispLemma DEF Init
<1>2. Padded(word, DISP) = word
  BY <1>1, DispLemma, SMT DEF Padded
<1> QED BY <1>1, <1>2, TurnedZero, DispLemma, SMT DEF ScrollInv

LEMMA StepKeepsScroll == ScrollInv /\ [Next]_vars => ScrollInv'
<1> SUFFICES ASSUME ScrollInv, [Next]_vars PROVE ScrollInv'
  OBVIOUS
<1>1. ASSUME UNCHANGED <<word, display_buff>> PROVE ScrollInv'
  BY <1>1 DEF ScrollInv
<1>2. ASSUME NEW w, ShowText(w) PROVE ScrollInv'
  <2>1. display_buff' = Turned(Padded(word', DISP), 0)
    BY <1>2, TurnedZero DEF ShowText
  <2> QED BY <2>1, DispLemma, SMT DEF ScrollInv
<1>3. CASE Handle
  BY <1>1, <1>2, <1>3 DEF Handle, LedCommand, Score, Difficulty, Text, display
<1>4. CASE Refresh
  <2>1. word' = word /\ (display_buff' = display_buff \/ display_buff' = Rotated(display_buff))
    BY <1>4 DEF Refresh, UpdateHex
  <2> QED BY <2>1, <1>1, TurnedAgain DEF ScrollInv
<1>5. CASE Read \/ Parse \/ EndOfBuffer \/ TestReady \/ Clear \/ get_accler_isr \/ HostSends
  BY <1>1, <1>5 DEF Read, Parse, EndOfBuffer, TestReady, Clear, get_accler_isr, HostSends, display
<1>6. CASE FilterAxis("x", "y") \/ FilterAxis("y", "z") \/ FilterAxis("z", "refresh")
  BY <1>1, <1>6 DEF FilterAxis, display
<1>7. CASE UNCHANGED vars
  BY <1>1, <1>7 DEF vars, display
<1> QED BY <1>3, <1>4, <1>5, <1>6, <1>7 DEF Next, MainStep

(* However long it scrolls, the display buffer is a rotation of the text. *)
THEOREM TextKept == Spec => []ScrollKeepsText
<1>1. ScrollInv => ScrollKeepsText
  BY DEF ScrollInv, ScrollKeepsText, Turned
<1> QED BY <1>1, InitScroll, StepKeepsScroll, PTL DEF Spec

---------------------------------------------------------------------------
(* The score.                                                                *)

LEMMA StepHoldsScore ==
    ASSUME [Next]_vars, stopscroll, hexHw' # hexHw
    PROVE  pc = "handle" /\ Command = "~"
<1> USE DEF display
<1>1. CASE Handle
  <2>1. CASE Score  BY <1>1, <2>1 DEF Handle, Score, At
  <2>2. CASE ~Score
    BY <1>1, <2>2 DEF Handle, LedCommand, Difficulty, Text, ShowText
  <2> QED BY <2>1, <2>2
<1>2. CASE Refresh
  BY <1>2 DEF Refresh, UpdateHex
<1>3. CASE Read \/ Parse \/ EndOfBuffer \/ TestReady \/ Clear \/ get_accler_isr \/ HostSends
  BY <1>3 DEF Read, Parse, EndOfBuffer, TestReady, Clear, get_accler_isr, HostSends
<1>4. CASE FilterAxis("x", "y") \/ FilterAxis("y", "z") \/ FilterAxis("z", "refresh")
  BY <1>4 DEF FilterAxis
<1>5. CASE UNCHANGED vars
  BY <1>5 DEF vars
<1> QED BY <1>1, <1>2, <1>3, <1>4, <1>5 DEF Next, MainStep

(* A score stays on the display, whatever is sampled and however the text    *)
(* behind it stands, until another message (main.c:278, 330).                 *)
THEOREM ScoreStays == Spec => ScoreHeld
<1>1. [Next]_vars => (stopscroll /\ hexHw' # hexHw => pc = "handle" /\ Command = "~")
  BY StepHoldsScore
<1> QED BY <1>1, PTL DEF Spec, ScoreHeld

---------------------------------------------------------------------------
(* The messages.                                                             *)

(* The last of the places E before j, or 0. *)
LastBefore(E, j) == CHOOSE i \in E \cup {0} : i < j /\ \A e \in E : e < j => e <= i

LEMMA LastBeforeIs ==
    ASSUME NEW E, E \subseteq Nat \ {0}, NEW j \in Nat \ {0}
    PROVE  /\ LastBefore(E, j) \in E \cup {0} /\ LastBefore(E, j) < j
           /\ \A e \in E : e < j => e <= LastBefore(E, j)
<1> DEFINE T == {n \in Nat : n < j /\ \A e \in E : e < j => e <= n}
<1>1. j - 1 \in T
  OBVIOUS
<1>2. PICK m \in T : \A n \in T : ~(<<n, m>> \in OpToRel(<, Nat))
  <2>1. T \subseteq Nat /\ T # {}
    BY <1>1
  <2> HIDE DEF T
  <2> QED BY <2>1, NatLessThanWellFounded, WFMin
<1>3. \A n \in T : ~(n < m)
  BY <1>2 DEF OpToRel
<1>4. m \in E \cup {0}
  <2> SUFFICES ASSUME m \notin E, m # 0 PROVE FALSE
    OBVIOUS
  <2>1. m - 1 \in Nat /\ m - 1 < j
    OBVIOUS
  <2>2. ASSUME NEW e \in E, e < j PROVE e <= m - 1
    <3>1. e <= m /\ e # m /\ e \in Nat
      BY <2>2
    <3> QED BY <3>1
  <2>3. m - 1 \in T
    BY <2>1, <2>2
  <2> QED BY <1>3, <2>3
<1>5. \E i \in E \cup {0} : i < j /\ \A e \in E : e < j => e <= i
  BY <1>4
<1> QED BY <1>5 DEF LastBefore

LEMMA LastBeforeIsOnly ==
    ASSUME NEW E, E \subseteq Nat \ {0}, NEW j \in Nat \ {0}, NEW i \in E \cup {0},
           i < j, \A e \in E : e < j => e <= i
    PROVE  LastBefore(E, j) = i
<1> DEFINE l == LastBefore(E, j)
<1>1. l \in E \cup {0} /\ l < j /\ \A e \in E : e < j => e <= l
  BY LastBeforeIs
<1> HIDE DEF l
<1>2. l \in Nat /\ i \in Nat /\ (l = 0 \/ l \in E) /\ (i = 0 \/ i \in E)
  BY <1>1
<1>3. l <= i
  BY <1>1, <1>2
<1>4. i <= l
  BY <1>1, <1>2
<1>5. l = i
  BY <1>2, <1>3, <1>4
<1> QED BY <1>5 DEF l

(* One byte more moves the last place only if it is one. *)
LEMMA OneMore ==
    ASSUME NEW n \in Nat, NEW E \in SUBSET (1..n)
    PROVE  /\ LastBefore(E, n + 2) = LastBefore(E, n + 1)
           /\ LastBefore(E \cup {n + 1}, n + 2) = n + 1
           /\ LastBefore(E \cup {n + 1}, n + 1) = LastBefore(E, n + 1)
<1> DEFINE l == LastBefore(E, n + 1)
<1>0. E \subseteq Nat \ {0} /\ n + 1 \in Nat \ {0} /\ n + 2 \in Nat \ {0}
  OBVIOUS
<1>1. l \in E \cup {0} /\ l < n + 1 /\ \A e \in E : e < n + 1 => e <= l
  BY <1>0, LastBeforeIs, Zenon
<1> HIDE DEF l
<1>2. LastBefore(E, n + 2) = l
  <2>1. l < n + 2 /\ \A e \in E : e < n + 2 => e <= l
    BY <1>1
  <2> QED BY <1>0, <1>1, <2>1, LastBeforeIsOnly, Zenon
<1>3. LastBefore(E \cup {n + 1}, n + 2) = n + 1
  <2> DEFINE F == E \cup {n + 1}
  <2>1. F \subseteq Nat \ {0} /\ n + 1 \in F \cup {0} /\ n + 1 < n + 2 /\ \A e \in F : e < n + 2 => e <= n + 1
    OBVIOUS
  <2> HIDE DEF F
  <2>2. LastBefore(F, n + 2) = n + 1
    BY <1>0, <2>1, LastBeforeIsOnly, Zenon
  <2> QED BY <2>2 DEF F
<1>4. LastBefore(E \cup {n + 1}, n + 1) = l
  <2> DEFINE F == E \cup {n + 1}
  <2>1. F \subseteq Nat \ {0} /\ l \in F \cup {0} /\ l < n + 1 /\ \A e \in F : e < n + 1 => e <= l
    BY <1>1
  <2> HIDE DEF F
  <2>2. LastBefore(F, n + 1) = l
    BY <1>0, <2>1, LastBeforeIsOnly, Zenon
  <2> QED BY <2>2 DEF F
<1> QED BY <1>2, <1>3, <1>4 DEF l

(* What the parser is to have made of the bytes h. *)
EndsIn(h) == {i \in DOMAIN h : h[i] = END_RECIEVE}
Last(h) == LastBefore(EndsIn(h), Len(h) + 1)
Before(h) == LastBefore(EndsIn(h), Last(h))

Parsed(h, buff, msg) ==
    /\ buff = SubSeq(h, Last(h) + 1, Len(h))
    /\ Last(h) > 0 => msg = SubSeq(h, Before(h) + 1, Last(h) - 1)

LEMMA ParsedIs == ParserFollowsInput <=> Parsed(heard, messagebuff, message)
  BY DEF ParserFollowsInput, PrevEnd, Ends, EndsIn, Last, Before, LastBefore, Parsed

LEMMA EndsAre ==
    ASSUME NEW h \in Seq(Char)
    PROVE  /\ EndsIn(h) \in SUBSET (1..Len(h)) /\ Len(h) \in Nat
           /\ Last(h) \in 0..Len(h)
           /\ Last(h) > 0 => Last(h) \in EndsIn(h)
           /\ Last(h) > 0 => Before(h) \in 0..Last(h) - 1
<1> DEFINE n == Len(h)
           E == EndsIn(h)
<1>1. n \in Nat /\ E \in SUBSET (1..n)
  BY DEF EndsIn
<1> HIDE DEF n, E
<1>2. E \subseteq Nat \ {0} /\ n + 1 \in Nat \ {0}
  BY <1>1
<1>3. LastBefore(E, n + 1) \in E \cup {0} /\ LastBefore(E, n + 1) < n + 1
  BY <1>2, LastBeforeIs, Zenon
<1>4. ASSUME NEW l \in E
      PROVE  LastBefore(E, l) \in 0..l - 1
  <2>1. l \in Nat \ {0}
    BY <1>1
  <2>2. LastBefore(E, l) \in E \cup {0} /\ LastBefore(E, l) < l
    BY <1>2, <2>1, LastBeforeIs, Zenon
  <2>3. LastBefore(E, l) \in Nat
    <3> DEFINE k == LastBefore(E, l)
    <3>1. k = 0 \/ k \in E
      BY <2>2
    <3> HIDE DEF k
    <3>2. k \in Nat
      <4>1. CASE k = 0  BY <4>1
      <4>2. CASE k \in E  BY <1>2, <4>2
      <4> QED BY <3>1, <4>1, <4>2
    <3> QED BY <3>2 DEF k
  <2> QED BY <2>1, <2>2, <2>3
<1>5. Last(h) = LastBefore(E, n + 1) /\ Before(h) = LastBefore(E, Last(h))
  BY DEF Last, Before, E, n
<1>6. Last(h) \in 0..n /\ (Last(h) > 0 => Last(h) \in E)
  <2> DEFINE k == LastBefore(E, n + 1)
  <2>1. k = 0 \/ k \in E
    BY <1>3
  <2>2. Last(h) = k
    BY <1>5
  <2> HIDE DEF k
  <2>3. CASE k = 0  BY <1>1, <2>2, <2>3
  <2>4. CASE k \in E  BY <1>1, <2>2, <2>4
  <2> QED BY <2>1, <2>3, <2>4
<1>7. ASSUME Last(h) > 0 PROVE Before(h) \in 0..Last(h) - 1
  BY <1>4, <1>5, <1>6, <1>7
<1> QED BY <1>1, <1>6, <1>7 DEF E, n

LEMMA OneByteMore ==
    ASSUME NEW h \in Seq(Char), NEW c \in Char
    PROVE  LET g == Append(h, c)
           IN  /\ c # END_RECIEVE => Last(g) = Last(h) /\ (Last(h) > 0 => Before(g) = Before(h))
               /\ c = END_RECIEVE => Last(g) = Len(h) + 1 /\ Before(g) = Last(h)
<1> DEFINE g == Append(h, c)
           n == Len(h)
           E == EndsIn(h)
<1>1. /\ n \in Nat /\ E \in SUBSET (1..n) /\ Len(g) = n + 1
      /\ Last(h) = LastBefore(E, n + 1)
  BY EndsAre DEF Last
<1>2. EndsIn(g) = IF c = END_RECIEVE THEN E \cup {n + 1} ELSE E
  <2>1. DOMAIN g = 1..n + 1 /\ DOMAIN h = 1..n /\ g[n + 1] = c /\ \A i \in 1..n : g[i] = h[i]
    OBVIOUS
  <2> HIDE DEF g, n
  <2>2. EndsIn(g) = {i \in 1..n + 1 : g[i] = END_RECIEVE} /\ E = {i \in 1..n : h[i] = END_RECIEVE}
    BY <2>1 DEF EndsIn
  <2> HIDE DEF E
  <2> QED BY <1>1, <2>1, <2>2
<1>3. Last(g) = LastBefore(EndsIn(g), n + 2) /\ Before(g) = LastBefore(EndsIn(g), Last(g))
  <2>1. Len(g) + 1 = n + 2
    BY <1>1
  <2> QED BY <2>1 DEF Last, Before
<1> HIDE DEF g, n, E
<1>4. CASE c # END_RECIEVE
  <2>1. Last(g) = Last(h)
    BY <1>1, <1>2, <1>3, <1>4, OneMore
  <2>2. Before(g) = Before(h)
    BY <1>2, <1>3, <1>4, <2>1 DEF Before, E
  <2> QED BY <1>4, <2>1, <2>2 DEF g
<1>5. CASE c = END_RECIEVE
  <2>1. Last(g) = n + 1
    BY <1>1, <1>2, <1>3, <1>5, OneMore
  <2>2. Before(g) = Last(h)
    BY <1>1, <1>2, <1>3, <1>5, <2>1, OneMore
  <2> QED BY <1>5, <2>1, <2>2 DEF g, n
<1> QED BY <1>4, <1>5

(* Pieces of what has been read do not change as more is. *)
LEMMA PieceStays ==
    ASSUME NEW h \in Seq(Char), NEW c \in Char, NEW m \in Nat \ {0}, NEW n \in Int, n <= Len(h)
    PROVE  SubSeq(Append(h, c), m, n) = SubSeq(h, m, n)
<1> DEFINE g == Append(h, c)
<1>1. g \in Seq(Char) /\ Len(g) = Len(h) + 1 /\ \A i \in 1..Len(h) : g[i] = h[i]
  OBVIOUS
<1> HIDE DEF g
<1>2. CASE m > n
  BY <1>1, <1>2
<1>3. CASE m <= n
  <2>1. SubSeq(g, m, n) = [i \in 1..n - m + 1 |-> g[i + m - 1]]
    BY <1>1, <1>3
  <2>2. SubSeq(h, m, n) = [i \in 1..n - m + 1 |-> h[i + m - 1]]
    BY <1>3
  <2>3. \A i \in 1..n - m + 1 : i + m - 1 \in 1..Len(h)
    BY <1>3
  <2> QED BY <1>1, <2>1, <2>2, <2>3
<1> QED BY <1>2, <1>3 DEF g

(* The entries of a piece of a sequence. *)
LEMMA PieceOf ==
    ASSUME NEW S, NEW s \in Seq(S), NEW a \in Nat \ {0}, NEW b \in a - 1..Len(s)
    PROVE  /\ SubSeq(s, a, b) \in Seq(S) /\ Len(SubSeq(s, a, b)) = b - a + 1
           /\ \A i \in 1..b - a + 1 : SubSeq(s, a, b)[i] = s[a + i - 1]
<1>1. a \in Int /\ b \in Int /\ Len(s) \in Nat
  OBVIOUS
<1>2. \A i \in a..b : s[i] \in S
  BY <1>1
<1>3. (IF a <= b THEN b - a + 1 ELSE 0) = b - a + 1
  BY <1>1
<1>4. /\ SubSeq(s, a, b) \in Seq(S) /\ Len(SubSeq(s, a, b)) = IF a <= b THEN b - a + 1 ELSE 0
      /\ \A i \in 1..b - a + 1 : SubSeq(s, a, b)[i] = s[a + i - 1]
  BY <1>1, <1>2, SubSeqProperties
<1> QED BY <1>3, <1>4

LEMMA PieceGrows ==
    ASSUME NEW h \in Seq(Char), NEW c \in Char, NEW m \in 1..Len(h) + 1
    PROVE  SubSeq(Append(h, c), m, Len(h) + 1) = Append(SubSeq(h, m, Len(h)), c)
<1> DEFINE g == Append(h, c)
           l == Len(h)
           p == SubSeq(h, m, l)
<1>1. g \in Seq(Char) /\ Len(g) = l + 1 /\ g[l + 1] = c /\ (\A i \in 1..l : g[i] = h[i]) /\ l \in Nat
  OBVIOUS
<1>2. p \in Seq(Char) /\ Len(p) = l - m + 1 /\ \A i \in 1..l - m + 1 : p[i] = h[i + m - 1]
  <2>1. m \in Nat \ {0} /\ l \in m - 1..Len(h) /\ \A i \in 1..l - m + 1 : m + i - 1 = i + m - 1
    OBVIOUS
  <2>2. /\ p \in Seq(Char) /\ Len(p) = l - m + 1
        /\ \A i \in 1..l - m + 1 : p[i] = h[m + i - 1]
    BY <2>1, PieceOf
  <2> QED BY <2>1, <2>2
<1> HIDE DEF g, l, p
<1>3. m \in 1..l + 1
  BY DEF l
<1>4. /\ SubSeq(g, m, l + 1) \in Seq(Char) /\ Len(SubSeq(g, m, l + 1)) = l - m + 2
      /\ \A i \in 1..l - m + 2 : SubSeq(g, m, l + 1)[i] = g[i + m - 1]
  <2> SUFFICES ASSUME NEW e, e = l + 1
               PROVE  /\ SubSeq(g, m, e) \in Seq(Char) /\ Len(SubSeq(g, m, e)) = l - m + 2
                      /\ \A i \in 1..l - m + 2 : SubSeq(g, m, e)[i] = g[i + m - 1]
    OBVIOUS
  <2>1. m \in Nat \ {0} /\ e \in m - 1..Len(g) /\ e - m + 1 = l - m + 2 /\ g \in Seq(Char)
    BY <1>1, <1>3
  <2>2. /\ SubSeq(g, m, e) \in Seq(Char) /\ Len(SubSeq(g, m, e)) = e - m + 1
        /\ \A i \in 1..e - m + 1 : SubSeq(g, m, e)[i] = g[m + i - 1]
    BY <2>1, PieceOf
  <2>3. \A i \in 1..l - m + 2 : m + i - 1 = i + m - 1
    BY <1>1, <1>3
  <2> QED BY <2>1, <2>2, <2>3
<1>5. /\ Append(p, c) \in Seq(Char) /\ Len(Append(p, c)) = l - m + 2
      /\ \A i \in 1..l - m + 2 : Append(p, c)[i] = IF i = l - m + 2 THEN c ELSE p[i]
  <2>1. /\ Append(p, c) \in Seq(Char) /\ Len(Append(p, c)) = Len(p) + 1
        /\ Append(p, c)[Len(p) + 1] = c /\ \A i \in 1..Len(p) : Append(p, c)[i] = p[i]
    BY <1>2
  <2>2. Len(p) + 1 = l - m + 2 /\ \A i \in 1..l - m + 2 : i # l - m + 2 => i \in 1..Len(p)
    BY <1>1, <1>2, <1>3
  <2> QED BY <2>1, <2>2
<1>6. ASSUME NEW i \in 1..l - m + 2
      PROVE  g[i + m - 1] = IF i = l - m + 2 THEN c ELSE p[i]
  <2>1. CASE i = l - m + 2
    <3>1. i + m - 1 = l + 1
      BY <1>1, <1>3, <2>1
    <3> QED BY <1>1, <2>1, <3>1
  <2>2. CASE i # l - m + 2
    <3>1. i \in 1..l - m + 1 /\ i + m - 1 \in 1..l
      BY <1>1, <1>3, <2>2
    <3> QED BY <1>1, <1>2, <2>2, <3>1
  <2> QED BY <2>1, <2>2
<1>7. SubSeq(g, m, l + 1) = Append(p, c)
  <2> DEFINE s == SubSeq(g, m, l + 1)
             t == Append(p, c)
  <2>1. s \in Seq(Char) /\ t \in Seq(Char) /\ Len(s) = Len(t) /\ \A i \in 1..Len(s) : s[i] = t[i]
    BY <1>4, <1>5, <1>6
  <2> HIDE DEF s, t
  <2>2. s = t
    BY <2>1, SeqEqual
  <2> QED BY <2>2 DEF s, t
<1> QED BY <1>7 DEF g, l, p

(* The parser's step, on what it had and has read. *)
LEMMA ParsedOnward ==
    ASSUME NEW h \in Seq(Char), NEW c \in Char, NEW buff, NEW msg, Parsed(h, buff, msg)
    PROVE  /\ c # END_RECIEVE => Parsed(Append(h, c), Append(buff, c), msg)
           /\ c = END_RECIEVE => Parsed(Append(h, c), <<>>, buff)
<1> SUFFICES ASSUME NEW g, g = Append(h, c)
             PROVE  /\ c # END_RECIEVE => Parsed(g, Append(buff, c), msg)
                    /\ c = END_RECIEVE => Parsed(g, <<>>, buff)
  OBVIOUS
<1>0. buff = SubSeq(h, Last(h) + 1, Len(h)) /\ (Last(h) > 0 => msg = SubSeq(h, Before(h) + 1, Last(h) - 1))
  BY DEF Parsed
<1>1. /\ Len(h) \in Nat /\ Last(h) \in 0..Len(h)
      /\ Last(h) > 0 => Before(h) \in 0..Last(h) - 1
      /\ Len(g) = Len(h) + 1 /\ g \in Seq(Char)
  <2>1. Len(g) = Len(h) + 1 /\ g \in Seq(Char)
    OBVIOUS
  <2> QED BY <2>1, EndsAre
<1>2. CASE c # END_RECIEVE
  <2>1. Last(g) = Last(h) /\ (Last(h) > 0 => Before(g) = Before(h))
    BY <1>2, OneByteMore
  <2>2. Append(buff, c) = SubSeq(g, Last(g) + 1, Len(g))
    <3>1. Last(h) + 1 \in 1..Len(h) + 1
      BY <1>1
    <3>2. SubSeq(g, Last(h) + 1, Len(h) + 1) = Append(SubSeq(h, Last(h) + 1, Len(h)), c)
      BY <3>1, PieceGrows
    <3> QED BY <1>0, <1>1, <2>1, <3>2
  <2>3. ASSUME Last(g) > 0  PROVE msg = SubSeq(g, Before(g) + 1, Last(g) - 1)
    <3>1. Last(h) > 0
      BY <2>1, <2>3
    <3> DEFINE b == Before(h) + 1
               e == Last(h) - 1
    <3>2. b \in Nat \ {0} /\ e \in Int /\ e <= Len(h)
      BY <1>1, <3>1
    <3> HIDE DEF b, e
    <3>3. SubSeq(g, b, e) = SubSeq(h, b, e)
      BY <3>2, PieceStays
    <3> QED BY <1>0, <2>1, <3>1, <3>3 DEF b, e
  <2> QED BY <1>2, <2>2, <2>3 DEF Parsed
<1>3. CASE c = END_RECIEVE
  <2>1. Last(g) = Len(h) + 1 /\ Before(g) = Last(h)
    BY <1>3, OneByteMore
  <2>2. <<>> = SubSeq(g, Last(g) + 1, Len(g))
    <3>1. Last(g) + 1 > Len(g) /\ Last(g) + 1 \in Nat /\ Len(g) \in Nat
      BY <1>1, <2>1
    <3> QED BY <3>1, <1>1
  <2>3. buff = SubSeq(g, Before(g) + 1, Last(g) - 1)
    <3> DEFINE b == Last(h) + 1
               e == Len(h)
    <3>1. b \in Nat \ {0} /\ e \in Int /\ e <= Len(h) /\ Last(g) - 1 = e /\ Before(g) + 1 = b
      BY <1>1, <2>1
    <3> HIDE DEF b
    <3>2. SubSeq(g, b, e) = SubSeq(h, b, e)
      BY <3>1, PieceStays
    <3> HIDE DEF e
    <3>3. SubSeq(g, Before(g) + 1, Last(g) - 1) = SubSeq(h, b, e)
      BY <3>1, <3>2
    <3> QED BY <1>0, <3>3 DEF b, e
  <2> QED BY <1>3, <2>2, <2>3 DEF Parsed
<1> QED BY <1>2, <1>3

LEMMA StepKeepsParsed == TypeOK /\ ParserFollowsInput /\ [Next]_vars => ParserFollowsInput'
<1> SUFFICES ASSUME TypeOK, ParserFollowsInput, [Next]_vars PROVE ParserFollowsInput'
  OBVIOUS
<1>1. CASE UNCHANGED <<messagebuff, message, heard>>
  BY <1>1 DEF ParserFollowsInput, PrevEnd, Ends
<1>2. CASE Parse
  <2> DEFINE c == Head(stdin_buff)
  <2>1. heard \in Seq(Char) /\ c \in Char
    BY <1>2 DEF TypeOK, Parse
  <2>2. /\ heard' = Append(heard, c)
        /\ c # END_RECIEVE => messagebuff' = Append(messagebuff, c) /\ message' = message
        /\ c = END_RECIEVE => messagebuff' = <<>> /\ message' = messagebuff
    BY <1>2 DEF Parse, Byte
  <2> HIDE DEF c
  <2>3. Parsed(heard, messagebuff, message)
    BY ParsedIs
  <2>4. Parsed(heard', messagebuff', message')
    BY <2>1, <2>2, <2>3, ParsedOnward
  <2>5. ParserFollowsInput' <=> Parsed(heard', messagebuff', message')
    BY DEF ParserFollowsInput, PrevEnd, Ends, EndsIn, Last, Before, LastBefore, Parsed
  <2> QED BY <2>4, <2>5
<1>3. CASE Handle
  BY <1>1, <1>3 DEF Handle
<1>4. CASE Read \/ EndOfBuffer \/ TestReady \/ Clear \/ Refresh \/ get_accler_isr \/ HostSends
  BY <1>1, <1>4 DEF Read, EndOfBuffer, TestReady, Clear, Refresh, get_accler_isr, HostSends, parser
<1>5. CASE FilterAxis("x", "y") \/ FilterAxis("y", "z") \/ FilterAxis("z", "refresh")
  BY <1>1, <1>5 DEF FilterAxis, parser
<1>6. CASE UNCHANGED vars
  BY <1>1, <1>6 DEF vars, parser
<1> QED BY <1>2, <1>3, <1>4, <1>5, <1>6 DEF Next, MainStep

LEMMA InitParsed == Init => ParserFollowsInput
<1> SUFFICES ASSUME Init PROVE Parsed(heard, messagebuff, message)
  BY ParsedIs
<1>1. heard \in Seq(Char) /\ Len(heard) = 0 /\ messagebuff = <<>> /\ heard = <<>>
  BY DEF Init
<1>2. Last(heard) = 0
  <2>1. Last(heard) \in 0..Len(heard)
    BY <1>1, EndsAre
  <2> QED BY <1>1, <2>1
<1>3. messagebuff = SubSeq(heard, 1, 0)
  BY <1>1
<1> QED BY <1>1, <1>2, <1>3 DEF Parsed

---------------------------------------------------------------------------
(* The types.                                                                *)

LEMMA PaddedLen ==
    ASSUME NEW w, NEW n \in Nat
    PROVE  DOMAIN Padded(w, n) = 1..n /\ Len(Padded(w, n)) = n
  BY SMT DEF Padded

LEMMA DecodedLen ==
    ASSUME NEW s, NEW n \in Nat, DOMAIN s = 1..n
    PROVE  Len(Decoded(s)) = n
  BY SMT DEF Decoded

(* The text under the display's window, and the text scrolled by one cell. *)
LEMMA ScrolledLen ==
    ASSUME NEW p, NEW r
    PROVE  /\ Len(Rotated(Turned(p, r))) = DISP
           /\ Len(Decoded(SubSeq(Turned(p, r), 1, WIN))) = WIN
<1> DEFINE s == Turned(p, r)
           S == {s[i] : i \in 1..DISP}
<1>1. s \in [1..DISP -> S]
  BY Zenon DEF Turned
<1> HIDE DEF s, S
<1>2. s \in Seq(S) /\ Len(s) = DISP /\ WIN \in Nat /\ WIN <= DISP
  BY <1>1, DispLemma, FirmwareAssumption
<1>3. Rotated(s) = [i \in 1..DISP |-> IF i = DISP THEN s[1] ELSE s[i+1]]
  BY <1>1, RotatedLemma
<1>4. Len(Rotated(s)) = DISP
  BY <1>3, DispLemma, SMT
<1>5. DOMAIN SubSeq(s, 1, WIN) = 1..WIN
  BY <1>2, SMT
<1>6. Len(Decoded(SubSeq(s, 1, WIN))) = WIN
  BY <1>2, <1>5, DecodedLen
<1> QED BY <1>4, <1>6 DEF s

(* The rotation of the ten LEDs stays within them. *)
LEMMA LedsLemma ==
    ASSUME NEW l \in 0..AllOn
    PROVE  (l + (l % 2) * 1024) \div 2 \in 0..AllOn
<1>1. l % 2 = 0 \/ l % 2 = 1
  OBVIOUS
<1>2. CASE l % 2 = 0
  BY <1>2 DEF AllOn
<1>3. CASE l % 2 = 1
  BY <1>3 DEF AllOn
<1> QED BY <1>1, <1>2, <1>3

(* TypeOK in three parts: what is read, what is shown, and the rest. *)
ReadOK == /\ stdin \in Seq(Char) /\ stdin_buff \in Seq(Char) /\ messagebuff \in Seq(Char)
          /\ message \in Seq(Char) /\ message_is_ready \in BOOLEAN /\ heard \in Seq(Char)
ShownOK == /\ leds \in 0..AllOn /\ stopscroll \in BOOLEAN /\ delay \in 0..HEX_DELAY-1
           /\ Len(display_buff) = DISP /\ Len(hexHw) = WIN /\ ledsHw \in 0..AllOn
RestOK == /\ filter \in {0, 1} /\ coord_data_ready \in BOOLEAN /\ fresh \subseteq Axes
          /\ pc \in Axes \cup {"read", "parse", "handle", "sample", "refresh", "clear"}
          /\ handled \in Nat

LEMMA TypesAre == TypeOK <=> ReadOK /\ ShownOK /\ RestOK
  BY DEF TypeOK, ReadOK, ShownOK, RestOK

LEMMA InitTypes == Init => TypeOK
<1> SUFFICES ASSUME Init PROVE TypeOK
  OBVIOUS
<1>1. Len(display_buff) = DISP /\ Len(hexHw) = WIN
  BY DispLemma, FirmwareAssumption DEF Init
<1>2. ReadOK
  <2>1. <<>> \in Seq(Char) /\ FALSE \in BOOLEAN
    OBVIOUS
  <2> QED BY <2>1, Zenon DEF Init, ReadOK
<1>3. ShownOK
  <2>1. leds \in 0..AllOn /\ delay \in 0..HEX_DELAY-1 /\ ledsHw \in 0..AllOn
    BY FirmwareAssumption DEF Init, AllOn
  <2>2. stopscroll \in BOOLEAN
    BY Zenon DEF Init
  <2> QED BY <1>1, <2>1, <2>2 DEF ShownOK
<1>4. RestOK
  BY DEF Init, RestOK, Axes
<1> QED BY <1>2, <1>3, <1>4, TypesAre

LEMMA StepKeepsRead == TypeOK /\ [Next]_vars => ReadOK'
<1> SUFFICES ASSUME ReadOK, [Next]_vars PROVE ReadOK'
  BY TypesAre
<1>1. CASE Read
  <2> DEFINE size == IF Len(stdin) < ReadMax THEN Len(stdin) ELSE ReadMax
  <2>1. size \in 0..Len(stdin) /\ Len(stdin) \in Nat /\ stdin \in Seq(Char)
    BY FirmwareAssumption DEF ReadOK
  <2>2. stdin_buff' = SubSeq(stdin, 1, size) /\ stdin' = SubSeq(stdin, size + 1, Len(stdin))
    BY <1>1 DEF Read
  <2> HIDE DEF size
  <2>3. stdin_buff' \in Seq(Char) /\ stdin' \in Seq(Char)
    BY <2>1, <2>2
  <2> QED BY <1>1, <2>3 DEF Read, ReadOK
<1>2. CASE Parse
  <2> DEFINE c == Head(stdin_buff)
  <2>1. c \in Char /\ Tail(stdin_buff) \in Seq(Char)
    BY <1>2 DEF Parse, ReadOK
  <2>2. /\ heard' = Append(heard, c) /\ stdin_buff' = Tail(stdin_buff) /\ stdin' = stdin
        /\ c # END_RECIEVE => /\ messagebuff' = Append(messagebuff, c)
                              /\ message' = message /\ message_is_ready' = message_is_ready
        /\ c = END_RECIEVE => messagebuff' = <<>> /\ message' = messagebuff /\ message_is_ready' = TRUE
    BY <1>2 DEF Parse, Byte
  <2> HIDE DEF c
  <2>3. messagebuff' \in Seq(Char) /\ message' \in Seq(Char) /\ heard' \in Seq(Char)
    <3>1. messagebuff \in Seq(Char) /\ message \in Seq(Char) /\ heard \in Seq(Char)
      BY DEF ReadOK
    <3>2. CASE c = END_RECIEVE
      BY <2>1, <2>2, <3>1, <3>2
    <3>3. CASE c # END_RECIEVE
      <4>1. messagebuff' = Append(messagebuff, c) /\ message' = message /\ heard' = Append(heard, c)
        BY <2>2, <3>3
      <4>2. c \in Char
        BY <2>1
      <4> HIDE <2>2
      <4> QED BY <3>1, <4>1, <4>2, SMT
    <3> QED BY <3>2, <3>3
  <2>4. message_is_ready' \in BOOLEAN
    BY <2>2, Zenon DEF ReadOK
  <2> QED BY <2>1, <2>2, <2>3, <2>4 DEF ReadOK
<1>3. CASE Handle
  BY <1>3 DEF Handle, ReadOK
<1>4. CASE HostSends
  BY <1>4, FirmwareAssumption DEF HostSends, ReadOK
<1>5. CASE EndOfBuffer \/ TestReady \/ Clear \/ Refresh \/ get_accler_isr
  BY <1>5 DEF EndOfBuffer, TestReady, Clear, Refresh, get_accler_isr, parser, ReadOK
<1>6. CASE FilterAxis("x", "y") \/ FilterAxis("y", "z") \/ FilterAxis("z", "refresh")
  BY <1>6 DEF FilterAxis, parser, ReadOK
<1>7. CASE UNCHANGED vars
  BY <1>7 DEF vars, parser, ReadOK
<1> QED BY <1>1, <1>2, <1>3, <1>4, <1>5, <1>6, <1>7 DEF Next, MainStep

LEMMA StepKeepsShown == TypeOK /\ ScrollInv /\ [Next]_vars => ShownOK'
<1> SUFFICES ASSUME ShownOK, ScrollInv, [Next]_vars PROVE ShownOK'
  BY TypesAre
<1>1. CASE UNCHANGED display
  BY <1>1 DEF display, ShownOK
<1>2. CASE Handle
  <2>1. ASSUME NEW w, ShowText(w), leds' \in 0..AllOn PROVE ShownOK'
    <3>1. Len(Padded(w, DISP)) = DISP
      BY PaddedLen, DispLemma
    <3> QED BY <2>1, <3>1 DEF ShowText, ShownOK
  <2>2. CASE LedCommand
    BY <2>2 DEF LedCommand, ShownOK, AllOn
  <2>3. CASE Score
    <3>1. Len(Decoded(Padded(Tail(message), WIN))) = WIN
      BY PaddedLen, DecodedLen, FirmwareAssumption
    <3> QED BY <2>3, <3>1 DEF Score, ShownOK
  <2>4. CASE Difficulty
    BY <2>1, <2>4 DEF Difficulty, AllOn
  <2>5. CASE Text
    BY <2>1, <2>5 DEF Text, ShownOK
  <2> QED BY <1>1, <1>2, <2>2, <2>3, <2>4, <2>5 DEF Handle
<1>3. CASE Refresh
  <2>1. stopscroll' = stopscroll
    BY <1>3 DEF Refresh
  <2>2. leds' \in 0..AllOn /\ ledsHw' \in 0..AllOn
    <3>1. (leds + (leds % 2) * 1024) \div 2 \in 0..AllOn
      BY LedsLemma DEF ShownOK
    <3>2. CASE delay' = 0
      BY <1>3, <3>1, <3>2 DEF Refresh, UpdateLeds
    <3>3. CASE delay' # 0
      BY <1>3, <3>3 DEF Refresh, UpdateLeds, ShownOK
    <3> QED BY <3>2, <3>3
  <2>3. delay' \in 0..HEX_DELAY-1
    BY <1>3, FirmwareAssumption DEF Refresh, UpdateHex, ShownOK
  <2>4. Len(display_buff') = DISP /\ Len(hexHw') = WIN
    BY <1>3, ScrolledLen DEF Refresh, UpdateHex, ScrollInv, ShownOK
  <2> QED BY <2>1, <2>2, <2>3, <2>4 DEF ShownOK
<1>4. CASE Read \/ Parse \/ EndOfBuffer \/ TestReady \/ Clear \/ get_accler_isr \/ HostSends
  BY <1>1, <1>4 DEF Read, Parse, EndOfBuffer, TestReady, Clear, get_accler_isr, HostSends
<1>5. CASE FilterAxis("x", "y") \/ FilterAxis("y", "z") \/ FilterAxis("z", "refresh")
  BY <1>1, <1>5 DEF FilterAxis
<1>6. CASE UNCHANGED vars
  BY <1>1, <1>6 DEF vars
<1> QED BY <1>2, <1>3, <1>4, <1>5, <1>6 DEF Next, MainStep

LEMMA StepKeepsRest == TypeOK /\ [Next]_vars => RestOK'
<1> SUFFICES ASSUME RestOK, [Next]_vars PROVE RestOK'
  BY TypesAre
<1> USE DEF RestOK, Axes, At, Goto, sample
<1>1. CASE Read \/ Parse \/ EndOfBuffer
  BY <1>1 DEF Read, Parse, EndOfBuffer
<1>2. CASE Handle
  BY <1>2 DEF Handle, LedCommand, Score, Difficulty, Text
<1>3. CASE TestReady \/ Clear
  BY <1>3 DEF TestReady, Clear
<1>4. CASE FilterAxis("x", "y") \/ FilterAxis("y", "z") \/ FilterAxis("z", "refresh")
  BY <1>4 DEF FilterAxis
<1>5. CASE Refresh
  BY <1>5 DEF Refresh
<1>6. CASE get_accler_isr \/ HostSends
  BY <1>6 DEF get_accler_isr, HostSends
<1>7. CASE UNCHANGED vars
  BY <1>7 DEF vars
<1> QED BY <1>1, <1>2, <1>3, <1>4, <1>5, <1>6, <1>7 DEF Next, MainStep

(* However the host's bytes are cut into reads and whatever main does in     *)
(* between, no byte of one message gets into another (main.c:233-252).       *)
THEOREM MessagesFollowInput == Spec => []FirmwareInv
<1> DEFINE IInv == TypeOK /\ ScrollInv /\ ParserFollowsInput
<1>1. Init => IInv
  BY InitTypes, InitScroll, InitParsed
<1>2. IInv /\ [Next]_vars => IInv'
  <2> SUFFICES ASSUME IInv, [Next]_vars PROVE IInv'
    OBVIOUS
  <2>1. TypeOK'
    <3>1. ReadOK' /\ ShownOK' /\ RestOK'
      BY StepKeepsRead, StepKeepsShown, StepKeepsRest
    <3> QED BY <3>1 DEF TypeOK, ReadOK, ShownOK, RestOK
  <2> QED BY <2>1, StepKeepsScroll, StepKeepsParsed
<1>3. IInv => FirmwareInv
  BY DEF FirmwareInv
<1> QED BY <1>1, <1>2, <1>3, PTL DEF Spec
===========================================================================
