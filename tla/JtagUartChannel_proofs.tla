----------------------- MODULE JtagUartChannel_proofs -----------------------
(* Proof that the driver and the device implement the two channels of bytes  *)
(* of CharChannel, for every ring size, FIFO depth, alphabet and set of      *)
(* messages.  First what the operations do to the contents of a ring, then   *)
(* that a call's locals and the bytes it copies are what the mapping needs,   *)
(* then one lemma per kind of step of the channels.  Last, the firmware,     *)
(* which takes the timer from the driver's alarm.                            *)
EXTENDS JtagUartChannel, TimerTakeover, JtagUartDriver_proofs, SequenceTheorems

---------------------------------------------------------------------------
(* The contents of a ring.                                                   *)

(* The slot j places behind slot o. *)
Behind(o, j) == IF o + j < BUF_LEN THEN o + j ELSE o + j - BUF_LEN

(* The modulo of an index that has run past the end at most once. *)
LEMMA ModLemma ==
    ASSUME NEW o \in Index, NEW j \in 0..BUF_LEN-1
    PROVE  (o + j) % BUF_LEN = Behind(o, j) /\ Behind(o, j) \in Index
  BY DriverAssumption, SMT DEF Index, Behind

(* A ring's contents are as many bytes as it holds, from the oldest on. *)
LEMMA ContentsLemma ==
    ASSUME NEW buf \in [Index -> Slot], NEW i \in Index, NEW o \in Index
    PROVE  /\ Contents(buf, i, o) \in Seq(Slot)
           /\ Len(Contents(buf, i, o)) = Used(i, o)
           /\ Used(i, o) \in 0..BUF_LEN-1
           /\ \A j \in 1..Used(i, o) : /\ Contents(buf, i, o)[j] = buf[Behind(o, j - 1)]
                                       /\ Behind(o, j - 1) \in Index
<1> DEFINE u == Used(i, o)
           s == [j \in 1..u |-> buf[(o + j - 1) % BUF_LEN]]
<1>1. u \in 0..BUF_LEN-1 /\ u \in Nat
  BY UsedLemma, DriverAssumption, SMT
<1>2. ASSUME NEW j \in 1..u
      PROVE  (o + j - 1) % BUF_LEN = Behind(o, j - 1) /\ Behind(o, j - 1) \in Index
  <2>1. j - 1 \in 0..BUF_LEN-1
    BY <1>1, DriverAssumption, SMT
  <2>2. (o + (j - 1)) % BUF_LEN = Behind(o, j - 1) /\ Behind(o, j - 1) \in Index
    BY <2>1, ModLemma
  <2>3. o + j - 1 = o + (j - 1)
    BY <1>1, SMT DEF Index
  <2> QED BY <2>2, <2>3
<1>3. \A j \in 1..u : s[j] = buf[Behind(o, j - 1)] /\ s[j] \in Slot
  BY <1>2
<1>4. s \in Seq(Slot) /\ Len(s) = u
  <2> HIDE DEF u
  <2>1. s \in [1..u -> Slot]
    BY <1>3, <1>2
  <2> HIDE DEF s
  <2> QED BY <1>1, <2>1, SeqDef, SMT
<1>5. Contents(buf, i, o) = s
  BY DEF Contents
<1> QED BY <1>1, <1>2, <1>3, <1>4, <1>5

(* A slot j places behind the oldest is that many places from the index. *)
LEMMA BehindLemma ==
    ASSUME NEW o \in Index, NEW i \in Index, NEW j \in 0..BUF_LEN-1, j < Used(i, o)
    PROVE  Live(Behind(o, j), i, o)
  BY DriverAssumption, SMT DEF Index, Behind, Live, Used

(* A byte stored in a slot that is not live leaves the contents alone. *)
LEMMA ContentsKept ==
    ASSUME NEW buf \in [Index -> Slot], NEW new \in [Index -> Slot],
           NEW i \in Index, NEW o \in Index,
           \A x \in Index : Live(x, i, o) => new[x] = buf[x]
    PROVE  Contents(new, i, o) = Contents(buf, i, o)
<1>1. /\ Contents(buf, i, o) \in Seq(Slot) /\ Contents(new, i, o) \in Seq(Slot)
      /\ Len(Contents(buf, i, o)) = Used(i, o) /\ Len(Contents(new, i, o)) = Used(i, o)
      /\ Used(i, o) \in 0..BUF_LEN-1
  BY ContentsLemma
<1>2. ASSUME NEW j \in 1..Used(i, o)
      PROVE  Contents(new, i, o)[j] = Contents(buf, i, o)[j]
  <2>1. /\ Contents(buf, i, o)[j] = buf[Behind(o, j - 1)]
        /\ Contents(new, i, o)[j] = new[Behind(o, j - 1)]
        /\ Behind(o, j - 1) \in Index
    BY ContentsLemma
  <2>2. j - 1 \in 0..BUF_LEN-1 /\ j - 1 < Used(i, o)
    BY <1>1, DriverAssumption, SMT
  <2>3. Live(Behind(o, j - 1), i, o)
    BY <2>2, BehindLemma
  <2> QED BY <2>1, <2>3
<1> QED BY <1>1, <1>2, SeqEqual

(* Taking m bytes out, which do not run past the end of the buffer, drops    *)
(* the first m of the contents; those were the m slots from the oldest on.   *)
LEMMA TakenLemma ==
    ASSUME NEW buf \in [Index -> Slot], NEW i \in Index, NEW o \in Index,
           NEW m \in Nat, m <= Used(i, o), o + m <= BUF_LEN, m > 0
    PROVE  LET c == Contents(buf, i, o)
           IN  /\ (o + m) % BUF_LEN \in Index
               /\ m <= Len(c)
               /\ Contents(buf, i, (o + m) % BUF_LEN) = SubSeq(c, m + 1, Len(c))
               /\ \A j \in 1..m : c[j] = buf[o + j - 1]
<1> DEFINE c == Contents(buf, i, o)
           p == (o + m) % BUF_LEN
           d == Contents(buf, i, p)
           e == SubSeq(c, m + 1, Len(c))
<1>1. p = (IF o + m = BUF_LEN THEN 0 ELSE o + m) /\ p \in Index
  <2>1. p = IF o + m = BUF_LEN THEN 0 ELSE o + m
    BY WrapLemma
  <2> QED BY <2>1, DriverAssumption, SMT DEF Index
<1>2. Used(i, p) = Used(i, o) - m
  BY <1>1, DriverAssumption, SMT DEF Used, Index
<1>3. /\ c \in Seq(Slot) /\ Len(c) = Used(i, o) /\ Used(i, o) \in 0..BUF_LEN-1
      /\ \A j \in 1..Used(i, o) : c[j] = buf[Behind(o, j - 1)]
  BY ContentsLemma
<1>4. /\ d \in Seq(Slot) /\ Len(d) = Used(i, p)
      /\ \A j \in 1..Used(i, p) : d[j] = buf[Behind(p, j - 1)]
  BY <1>1, ContentsLemma
<1> HIDE DEF c, d, p
<1>5. /\ e \in Seq(Slot) /\ Len(e) = Used(i, o) - m
      /\ \A j \in 1..Used(i, o)-m : e[j] = c[m + j]
  <2>1. Len(c) \in Nat /\ \A j \in m+1..Len(c) : c[j] \in Slot
    BY <1>3, ElementOfSeq, LenProperties, SMT
  <2>2. m + 1 \in Int /\ Len(c) \in Int
    BY <2>1, SMT
  <2>3. /\ e \in Seq(Slot)
        /\ Len(e) = IF m + 1 <= Len(c) THEN Len(c) - (m + 1) + 1 ELSE 0
        /\ \A j \in 1..Len(c)-(m+1)+1 : e[j] = c[m + 1 + j - 1]
    BY <2>1, <2>2, SubSeqProperties
  <2>4. Len(c) - (m + 1) + 1 = Used(i, o) - m
    BY <1>3, SMT
  <2>5. \A j \in 1..Used(i, o)-m : m + 1 + j - 1 = m + j
    BY <1>3, SMT
  <2>6. Len(e) = Used(i, o) - m
    BY <2>3, <2>4, <1>3, SMT
  <2> HIDE DEF e
  <2> QED BY <2>3, <2>4, <2>5, <2>6
<1>6. ASSUME NEW j \in 1..Used(i, o)-m
      PROVE  d[j] = e[j]
  <2>1. Behind(p, j - 1) = Behind(o, m + j - 1)
    BY <1>1, <1>3, DriverAssumption, SMT DEF Behind, Index
  <2>2. m + j \in 1..Used(i, o)
    BY <1>3, SMT
  <2> HIDE DEF e
  <2> QED BY <2>1, <2>2, <1>2, <1>3, <1>4, <1>5
<1>7. d = e
  <2> HIDE DEF e
  <2> QED BY <1>2, <1>4, <1>5, <1>6, SeqEqual
<1>8. ASSUME NEW j \in 1..m
      PROVE  c[j] = buf[o + j - 1]
  <2>1. Behind(o, j - 1) = o + j - 1 /\ j \in 1..Used(i, o)
    BY <1>3, DriverAssumption, SMT DEF Behind, Index
  <2> QED BY <2>1, <1>3
<1> QED BY <1>1, <1>3, <1>7, <1>8 DEF c, d, p

(* The places of m further bytes in a ring that has room for them.            *)
LEMMA RoomLemma ==
    ASSUME NEW i \in Index, NEW o \in Index, NEW m \in Nat,
           m + Used(i, o) < BUF_LEN, i + m <= BUF_LEN
    PROVE  /\ Used(IF i + m = BUF_LEN THEN 0 ELSE i + m, o) = Used(i, o) + m
           /\ \A j \in 1..Used(i, o)+m :
                 j > Used(i, o) => Behind(o, j - 1) = i + (j - Used(i, o)) - 1
<1>1. /\ BUF_LEN \in Nat /\ i \in Nat /\ o \in Nat /\ i < BUF_LEN /\ o < BUF_LEN
  BY DriverAssumption, SMT DEF Index
<1>2. CASE i >= o
  <2>1. Used(i, o) = i - o
    BY <1>2 DEF Used
  <2>2. i + m = BUF_LEN => o > 0 /\ Used(0, o) = BUF_LEN - o
    BY <1>1, <1>2, <2>1, SMT DEF Used
  <2> QED BY <1>1, <1>2, <2>1, <2>2, SMT DEF Used, Behind
<1>3. CASE i < o
  <2>1. Used(i, o) = BUF_LEN - o + i
    BY <1>1, <1>3, SMT DEF Used
  <2> QED BY <1>1, <1>3, <2>1, SMT DEF Used, Behind
<1> QED BY <1>1, <1>2, <1>3, SMT

(* Adding m bytes, which fit and do not run past the end of the buffer, puts *)
(* them behind the contents.                                                 *)
LEMMA AddedLemma ==
    ASSUME NEW buf \in [Index -> Slot], NEW i \in Index, NEW o \in Index,
           NEW m \in Nat, m + Used(i, o) < BUF_LEN, i + m <= BUF_LEN,
           NEW s \in Seq(Slot), Len(s) = m,
           \A j \in 1..m : s[j] = buf[i + j - 1]
    PROVE  /\ (i + m) % BUF_LEN \in Index
           /\ Contents(buf, (i + m) % BUF_LEN, o) = Contents(buf, i, o) \o s
<1> DEFINE c == Contents(buf, i, o)
           p == (i + m) % BUF_LEN
           d == Contents(buf, p, o)
           e == c \o s
<1>1. p = (IF i + m = BUF_LEN THEN 0 ELSE i + m) /\ p \in Index
  <2>1. p = IF i + m = BUF_LEN THEN 0 ELSE i + m
    BY WrapLemma
  <2> QED BY <2>1, DriverAssumption, SMT DEF Index
<1>2. Used(p, o) = Used(i, o) + m
  BY <1>1, RoomLemma
<1>3. /\ c \in Seq(Slot) /\ Len(c) = Used(i, o) /\ Used(i, o) \in 0..BUF_LEN-1
      /\ \A j \in 1..Used(i, o) : c[j] = buf[Behind(o, j - 1)]
  BY ContentsLemma
<1>4. /\ d \in Seq(Slot) /\ Len(d) = Used(p, o)
      /\ \A j \in 1..Used(p, o) : d[j] = buf[Behind(o, j - 1)]
  BY <1>1, ContentsLemma
<1> HIDE DEF c, d, p
<1>5. /\ e \in Seq(Slot) /\ Len(e) = Used(i, o) + m
      /\ \A j \in 1..Used(i, o)+m : e[j] = IF j <= Used(i, o) THEN c[j] ELSE s[j - Used(i, o)]
  <2>1. /\ e \in Seq(Slot) /\ Len(e) = Len(c) + Len(s)
        /\ \A j \in 1..Len(c)+Len(s) : e[j] = IF j <= Len(c) THEN c[j] ELSE s[j - Len(c)]
    BY <1>3, ConcatProperties
  <2> HIDE DEF e
  <2> QED BY <2>1, <1>3
<1> HIDE DEF e
<1>6. ASSUME NEW j \in 1..Used(i, o)+m
      PROVE  d[j] = e[j]
  <2>1. d[j] = buf[Behind(o, j - 1)]
    BY <1>2, <1>4
  <2>2. CASE j <= Used(i, o)
    <3>1. j \in 1..Used(i, o)
      BY <2>2, <1>3, SMT
    <3> QED BY <2>1, <2>2, <3>1, <1>3, <1>5
  <2>3. CASE ~(j <= Used(i, o))
    <3>1. j - Used(i, o) \in 1..m
      BY <2>3, <1>3, SMT
    <3>2. Behind(o, j - 1) = i + (j - Used(i, o)) - 1
      <4>1. j > Used(i, o)
        BY <2>3, <1>3, SMT
      <4> QED BY <4>1, RoomLemma
    <3> QED BY <2>1, <2>3, <3>1, <3>2, <1>5
  <2> QED BY <2>2, <2>3
<1>7. d = e
  BY <1>2, <1>4, <1>5, <1>6, SeqEqual
<1> QED BY <1>1, <1>7 DEF c, d, e, p

---------------------------------------------------------------------------
(* The locals of a call and the bytes it copies.                             *)

LEMMA InitLocals == Init => CallLocals /\ Copied
  BY SMT DEF Init, CallLocals, Copied, WritePcs, ReadPcs

(* A call finds no locals of another, and its own stay in its own code. *)
LEMMA LocalsKept ==
    ASSUME CallLocals, Next
    PROVE  CallLocals'
<1> USE DEF CallLocals, WritePcs, ReadPcs
<1>1. CASE Calls
  BY <1>1 DEF Calls, WriteCall, ReadCall, CloseCall, SetTimeout, App
<1>2. CASE W_Snap \/ W_Copy \/ W_Advance \/ W_Kick \/ W_Set \/ W_SpinExit \/ W_Check
  BY <1>2 DEF W_Snap, W_Copy, W_Advance, W_Kick, W_Set, W_SpinExit, W_Check, App, call
<1>3. CASE R_Snap \/ R_Copy \/ R_Advance \/ R_SpinExit \/ R_Check \/ R_Rearm
  BY <1>3 DEF R_Snap, R_Copy, R_Advance, R_SpinExit, R_Check, R_Rearm, App, call
<1>4. CASE W_End \/ R_End \/ R_Set \/ C_Return
  BY <1>4 DEF W_End, R_End, R_Set, C_Return, Return
<1>5. CASE IsrEnter \/ IsrStep \/ Timeout \/ HostStep
  <2>1. UNCHANGED <<pc, call>>
    BY <1>5 DEF IsrEnter, IsrStep, I_Control, I_RxByte, I_RxLate, I_RxFull, I_RxEnd,
                I_TxByte, I_TxEnd, Timeout, HostStep, driverVars
  <2> QED BY <2>1 DEF call
<1> QED BY <1>1, <1>2, <1>3, <1>4, <1>5 DEF Next, AppStep

(* A step that changes no ring and no local leaves a copy as it is. *)
LEMMA CopiedQuiet ==
    ASSUME Copied, UNCHANGED <<tx_buf, rx_buf, msg, got, in, out, k>>,
           pc' \in {"w_copy", "r_copy"} => pc' = pc
    PROVE  Copied'
  BY DEF Copied

(* The slots copied to and from keep their bytes while the copy runs,        *)
(* although the interrupt routine stores into the receive ring meanwhile.    *)
LEMMA CopiedKept ==
    ASSUME IInv, Copied, Next
    PROVE  Copied'
<1> USE DEF call, ring
<1>1. CASE W_Copy
  <2>1. /\ pc = "w_copy" /\ pc' = pc /\ k' = k + 1
        /\ UNCHANGED <<in, msg>>
        /\ tx_buf' = [tx_buf EXCEPT ![in + k] = msg[k + 1]]
    BY <1>1 DEF W_Copy, App
  <2>2. k \in Nat /\ in + k \in Index /\ in \in Nat
    BY <1>1, DriverAssumption, SMT DEF W_Copy, App, IInv, TypeOK, ChunkShape, WriterOwnsSlots, Index
  <2>3. \A i \in Index : tx_buf'[i] = IF i = in + k THEN msg[k + 1] ELSE tx_buf[i]
    BY <2>1 DEF IInv, TypeOK
  <2>4. ASSUME NEW j \in 1..k'
        PROVE  tx_buf'[in + j - 1] = msg[j]
    <3>1. in + j - 1 \in Index /\ (j = k + 1 \/ (j \in 1..k /\ in + j - 1 # in + k))
      <4>1. j \in 1..k+1
        BY <2>1
      <4> QED BY <4>1, <2>2, DriverAssumption, SMT DEF Index
    <3>2. j = k + 1 => in + j - 1 = in + k
      BY <2>2, SMT
    <3> QED BY <2>1, <2>3, <3>1, <3>2 DEF Copied
  <2> QED BY <2>1, <2>4 DEF Copied
<1>2. CASE R_Copy
  <2>1. /\ pc = "r_copy" /\ pc' = pc /\ k' = k + 1
        /\ UNCHANGED <<out, rx_buf>>
        /\ got' = Append(got, rx_buf[out + k])
    BY <1>2 DEF R_Copy, App
  <2>2. k \in Nat /\ out \in Nat /\ got \in Seq(Char) /\ k <= Len(got)
    BY <2>1, DriverAssumption, SMT DEF IInv, TypeOK, ChunkShape, Index
  <2>3. /\ Len(got') = Len(got) + 1 /\ Len(got) \in Nat
        /\ \A j \in 1..Len(got) : got'[j] = got[j]
        /\ got'[Len(got) + 1] = rx_buf[out + k]
    BY <2>1, <2>2, SMT
  <2>4. ASSUME NEW j \in 1..k'
        PROVE  got'[Len(got') - k' + j] = rx_buf'[out' + j - 1]
    <3>1. Len(got') - k' + j = Len(got) - k + j
      BY <2>1, <2>2, <2>3, SMT
    <3>2. CASE j = k + 1
      <4>1. Len(got) - k + j = Len(got) + 1 /\ out + j - 1 = out + k
        BY <3>2, <2>2, <2>3, SMT
      <4> QED BY <3>1, <4>1, <2>1, <2>3
    <3>3. CASE j # k + 1
      <4>1. j \in 1..k /\ Len(got) - k + j \in 1..Len(got)
        BY <3>3, <2>1, <2>2, <2>3, SMT
      <4> QED BY <3>1, <4>1, <2>1, <2>3 DEF Copied
    <3> QED BY <3>2, <3>3
  <2> QED BY <2>1, <2>4 DEF Copied
<1>3. CASE I_RxByte
  <2>1. UNCHANGED <<tx_buf, msg, got, in, out, k, pc>>
    BY <1>3 DEF I_RxByte
  <2>2. CASE rfifo = <<>>
    BY <1>3, <2>1, <2>2, CopiedQuiet DEF I_RxByte
  <2>3. CASE rfifo # <<>> /\ pc = "r_copy"
    <3>1. rx_buf' = [rx_buf EXCEPT ![rx_in] = Head(rfifo)] /\ Next1(rx_in) # rx_out
      BY <1>3, <2>3 DEF I_RxByte, RxFull
    <3>2. /\ out = rx_out /\ out + n <= BUF_LEN /\ n <= Used(rx_in, rx_out)
          /\ k \in 0..n /\ n \in Nat /\ rx_in \in Index /\ out \in Index
          /\ rx_buf \in [Index -> Slot]
      BY <2>3, SMT DEF IInv, TypeOK, ChunkShape, ReaderOwnsSlots
    <3>3. ASSUME NEW j \in 1..k
          PROVE  out + j - 1 \in Index /\ out + j - 1 # rx_in
      BY <3>2, DriverAssumption, SMT DEF Used, Index
    <3>4. \A i \in Index : i # rx_in => rx_buf'[i] = rx_buf[i]
      BY <3>1, <3>2
    <3> QED BY <2>1, <2>3, <3>3, <3>4 DEF Copied
  <2>4. CASE rfifo # <<>> /\ pc # "r_copy"
    BY <2>1, <2>4, <1>3 DEF Copied, I_RxByte
  <2> QED BY <2>2, <2>3, <2>4
<1>4. CASE W_Snap \/ R_Snap
  <2>1. k' = 0
     \/ (UNCHANGED <<tx_buf, rx_buf, msg, got, in, out, k>> /\ pc' \notin {"w_copy", "r_copy"})
    BY <1>4 DEF W_Snap, R_Snap
  <2>2. k' = 0 => \A j \in 1..k' : FALSE
    BY SMT
  <2> QED BY <2>1, <2>2 DEF Copied
<1>5. CASE Calls
  BY <1>5, CopiedQuiet DEF Calls, WriteCall, ReadCall, CloseCall, SetTimeout, Copied
<1>6. CASE W_Advance \/ W_Kick \/ W_Set \/ W_SpinExit \/ W_Check \/ W_End
  BY <1>6 DEF W_Advance, W_Kick, W_Set, W_SpinExit, W_Check, W_End, Return, Copied
<1>7. CASE R_Advance \/ R_SpinExit \/ R_Check \/ R_End \/ R_Rearm \/ R_Set \/ C_Return
  BY <1>7 DEF R_Advance, R_SpinExit, R_Check, R_End, R_Rearm, R_Set, C_Return, Return, Copied
<1>8. CASE IsrEnter \/ I_Control \/ I_RxLate \/ I_RxFull \/ I_RxEnd \/ I_TxByte \/ I_TxEnd
  <2>1. UNCHANGED <<tx_buf, rx_buf, pc, call>>
    BY <1>8 DEF IsrEnter, I_Control, I_RxLate, I_RxFull, I_RxEnd, I_TxByte, I_TxEnd
  <2> QED BY <2>1, CopiedQuiet
<1>9. CASE Timeout \/ HostStep
  BY <1>9, CopiedQuiet DEF Timeout, HostStep, driverVars
<1> QED BY <1>1, <1>2, <1>3, <1>4, <1>5, <1>6, <1>7, <1>8, <1>9
        DEF Next, AppStep, IsrStep

(* No step leaves what the mapping needs. *)
LEMMA StepKeepsChannelInv == ChannelInv /\ [Next]_vars => ChannelInv'
<1> SUFFICES ASSUME ChannelInv, [Next]_vars PROVE ChannelInv'
  OBVIOUS
<1>1. IInv'
  BY StepKeepsIInv DEF ChannelInv
<1>2. CASE Next
  BY <1>1, <1>2, LocalsKept, CopiedKept DEF ChannelInv
<1>3. CASE UNCHANGED vars
  BY <1>1, <1>3 DEF ChannelInv, CallLocals, Copied, vars, ring, call
<1> QED BY <1>2, <1>3

---------------------------------------------------------------------------
(* The steps of the channels.                                                *)

(* Taking the first byte of two sequences in a row. *)
LEMMA TailConcat ==
    ASSUME NEW s \in Seq(Slot), NEW t \in Seq(Slot), s # <<>>
    PROVE  s \o t # <<>> /\ Tail(s \o t) = Tail(s) \o t
<1>1. s \o t \in Seq(Slot) /\ Len(s \o t) = Len(s) + Len(t) /\ s \o t # <<>>
      /\ \A i \in 1..Len(s)+Len(t) : (s \o t)[i] = IF i <= Len(s) THEN s[i] ELSE t[i - Len(s)]
  BY ConcatProperties, ConcatEqualIffEmpty
<1>2. /\ Len(s) \in Nat /\ Len(t) \in Nat /\ Tail(s) \in Seq(Slot) /\ Len(Tail(s)) = Len(s) - 1
      /\ \A i \in 1..Len(Tail(s)) : Tail(s)[i] = s[i + 1]
  BY HeadTailProperties, LenProperties
<1> DEFINE u == s \o t
           v == Tail(u)
           w == Tail(s) \o t
<1>3. v \in Seq(Slot) /\ Len(v) = Len(u) - 1 /\ \A i \in 1..Len(v) : v[i] = u[i + 1]
  BY <1>1, HeadTailProperties
<1>4. /\ w \in Seq(Slot) /\ Len(w) = Len(Tail(s)) + Len(t)
      /\ \A i \in 1..Len(Tail(s))+Len(t) :
             w[i] = IF i <= Len(Tail(s)) THEN Tail(s)[i] ELSE t[i - Len(Tail(s))]
  BY <1>2, ConcatProperties
<1> HIDE DEF u, v, w
<1>5. Len(v) = Len(s) + Len(t) - 1 /\ Len(w) = Len(v)
  BY <1>1, <1>2, <1>3, <1>4, SMT DEF u
<1>6. ASSUME NEW i \in 1..Len(v)
      PROVE  v[i] = w[i]
  <2>1. v[i] = u[i + 1] /\ i + 1 \in 1..Len(s)+Len(t)
    BY <1>2, <1>3, <1>5, SMT
  <2>2. u[i + 1] = IF i + 1 <= Len(s) THEN s[i + 1] ELSE t[i + 1 - Len(s)]
    BY <1>1, <2>1 DEF u
  <2>3. w[i] = IF i <= Len(s) - 1 THEN Tail(s)[i] ELSE t[i - (Len(s) - 1)]
    BY <1>2, <1>4, <1>5, SMT
  <2>4. CASE i <= Len(s) - 1
    <3>1. i + 1 <= Len(s) /\ i \in 1..Len(Tail(s))
      BY <2>4, <1>2, <1>5, SMT
    <3> QED BY <2>1, <2>2, <2>3, <2>4, <3>1, <1>2
  <2>5. CASE ~(i <= Len(s) - 1)
    <3>1. ~(i + 1 <= Len(s)) /\ i + 1 - Len(s) = i - (Len(s) - 1)
      BY <2>5, <1>2, <1>5, SMT
    <3> QED BY <2>1, <2>2, <2>3, <2>5, <3>1
  <2> QED BY <2>4, <2>5
<1>7. v = w
  BY <1>3, <1>4, <1>5, <1>6, SeqEqual
<1> QED BY <1>1, <1>7 DEF u, v, w

(* The first m bytes, and the ones behind them. *)
LEMMA TakeLemma ==
    ASSUME NEW s \in Seq(Slot), NEW m \in Nat, m <= Len(s)
    PROVE  /\ SubSeq(s, 1, m) \in Seq(Slot) /\ Len(SubSeq(s, 1, m)) = m
           /\ \A i \in 1..m : SubSeq(s, 1, m)[i] = s[i]
<1> DEFINE d == SubSeq(s, 1, m)
<1>1. \A i \in 1..m : s[i] \in Slot
  BY ElementOfSeq, LenProperties, SMT
<1>2. /\ d \in Seq(Slot) /\ Len(d) = (IF 1 <= m THEN m - 1 + 1 ELSE 0)
      /\ \A i \in 1..m - 1 + 1 : d[i] = s[1 + i - 1]
  <2>1. 1 \in Int /\ m \in Int
    BY SMT
  <2> QED BY <1>1, <2>1, SubSeqProperties
<1>3. m - 1 + 1 = m /\ (~(1 <= m) => m = 0) /\ \A i \in 1..m : 1 + i - 1 = i
  BY SMT
<1> HIDE DEF d
<1>4. d \in Seq(Slot) /\ Len(d) = m /\ \A i \in 1..m : d[i] = s[i]
  BY <1>2, <1>3
<1> QED BY <1>4 DEF d

LEMMA DropLemma ==
    ASSUME NEW s \in Seq(Slot), NEW m \in Nat, m <= Len(s)
    PROVE  LET d == SubSeq(s, m + 1, Len(s))
           IN  d \in Seq(Slot) /\ Len(d) = Len(s) - m /\ \A i \in 1..Len(s)-m : d[i] = s[m + i]
<1> DEFINE d == SubSeq(s, m + 1, Len(s))
<1>1. Len(s) \in Nat
  BY LenProperties
<1>2. /\ d \in Seq(Slot) /\ Len(d) = (IF m + 1 <= Len(s) THEN Len(s) - (m + 1) + 1 ELSE 0)
      /\ \A i \in 1..Len(s) - (m + 1) + 1 : d[i] = s[m + 1 + i - 1]
  <2>1. m + 1 \in Int /\ Len(s) \in Int /\ \A i \in m+1..Len(s) : i \in 1..Len(s)
    BY <1>1, SMT
  <2>2. \A i \in m+1..Len(s) : s[i] \in Slot
    BY <2>1, ElementOfSeq
  <2> QED BY <2>1, <2>2, SubSeqProperties
<1>3. /\ Len(s) - (m + 1) + 1 = Len(s) - m /\ (~(m + 1 <= Len(s)) => Len(s) - m = 0)
      /\ \A i \in 1..Len(s)-m : m + 1 + i - 1 = m + i
  BY <1>1, SMT
<1> HIDE DEF d
<1>4. d \in Seq(Slot) /\ Len(d) = Len(s) - m /\ \A i \in 1..Len(s)-m : d[i] = s[m + i]
  BY <1>2, <1>3
<1> QED BY <1>4 DEF d

(* Dropping bytes that all lie in the first of two sequences in a row. *)
LEMMA DropConcat ==
    ASSUME NEW s \in Seq(Slot), NEW t \in Seq(Slot), NEW m \in Nat, m <= Len(s)
    PROVE  SubSeq(s, m + 1, Len(s)) \o t = SubSeq(s \o t, m + 1, Len(s \o t))
<1> DEFINE u == s \o t
           d == SubSeq(s, m + 1, Len(s))
           e == SubSeq(u, m + 1, Len(u))
<1>1. /\ Len(s) \in Nat /\ Len(t) \in Nat /\ u \in Seq(Slot) /\ Len(u) = Len(s) + Len(t)
      /\ \A i \in 1..Len(s)+Len(t) : u[i] = IF i <= Len(s) THEN s[i] ELSE t[i - Len(s)]
  BY ConcatProperties, LenProperties
<1> HIDE DEF u
<1>2. /\ d \in Seq(Slot) /\ Len(d) = Len(s) - m /\ \A i \in 1..Len(s)-m : d[i] = s[m + i]
  BY DropLemma
<1>3. /\ e \in Seq(Slot) /\ Len(e) = Len(u) - m /\ \A i \in 1..Len(u)-m : e[i] = u[m + i]
  <2>1. m <= Len(u)
    BY <1>1, SMT
  <2> QED BY <1>1, <2>1, DropLemma
<1> HIDE DEF d, e
<1> DEFINE w == d \o t
<1>4. /\ w \in Seq(Slot) /\ Len(w) = Len(d) + Len(t)
      /\ \A i \in 1..Len(d)+Len(t) : w[i] = IF i <= Len(d) THEN d[i] ELSE t[i - Len(d)]
  BY <1>2, ConcatProperties
<1> HIDE DEF w
<1>5. Len(w) = Len(e) /\ Len(e) = Len(s) - m + Len(t)
  BY <1>1, <1>2, <1>3, <1>4, SMT
<1>6. ASSUME NEW i \in 1..Len(w)
      PROVE  w[i] = e[i]
  <2>1. e[i] = u[m + i] /\ m + i \in 1..Len(s)+Len(t) /\ i \in 1..Len(d)+Len(t)
    BY <1>1, <1>2, <1>3, <1>5, SMT
  <2>2. CASE i <= Len(d)
    <3>1. m + i <= Len(s) /\ i \in 1..Len(s)-m
      BY <2>2, <1>1, <1>2, <1>5, SMT
    <3> QED BY <2>1, <2>2, <3>1, <1>1, <1>2, <1>4
  <2>3. CASE ~(i <= Len(d))
    <3>1. ~(m + i <= Len(s)) /\ m + i - Len(s) = i - Len(d)
      BY <2>3, <1>1, <1>2, <1>5, SMT
    <3>2. u[m + i] = t[m + i - Len(s)]
      BY <2>1, <3>1, <1>1
    <3>3. w[i] = t[i - Len(d)]
      BY <2>1, <2>3, <1>4
    <3> QED BY <2>1, <3>1, <3>2, <3>3
  <2> QED BY <2>2, <2>3
<1>7. w = e
  BY <1>3, <1>4, <1>5, <1>6, SeqEqual
<1> QED BY <1>7 DEF w, e, d, u

(* A sequence is its beginning and the bytes it ends with. *)
LEMMA SplitLemma ==
    ASSUME NEW s \in Seq(Slot), NEW t \in Seq(Slot), NEW m \in Nat, NEW l \in 0..Len(s),
           m <= Len(t), l + m = Len(s), \A j \in 1..m : s[l + j] = t[j]
    PROVE  s = SubSeq(s, 1, l) \o SubSeq(t, 1, m)
<1> DEFINE d == SubSeq(s, 1, l)
           e == SubSeq(t, 1, m)
           w == d \o e
<1>1. Len(s) \in Nat /\ Len(t) \in Nat /\ l \in Nat
  BY LenProperties, SMT
<1>2. d \in Seq(Slot) /\ Len(d) = l /\ \A i \in 1..l : d[i] = s[i]
  BY <1>1, TakeLemma, SMT
<1>3. e \in Seq(Slot) /\ Len(e) = m /\ \A i \in 1..m : e[i] = t[i]
  BY <1>1, TakeLemma
<1> HIDE DEF d, e
<1>4. /\ w \in Seq(Slot) /\ Len(w) = l + m
      /\ \A i \in 1..l+m : w[i] = IF i <= l THEN d[i] ELSE e[i - l]
  <2>1. /\ w \in Seq(Slot) /\ Len(w) = Len(d) + Len(e)
        /\ \A i \in 1..Len(d)+Len(e) : w[i] = IF i <= Len(d) THEN d[i] ELSE e[i - Len(d)]
    <3>1. d \in Seq(Slot) /\ e \in Seq(Slot)
      BY <1>2, <1>3
    <3> QED BY <3>1, ConcatProperties
  <2> HIDE DEF w
  <2> QED BY <2>1, <1>2, <1>3
<1> HIDE DEF w
<1>5. ASSUME NEW i \in 1..Len(s)
      PROVE  s[i] = w[i]
  <2>1. CASE i <= l
    <3>1. i \in 1..l /\ i \in 1..l+m
      BY <1>1, <2>1, SMT
    <3> QED BY <2>1, <3>1, <1>2, <1>4
  <2>2. CASE ~(i <= l)
    <3>1. i - l \in 1..m /\ i \in 1..l+m /\ l + (i - l) = i
      BY <1>1, <2>2, SMT
    <3> QED BY <2>2, <3>1, <1>3, <1>4
  <2> QED BY <2>1, <2>2
<1>6. s = w
  BY <1>4, <1>5, SeqEqual
<1> QED BY <1>6 DEF w, d, e

(* A byte appended and left out again changes no prefix. *)
LEMMA PrefixLemma ==
    ASSUME NEW s \in Seq(Slot), NEW c \in Slot, NEW m \in Nat, m <= Len(s)
    PROVE  SubSeq(Append(s, c), 1, Len(Append(s, c)) - (m + 1)) = SubSeq(s, 1, Len(s) - m)
<1> DEFINE a == Append(s, c)
           l == Len(s) - m
<1>1. /\ a \in Seq(Slot) /\ Len(a) = Len(s) + 1 /\ \A i \in 1..Len(s) : a[i] = s[i]
  BY AppendProperties
<1> HIDE DEF a
<1>2. Len(s) \in Nat /\ Len(a) - (m + 1) = l /\ l \in Nat /\ l <= Len(s) /\ l <= Len(a)
  BY <1>1, LenProperties, SMT
<1> HIDE DEF l
<1>3. SubSeq(a, 1, l) \in Seq(Slot) /\ Len(SubSeq(a, 1, l)) = l /\ \A i \in 1..l : SubSeq(a, 1, l)[i] = a[i]
  BY <1>1, <1>2, TakeLemma
<1>4. SubSeq(s, 1, l) \in Seq(Slot) /\ Len(SubSeq(s, 1, l)) = l /\ \A i \in 1..l : SubSeq(s, 1, l)[i] = s[i]
  BY <1>2, TakeLemma
<1>5. \A i \in 1..l : i \in 1..Len(s)
  BY <1>2, SMT
<1>6. SubSeq(a, 1, l) = SubSeq(s, 1, l)
  BY <1>1, <1>3, <1>4, <1>5, SeqEqual
<1> QED BY <1>2, <1>6 DEF a, l

(* What the mapping makes of a state: sequences of slots that fit. *)
LEMMA MappedTypes ==
    ASSUME IInv
    PROVE  /\ Contents(tx_buf, tx_in, tx_out) \in Seq(Slot)
           /\ Contents(rx_buf, rx_in, rx_out) \in Seq(Slot)
           /\ wfifo \in Seq(Slot) /\ rfifo \in Seq(Slot)
           /\ ToHost \in Seq(Slot) /\ FromHost \in Seq(Slot)
           /\ Len(ToHost) = Len(wfifo) + Used(tx_in, tx_out)
           /\ Len(FromHost) = Used(rx_in, rx_out) + Len(rfifo)
           /\ Used(tx_in, tx_out) \in 0..BUF_LEN-1 /\ Used(rx_in, rx_out) \in 0..BUF_LEN-1
           /\ Len(wfifo) \in 0..FifoDepth /\ Len(rfifo) \in 0..FifoDepth
<1>1. /\ tx_buf \in [Index -> Slot] /\ rx_buf \in [Index -> Slot]
      /\ tx_in \in Index /\ tx_out \in Index /\ rx_in \in Index /\ rx_out \in Index
      /\ wfifo \in Seq(Char) /\ rfifo \in Seq(Char)
  BY DEF IInv, TypeOK, HwTypeOK
<1>2. /\ Contents(tx_buf, tx_in, tx_out) \in Seq(Slot)
      /\ Len(Contents(tx_buf, tx_in, tx_out)) = Used(tx_in, tx_out)
      /\ Contents(rx_buf, rx_in, rx_out) \in Seq(Slot)
      /\ Len(Contents(rx_buf, rx_in, rx_out)) = Used(rx_in, rx_out)
      /\ Used(tx_in, tx_out) \in 0..BUF_LEN-1 /\ Used(rx_in, rx_out) \in 0..BUF_LEN-1
  BY <1>1, ContentsLemma
<1>3. wfifo \in Seq(Slot) /\ rfifo \in Seq(Slot)
  BY <1>1, SeqMonotonic DEF Slot
<1>4. Len(wfifo) \in 0..FifoDepth /\ Len(rfifo) \in 0..FifoDepth
  BY <1>1, HwAssumption, FifoLemma, SMT DEF IInv, FifoBounds
<1>5. /\ ToHost \in Seq(Slot) /\ Len(ToHost) = Len(wfifo) + Used(tx_in, tx_out)
  BY <1>2, <1>3, ConcatProperties DEF ToHost
<1>6. /\ FromHost \in Seq(Slot) /\ Len(FromHost) = Used(rx_in, rx_out) + Len(rfifo)
  BY <1>2, <1>3, ConcatProperties DEF FromHost
<1> QED BY <1>2, <1>3, <1>4, <1>5, <1>6

(* Without a copy in progress read() has obtained all it has got. *)
LEMMA ObtainedLemma ==
    ASSUME NEW s \in Seq(Char)
    PROVE  SubSeq(s, 1, Len(s) - 0) = s
<1>1. Len(s) - 0 = Len(s)
  BY FifoLemma, SMT
<1> QED BY <1>1, SubSeqFull

(* Steps that move no byte and end no call. *)
LEMMA StutterLemma ==
    ASSUME UNCHANGED <<wfifo, rfifo, rx_in, rx_out, tx_in, tx_out, rx_buf, tx_buf,
                       msg, moved, Obtained, Returned>>
    PROVE  UNCHANGED Channel!abstractVars
  BY DEF Channel!abstractVars, ToHost, FromHost

(* A call starts: the channel holds nothing of the one before. *)
LEMMA CallsStart ==
    ASSUME ChannelInv, ChannelInv', Calls
    PROVE  \E m \in Messages \cup {<<>>} : Channel!Start(m)
<1>1. /\ pc = "idle" /\ msg = <<>> /\ moved = 0 /\ got = <<>>
      /\ pc' # "r_copy" /\ got' = got /\ moved' = moved
      /\ UNCHANGED <<wfifo, rfifo, rx_in, rx_out, tx_in, tx_out, rx_buf, tx_buf>>
  BY DEF Calls, WriteCall, ReadCall, CloseCall, SetTimeout, App, ChannelInv, CallLocals,
     WritePcs, ReadPcs, hwVars, ring
<1>2. Obtained = <<>> /\ Obtained' = <<>>
  <2>1. got \in Seq(Char)
    BY DEF ChannelInv, IInv, TypeOK
  <2> QED BY <1>1, <2>1, ObtainedLemma DEF Obtained
<1>3. Returned' = 0
  BY DEF Calls, WriteCall, ReadCall, CloseCall, SetTimeout, Returned, ENOTTY
<1>4. \E m \in Messages \cup {<<>>} : msg' = m
  BY <1>1 DEF Calls, WriteCall, ReadCall, CloseCall, SetTimeout
<1> QED BY <1>1, <1>2, <1>3, <1>4 DEF Channel!Start, ToHost, FromHost

(* write() makes what it copied visible: that many bytes are accepted. *)
LEMMA AdvanceAccepts ==
    ASSUME ChannelInv, W_Advance
    PROVE  \E j \in 1..BUF_LEN - 1 + FifoDepth : Channel!Accept(j)
<1>1. /\ pc = "w_copy" /\ pc' = "w_snap" /\ k = n /\ in = tx_in
      /\ in + n <= BUF_LEN /\ n + Used(tx_in, tx_out) < BUF_LEN
      /\ n \in 1..Len(msg)
      /\ \A j \in 1..n : tx_buf[in + j - 1] = msg[j]
  BY DEF W_Advance, App, ChannelInv, IInv, ChunkShape, WriterOwnsSlots, Copied
<1>2. /\ tx_in' = (in + n) % BUF_LEN
      /\ msg' = SubSeq(msg, n + 1, Len(msg)) /\ moved' = moved + n
      /\ UNCHANGED <<wfifo, rfifo, rx_in, rx_out, tx_out, rx_buf, tx_buf, got, ret>>
  BY DEF W_Advance, hwVars
<1>3. /\ tx_buf \in [Index -> Slot] /\ tx_in \in Index /\ tx_out \in Index
      /\ msg \in Seq(Char) /\ got \in Seq(Char) /\ n \in Nat /\ Len(msg) \in Nat
  BY <1>1, FifoLemma DEF ChannelInv, IInv, TypeOK
<1> DEFINE s == SubSeq(msg, 1, n)
<1>4. s \in Seq(Slot) /\ Len(s) = n /\ \A j \in 1..n : s[j] = msg[j]
  <2>1. \A j \in 1..n : msg[j] \in Slot
    BY <1>1, <1>3, ElementOfSeq, SMT DEF Slot
  <2>2. 1 \in Int /\ n \in Int /\ 1 <= n /\ n - 1 + 1 = n /\ \A j \in 1..n : 1 + j - 1 = j
    BY <1>1, <1>3, SMT
  <2>3. /\ s \in Seq(Slot) /\ Len(s) = (IF 1 <= n THEN n - 1 + 1 ELSE 0)
        /\ \A j \in 1..n - 1 + 1 : s[j] = msg[1 + j - 1]
    BY <2>1, <2>2, SubSeqProperties
  <2> HIDE DEF s
  <2> QED BY <2>2, <2>3
<1> HIDE DEF s
<1>5. Contents(tx_buf, tx_in', tx_out) = Contents(tx_buf, tx_in, tx_out) \o s
  <2>1. \A j \in 1..n : s[j] = tx_buf[tx_in + j - 1]
    BY <1>1, <1>4
  <2>2. tx_in + n <= BUF_LEN /\ tx_in' = (tx_in + n) % BUF_LEN
    BY <1>1, <1>2
  <2>3. Contents(tx_buf, (tx_in + n) % BUF_LEN, tx_out) = Contents(tx_buf, tx_in, tx_out) \o s
    <3>1. /\ tx_buf \in [Index -> Slot] /\ tx_in \in Index /\ tx_out \in Index /\ n \in Nat
          /\ n + Used(tx_in, tx_out) < BUF_LEN /\ s \in Seq(Slot) /\ Len(s) = n
      BY <1>1, <1>3, <1>4
    <3> QED BY <2>1, <2>2, <3>1, AddedLemma, SMTT(30)
  <2> QED BY <2>2, <2>3
<1>6. ToHost' = ToHost \o s
  <2> DEFINE c == Contents(tx_buf, tx_in, tx_out)
  <2>1. c \in Seq(Slot) /\ wfifo \in Seq(Slot)
    BY MappedTypes DEF ChannelInv
  <2>2. ToHost' = wfifo \o (c \o s) /\ ToHost = wfifo \o c
    BY <1>2, <1>5 DEF ToHost
  <2> HIDE DEF c
  <2> QED BY <1>4, <2>1, <2>2, ConcatAssociative, SMTT(30)
<1>7. n <= Len(msg) /\ Len(ToHost) + n <= BUF_LEN - 1 + FifoDepth /\ n \in 1..BUF_LEN - 1 + FifoDepth
  <2>1. /\ Len(ToHost) = Len(wfifo) + Used(tx_in, tx_out)
        /\ Used(tx_in, tx_out) \in 0..BUF_LEN-1 /\ Len(wfifo) \in 0..FifoDepth
    BY MappedTypes DEF ChannelInv
  <2> HIDE DEF ToHost
  <2> QED BY <1>1, <1>3, <2>1, DriverAssumption, HwAssumption, SMT
<1>8. Obtained' = Obtained
  BY <1>1, <1>2, <1>3, ObtainedLemma DEF Obtained
<1>9. Channel!Accept(n)
  BY <1>2, <1>6, <1>7, <1>8 DEF Channel!Accept, FromHost, Returned, s
<1> QED BY <1>7, <1>9

(* The interrupt routine moves a byte from the ring to the device: the       *)
(* channel does not notice, as the device has room for it.                   *)
LEMMA TxByteStutters ==
    ASSUME ChannelInv, I_TxByte
    PROVE  UNCHANGED Channel!abstractVars
<1>1. /\ tx_buf \in [Index -> Slot] /\ tx_in \in Index /\ tx_out \in Index
      /\ wfifo \in Seq(Slot) /\ tx_in # tx_out /\ tx_out' = Next1(tx_out)
      /\ UNCHANGED <<tx_in, tx_buf, rx_in, rx_out, rx_buf, rfifo, msg, moved, got, pc, k, ret>>
  BY MappedTypes DEF I_TxByte, ChannelInv, IInv, TypeOK, WriteData, call
<1> DEFINE c == Contents(tx_buf, tx_in, tx_out)
<1>2. /\ c \in Seq(Slot) /\ 1 <= Len(c) /\ c[1] = tx_buf[tx_out]
      /\ Contents(tx_buf, tx_in, Next1(tx_out)) = SubSeq(c, 2, Len(c))
  <2>1. Used(tx_in, tx_out) >= 1
    BY <1>1, DriverAssumption, SMT DEF Used, Index
  <2>2. tx_out + 1 <= BUF_LEN /\ tx_out + 1 - 1 = tx_out
    BY <1>1, DriverAssumption, SMT DEF Index
  <2>3. /\ 1 <= Len(c) /\ \A j \in 1..1 : c[j] = tx_buf[tx_out + j - 1]
        /\ Contents(tx_buf, tx_in, (tx_out + 1) % BUF_LEN) = SubSeq(c, 1 + 1, Len(c))
    BY <1>1, <2>1, <2>2, TakenLemma
  <2>4. c \in Seq(Slot)
    BY <1>1, ContentsLemma
  <2> HIDE DEF c
  <2> QED BY <2>2, <2>3, <2>4 DEF Next1
<1> HIDE DEF c
<1>3. wfifo' = Append(wfifo, c[1])
  <2>1. Len(wfifo) < FifoDepth
    BY FifoLemma, HwAssumption, SMT DEF I_TxByte, ChannelInv, IInv, TypeOK, HwTypeOK, NoTxOverflow, wspace
  <2> QED BY <1>2, <2>1 DEF I_TxByte, WriteData
<1>4. Append(wfifo, c[1]) \o SubSeq(c, 2, Len(c)) = wfifo \o c
  <2>1. c[1] \in Slot /\ SubSeq(c, 2, Len(c)) \in Seq(Slot) /\ <<c[1]>> \in Seq(Slot)
    BY <1>2, SMT
  <2>2. Append(wfifo, c[1]) = wfifo \o <<c[1]>>
    BY <1>1, <2>1, AppendIsConcat
  <2>3. <<c[1]>> \o SubSeq(c, 2, Len(c)) = c
    <3>1. /\ 1 \in 1..Len(c) /\ Len(c) \in 1..Len(c) /\ SubSeq(c, 1, Len(c)) = c
          /\ SubSeq(c, 1, Len(c)) = <<c[1]>> \o SubSeq(c, 1 + 1, Len(c))
      <4>1. 1 \in 1..Len(c) /\ Len(c) \in 1..Len(c)
        BY <1>2, LenProperties, SMT
      <4> QED BY <1>2, <4>1, SubSeqFull, SubSeqRecursiveFirst
    <3>2. 1 + 1 = 2
      OBVIOUS
    <3> QED BY <3>1, <3>2
  <2>4. (wfifo \o <<c[1]>>) \o SubSeq(c, 2, Len(c)) = wfifo \o (<<c[1]>> \o SubSeq(c, 2, Len(c)))
    <3> DEFINE h == <<c[1]>>
               r == SubSeq(c, 2, Len(c))
    <3>1. wfifo \in Seq(Slot) /\ h \in Seq(Slot) /\ r \in Seq(Slot)
      BY <1>1, <2>1
    <3> HIDE DEF h, r
    <3>2. (wfifo \o h) \o r = wfifo \o (h \o r)
      BY <3>1, ConcatAssociative, SMTT(30)
    <3> QED BY <3>2 DEF h, r
  <2> QED BY <2>2, <2>3, <2>4
<1>5. ToHost' = ToHost
  BY <1>1, <1>2, <1>3, <1>4 DEF ToHost, c
<1>6. FromHost' = FromHost /\ Obtained' = Obtained /\ Returned' = Returned
  BY <1>1 DEF FromHost, Obtained, Returned
<1> QED BY <1>1, <1>5, <1>6 DEF Channel!abstractVars

(* The interrupt routine moves a byte from the device to the ring, which the *)
(* channel does not notice; a read of an empty device moves none.            *)
LEMMA RxByteStutters ==
    ASSUME ChannelInv, I_RxByte
    PROVE  UNCHANGED Channel!abstractVars
<1>1. /\ rx_buf \in [Index -> Slot] /\ rx_in \in Index /\ rx_out \in Index
      /\ rfifo \in Seq(Slot)
      /\ UNCHANGED <<tx_in, tx_buf, tx_out, rx_out, wfifo, msg, moved, got, pc, k, ret>>
  BY MappedTypes DEF I_RxByte, ChannelInv, IInv, TypeOK, ReadData, call
<1>2. ToHost' = ToHost /\ Obtained' = Obtained /\ Returned' = Returned
  BY <1>1 DEF ToHost, Obtained, Returned
<1>3. CASE rfifo = <<>>
  BY <1>1, <1>2, <1>3, StutterLemma DEF I_RxByte, ReadData
<1>4. CASE rfifo # <<>>
  <2> DEFINE h == Head(rfifo)
             c == Contents(rx_buf, rx_in, rx_out)
  <2>1. /\ h \in Slot /\ Tail(rfifo) \in Seq(Slot) /\ <<h>> \in Seq(Slot)
        /\ <<h>> \o Tail(rfifo) = rfifo
    BY <1>1, <1>4, SMT
  <2> HIDE DEF h
  <2>2. /\ rx_buf' = [rx_buf EXCEPT ![rx_in] = h] /\ rx_in' = Next1(rx_in)
        /\ rfifo' = Tail(rfifo) /\ Next1(rx_in) # rx_out
    BY <1>4 DEF I_RxByte, ReadData, RxFull, h
  <2>3. rx_buf' \in [Index -> Slot] /\ rx_buf'[rx_in] = h
    BY <1>1, <2>1, <2>2
  <2>4. Contents(rx_buf', rx_in, rx_out) = c
    <3>1. ~Live(rx_in, rx_in, rx_out)
      BY <1>1, SMT DEF Live, Index
    <3>2. \A x \in Index : Live(x, rx_in, rx_out) => rx_buf'[x] = rx_buf[x]
      BY <1>1, <2>2, <3>1
    <3> QED BY <1>1, <2>3, <3>2, ContentsKept, Zenon
  <2>5. Contents(rx_buf', rx_in', rx_out) = c \o <<h>>
    <3>1. 1 + Used(rx_in, rx_out) < BUF_LEN /\ rx_in + 1 <= BUF_LEN
      BY <1>1, <2>2, NextLemma, DriverAssumption, SMT DEF Used, Index
    <3>2. Len(<<h>>) = 1 /\ 1 \in Nat /\ \A j \in 1..1 : <<h>>[j] = rx_buf'[rx_in + j - 1]
      <4>1. rx_in + 1 - 1 = rx_in /\ \A j \in 1..1 : j = 1
        BY <1>1, SMT DEF Index
      <4>2. Len(<<h>>) = 1 /\ <<h>>[1] = h
        OBVIOUS
      <4> QED BY <2>3, <4>1, <4>2
    <3>3. Contents(rx_buf', (rx_in + 1) % BUF_LEN, rx_out) = Contents(rx_buf', rx_in, rx_out) \o <<h>>
      BY <1>1, <2>1, <2>3, <3>1, <3>2, AddedLemma, ZenonT(60)
    <3> QED BY <2>2, <2>4, <3>3 DEF Next1
  <2>6. c \in Seq(Slot)
    BY <1>1, ContentsLemma
  <2> HIDE DEF c
  <2>7. FromHost' = FromHost
    <3>1. FromHost' = (c \o <<h>>) \o Tail(rfifo) /\ FromHost = c \o rfifo
      BY <1>1, <2>2, <2>5 DEF FromHost, c
    <3>2. (c \o <<h>>) \o Tail(rfifo) = c \o (<<h>> \o Tail(rfifo))
      BY <2>1, <2>6, ConcatAssociative, SMT
    <3> QED BY <2>1, <3>1, <3>2
  <2> QED BY <1>1, <1>2, <2>7 DEF Channel!abstractVars
<1> QED BY <1>3, <1>4

(* The host takes the oldest byte of the device, which is the channel's. *)
LEMMA TakeTakes ==
    ASSUME ChannelInv, HostTake, UNCHANGED driverVars
    PROVE  Channel!HostTakes
<1> DEFINE c == Contents(tx_buf, tx_in, tx_out)
<1>1. /\ wfifo # <<>> /\ wfifo' = Tail(wfifo) /\ wfifo \in Seq(Slot) /\ c \in Seq(Slot)
      /\ UNCHANGED <<rfifo, ring, pc, call>>
  BY MappedTypes DEF HostTake, driverVars, ChannelInv
<1>2. ToHost' = Tail(wfifo) \o c
  BY <1>1 DEF ToHost, ring
<1>3. ToHost = wfifo \o c
  BY DEF ToHost
<1>4. UNCHANGED <<FromHost, Obtained, Returned, msg, moved>>
  BY <1>1 DEF FromHost, Obtained, Returned, ring, call
<1> HIDE DEF c
<1>5. wfifo \o c # <<>> /\ Tail(wfifo \o c) = Tail(wfifo) \o c
  BY <1>1, TailConcat
<1> QED BY <1>2, <1>3, <1>4, <1>5 DEF Channel!HostTakes

(* The host feeds the device; the channel has room if the device has. *)
LEMMA SendSends ==
    ASSUME ChannelInv, NEW c \in HostChar,
           Len(rfifo) < FifoDepth, rfifo' = Append(rfifo, c),
           UNCHANGED <<wfifo, ring, pc, call>>
    PROVE  Channel!HostSends(c)
<1> DEFINE b == Contents(rx_buf, rx_in, rx_out)
<1>1. c \in Slot /\ rfifo \in Seq(Slot) /\ b \in Seq(Slot) /\ <<c>> \in Seq(Slot)
  BY MappedTypes, DriverAssumption DEF ChannelInv, Slot
<1>2. FromHost' = b \o Append(rfifo, c) /\ FromHost = b \o rfifo
  BY DEF FromHost, ring
<1>3. Len(FromHost) < BUF_LEN - 1 + FifoDepth
  <2>1. /\ Len(FromHost) = Used(rx_in, rx_out) + Len(rfifo)
        /\ Used(rx_in, rx_out) \in 0..BUF_LEN-1 /\ Len(rfifo) \in 0..FifoDepth
    BY MappedTypes DEF ChannelInv
  <2> HIDE DEF FromHost
  <2> QED BY <2>1, DriverAssumption, HwAssumption, SMT
<1>4. UNCHANGED <<ToHost, Obtained, Returned, msg, moved>>
  BY DEF ToHost, Obtained, Returned, ring, call
<1> HIDE DEF b
<1>5. b \o Append(rfifo, c) = Append(b \o rfifo, c)
  <2>1. Append(rfifo, c) = rfifo \o <<c>>
    BY <1>1, AppendIsConcat
  <2>2. b \o rfifo \in Seq(Slot)
    BY <1>1, ConcatProperties
  <2>3. Append(b \o rfifo, c) = (b \o rfifo) \o <<c>>
    BY <1>1, <2>2, AppendIsConcat
  <2>4. (b \o rfifo) \o <<c>> = b \o (rfifo \o <<c>>)
    BY <1>1, ConcatAssociative, SMT
  <2> QED BY <2>1, <2>3, <2>4
<1> QED BY <1>2, <1>3, <1>4, <1>5 DEF Channel!HostSends

(* read() passes rx_out over the bytes it copied: they are obtained. *)
LEMMA AdvanceObtains ==
    ASSUME ChannelInv, R_Advance
    PROVE  \E j \in 1..BUF_LEN - 1 + FifoDepth : Channel!Obtain(j)
<1>1. /\ pc = "r_copy" /\ pc' # "r_copy" /\ k = n /\ out = rx_out
      /\ out + n <= BUF_LEN /\ n <= Used(rx_in, rx_out) /\ n \in 1..room /\ n <= Len(got)
      /\ \A j \in 1..n : got[Len(got) - n + j] = rx_buf[out + j - 1]
      /\ rx_out' = (out + n) % BUF_LEN
      /\ UNCHANGED <<wfifo, rfifo, rx_in, tx_in, tx_out, rx_buf, tx_buf, msg, moved, got, ret>>
  BY DEF R_Advance, App, hwVars, ChannelInv, IInv, ChunkShape, ReaderOwnsSlots, Copied
<1>2. /\ rx_buf \in [Index -> Slot] /\ rx_in \in Index /\ rx_out \in Index
      /\ got \in Seq(Char) /\ n \in Nat /\ n > 0 /\ Len(got) \in Nat
  BY <1>1, FifoLemma, SMT DEF ChannelInv, IInv, TypeOK
<1> DEFINE c == Contents(rx_buf, rx_in, rx_out)
           l == Len(got) - n
<1>3. c \in Seq(Slot) /\ rfifo \in Seq(Slot) /\ FromHost \in Seq(Slot)
      /\ Len(FromHost) = Len(c) + Len(rfifo) /\ Len(c) \in 0..BUF_LEN-1 /\ Len(rfifo) \in 0..FifoDepth
  <2>1. Len(c) = Used(rx_in, rx_out)
    BY <1>2, ContentsLemma
  <2> QED BY <2>1, MappedTypes DEF ChannelInv
<1>4. /\ n <= Len(c) /\ \A j \in 1..n : c[j] = rx_buf[rx_out + j - 1]
      /\ Contents(rx_buf, rx_in, (rx_out + n) % BUF_LEN) = SubSeq(c, n + 1, Len(c))
  <2>1. rx_out + n <= BUF_LEN
    BY <1>1
  <2> QED BY <1>1, <1>2, <2>1, TakenLemma
<1> HIDE DEF c
<1>5. n <= Len(FromHost) /\ n \in 1..BUF_LEN - 1 + FifoDepth
  BY <1>2, <1>3, <1>4, DriverAssumption, HwAssumption, SMT
<1>6. FromHost = c \o rfifo /\ FromHost' = SubSeq(c, n + 1, Len(c)) \o rfifo
  BY <1>1, <1>4 DEF FromHost, c
<1>7. FromHost' = SubSeq(FromHost, n + 1, Len(FromHost))
  BY <1>2, <1>3, <1>4, <1>6, DropConcat
<1>8. SubSeq(FromHost, 1, n) = SubSeq(c, 1, n)
  <2>1. 1 \in 1..Len(c) /\ n \in 1..Len(c)
    BY <1>2, <1>3, <1>4, SMT
  <2> QED BY <1>3, <1>6, <2>1, SubSeqOfConcat1
<1>9. got \in Seq(Slot) /\ l \in 0..Len(got) /\ l + n = Len(got)
  <2>1. got \in Seq(Slot)
    BY <1>2, SeqMonotonic DEF Slot
  <2> QED BY <1>1, <1>2, <2>1, SMT
<1>10. got = SubSeq(got, 1, l) \o SubSeq(c, 1, n)
  <2>1. \A j \in 1..n : got[l + j] = c[j]
    BY <1>1, <1>4
  <2> HIDE DEF l
  <2> QED BY <1>2, <1>3, <1>4, <1>9, <2>1, SplitLemma
<1>11. Obtained = SubSeq(got, 1, l)
  BY <1>1 DEF Obtained
<1>12. Obtained' = got
  BY <1>1, <1>2, ObtainedLemma DEF Obtained
<1>13. UNCHANGED <<ToHost, Returned, msg, moved>>
  BY <1>1 DEF ToHost, Returned
<1>14. Channel!Obtain(n)
  BY <1>5, <1>7, <1>8, <1>10, <1>11, <1>12, <1>13 DEF Channel!Obtain
<1> QED BY <1>5, <1>14

(* A call returns with the count of the bytes it moved, or with an error.    *)
LEMMA ReturnsFinish ==
    ASSUME ChannelInv, W_End \/ R_End \/ R_Set \/ C_Return
    PROVE  Channel!Finish
<1>1. /\ msg' = <<>> /\ moved' = 0 /\ got' = <<>> /\ pc' = "idle"
      /\ pc # "r_copy"
      /\ UNCHANGED <<wfifo, rfifo, ring>>
  BY DEF W_End, R_End, R_Set, C_Return, Return, App, hwVars, SetEnables, WriteControl
<1>2. got \in Seq(Char) /\ <<>> \in Seq(Char) /\ Len(got) \in Nat /\ Len(<<>>) = 0 /\ moved \in Nat
  BY FifoLemma, EmptySeq DEF ChannelInv, IInv, TypeOK
<1>3. Obtained' = <<>> /\ Obtained = got
  BY <1>1, <1>2, ObtainedLemma DEF Obtained
<1>4. UNCHANGED <<ToHost, FromHost>>
  BY <1>1 DEF ToHost, FromHost, ring
<1>5. Returned' = IF moved > 0 THEN moved ELSE Len(got)
  <2>1. CASE W_End
    <3>1. got = <<>> /\ ret' = IF moved > 0 THEN moved ELSE IF nonblock THEN EWOULDBLOCK ELSE EIO
      BY <2>1 DEF W_End, App, ChannelInv, CallLocals, WritePcs, ReadPcs
    <3> QED BY <3>1, <1>2, SMT DEF Returned, EWOULDBLOCK, EIO
  <2>2. CASE R_End
    <3>1. moved = 0 /\ got = <<>> /\ ret' = IF nonblock THEN EWOULDBLOCK ELSE EIO
      BY <2>2 DEF R_End, App, ChannelInv, CallLocals, WritePcs, ReadPcs
    <3> QED BY <3>1, <1>2, SMT DEF Returned, EWOULDBLOCK, EIO
  <2>3. CASE C_Return
    <3>1. moved = 0 /\ got = <<>> /\ (ret' = EWOULDBLOCK \/ ret' = 0)
      BY <2>3 DEF C_Return, App, ChannelInv, CallLocals, WritePcs, ReadPcs
    <3> QED BY <3>1, <1>2, SMT DEF Returned, EWOULDBLOCK
  <2>4. CASE R_Set
    <3>1. moved = 0 /\ ret' = Len(got)
      BY <2>4 DEF R_Set, App, ChannelInv, CallLocals, WritePcs, ReadPcs
    <3> QED BY <3>1, <1>2, SMT DEF Returned
  <2> QED BY <2>1, <2>2, <2>3, <2>4
<1> QED BY <1>1, <1>3, <1>4, <1>5 DEF Channel!Finish

(* The steps that move no byte between the ends of a channel. *)
LEMMA OthersStutter ==
    ASSUME ChannelInv,
           \/ W_Snap \/ W_Copy \/ W_Kick \/ W_Set \/ W_SpinExit \/ W_Check
           \/ R_Snap \/ R_Copy \/ R_SpinExit \/ R_Check \/ R_Rearm
           \/ IsrEnter \/ I_Control \/ I_RxFull \/ I_RxEnd \/ I_TxEnd
           \/ Timeout \/ (HostPause /\ UNCHANGED driverVars) \/ UNCHANGED vars
    PROVE  UNCHANGED Channel!abstractVars
<1>0. got \in Seq(Char) /\ Len(got) \in Nat /\ k \in Nat
  BY FifoLemma DEF ChannelInv, IInv, TypeOK
<1>1. CASE W_Copy
  <2>1. /\ UNCHANGED <<wfifo, rfifo, rx_in, rx_out, tx_in, tx_out, rx_buf, msg, moved, got, pc, ret>>
        /\ pc = "w_copy" /\ tx_buf' = [tx_buf EXCEPT ![in + k] = msg[k + 1]]
    BY <1>1 DEF W_Copy, App, hwVars
  <2>2. /\ tx_buf \in [Index -> Slot] /\ tx_in \in Index /\ tx_out \in Index
        /\ in = tx_in /\ in + n <= BUF_LEN /\ n + Used(tx_in, tx_out) < BUF_LEN
        /\ k < n /\ n \in 1..Len(msg) /\ msg \in Seq(Char) /\ Len(msg) \in Nat
    BY <1>1, <2>1, FifoLemma DEF W_Copy, ChannelInv, IInv, TypeOK, ChunkShape, WriterOwnsSlots
  <2>3. msg[k + 1] \in Slot /\ in + k \in Index /\ ~Live(in + k, tx_in, tx_out)
    <3>1. k + 1 \in 1..Len(msg)
      BY <1>0, <2>2, SMT
    <3>2. in + k \in Index /\ ~Live(in + k, tx_in, tx_out)
      BY <1>0, <2>2, DriverAssumption, SMT DEF Live, Used, Index
    <3> QED BY <2>2, <3>1, <3>2, ElementOfSeq DEF Slot
  <2>4. /\ tx_buf' \in [Index -> Slot]
        /\ \A x \in Index : Live(x, tx_in, tx_out) => tx_buf'[x] = tx_buf[x]
    BY <2>1, <2>2, <2>3
  <2>5. Contents(tx_buf', tx_in, tx_out) = Contents(tx_buf, tx_in, tx_out)
    BY <2>2, <2>4, ContentsKept, Zenon
  <2>6. UNCHANGED <<ToHost, FromHost, Obtained, Returned>>
    BY <2>1, <2>5 DEF ToHost, FromHost, Obtained, Returned
  <2> QED BY <2>1, <2>6 DEF Channel!abstractVars
<1>2. CASE R_Copy
  <2>1. /\ UNCHANGED <<wfifo, rfifo, rx_in, rx_out, tx_in, tx_out, rx_buf, tx_buf, msg, moved, pc, ret>>
        /\ pc = "r_copy" /\ got' = Append(got, rx_buf[out + k]) /\ k' = k + 1
    BY <1>2 DEF R_Copy, App, hwVars, ring
  <2>2. got \in Seq(Slot) /\ rx_buf[out + k] \in Slot /\ k <= Len(got)
    <3>1. out + k \in Index
      BY <1>0, <1>2, <2>1, DriverAssumption, SMT
         DEF R_Copy, ChannelInv, IInv, TypeOK, ChunkShape, ReaderOwnsSlots, Index
    <3>2. rx_buf \in [Index -> Slot] /\ got \in Seq(Slot)
      BY SeqMonotonic DEF ChannelInv, IInv, TypeOK, Slot
    <3> QED BY <2>1, <3>1, <3>2 DEF ChannelInv, IInv, ChunkShape
  <2>3. SubSeq(got', 1, Len(got') - k') = SubSeq(got, 1, Len(got) - k)
    BY <1>0, <2>1, <2>2, PrefixLemma
  <2>4. UNCHANGED <<Obtained, Returned>>
    BY <2>1, <2>3 DEF Obtained, Returned
  <2> QED BY <2>1, <2>4, StutterLemma
<1>3. CASE W_Snap \/ W_Kick \/ W_Set \/ W_SpinExit \/ W_Check
  <2>1. /\ UNCHANGED <<wfifo, rfifo, rx_in, rx_out, tx_in, tx_out, rx_buf, tx_buf, msg, moved, got, ret>>
        /\ pc # "r_copy" /\ pc' # "r_copy"
    BY <1>3 DEF W_Snap, W_Kick, W_Set, W_SpinExit, W_Check, App, hwVars, ring, SetEnables, WriteControl, call
  <2>2. UNCHANGED <<Obtained, Returned>>
    BY <2>1 DEF Obtained, Returned
  <2> QED BY <2>1, <2>2, StutterLemma
<1>4. CASE R_Snap \/ R_SpinExit \/ R_Check \/ R_Rearm
  <2>1. /\ UNCHANGED <<wfifo, rfifo, rx_in, rx_out, tx_in, tx_out, rx_buf, tx_buf, msg, moved, got, ret>>
        /\ pc # "r_copy" /\ (pc' = "r_copy" => k' = 0)
    BY <1>4 DEF R_Snap, R_SpinExit, R_Check, R_Rearm, App, hwVars, ring, call
  <2>2. UNCHANGED <<Obtained, Returned>>
    BY <2>1 DEF Obtained, Returned
  <2> QED BY <2>1, <2>2, StutterLemma
<1>5. CASE \/ IsrEnter \/ I_Control \/ I_RxFull \/ I_RxEnd \/ I_TxEnd
           \/ Timeout \/ (HostPause /\ UNCHANGED driverVars) \/ UNCHANGED vars
  <2>1. UNCHANGED <<wfifo, rfifo, rx_in, rx_out, tx_in, tx_out, rx_buf, tx_buf, msg, moved, got, ret, pc, k>>
    BY <1>5 DEF IsrEnter, I_Control, I_RxFull, I_RxEnd, I_TxEnd, Timeout, HostPause, vars, driverVars,
       hwVars, ring, call, SetEnables, WriteControl
  <2>2. UNCHANGED <<Obtained, Returned>>
    BY <2>1 DEF Obtained, Returned
  <2> QED BY <2>1, <2>2, StutterLemma
<1> QED BY <1>1, <1>2, <1>3, <1>4, <1>5

---------------------------------------------------------------------------
(* The theorem.                                                              *)

(* Every step of the driver, the device and the host is a step of the        *)
(* channels, or leaves them as they are.                                     *)
LEMMA StepImplements ==
    ASSUME ChannelInv, ChannelInv', [Next]_vars
    PROVE  [Channel!ChannelNext]_(Channel!abstractVars)
<1>1. CASE Calls
  BY <1>1, CallsStart DEF Channel!ChannelNext
<1>2. CASE W_Advance \/ R_Advance
  BY <1>2, AdvanceAccepts, AdvanceObtains DEF Channel!ChannelNext
<1>3. CASE I_TxByte \/ I_RxByte
  BY <1>3, TxByteStutters, RxByteStutters
<1>4. CASE W_End \/ R_End \/ R_Set \/ C_Return
  BY <1>4, ReturnsFinish DEF Channel!ChannelNext
<1>5. CASE I_RxLate
  <2>1. PICK c \in HostChar : ReadDataAsSent(c)
    BY <1>5 DEF I_RxLate
  <2>2. /\ rfifo = <<>> /\ rfifo' = <<c>> /\ Append(<<>>, c) = <<c>> /\ Len(<<>>) = 0
        /\ UNCHANGED <<wfifo, ring, pc, call>>
    BY <1>5, <2>1, SMT DEF I_RxLate, ReadDataAsSent
  <2>3. Len(rfifo) < FifoDepth
    BY <2>2, HwAssumption, SMT
  <2>4. Channel!HostSends(c)
    BY <2>2, <2>3, SendSends
  <2> QED BY <2>4 DEF Channel!ChannelNext
<1>6. CASE (\E c \in HostChar : HostSend(c)) /\ UNCHANGED driverVars
  <2>1. PICK c \in HostChar : HostSend(c)
    BY <1>6
  <2>2. Channel!HostSends(c)
    BY <1>6, <2>1, SendSends DEF HostSend, driverVars
  <2> QED BY <2>2 DEF Channel!ChannelNext
<1>7. CASE HostTake /\ UNCHANGED driverVars
  BY <1>7, TakeTakes DEF Channel!ChannelNext
<1>8. CASE \/ W_Snap \/ W_Copy \/ W_Kick \/ W_Set \/ W_SpinExit \/ W_Check
           \/ R_Snap \/ R_Copy \/ R_SpinExit \/ R_Check \/ R_Rearm
           \/ IsrEnter \/ I_Control \/ I_RxFull \/ I_RxEnd \/ I_TxEnd
           \/ Timeout \/ (HostPause /\ UNCHANGED driverVars) \/ UNCHANGED vars
  BY <1>8, OthersStutter
<1>9. CASE HostStep
  BY <1>6, <1>7, <1>8, <1>9 DEF HostStep
<1>10. CASE AppStep \/ IsrStep
  BY <1>2, <1>3, <1>4, <1>5, <1>8, <1>10 DEF AppStep, IsrStep
<1> QED BY <1>1, <1>8, <1>9, <1>10 DEF Next

(* The rings and the FIFOs are empty at first. *)
LEMMA InitImplements == Init => Channel!ChannelInit
<1> SUFFICES ASSUME Init PROVE Channel!ChannelInit
  OBVIOUS
<1>1. tx_in \in Index /\ Used(0, 0) = 0
  BY DriverAssumption, SMT DEF Init, Index, Used
<1>2. ToHost = <<>> /\ FromHost = <<>>
  BY <1>1, SMT DEF Init, ToHost, FromHost, Contents
<1>3. Obtained = <<>>
  BY SMT DEF Init, Obtained
<1> QED BY <1>2, <1>3, SMT DEF Init, Channel!ChannelInit, Returned

(* write() and read() are the ends of two first-in first-out channels:       *)
(* whatever the interleaving of the application, the interrupt routine, the  *)
(* alarm and the host, no byte is lost, duplicated, reordered or invented,   *)
(* and the counts returned are those of the bytes moved (read.c:72-198,      *)
(* write.c:75-214, init.c:105-197).                                          *)
THEOREM DriverImplementsChannel == Spec => ChannelSafety
<1>1. Init => ChannelInv
  BY InitIInv, InitLocals DEF ChannelInv
<1>2. Spec => []ChannelInv
  BY <1>1, StepKeepsChannelInv, PTL DEF Spec
<1>3. ChannelInv /\ ChannelInv' /\ [Next]_vars => [Channel!ChannelNext]_(Channel!abstractVars)
  BY StepImplements
<1>4. QED
  BY <1>2, <1>3, InitImplements, PTL DEF Spec, ChannelSafety, Channel!ChannelSpec

---------------------------------------------------------------------------
(* The firmware.                                                             *)

(* The firmware uses the driver as any program may: taking the timer from    *)
(* the alarm takes steps from the driver and adds none (main.c:179-193,      *)
(* alt_sys_init.c:99).                                                       *)
THEOREM FirmwareUsesDriver == SysInit /\ [][SysNext]_sysVars => Spec
<1>1. SysInit => Init
  BY DEF SysInit
<1>2. [SysNext]_sysVars => [Next]_vars
  <2> SUFFICES ASSUME [SysNext]_sysVars PROVE [Next]_vars
    OBVIOUS
  <2>1. CASE TimerInit
    BY <2>1, Zenon DEF TimerInit
  <2>2. CASE Tick
    BY <2>2, Zenon DEF Tick, Next
  <2>3. CASE CpuStep
    <3>1. CASE MainCalls
      <4>1. TRUE \in BOOLEAN /\ FALSE \in BOOLEAN
        OBVIOUS
      <4>2. Calls
        BY <3>1, <4>1, Zenon DEF MainCalls, Calls
      <4> QED BY <4>2, Zenon DEF Next
    <3> QED BY <2>3, <3>1, Zenon DEF CpuStep, Next
  <2>4. CASE IsrEnter \/ IsrStep \/ HostStep
    BY <2>4, Zenon DEF Next
  <2>5. CASE UNCHANGED sysVars
    BY <2>5, Zenon DEF sysVars
  <2> QED BY <2>1, <2>2, <2>3, <2>4, <2>5, Zenon DEF SysNext
<1> QED BY <1>1, <1>2, PTL DEF Spec

(* So what is proved of the driver holds of the firmware, with the alarm and *)
(* without it: no byte is lost, duplicated or reordered between main and the *)
(* host, no wake-up is lost, nothing is overwritten or dropped.              *)
THEOREM FirmwareKeepsDriver ==
    SysInit /\ [][SysNext]_sysVars =>
        /\ ChannelSafety
        /\ [](WriterOwnsSlots /\ ReaderOwnsSlots /\ NoTxOverflow /\ TxKicked /\ RxRearmed)
        /\ OwnEnableOnly
<1>1. IInv => WriterOwnsSlots /\ ReaderOwnsSlots /\ NoTxOverflow /\ TxKicked /\ RxRearmed
  BY DEF IInv
<1> QED BY <1>1, FirmwareUsesDriver, DriverInvariant, DriverImplementsChannel,
       EnablesNotConfused, PTL

(* A host that is gone and has not been given up when main takes the timer   *)
(* is never given up: only the alarm counts its absence, and it no longer    *)
(* runs (init.c:86-90, main.c:179-193).                                      *)
Waiting == timer0Isr = "get_accler_isr" /\ host_inactive < timeout

THEOREM AbsenceUnnoticed == SysInit /\ [][SysNext]_sysVars => [](Waiting => []Waiting)
<1>1. Waiting /\ [SysNext]_sysVars => Waiting'
  <2> SUFFICES ASSUME Waiting, [SysNext]_sysVars PROVE Waiting'
    OBVIOUS
  <2>1. timer0Isr = "get_accler_isr" /\ timer0Isr # "alt_avalon_timer_sc_irq"
    BY DEF Waiting
  <2>2. ~TimerInit /\ ~Tick
    BY <2>1, Zenon DEF TimerInit, Tick
  <2>3. timer0Isr' = timer0Isr
    BY <2>2, Zenon DEF SysNext, sysVars
  <2>4. host_inactive' = host_inactive /\ timeout' = timeout
    <3>1. CASE MainCalls
      BY <3>1 DEF MainCalls, ReadCall, WriteCall, driver
    <3>2. CASE AppStep
      BY <3>2 DEF AppStep, W_Snap, W_Copy, W_Advance, W_Kick, W_Set, W_SpinExit, W_Check, W_End,
                  R_Snap, R_Copy, R_Advance, R_SpinExit, R_Check, R_End, R_Rearm, R_Set, C_Return, driver, SetEnables
    <3>3. CASE IsrEnter
      BY <3>3 DEF IsrEnter, driver
    <3>4. CASE IsrStep
      BY <3>4 DEF IsrStep, I_Control, I_RxByte, I_RxLate, I_RxFull, I_RxEnd, I_TxByte, I_TxEnd,
                  driver, SetEnables
    <3>5. CASE HostStep
      BY <3>5 DEF HostStep, driverVars, driver
    <3>6. CASE UNCHANGED sysVars
      BY <3>6 DEF sysVars, vars, driver
    <3> QED BY <2>2, <3>1, <3>2, <3>3, <3>4, <3>5, <3>6, Zenon DEF SysNext, CpuStep
  <2> QED BY <2>3, <2>4 DEF Waiting
<1> QED BY <1>1, PTL
=============================================================================
