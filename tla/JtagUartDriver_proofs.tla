----------------------- MODULE JtagUartDriver_proofs -----------------------
(* Proofs about the JTAG UART driver, for every ring size, every FIFO depth *)
(* and threshold, every alphabet and every set of messages.  The inductive  *)
(* invariant IInv is preserved in three parts: the types, the contents of   *)
(* the live slots, and the rest; each part may use all of IInv.             *)
EXTENDS JtagUartDriver, TLAPS

---------------------------------------------------------------------------
(* Facts about the operators.                                                *)

(* Advancing an index that was in the ring by no more than reaches its end  *)
(* gives an index of the ring (the modulo of read.c:142 and write.c:128).   *)
LEMMA WrapLemma ==
    ASSUME NEW i \in Index, NEW j \in Nat, i + j <= BUF_LEN
    PROVE  (i + j) % BUF_LEN = IF i + j = BUF_LEN THEN 0 ELSE i + j
  BY DriverAssumption, SMT DEF Index

(* The next index, without the modulo. *)
LEMMA NextLemma ==
    ASSUME NEW i \in Index
    PROVE  Next1(i) = IF i + 1 = BUF_LEN THEN 0 ELSE i + 1
<1>1. i \in Nat /\ i + 1 <= BUF_LEN
  BY DriverAssumption, SMT DEF Index
<1> QED BY <1>1, WrapLemma DEF Next1

(* A ring holds fewer bytes than it has slots; giving one up or taking one  *)
(* in changes the count by one.                                             *)
LEMMA UsedLemma ==
    ASSUME NEW i \in Index, NEW o \in Index
    PROVE  /\ Used(i, o) \in 0..BUF_LEN-1
           /\ i # o => Used(i, Next1(o)) = Used(i, o) - 1
           /\ Next1(i) # o => Used(i, o) <= Used(Next1(i), o)
<1>1. Next1(i) = IF i + 1 = BUF_LEN THEN 0 ELSE i + 1
  BY NextLemma
<1>2. Next1(o) = IF o + 1 = BUF_LEN THEN 0 ELSE o + 1
  BY NextLemma
<1> QED BY DriverAssumption, <1>1, <1>2, SMT DEF Used, Index

(* The order of the naturals, cited where the context is large. *)
LEMMA LeqLemma ==
    ASSUME NEW x \in Nat, NEW y \in Nat, NEW z \in Nat, x <= y, y <= z
    PROVE  x <= z
  OBVIOUS

(* Putting a byte at the back of a FIFO or taking one from its front. *)
LEMMA FifoLemma ==
    ASSUME NEW s \in Seq(Char)
    PROVE  /\ Len(s) \in Nat
           /\ \A c : Len(Append(s, c)) = Len(s) + 1
           /\ s # <<>> => Len(Tail(s)) = Len(s) - 1
  OBVIOUS

(* What write() copies is contiguous and leaves one slot free. *)
LEMMA WriteRoomLemma ==
    ASSUME NEW i \in Index, NEW o \in Index, NEW len \in Nat
    PROVE  LET m == Least(WriteRoom(i, o), len)
           IN  m \in 0..len /\ i + m <= BUF_LEN /\ m + Used(i, o) < BUF_LEN
  BY DriverAssumption, SMT DEF WriteRoom, Used, Index, Least

(* What read() copies is contiguous and unread. *)
LEMMA ReadAvailLemma ==
    ASSUME NEW i \in Index, NEW o \in Index, NEW len \in Nat
    PROVE  LET m == Least(ReadAvail(i, o), len)
           IN  m \in 0..len /\ o + m <= BUF_LEN /\ m <= Used(i, o)
  BY DriverAssumption, SMT DEF ReadAvail, Used, Index, Least

(* Setting the enables keeps the device well typed and changes only them. *)
LEMMA EnablesLemma ==
    ASSUME HwTypeOK, NEW e, e \subseteq {"RE", "WE"}, SetEnables(e)
    PROVE  /\ HwTypeOK' /\ irq_enable' \subseteq {"RE", "WE"}
           /\ rfifo' = rfifo /\ wfifo' = wfifo
<1>2. irq_enable' \subseteq {"RE", "WE"}
  BY DEF SetEnables
<1>3. ien' = irq_enable'
  BY DEF SetEnables, WriteControl
<1>4. ac' \in BOOLEAN
  BY Zenon DEF SetEnables, WriteControl
<1>5. rfifo' = rfifo /\ wfifo' = wfifo /\ pauseIrq' = pauseIrq
  BY DEF SetEnables, WriteControl
<1> QED BY <1>2, <1>3, <1>4, <1>5 DEF HwTypeOK

(* What a returning call leaves in its locals. *)
LEMMA ReturnLemma ==
    ASSUME IInv, Return, ret' \in Int, HwTypeOK', irq_enable' \subseteq {"RE", "WE"},
           UNCHANGED <<host_inactive, timeout, ring, isr>>
    PROVE  TypeOK'
<1>1. nonblock' \in BOOLEAN
  BY Zenon DEF Return
<1>2. msg' \in Seq(Char) /\ got' \in Seq(Char)
  BY SMT DEF Return
<1>3. /\ pc' = "idle" /\ moved' \in Nat /\ room' \in Nat
      /\ in' \in Index /\ out' \in Index /\ n' \in Nat /\ k' \in Nat
      /\ en' = {}
  BY DriverAssumption, SMT DEF Return, Index
<1> QED BY <1>1, <1>2, <1>3 DEF IInv, TypeOK, ring, isr

---------------------------------------------------------------------------
(* The initial state.                                                        *)

(* The state altera_avalon_jtag_uart_init leaves satisfies IInv. *)
LEMMA InitIInv == Init => IInv
<1> SUFFICES ASSUME Init PROVE IInv
  OBVIOUS
<1> USE DriverAssumption, HwAssumption DEF Init
<1>1. HwTypeOK
  <2>1. rfifo \in Seq(Char) /\ wfifo \in Seq(Char) /\ ien \subseteq {"RE", "WE"}
    BY SMT
  <2>2. pauseIrq \in BOOLEAN /\ ac \in BOOLEAN
    BY Zenon
  <2> QED BY <2>1, <2>2 DEF HwTypeOK
<1>2. rx_buf \in [Index -> Slot] /\ tx_buf \in [Index -> Slot]
  BY SMT DEF Slot
<1>3. nonblock \in BOOLEAN /\ wi \in BOOLEAN /\ ravail \in BOOLEAN
  BY Zenon
<1>4. TypeOK
  BY <1>1, <1>2, <1>3, SMT DEF TypeOK, Index, WritePcs, ReadPcs, IsrPcs
<1>5. FifoBounds /\ NoTxOverflow
  BY SMT DEF FifoBounds, NoTxOverflow, wspace
<1>6. ChunkShape /\ WriterOwnsSlots /\ ReaderOwnsSlots /\ PauseMeansData /\ RoundTakes
  BY SMT DEF ChunkShape, WriterOwnsSlots, ReaderOwnsSlots, PauseMeansData, RoundTakes
<1>7. TxKicked /\ RxRearmed /\ SectionHeld
  BY SMT DEF TxKicked, RxRearmed, SectionHeld, Masked
<1>8. LiveSlotsWritten
  BY SMT DEF LiveSlotsWritten, Live, Index
<1> QED BY <1>4, <1>5, <1>6, <1>7, <1>8 DEF IInv

---------------------------------------------------------------------------
(* Types.                                                                    *)

(* The steps of write() keep the types. *)
LEMMA WriteTypes ==
    ASSUME IInv,
           \/ \E m \in Messages, nb \in BOOLEAN : WriteCall(m, nb)
           \/ W_Snap \/ W_Copy \/ W_Advance \/ W_Kick \/ W_Set \/ W_SpinExit \/ W_Check \/ W_End
    PROVE  TypeOK'
<1> USE DriverAssumption DEF IInv, TypeOK, HwTypeOK, App, WritePcs,
                             hwVars, driver, ring, call, isr
<1>1. ASSUME NEW m \in Messages, NEW nb \in BOOLEAN, WriteCall(m, nb) PROVE TypeOK'
  BY <1>1 DEF WriteCall
<1>2. CASE W_Snap
  <2> USE <1>2 DEF W_Snap
  <2>1. CASE msg = <<>>
    BY <2>1
  <2>2. CASE msg # <<>>
    <3>1. n' = Least(WriteRoom(tx_in, tx_out), Len(msg)) /\ in' = tx_in /\ out' = tx_out /\ k' = 0
      BY <2>2
    <3>2. WriteRoom(tx_in, tx_out) \in Nat
      BY SMT DEF WriteRoom, Index
    <3>3. n' \in Nat
      BY <3>1, <3>2, SMT DEF Least
    <3>4. pc' \in {"w_kick", "w_copy"}
      BY <2>2
    <3> QED BY <3>1, <3>3, <3>4
  <2> QED BY <2>1, <2>2
<1>3. CASE W_Copy
  <2> USE <1>3 DEF W_Copy
  <2>1. msg[k + 1] \in Slot
    BY SMT DEF ChunkShape, Slot
  <2>2. tx_buf' \in [Index -> Slot]
    BY <2>1
  <2> QED BY <2>2
<1>4. CASE W_Advance
  <2> USE <1>4 DEF W_Advance
  <2>1. tx_in' \in Index
    BY WrapLemma, SMT DEF WriterOwnsSlots, Index
  <2>2. msg' \in Seq(Char) /\ moved' \in Nat
    BY SMT DEF ChunkShape
  <2> QED BY <2>1, <2>2
<1>5. CASE W_Kick
  BY <1>5 DEF W_Kick
<1>9. CASE W_Set
  <2>1. HwTypeOK' /\ irq_enable' \subseteq {"RE", "WE"}
    BY <1>9, EnablesLemma DEF W_Set
  <2>2. pc' \in {"w_spin", "w_end"} /\ en' = {}
    BY <1>9 DEF W_Set
  <2> QED BY <1>9, <2>1, <2>2 DEF W_Set
<1>6. CASE W_SpinExit
  BY <1>6 DEF W_SpinExit
<1>7. CASE W_Check
  BY <1>7 DEF W_Check
<1>8. CASE W_End
  <2>1. ret' \in Int
    BY <1>8, SMT DEF W_End, EWOULDBLOCK, EIO
  <2> QED BY <1>8, <2>1, ReturnLemma DEF W_End
<1> QED BY <1>1, <1>2, <1>3, <1>4, <1>5, <1>6, <1>7, <1>8, <1>9

(* The steps of read(), close() and ioctl() keep the types. *)
LEMMA ReadTypes ==
    ASSUME IInv,
           \/ \E s \in Spaces, nb \in BOOLEAN : ReadCall(s, nb)
           \/ R_Snap \/ R_Copy \/ R_Advance \/ R_SpinExit \/ R_Check \/ R_End
           \/ R_Rearm \/ R_Set
           \/ \E nb \in BOOLEAN : CloseCall(nb)
           \/ C_Return
           \/ \E t \in Timeouts : SetTimeout(t)
    PROVE  TypeOK'
<1> USE DriverAssumption DEF IInv, TypeOK, HwTypeOK, App, ReadPcs,
                             hwVars, driver, ring, call, isr
<1>1. ASSUME NEW s \in Spaces, NEW nb \in BOOLEAN, ReadCall(s, nb) PROVE TypeOK'
  BY <1>1 DEF ReadCall
<1>2. CASE R_Snap
  <2> USE <1>2 DEF R_Snap
  <2>1. n' = Least(ReadAvail(rx_in, rx_out), room) /\ in' = rx_in /\ out' = rx_out /\ k' = 0
    OBVIOUS
  <2>2. ReadAvail(rx_in, rx_out) \in Nat
    BY SMT DEF ReadAvail, Index
  <2>3. n' \in Nat
    BY <2>1, <2>2, SMT DEF Least
  <2>4. pc' \in {"r_copy", "r_end", "r_spin"}
    OBVIOUS
  <2> QED BY <2>1, <2>3, <2>4
<1>3. CASE R_Copy
  <2> USE <1>3 DEF R_Copy
  <2>1. out + k \in Index /\ out <= out + k /\ out + k < out + n
    BY SMT DEF Index, ChunkShape, ReaderOwnsSlots
  <2>2. Live(out + k, rx_in, rx_out)
    BY <2>1, SMT DEF Live, ReaderOwnsSlots, Used, Index
  <2>3. rx_buf[out + k] \in Char
    BY <2>1, <2>2 DEF LiveSlotsWritten
  <2>4. got' \in Seq(Char) /\ k' \in Nat
    BY <2>3, SMT
  <2> QED BY <2>4
<1>4. CASE R_Advance
  <2> USE <1>4 DEF R_Advance
  <2>1. rx_out' \in Index
    BY WrapLemma, SMT DEF ReaderOwnsSlots, Index
  <2>2. room' \in Nat
    BY SMT DEF ChunkShape
  <2>3. pc' \in {"r_snap", "r_end"}
    OBVIOUS
  <2> QED BY <2>1, <2>2, <2>3
<1>5. CASE R_SpinExit
  BY <1>5 DEF R_SpinExit
<1>6. CASE R_Check
  BY <1>6 DEF R_Check
<1>7. CASE R_End
  <2>1. ret' \in Int
    BY <1>7, SMT DEF R_End, EWOULDBLOCK, EIO
  <2> QED BY <1>7, <2>1, ReturnLemma DEF R_End
<1>11. CASE R_Rearm
  BY <1>11 DEF R_Rearm
<1>12. CASE R_Set
  <2>1. HwTypeOK' /\ irq_enable' \subseteq {"RE", "WE"}
    BY <1>12, EnablesLemma DEF R_Set
  <2>2. ret' \in Int
    BY <1>12, FifoLemma, SMT DEF R_Set
  <2> QED BY <1>12, <2>1, <2>2, ReturnLemma DEF R_Set
<1>8. ASSUME NEW nb \in BOOLEAN, CloseCall(nb) PROVE TypeOK'
  BY <1>8 DEF CloseCall
<1>9. CASE C_Return
  <2>1. ret' \in Int
    BY <1>9, SMT DEF C_Return, EWOULDBLOCK
  <2> QED BY <1>9, <2>1, ReturnLemma DEF C_Return
<1>10. ASSUME NEW t \in Timeouts, SetTimeout(t) PROVE TypeOK'
  BY <1>10, SMT DEF SetTimeout, ENOTTY
<1> QED BY <1>1, <1>2, <1>3, <1>4, <1>5, <1>6, <1>7, <1>8, <1>9, <1>10,
           <1>11, <1>12

(* The interrupt routine keeps the types. *)
LEMMA IsrTypes ==
    ASSUME IInv, IsrEnter \/ IsrStep
    PROVE  TypeOK'
<1> USE DriverAssumption, HwAssumption
    DEF IInv, TypeOK, HwTypeOK, Isr, IsrPcs, hwVars, driver, ring, call, isr
<1>1. CASE IsrEnter
  BY <1>1 DEF IsrEnter
<1>2. CASE I_Control
  <2>1. space' \in Nat
    BY <1>2, SMT DEF I_Control, wspace, FifoBounds
  <2>2. wi' \in BOOLEAN /\ ravail' \in BOOLEAN
    BY <1>2, Zenon DEF I_Control, ipen_AF, ipen_AE
  <2>3. ipc' \in {"rx", "tx", "idle"}
    BY <1>2 DEF I_Control
  <2> QED BY <1>2, <2>1, <2>2, <2>3 DEF I_Control
<1>3. CASE I_RxByte
  <2> USE <1>3 DEF I_RxByte, ReadData
  <2>1. pauseIrq' \in BOOLEAN /\ ravail' \in BOOLEAN
    <3>1. pauseIrq' \in BOOLEAN
      BY Zenon
    <3>2. ravail' \in BOOLEAN
      BY SMT
    <3> QED BY <3>1, <3>2
  <2>2. CASE rfifo = <<>>
    BY <2>1, <2>2
  <2>3. CASE rfifo # <<>>
    <3>1. Head(rfifo) \in Slot /\ rfifo' \in Seq(Char)
      BY <2>3, SMT DEF Slot
    <3>2. rx_buf' \in [Index -> Slot]
      BY <2>3, <3>1
    <3>3. rx_in' = Next1(rx_in)
      BY <2>3
    <3>4. rx_in' \in Index
      BY <3>3, NextLemma, SMT DEF Index
    <3> QED BY <2>1, <2>3, <3>1, <3>2, <3>4
  <2> QED BY <2>2, <2>3
<1>4. CASE I_RxFull
  BY <1>4 DEF I_RxFull
<1>5. CASE I_RxEnd
  <2>1. HwTypeOK' /\ irq_enable' \subseteq {"RE", "WE"}
    BY <1>5, EnablesLemma, irq_enable \ {"RE"} \subseteq {"RE", "WE"} DEF I_RxEnd
  <2>2. ravail' \in BOOLEAN
    BY <1>5, Zenon DEF I_RxEnd
  <2>3. ipc' \in {"tx", "control"}
    BY <1>5 DEF I_RxEnd
  <2> QED BY <1>5, <2>1, <2>2, <2>3 DEF I_RxEnd
<1>6. CASE I_TxByte
  <2> USE <1>6 DEF I_TxByte
  <2>1. Live(tx_out, tx_in, tx_out)
    BY SMT DEF Live, Index
  <2>2. tx_buf[tx_out] \in Char
    BY <2>1 DEF LiveSlotsWritten
  <2>3. wfifo' \in Seq(Char) /\ UNCHANGED <<ien, rfifo, pauseIrq, ac>>
    BY <2>2, SMT DEF WriteData
  <2>4. tx_out' \in Index /\ space' \in Nat
    BY NextLemma, SMT DEF Index
  <2> QED BY <2>3, <2>4
<1>7. CASE I_TxEnd
  <2>1. HwTypeOK' /\ irq_enable' \subseteq {"RE", "WE"}
    BY <1>7, EnablesLemma, irq_enable \ {"WE"} \subseteq {"RE", "WE"} DEF I_TxEnd
  <2>2. wi' \in BOOLEAN /\ space' \in Nat
    BY <1>7, Zenon DEF I_TxEnd
  <2> QED BY <1>7, <2>1, <2>2 DEF I_TxEnd
<1>8. CASE I_RxLate
  <2> USE <1>8 DEF I_RxLate
  <2>1. PICK c \in HostChar : ReadDataAsSent(c)
    OBVIOUS
  <2>2. rfifo' \in Seq(Char) /\ UNCHANGED <<ien, wfifo>>
    BY <2>1, SMT DEF ReadDataAsSent
  <2>3. pauseIrq' \in BOOLEAN /\ ac' \in BOOLEAN /\ ravail' \in BOOLEAN
    BY <2>1, Zenon DEF ReadDataAsSent
  <2> QED BY <2>2, <2>3
<1> QED BY <1>1, <1>2, <1>3, <1>4, <1>5, <1>6, <1>7, <1>8 DEF IsrStep

(* The alarm and the host keep the types. *)
LEMMA OutsideTypes ==
    ASSUME IInv, Timeout \/ HostStep
    PROVE  TypeOK'
<1> USE DriverAssumption
    DEF IInv, TypeOK, HwTypeOK, hwVars, driver, ring, call, isr, driverVars
<1>1. CASE Timeout
  <2>1. host_inactive' \in {0, host_inactive, host_inactive + 1}
    BY <1>1, Zenon DEF Timeout
  <2>2. /\ ac' \in BOOLEAN /\ ien' \subseteq {"RE", "WE"}
        /\ UNCHANGED <<rfifo, wfifo, pauseIrq>>
    BY <1>1, Zenon DEF Timeout, WriteControl
  <2> QED BY <1>1, <2>1, <2>2 DEF Timeout
<1>2. ASSUME NEW c \in HostChar, HostSend(c), UNCHANGED driverVars PROVE TypeOK'
  <2>1. rfifo' \in Seq(Char)
    BY <1>2, SMT DEF HostSend
  <2>2. ac' \in BOOLEAN
    BY <1>2, Zenon DEF HostSend
  <2> QED BY <1>2, <2>1, <2>2 DEF HostSend
<1>3. ASSUME HostPause, UNCHANGED driverVars PROVE TypeOK'
  <2>1. pauseIrq' \in BOOLEAN /\ ac' \in BOOLEAN
    BY <1>3, Zenon DEF HostPause
  <2> QED BY <1>3, <2>1 DEF HostPause
<1>4. ASSUME HostTake, UNCHANGED driverVars PROVE TypeOK'
  <2>1. wfifo' \in Seq(Char)
    BY <1>4, SMT DEF HostTake
  <2> QED BY <1>4, <2>1 DEF HostTake
<1> QED BY <1>1, <1>2, <1>3, <1>4 DEF HostStep

---------------------------------------------------------------------------
(* The contents of the live slots.                                           *)

(* The steps that leave the rings alone and start no copy: all but six. *)
Quiet == /\ UNCHANGED ring
         /\ pc' = "w_copy" => pc = "w_copy" /\ in' = in /\ k' = k

(* No step lets a slot become live before it is written. *)
LEMMA LiveKept ==
    ASSUME IInv, Next
    PROVE  LiveSlotsWritten'
<1> USE DriverAssumption DEF IInv, TypeOK, HwTypeOK, LiveSlotsWritten
<1>1. CASE W_Snap
  <2>1. UNCHANGED ring /\ (pc' = "w_copy" => k' = 0 /\ in' = tx_in)
    BY <1>1 DEF W_Snap
  <2> QED BY <2>1, SMT DEF ring, Index
<1>2. CASE W_Copy
  <2>1. /\ msg[k + 1] \in Char /\ in + k \in Index
        /\ tx_buf' = [tx_buf EXCEPT ![in + k] = msg[k + 1]]
    BY <1>2, SMT DEF W_Copy, App, ChunkShape, WriterOwnsSlots, Index
  <2>2. \A i \in Index : tx_buf'[i] = IF i = in + k THEN msg[k + 1] ELSE tx_buf[i]
    BY <2>1
  <2>3. /\ k' = k + 1 /\ in' = in /\ pc = "w_copy"
        /\ UNCHANGED <<tx_in, tx_out, rx_in, rx_out, rx_buf>>
    BY <1>2 DEF W_Copy, App, call
  <2>4. \A i \in Index : in <= i /\ i < in + k' => i = in + k \/ (in <= i /\ i < in + k)
    BY <2>3, SMT DEF Index
  <2>5. \A i \in Index : Live(i, tx_in, tx_out) => tx_buf'[i] \in Char
    BY <2>1, <2>2
  <2>6. \A i \in Index : in <= i /\ i < in + k' => tx_buf'[i] \in Char
    BY <2>1, <2>2, <2>3, <2>4
  <2> QED BY <2>3, <2>5, <2>6
<1>3. CASE W_Advance
  <2>1. tx_in' = IF in + n = BUF_LEN THEN 0 ELSE in + n
    BY <1>3, WrapLemma, SMT DEF W_Advance, App, WriterOwnsSlots
  <2>2. /\ k = n /\ pc = "w_copy" /\ pc' = "w_snap" /\ in = tx_in
        /\ in + n <= BUF_LEN /\ n + Used(tx_in, tx_out) < BUF_LEN
        /\ UNCHANGED <<tx_out, rx_in, rx_out, rx_buf, tx_buf>>
    BY <1>3 DEF W_Advance, App, WriterOwnsSlots
  <2>3. \A i \in Index : Live(i, tx_in', tx_out) =>
            Live(i, tx_in, tx_out) \/ (in <= i /\ i < in + k)
    BY <2>1, <2>2, SMT DEF Live, Used, Index
  <2> QED BY <2>2, <2>3
<1>4. CASE R_Advance
  <2>1. rx_out' = IF out + n = BUF_LEN THEN 0 ELSE out + n
    BY <1>4, WrapLemma, SMT DEF R_Advance, App, ReaderOwnsSlots
  <2>2. /\ pc' # "w_copy" /\ out = rx_out
        /\ out + n <= BUF_LEN /\ n <= Used(rx_in, rx_out)
        /\ UNCHANGED <<rx_in, tx_in, tx_out, rx_buf, tx_buf>>
    BY <1>4 DEF R_Advance, App, ReaderOwnsSlots
  <2>3. \A i \in Index : Live(i, rx_in, rx_out') => Live(i, rx_in, rx_out)
    BY <2>1, <2>2, SMT DEF Live, Used, Index
  <2> QED BY <2>2, <2>3
<1>5. CASE I_RxByte
  <2>1. UNCHANGED <<tx_in, tx_out, tx_buf, rx_out, pc, in, k>>
    BY <1>5 DEF I_RxByte, call
  <2>2. CASE rfifo = <<>>
    BY <1>5, <2>1, <2>2 DEF I_RxByte
  <2>3. CASE rfifo # <<>>
    <3>1. /\ Head(rfifo) \in Char /\ rx_in' = Next1(rx_in) /\ Next1(rx_in) # rx_out
          /\ rx_buf' = [rx_buf EXCEPT ![rx_in] = Head(rfifo)]
      BY <1>5, <2>3, SMT DEF I_RxByte, RxFull
    <3>2. \A i \in Index : Live(i, rx_in', rx_out) => i = rx_in \/ Live(i, rx_in, rx_out)
      BY <3>1, NextLemma, SMT DEF Live, Index
    <3>3. \A i \in Index : rx_buf'[i] = IF i = rx_in THEN Head(rfifo) ELSE rx_buf[i]
      BY <3>1
    <3> QED BY <2>1, <3>1, <3>2, <3>3
  <2> QED BY <2>2, <2>3
<1>6. CASE I_TxByte
  <2>1. /\ UNCHANGED <<tx_in, tx_buf, rx_in, rx_out, rx_buf, pc, in, k>>
        /\ tx_out' = Next1(tx_out) /\ tx_out # tx_in
    BY <1>6 DEF I_TxByte, call
  <2>2. \A i \in Index : Live(i, tx_in, tx_out') => Live(i, tx_in, tx_out)
    BY <2>1, NextLemma, SMT DEF Live, Index
  <2> QED BY <2>1, <2>2
<1>7. ASSUME Quiet PROVE LiveSlotsWritten'
  BY <1>7 DEF Quiet, ring
<1>8. CASE Calls
  BY <1>7, <1>8 DEF Calls, Quiet, WriteCall, ReadCall, CloseCall, SetTimeout, App, call
<1>9. CASE W_Kick \/ W_Set \/ W_SpinExit \/ W_Check \/ W_End
  BY <1>7, <1>9 DEF Quiet, W_Kick, W_Set, W_SpinExit, W_Check, W_End, Return
<1>10. CASE \/ R_Snap \/ R_Copy \/ R_SpinExit \/ R_Check \/ R_End
            \/ R_Rearm \/ R_Set \/ C_Return
  BY <1>7, <1>10 DEF Quiet, R_Snap, R_Copy, R_SpinExit, R_Check, R_End, R_Rearm, R_Set,
     C_Return, Return, App, call
<1>11. CASE IsrEnter \/ I_Control \/ I_RxLate \/ I_RxFull \/ I_RxEnd \/ I_TxEnd
  BY <1>7, <1>11 DEF Quiet, IsrEnter, I_Control, I_RxLate, I_RxFull, I_RxEnd, I_TxEnd, call
<1>12. CASE Timeout \/ HostStep
  BY <1>7, <1>12 DEF Quiet, Timeout, HostStep, driverVars, call
<1> QED BY <1>1, <1>2, <1>3, <1>4, <1>5, <1>6, <1>8, <1>9, <1>10, <1>11, <1>12
        DEF Next, AppStep, IsrStep

---------------------------------------------------------------------------
(* The copied regions.                                                       *)

Regions == ChunkShape /\ WriterOwnsSlots /\ ReaderOwnsSlots

(* No step takes slots away from a copy in progress. *)
LEMMA RegionsKept ==
    ASSUME IInv, TypeOK', Next
    PROVE  Regions'
<1> USE DriverAssumption
    DEF IInv, TypeOK, Regions, ChunkShape, WriterOwnsSlots, ReaderOwnsSlots
<1>1. CASE W_Snap
  <2>1. CASE msg = <<>>
    BY <1>1, <2>1, SMT DEF W_Snap
  <2>2. CASE msg # <<>>
    <3> DEFINE m == Least(WriteRoom(tx_in, tx_out), Len(msg))
    <3>1. m \in 0..Len(msg) /\ tx_in + m <= BUF_LEN /\ m + Used(tx_in, tx_out) < BUF_LEN
      BY WriteRoomLemma, SMTT(30)
    <3>2. /\ n' = m /\ in' = tx_in /\ k' = 0
          /\ pc' = IF n' = 0 THEN "w_kick" ELSE "w_copy"
          /\ UNCHANGED <<tx_in, tx_out, msg>>
      BY <1>1, <2>2 DEF W_Snap, ring
    <3> HIDE DEF m
    <3>3. pc' = "w_copy" => n' \in 1..Len(msg') /\ k' \in 0..n'
      BY <3>1, <3>2, SMT
    <3>4. pc' # "r_copy"
      BY <3>2
    <3> QED BY <3>1, <3>2, <3>3, <3>4 DEF Used
  <2> QED BY <2>1, <2>2
<1>2. CASE R_Snap
  <2> DEFINE m == Least(ReadAvail(rx_in, rx_out), room)
  <2>1. m \in 0..room /\ rx_out + m <= BUF_LEN /\ m <= Used(rx_in, rx_out)
    BY ReadAvailLemma
  <2>2. /\ n' = m /\ out' = rx_out /\ k' = 0 /\ got' = got
        /\ pc' = IF n' > 0 THEN "r_copy"
                 ELSE IF got # <<>> \/ nonblock THEN "r_end" ELSE "r_spin"
        /\ UNCHANGED <<rx_in, rx_out, room>>
    BY <1>2 DEF R_Snap, ring
  <2> HIDE DEF m
  <2>3. pc' = "r_copy" => n' \in 1..room' /\ k' \in 0..n' /\ k' <= Len(got')
    BY <2>1, <2>2, SMT
  <2>4. pc' # "w_copy"
    BY <2>2
  <2> QED BY <2>1, <2>2, <2>3, <2>4 DEF Used
<1>3. CASE W_Copy
  BY <1>3, SMT DEF W_Copy, App
<1>4. CASE R_Copy
  <2>1. got' = Append(got, rx_buf[out + k]) /\ Len(got') = Len(got) + 1
    BY <1>4, SMT DEF R_Copy
  <2>2. pc = "r_copy" /\ k < n /\ k' = k + 1
        /\ UNCHANGED <<ring, pc, n, room, out, in, msg>>
    BY <1>4 DEF R_Copy, App
  <2> QED BY <2>1, <2>2, SMT DEF ring
<1>5. CASE I_TxByte
  <2>1. /\ tx_out' = Next1(tx_out) /\ tx_out # tx_in
        /\ UNCHANGED <<pc, call, rx_in, rx_out, tx_in>>
    BY <1>5 DEF I_TxByte
  <2>2. Used(tx_in, tx_out') = Used(tx_in, tx_out) - 1 /\ Used(tx_in, tx_out) \in Nat
    BY <2>1, UsedLemma, SMTT(30)
  <2> QED BY <2>1, <2>2, SMT DEF call
<1>6. CASE I_RxByte
  <2>1. /\ rx_in' = rx_in \/ (rx_in' = Next1(rx_in) /\ Next1(rx_in) # rx_out)
        /\ UNCHANGED <<pc, call, rx_out, tx_in, tx_out>>
    BY <1>6 DEF I_RxByte, RxFull
  <2>2. Used(rx_in, rx_out) <= Used(rx_in', rx_out) /\ Used(rx_in, rx_out) \in Nat
    <3>1. CASE rx_in' = rx_in
      BY <3>1, UsedLemma, SMTT(30)
    <3>2. CASE rx_in' = Next1(rx_in) /\ Next1(rx_in) # rx_out
      BY <3>2, UsedLemma, SMTT(30)
    <3> QED BY <2>1, <3>1, <3>2
  <2>3. Used(rx_in', rx_out) \in Nat
    BY <2>1, UsedLemma
  <2>4. pc = "r_copy" => n \in Nat /\ n <= Used(rx_in', rx_out)
    BY <2>2, <2>3, LeqLemma
  <2> QED BY <2>1, <2>4 DEF call, Used
<1>7. ASSUME pc' \notin {"w_copy", "r_copy"} PROVE Regions'
  BY <1>7
<1>8. CASE Calls
  BY <1>7, <1>8, SMTT(30) DEF Calls, WriteCall, ReadCall, CloseCall, SetTimeout, App
<1>9. CASE \/ W_Advance \/ W_Kick \/ W_Set \/ W_SpinExit \/ W_Check \/ W_End
           \/ R_Advance \/ R_SpinExit \/ R_Check \/ R_End \/ R_Rearm \/ R_Set \/ C_Return
  BY <1>7, <1>9, SMTT(30) DEF W_Advance, W_Kick, W_Set, W_SpinExit, W_Check, W_End,
     R_Advance, R_SpinExit, R_Check, R_End, R_Rearm, R_Set, C_Return, Return
<1>10. ASSUME UNCHANGED <<ring, pc, call>> PROVE Regions'
  BY <1>10, SMT DEF ring, call, Used
<1>11. CASE IsrEnter \/ I_Control \/ I_RxLate \/ I_RxFull \/ I_RxEnd \/ I_TxEnd
  BY <1>10, <1>11 DEF IsrEnter, I_Control, I_RxLate, I_RxFull, I_RxEnd, I_TxEnd
<1>12. CASE Timeout \/ HostStep
  BY <1>10, <1>12 DEF Timeout, HostStep, driverVars
<1> QED BY <1>1, <1>2, <1>3, <1>4, <1>5, <1>6, <1>8, <1>9, <1>11, <1>12
        DEF Next, AppStep, IsrStep

---------------------------------------------------------------------------
(* The device FIFOs.                                                         *)

Fifos == FifoBounds /\ NoTxOverflow

(* No step overfills a device FIFO. *)
LEMMA FifosKept ==
    ASSUME IInv, TypeOK', Next
    PROVE  Fifos'
<1>a. /\ Len(rfifo) \in Nat /\ Len(rfifo) <= FifoDepth
      /\ Len(wfifo) \in Nat /\ Len(wfifo) <= FifoDepth
      /\ space \in Nat /\ space <= FifoDepth - Len(wfifo) /\ FifoDepth \in Nat
  BY HwAssumption, FifoLemma DEF IInv, TypeOK, HwTypeOK, FifoBounds, NoTxOverflow, wspace
<1>b. rfifo \in Seq(Char) /\ wfifo \in Seq(Char)
  BY DEF IInv, TypeOK, HwTypeOK
<1> USE <1>a, <1>b DEF Fifos, FifoBounds, NoTxOverflow, wspace
<1>1. CASE I_Control
  BY <1>1, SMT DEF I_Control, hwVars
<1>2. CASE I_TxByte
  <2>1. /\ Len(wfifo) < FifoDepth /\ wfifo' = Append(wfifo, tx_buf[tx_out])
        /\ space' = space - 1 /\ rfifo' = rfifo
    <3>1. Len(wfifo) < FifoDepth
      BY <1>2, FifoLemma, SMT DEF I_TxByte
    <3> QED BY <1>2, <3>1 DEF I_TxByte, WriteData
  <2>2. Len(wfifo') = Len(wfifo) + 1
    BY <2>1, FifoLemma
  <2> QED BY <2>1, <2>2, SMT
<1>3. CASE I_RxByte
  BY <1>3, SMT DEF I_RxByte, ReadData
<1>4. CASE I_TxEnd
  <2>1. space' = 0 /\ UNCHANGED <<rfifo, wfifo>>
    BY <1>4 DEF I_TxEnd, SetEnables, WriteControl, hwVars
  <2> QED BY <2>1, SMT
<1>5. CASE HostStep
  <2>1. ASSUME NEW c \in HostChar, HostSend(c), space' = space PROVE Fifos'
    BY <2>1, SMT DEF HostSend
  <2>2. ASSUME HostPause, space' = space PROVE Fifos'
    BY <2>2, SMT DEF HostPause
  <2>3. ASSUME HostTake, space' = space PROVE Fifos'
    <3>1. wfifo # <<>> /\ wfifo' = Tail(wfifo) /\ rfifo' = rfifo
      BY <2>3 DEF HostTake
    <3>2. Len(wfifo') = Len(wfifo) - 1 /\ Len(wfifo) \in Nat
      BY <3>1, FifoLemma
    <3> QED BY <2>3, <3>1, <3>2, SMT
  <2> QED BY <1>5, <2>1, <2>2, <2>3 DEF HostStep, driverVars, isr
<1>6. ASSUME UNCHANGED <<rfifo, wfifo, space>> PROVE Fifos'
  BY <1>6
<1>7. CASE Calls
  BY <1>6, <1>7 DEF Calls, WriteCall, ReadCall, CloseCall, SetTimeout, hwVars, isr
<1>8. CASE W_Snap \/ W_Copy \/ W_Advance \/ W_Kick \/ W_Set \/ W_SpinExit \/ W_Check \/ W_End
  BY <1>6, <1>8 DEF W_Snap, W_Copy, W_Advance, W_Kick, W_Set, W_SpinExit, W_Check, W_End,
     SetEnables, WriteControl, hwVars, isr
<1>9. CASE \/ R_Snap \/ R_Copy \/ R_Advance \/ R_SpinExit \/ R_Check \/ R_End
           \/ R_Rearm \/ R_Set \/ C_Return
  BY <1>6, <1>9 DEF R_Snap, R_Copy, R_Advance, R_SpinExit, R_Check, R_End, R_Rearm, R_Set, C_Return,
     SetEnables, WriteControl, hwVars, isr
<1>10. CASE IsrEnter \/ I_RxFull \/ I_RxEnd \/ Timeout
  BY <1>6, <1>10 DEF IsrEnter, I_RxFull, I_RxEnd, Timeout, SetEnables, WriteControl, hwVars, isr
<1>11. CASE I_RxLate
  <2>1. PICK c \in HostChar : ReadDataAsSent(c)
    BY <1>11 DEF I_RxLate
  <2>2. rfifo' = <<c>> /\ wfifo' = wfifo /\ space' = space /\ FifoDepth >= 1
    BY <1>11, <2>1, HwAssumption, SMT DEF I_RxLate, ReadDataAsSent
  <2>3. Len(rfifo') = 1
    BY <2>2, SMT
  <2> QED BY <2>2, <2>3, SMT
<1> QED BY <1>1, <1>2, <1>3, <1>4, <1>5, <1>7, <1>8, <1>9, <1>10, <1>11
        DEF Next, AppStep, IsrStep

---------------------------------------------------------------------------
(* The interrupt enables.                                                    *)

Wakeups == TxKicked /\ RxRearmed

(* No step loses a wake-up. *)
LEMMA WakeupsKept ==
    ASSUME IInv, TypeOK', Next
    PROVE  Wakeups'
<1>a. /\ TxKicked /\ RxRearmed
      /\ pc = "r_copy" => n >= 1 /\ k <= Len(got)
  BY SMT DEF IInv, ChunkShape, TypeOK
<1>b. /\ pc = "w_set" => en = irq_enable \cup {"WE"}
      /\ pc = "r_set" => en = irq_enable \cup {"RE"}
  BY DEF IInv, SectionHeld
<1> USE <1>a, <1>b DEF Wakeups, TxKicked, RxRearmed
<1>1. CASE Calls
  BY <1>1 DEF Calls, WriteCall, ReadCall, CloseCall, SetTimeout, App, driver, ring, isr
<1>2. CASE W_Snap \/ W_SpinExit \/ W_Check
  BY <1>2 DEF W_Snap, W_SpinExit, W_Check, App, driver, ring, call, isr
<1>3. CASE W_Copy
  BY <1>3 DEF W_Copy, App, driver, ring, call, isr
<1>4. CASE W_Advance
  BY <1>4 DEF W_Advance, App, driver, isr
<1>5. CASE W_Kick \/ W_Set
  BY <1>5 DEF W_Kick, W_Set, App, SetEnables, driver, ring, isr
<1>6. CASE W_End \/ C_Return
  BY <1>6 DEF W_End, C_Return, Return, App, driver, ring, isr
<1>7. CASE R_Snap \/ R_SpinExit \/ R_Check
  BY <1>7 DEF R_Snap, R_SpinExit, R_Check, App, driver, ring, call, isr
<1>8. CASE R_Copy
  <2>1. got \in Seq(Char) /\ got' = Append(got, rx_buf[out + k])
    BY <1>8 DEF R_Copy, IInv, TypeOK
  <2>2. got' # <<>>
    BY <2>1, SMT
  <2> QED BY <1>8, <2>2 DEF R_Copy, App, driver, ring, isr
<1>9. CASE R_Advance
  <2>1. got # <<>>
    BY <1>9, SMTT(30) DEF R_Advance, App, IInv, TypeOK
  <2> QED BY <1>9, <2>1 DEF R_Advance, App, driver, isr
<1>10. CASE R_End \/ R_Rearm \/ R_Set
  BY <1>10 DEF R_End, R_Rearm, R_Set, Return, App, SetEnables, driver, ring, isr
<1>11. CASE IsrEnter \/ I_RxLate \/ I_RxFull
  BY <1>11 DEF IsrEnter, I_RxLate, I_RxFull, Isr, driver, ring, call
<1>12. CASE I_Control
  BY <1>12 DEF I_Control, Isr, driver, ring, call
<1>13. CASE I_RxByte
  <2>1. /\ rx_in' = rx_in \/ (rx_in' = Next1(rx_in) /\ Next1(rx_in) # rx_out)
        /\ UNCHANGED <<irq_enable, pc, call, rx_out, tx_in, tx_out>>
    BY <1>13 DEF I_RxByte, RxFull, driver
  <2> QED BY <2>1 DEF call
<1>14. CASE I_RxEnd
  BY <1>14 DEF I_RxEnd, Isr, SetEnables, driver, ring, call, IInv, RoundTakes
<1>15. CASE I_TxByte
  BY <1>15 DEF I_TxByte, Isr, driver, call
<1>16. CASE I_TxEnd
  BY <1>16 DEF I_TxEnd, Isr, SetEnables, driver, ring, call
<1>17. CASE Timeout \/ HostStep
  <2>1. UNCHANGED <<irq_enable, ring, pc, call, isr>>
    BY <1>17 DEF Timeout, HostStep, driverVars, driver
  <2> QED BY <2>1 DEF ring, call, isr
<1> QED BY <1>1, <1>2, <1>3, <1>4, <1>5, <1>6, <1>7, <1>8, <1>9, <1>10, <1>11,
           <1>12, <1>13, <1>14, <1>15, <1>16, <1>17 DEF Next, AppStep, IsrStep

Rounds == PauseMeansData /\ RoundTakes

(* A receive round that ends with bytes left in the device has put at least *)
(* one into the ring: what raised it was a byte, and nothing but the round  *)
(* itself takes bytes from the device or, while it runs, from the ring.     *)
LEMMA RoundsKept ==
    ASSUME IInv, TypeOK', Next
    PROVE  Rounds'
<1>a. PauseMeansData /\ RoundTakes /\ rfifo \in Seq(Char)
  BY DEF IInv, TypeOK, HwTypeOK
<1> USE <1>a DEF Rounds, PauseMeansData, RoundTakes
<1>1. CASE I_Control
  <2>1. ipen_AF => rfifo # <<>>
    BY HwAssumption, SMT DEF ipen_AF
  <2>2. ipc' = "rx" => ipen_AF
    BY <1>1 DEF I_Control
  <2> QED BY <1>1, <2>1, <2>2 DEF I_Control, hwVars
<1>2. CASE I_RxByte
  <2>1. ~pauseIrq' /\ UNCHANGED rx_out
    BY <1>2 DEF I_RxByte, ReadData
  <2>2. CASE rfifo = <<>>
    <3>1. ~ravail' /\ ipc' = "rx_end"
      <4>1. ~(Len(rfifo) > 1)
        BY <2>2, SMT
      <4> QED BY <1>2, <2>2, <4>1, Zenon DEF I_RxByte
    <3> QED BY <2>1, <3>1
  <2>3. CASE rfifo # <<>>
    <3>1. rx_in' = Next1(rx_in) /\ Next1(rx_in) # rx_out
      BY <1>2, <2>3 DEF I_RxByte, RxFull
    <3> QED BY <2>1, <3>1
  <2> QED BY <2>2, <2>3
<1>3. CASE I_RxLate
  <2>1. ~pauseIrq' /\ rfifo = <<>> /\ ipc = "rx"
    BY <1>3 DEF I_RxLate, ReadDataAsSent, Isr
  <2>2. ipc' = "rx_end" /\ UNCHANGED <<rx_in, rx_out>>
    BY <1>3 DEF I_RxLate, ring
  <2> QED BY <2>1, <2>2
<1>4. CASE I_RxFull
  <2>1. rx_in # rx_out
    <3>1. rx_in \in Index
      BY DEF IInv, TypeOK
    <3>2. Next1(rx_in) # rx_in
      BY <3>1, NextLemma, DriverAssumption, SMT DEF Index
    <3> QED BY <1>4, <3>2 DEF I_RxFull, RxFull
  <2> QED BY <1>4, <2>1 DEF I_RxFull, hwVars, ring
<1>5. CASE I_RxEnd
  <2>1. ipc' \notin {"rx", "rx_end"} /\ UNCHANGED <<rfifo, pauseIrq>>
    BY <1>5 DEF I_RxEnd, SetEnables, WriteControl, hwVars
  <2> QED BY <2>1
<1>6. CASE I_TxByte \/ I_TxEnd
  <2>1. ipc' \notin {"rx", "rx_end"} /\ UNCHANGED <<rfifo, pauseIrq>>
    BY <1>6 DEF I_TxByte, I_TxEnd, Isr, WriteData, SetEnables, WriteControl, hwVars
  <2> QED BY <2>1
<1>7. CASE HostStep
  <2>1. UNCHANGED <<ipc, ravail, rx_in, rx_out>>
    BY <1>7 DEF HostStep, driverVars, ring, isr
  <2>2. ASSUME NEW c \in HostChar, HostSend(c) PROVE Rounds'
    <3>1. rfifo' # <<>>
      BY <2>2, SMT DEF HostSend
    <3> QED BY <2>1, <3>1
  <2>3. ASSUME HostPause PROVE Rounds'
    <3>1. (pauseIrq' => rfifo # <<>>) /\ rfifo' = rfifo
      BY <2>3, Zenon DEF HostPause
    <3> QED BY <2>1, <3>1
  <2>4. ASSUME HostTake PROVE Rounds'
    BY <2>1, <2>4 DEF HostTake
  <2> QED BY <1>7, <2>2, <2>3, <2>4 DEF HostStep
<1>8. ASSUME ipc' \notin {"rx", "rx_end"}, UNCHANGED <<rfifo, pauseIrq>> PROVE Rounds'
  BY <1>8
<1>9. CASE Calls
  BY <1>8, <1>9 DEF Calls, WriteCall, ReadCall, CloseCall, SetTimeout, App, hwVars, isr
<1>10. CASE W_Snap \/ W_Copy \/ W_Advance \/ W_Kick \/ W_Set \/ W_SpinExit \/ W_Check \/ W_End
  BY <1>8, <1>10 DEF W_Snap, W_Copy, W_Advance, W_Kick, W_Set, W_SpinExit, W_Check, W_End,
     App, SetEnables, WriteControl, hwVars, isr
<1>11. CASE \/ R_Snap \/ R_Copy \/ R_Advance \/ R_SpinExit \/ R_Check \/ R_End
            \/ R_Rearm \/ R_Set \/ C_Return
  BY <1>8, <1>11 DEF R_Snap, R_Copy, R_Advance, R_SpinExit, R_Check, R_End, R_Rearm, R_Set, C_Return,
     App, SetEnables, WriteControl, hwVars, isr
<1>12. CASE IsrEnter \/ Timeout
  BY <1>8, <1>12 DEF IsrEnter, Timeout, WriteControl, hwVars, isr
<1> QED BY <1>1, <1>2, <1>3, <1>4, <1>5, <1>6, <1>7, <1>9, <1>10, <1>11, <1>12
        DEF Next, AppStep, IsrStep

(* Nothing disturbs a call in its section: the routine and the alarm are    *)
(* kept out, and the register follows irq_enable.                            *)
LEMMA SectionKept ==
    ASSUME IInv, Next
    PROVE  SectionHeld'
<1>a. SectionHeld
  BY DEF IInv
<1> USE <1>a DEF SectionHeld, Masked
<1>1. CASE W_Kick \/ R_Rearm
  BY <1>1 DEF W_Kick, R_Rearm, App, hwVars, driver, isr
<1>2. CASE W_Set \/ R_Set
  BY <1>2 DEF W_Set, R_Set, Return, SetEnables, WriteControl
<1>3. ASSUME pc' \notin Masked, UNCHANGED <<ien, irq_enable>> PROVE SectionHeld'
  BY <1>3
<1>4. CASE Calls
  BY <1>3, <1>4 DEF Calls, WriteCall, ReadCall, CloseCall, SetTimeout, App, hwVars, driver
<1>5. CASE W_Snap \/ W_Copy \/ W_Advance \/ W_SpinExit \/ W_Check \/ W_End
  BY <1>3, <1>5 DEF W_Snap, W_Copy, W_Advance, W_SpinExit, W_Check, W_End, Return, App, hwVars, driver
<1>6. CASE R_Snap \/ R_Copy \/ R_Advance \/ R_SpinExit \/ R_Check \/ R_End \/ C_Return
  BY <1>3, <1>6 DEF R_Snap, R_Copy, R_Advance, R_SpinExit, R_Check, R_End, C_Return,
     Return, App, hwVars, driver
<1>7. CASE IsrEnter
  BY <1>7 DEF IsrEnter, hwVars, driver
<1>8. CASE IsrStep
  <2>1. pc \notin Masked
    BY <1>8 DEF IsrStep, I_Control, I_RxByte, I_RxLate, I_RxFull, I_RxEnd, I_TxByte, I_TxEnd, Isr
  <2>2. UNCHANGED pc /\ ien' = irq_enable'
    BY <1>8 DEF IsrStep, I_Control, I_RxByte, I_RxLate, I_RxFull, I_RxEnd, I_TxByte, I_TxEnd,
       SetEnables, WriteControl, ReadData, ReadDataAsSent, WriteData, hwVars, driver
  <2> QED BY <2>1, <2>2
<1>9. CASE Timeout
  BY <1>9 DEF Timeout, WriteControl, hwVars
<1>10. CASE HostStep
  BY <1>10 DEF HostStep, HostSend, HostPause, HostTake, driverVars, driver, call, isr
<1> QED BY <1>1, <1>2, <1>4, <1>5, <1>6, <1>7, <1>8, <1>9, <1>10 DEF Next, AppStep

---------------------------------------------------------------------------
(* The theorems.                                                             *)

(* No step leaves the inductive invariant. *)
LEMMA StepKeepsIInv == IInv /\ [Next]_vars => IInv'
<1> SUFFICES ASSUME IInv, [Next]_vars PROVE IInv'
  OBVIOUS
<1>1. CASE Next
  <2>1. TypeOK'
    BY <1>1, WriteTypes, ReadTypes, IsrTypes, OutsideTypes DEF Next, Calls, AppStep
  <2> QED BY <1>1, <2>1, LiveKept, RegionsKept, FifosKept, WakeupsKept, RoundsKept,
          SectionKept DEF IInv, Regions, Fifos, Wakeups, Rounds
<1>2. CASE UNCHANGED vars
  BY <1>2 DEF vars, hwVars, driver, ring, call, isr, IInv, TypeOK, HwTypeOK, FifoBounds,
     ChunkShape, LiveSlotsWritten, Live, WriterOwnsSlots, ReaderOwnsSlots, NoTxOverflow,
     TxKicked, PauseMeansData, RoundTakes, RxRearmed, SectionHeld, wspace, Used
<1> QED BY <1>1, <1>2

(* Every reachable state of the driver satisfies the inductive invariant. *)
THEOREM DriverInvariant == Spec => []IInv
  BY InitIInv, StepKeepsIInv, PTL DEF Spec

(* Indices stay inside the rings and every field keeps its type, for every *)
(* buffer length, whatever the interleaving (the driver's modulo arithmetic). *)
THEOREM TypeCorrect == Spec => []TypeOK
<1>1. IInv => TypeOK
  BY DEF IInv
<1> QED BY <1>1, DriverInvariant, PTL

(* write() never copies over bytes still to be sent, though it reads tx_out *)
(* once and the interrupt routine moves it while the copy runs.             *)
THEOREM WriterSafe == Spec => []WriterOwnsSlots
<1>1. IInv => WriterOwnsSlots
  BY DEF IInv
<1> QED BY <1>1, DriverInvariant, PTL

(* The interrupt routine never stores over bytes read() is copying. *)
THEOREM ReaderSafe == Spec => []ReaderOwnsSlots
<1>1. IInv => ReaderOwnsSlots
  BY DEF IInv
<1> QED BY <1>1, DriverInvariant, PTL

(* The interrupt routine never loses a byte to a full device FIFO. *)
THEOREM NoOverflow == Spec => []NoTxOverflow
<1>1. IInv => NoTxOverflow
  BY DEF IInv
<1> QED BY <1>1, DriverInvariant, PTL

(* No transmit wake-up is lost: bytes in the ring always have the transmit *)
(* interrupt enabled, or a write() that is about to enable it.             *)
THEOREM TxNeverStranded == Spec => []TxKicked
<1>1. IInv => TxKicked
  BY DEF IInv
<1> QED BY <1>1, DriverInvariant, PTL

(* No receive wake-up is disabled for good: the receive interrupt is off   *)
(* only while the ring holds bytes for a read() to come back with, or a     *)
(* read() is about to enable it.                                            *)
THEOREM RxAlwaysRearmed == Spec => []RxRearmed
<1>1. IInv => RxRearmed
  BY DEF IInv
<1> QED BY <1>1, DriverInvariant, PTL

(* What the interrupt routine turned off comes on again only by the call it *)
(* is for: with interrupts off from the load of irq_enable to its store, no *)
(* write() puts back the receive enable as it was before the routine ran,   *)
(* and no read() the transmit enable (write.c:136-139, read.c:191-194).     *)
THEOREM EnablesNotConfused == Spec => OwnEnableOnly
<1> DEFINE Own == /\ "WE" \in ien' \ ien => pc = "w_set"
                  /\ "RE" \in ien' \ ien => pc = "r_set"
<1>1. ASSUME IInv, [Next]_vars PROVE [Own]_vars
  <2>a. SectionHeld
    BY <1>1 DEF IInv
  <2>1. CASE W_Set \/ R_Set
    BY <2>a, <2>1 DEF W_Set, R_Set, App, SetEnables, WriteControl, SectionHeld
  <2>2. ASSUME ien' \subseteq ien PROVE Own
    BY <2>2
  <2>3. CASE Calls
    BY <2>2, <2>3 DEF Calls, WriteCall, ReadCall, CloseCall, SetTimeout, hwVars
  <2>4. CASE W_Snap \/ W_Copy \/ W_Advance \/ W_Kick \/ W_SpinExit \/ W_Check \/ W_End
    BY <2>2, <2>4 DEF W_Snap, W_Copy, W_Advance, W_Kick, W_SpinExit, W_Check, W_End, hwVars
  <2>5. CASE R_Snap \/ R_Copy \/ R_Advance \/ R_SpinExit \/ R_Check \/ R_End \/ R_Rearm \/ C_Return
    BY <2>2, <2>5 DEF R_Snap, R_Copy, R_Advance, R_SpinExit, R_Check, R_End, R_Rearm, C_Return, hwVars
  <2>6. CASE IsrEnter \/ IsrStep \/ Timeout
    BY <2>a, <2>2, <2>6 DEF IsrEnter, IsrStep, I_Control, I_RxByte, I_RxLate, I_RxFull, I_RxEnd,
       I_TxByte, I_TxEnd, Timeout, SetEnables, WriteControl, ReadData, ReadDataAsSent, WriteData,
       SectionHeld, hwVars
  <2>7. CASE HostStep
    BY <2>2, <2>7 DEF HostStep, HostSend, HostPause, HostTake
  <2>8. CASE UNCHANGED vars
    BY <2>8
  <2> QED BY <1>1, <2>1, <2>3, <2>4, <2>5, <2>6, <2>7, <2>8 DEF Next, AppStep
<1> QED BY <1>1, DriverInvariant, PTL DEF Spec, OwnEnableOnly

(* Only the alarm changes the count of seconds, and it stops at the cap. *)
LEMMA StepKeepsCap == SecondsCapped /\ [Next]_vars => SecondsCapped'
<1> SUFFICES ASSUME SecondsCapped, [Next]_vars PROVE SecondsCapped'
  OBVIOUS
<1>1. CASE Timeout
  <2>1. host_inactive' = 0
        \/ host_inactive' = IF host_inactive < INT_MAX - 2
                            THEN host_inactive + 1 ELSE host_inactive
    BY <1>1 DEF Timeout
  <2> QED BY <2>1, DriverAssumption, SMT DEF SecondsCapped
<1>2. ASSUME UNCHANGED host_inactive PROVE SecondsCapped'
  BY <1>2 DEF SecondsCapped
<1>3. CASE Calls
  BY <1>2, <1>3 DEF Calls, WriteCall, ReadCall, CloseCall, SetTimeout, driver
<1>4. CASE AppStep
  BY <1>2, <1>4 DEF AppStep, W_Snap, W_Copy, W_Advance, W_Kick, W_Set, W_SpinExit, W_Check, W_End,
     R_Snap, R_Copy, R_Advance, R_SpinExit, R_Check, R_End, R_Rearm, R_Set, C_Return, driver
<1>5. CASE IsrEnter \/ IsrStep
  BY <1>2, <1>5 DEF IsrEnter, IsrStep, I_Control, I_RxByte, I_RxLate, I_RxFull, I_RxEnd,
     I_TxByte, I_TxEnd, driver
<1>6. CASE HostStep
  BY <1>2, <1>6 DEF HostStep, driverVars, driver
<1>7. CASE UNCHANGED vars
  BY <1>2, <1>7 DEF vars, driver
<1> QED BY <1>1, <1>3, <1>4, <1>5, <1>6, <1>7 DEF Next

(* A wait with the timeout that stands for never does not end because of the *)
(* alarm, however long it counts (ioctl.c:65 against init.c:215).            *)
THEOREM NeverIsNever == Spec => []NeverMeansNever
<1>1. Init => SecondsCapped
  BY DriverAssumption, SMT DEF Init, SecondsCapped
<1>2. SecondsCapped => NeverMeansNever
  BY DriverAssumption, SMT DEF SecondsCapped, NeverMeansNever
<1> QED BY <1>1, <1>2, StepKeepsCap, PTL DEF Spec
===========================================================================
