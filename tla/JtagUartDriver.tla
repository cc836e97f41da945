-------------------------- MODULE JtagUartDriver --------------------------
(* The interrupt-driven JTAG UART driver of the HAL.  One CPU runs either   *)
(* the application (inside write(), read(), close(), ioctl() or none of     *)
(* them) or an interrupt routine; the device and the host run beside it.    *)
(* An action is one access to what the two share: a ring index, a ring      *)
(* slot, a driver field, or a device register.                              *)
EXTENDS JtagUartHw

CONSTANTS BUF_LEN,      \* slots in each ring (2048)
          Nul,          \* what a slot holds before it is first written
          Messages,     \* what the application may hand to write()
          Spaces,       \* the room it may offer to read()
          HostChar,     \* what the host may send
          Timeouts,     \* what the application may ask for by TIOCSTIMEOUT
          DEFAULT_TIMEOUT,
          INT_MAX

ASSUME DriverAssumption ==
    /\ BUF_LEN \in Nat /\ BUF_LEN > 1
    /\ Messages \subseteq Seq(Char)
    /\ Spaces \subseteq Nat
    /\ HostChar \subseteq Char
    /\ Timeouts \subseteq Int
    /\ INT_MAX \in Nat /\ INT_MAX > 4
    /\ DEFAULT_TIMEOUT \in 2..INT_MAX-1

VARIABLES irq_enable, host_inactive, timeout,     \* altera_avalon_jtag_uart_state
          rx_in, rx_out, tx_in, tx_out, rx_buf, tx_buf,
          pc,        \* where the application is in the driver
          nonblock,  \* O_NONBLOCK in the flags of the call
          msg,       \* write(): ptr and count, the bytes not yet in the ring
          room,      \* read(): space left in the buffer
          got,       \* read(): the bytes between buffer and ptr
          moved,     \* write(): ptr - start
          in, out, n,\* the locals of read() and write()
          k,         \* bytes memcpy has copied
          en,        \* irq_enable as loaded, with the bit the call sets
          ret,       \* what the last call returned
          ipc,       \* where the CPU is in the interrupt routine
          wi, space, ravail   \* its locals: what control and data reported

driver == <<irq_enable, host_inactive, timeout>>
ring == <<rx_in, rx_out, tx_in, tx_out, rx_buf, tx_buf>>
call == <<nonblock, msg, room, got, moved, in, out, n, k, en, ret>>
isr  == <<ipc, wi, space, ravail>>
vars == <<hwVars, driver, ring, pc, call, isr>>

Index == 0..BUF_LEN-1
Slot  == Char \cup {Nul}

(* The driver returns its errors negated. *)
EWOULDBLOCK == -11
EIO         == -5
ENOTTY      == -25

(* Bytes held by a ring whose indices are o (oldest) and i (next free). *)
Used(i, o) == IF i >= o THEN i - o ELSE BUF_LEN - o + i

Next1(i)   == (i + 1) % BUF_LEN

(* The state altera_avalon_jtag_uart_init leaves, its alarm started. *)
Init ==
    /\ irq_enable = {"RE"} /\ ien = {"RE"}
    /\ rfifo = <<>> /\ wfifo = <<>> /\ pauseIrq = FALSE /\ ac = FALSE
    /\ host_inactive = 0 /\ timeout = DEFAULT_TIMEOUT
    /\ rx_in = 0 /\ rx_out = 0 /\ tx_in = 0 /\ tx_out = 0
    /\ rx_buf = [i \in Index |-> Nul] /\ tx_buf = [i \in Index |-> Nul]
    /\ pc = "idle" /\ nonblock = FALSE /\ msg = <<>> /\ room = 0
    /\ got = <<>> /\ moved = 0 /\ in = 0 /\ out = 0 /\ n = 0 /\ k = 0
    /\ en = {} /\ ret = 0
    /\ ipc = "idle" /\ wi = FALSE /\ space = 0 /\ ravail = FALSE

\* Mutant: alt_irq_disable_all is missing.
MaskedForgotten == {}

(* Where a call is between alt_irq_disable_all and alt_irq_enable_all. *)
Masked == {"w_set", "r_set"}

(* The application runs only while no interrupt routine does. *)
App(at) == ipc = "idle" /\ pc = at

(* irq_enable and the control register written from it: nothing but the     *)
(* driver's own code reads the one before the other.                        *)
SetEnables(e) == irq_enable' = e /\ WriteControl(e, FALSE)

(* The call returns and its locals are gone. *)
Return == /\ pc' = "idle" /\ nonblock' = FALSE
          /\ msg' = <<>> /\ moved' = 0
          /\ got' = <<>> /\ room' = 0
          /\ in' = 0 /\ out' = 0 /\ n' = 0 /\ k' = 0 /\ en' = {}

---------------------------------------------------------------------------
(* altera_avalon_jtag_uart_write                                             *)

WriteCall(m, nb) ==
    /\ App("idle")
    /\ pc' = "w_snap" /\ msg' = m /\ nonblock' = nb /\ ret' = 0
    /\ UNCHANGED <<hwVars, driver, ring, isr,
                   room, got, moved, in, out, n, k, en>>

\* Mutants: no slot left free before the oldest byte; and none when it is in slot 0.
WriteRoomNoGap(i, o) == IF i < o THEN o - i ELSE BUF_LEN - i
WriteRoomNoZeroCase(i, o) == IF i < o THEN o - 1 - i ELSE BUF_LEN - i

(* Contiguous free slots from i, one slot always being left free. *)
WriteRoom(i, o) == IF i < o THEN o - 1 - i
                   ELSE IF o > 0 THEN BUF_LEN - i
                   ELSE BUF_LEN - 1 - i

Least(a, b) == IF a < b THEN a ELSE b

(* Read both indices; copy what fits, or go and kick the interrupt. *)
W_Snap ==
    /\ App("w_snap")
    /\ IF msg = <<>>
       THEN pc' = "w_kick" /\ UNCHANGED <<in, out, n, k>>
       ELSE /\ in' = tx_in /\ out' = tx_out /\ k' = 0
            /\ n' = Least(WriteRoom(tx_in, tx_out), Len(msg))
            /\ pc' = IF n' = 0 THEN "w_kick" ELSE "w_copy"
    /\ UNCHANGED <<hwVars, driver, ring, isr,
                   nonblock, msg, room, got, moved, en, ret>>

W_Copy ==
    /\ App("w_copy") /\ k < n
    /\ tx_buf' = [tx_buf EXCEPT ![in + k] = msg[k + 1]]
    /\ k' = k + 1
    /\ UNCHANGED <<hwVars, driver, pc, isr,
                   rx_in, rx_out, tx_in, tx_out, rx_buf,
                   nonblock, msg, room, got, moved, in, out, n, en, ret>>

W_Advance ==
    /\ App("w_copy") /\ k = n
    /\ tx_in' = (in + n) % BUF_LEN
    /\ msg' = SubSeq(msg, n + 1, Len(msg)) /\ moved' = moved + n
    /\ pc' = "w_snap" /\ n' = 0 /\ k' = 0
    /\ UNCHANGED <<hwVars, driver, isr,
                   rx_in, rx_out, tx_out, rx_buf, tx_buf,
                   nonblock, room, got, in, out, en, ret>>

\* Mutant: the bytes are in the ring but the interrupt is never enabled.
W_KickForgotten ==
    /\ App("w_kick")
    /\ pc' = IF msg # <<>> /\ ~nonblock THEN "w_spin" ELSE "w_end"
    /\ UNCHANGED <<hwVars, driver, ring, call, isr>>

(* Interrupts off, the enables loaded; then stored, and interrupts on. *)
W_Kick ==
    /\ App("w_kick")
    /\ en' = irq_enable \cup {"WE"} /\ pc' = "w_set"
    /\ UNCHANGED <<hwVars, driver, ring, isr,
                   nonblock, msg, room, got, moved, in, out, n, k, ret>>

W_Set ==
    /\ App("w_set")
    /\ SetEnables(en) /\ en' = {}
    /\ pc' = IF msg # <<>> /\ ~nonblock THEN "w_spin" ELSE "w_end"
    /\ UNCHANGED <<host_inactive, timeout, ring, isr,
                   nonblock, msg, room, got, moved, in, out, n, k, ret>>

\* Mutant: the wait for room ignores that the host is gone.
W_SpinUntilRoom ==
    /\ App("w_spin")
    /\ out # tx_out
    /\ pc' = "w_check"
    /\ UNCHANGED <<hwVars, driver, ring, call, isr>>

W_SpinExit ==
    /\ App("w_spin")
    /\ out # tx_out \/ host_inactive >= timeout
    /\ pc' = "w_check"
    /\ UNCHANGED <<hwVars, driver, ring, call, isr>>

W_Check ==
    /\ App("w_check")
    /\ pc' = IF host_inactive # 0 THEN "w_end" ELSE "w_snap"
    /\ UNCHANGED <<hwVars, driver, ring, call, isr>>

W_End ==
    /\ App("w_end")
    /\ Return
    /\ ret' = IF moved > 0 THEN moved
              ELSE IF nonblock THEN EWOULDBLOCK ELSE EIO
    /\ UNCHANGED <<hwVars, driver, ring, isr>>

---------------------------------------------------------------------------
(* altera_avalon_jtag_uart_read                                              *)

ReadCall(s, nb) ==
    /\ App("idle")
    /\ pc' = IF s > 0 THEN "r_snap" ELSE "r_end"
    /\ room' = s /\ nonblock' = nb /\ ret' = 0
    /\ UNCHANGED <<hwVars, driver, ring, isr,
                   msg, got, moved, in, out, n, k, en>>

\* Mutant: an empty ring mistaken for a full one.
ReadAvailEmptyIsFull(i, o) == IF i > o THEN i - o ELSE BUF_LEN - o

(* Contiguous bytes from o. *)
ReadAvail(i, o) == IF i >= o THEN i - o ELSE BUF_LEN - o

R_Snap ==
    /\ App("r_snap")
    /\ in' = rx_in /\ out' = rx_out /\ k' = 0
    /\ n' = Least(ReadAvail(rx_in, rx_out), room)
    /\ pc' = IF n' > 0 THEN "r_copy"
             ELSE IF got # <<>> \/ nonblock THEN "r_end" ELSE "r_spin"
    /\ UNCHANGED <<hwVars, driver, ring, isr,
                   nonblock, msg, room, got, moved, en, ret>>

R_Copy ==
    /\ App("r_copy") /\ k < n
    /\ got' = Append(got, rx_buf[out + k])
    /\ k' = k + 1
    /\ UNCHANGED <<hwVars, driver, ring, pc, isr,
                   nonblock, msg, room, moved, in, out, n, en, ret>>

R_Advance ==
    /\ App("r_copy") /\ k = n
    /\ rx_out' = (out + n) % BUF_LEN
    /\ room' = room - n
    /\ pc' = IF room > n THEN "r_snap" ELSE "r_end"
    /\ n' = 0 /\ k' = 0
    /\ UNCHANGED <<hwVars, driver, isr,
                   rx_in, tx_in, tx_out, rx_buf, tx_buf,
                   nonblock, msg, got, moved, in, out, en, ret>>

R_SpinExit ==
    /\ App("r_spin")
    /\ in # rx_in \/ host_inactive >= timeout
    /\ pc' = "r_check"
    /\ UNCHANGED <<hwVars, driver, ring, call, isr>>

R_Check ==
    /\ App("r_check")
    /\ pc' = IF in = rx_in THEN "r_end" ELSE "r_snap"
    /\ UNCHANGED <<hwVars, driver, ring, call, isr>>

(* No byte was taken. *)
R_End ==
    /\ App("r_end") /\ got = <<>>
    /\ Return
    /\ ret' = IF nonblock THEN EWOULDBLOCK ELSE EIO
    /\ UNCHANGED <<hwVars, driver, ring, isr>>

\* Mutant: room was made but the receive interrupt stays as it is.
R_RearmForgotten ==
    /\ App("r_end") /\ got # <<>>
    /\ Return /\ ret' = Len(got)
    /\ UNCHANGED <<hwVars, driver, ring, isr>>

(* Data was taken, so there is room: let the device interrupt again. *)
R_Rearm ==
    /\ App("r_end") /\ got # <<>>
    /\ en' = irq_enable \cup {"RE"} /\ pc' = "r_set"
    /\ UNCHANGED <<hwVars, driver, ring, isr,
                   nonblock, msg, room, got, moved, in, out, n, k, ret>>

R_Set ==
    /\ App("r_set")
    /\ SetEnables(en)
    /\ Return /\ ret' = Len(got)
    /\ UNCHANGED <<host_inactive, timeout, ring, isr>>

---------------------------------------------------------------------------
(* altera_avalon_jtag_uart_close and altera_avalon_jtag_uart_ioctl           *)

CloseCall(nb) ==
    /\ App("idle")
    /\ pc' = "c_spin" /\ nonblock' = nb /\ ret' = 0
    /\ UNCHANGED <<hwVars, driver, ring, isr,
                   msg, room, got, moved, in, out, n, k, en>>

Draining == tx_out # tx_in /\ host_inactive < timeout

C_Return ==
    /\ App("c_spin")
    /\ Draining => nonblock
    /\ Return
    /\ ret' = IF Draining THEN EWOULDBLOCK ELSE 0
    /\ UNCHANGED <<hwVars, driver, ring, isr>>

SetTimeout(t) ==
    /\ App("idle")
    /\ IF timeout # INT_MAX
       THEN /\ timeout' = IF t >= 2 /\ t < INT_MAX THEN t ELSE INT_MAX - 1
            /\ ret' = 0
       ELSE ret' = ENOTTY /\ UNCHANGED timeout
    /\ UNCHANGED <<hwVars, irq_enable, host_inactive, ring, pc, isr,
                   nonblock, msg, room, got, moved, in, out, n, k, en>>

---------------------------------------------------------------------------
(* altera_avalon_jtag_uart_irq                                               *)

Isr(at) == ipc = at

IsrEnter ==
    /\ Isr("idle") /\ av_irq /\ pc \notin Masked
    /\ ipc' = "control"
    /\ UNCHANGED <<hwVars, driver, ring, pc, call,
                   wi, space, ravail>>

(* One read of the control register decides what this round does. *)
I_Control ==
    /\ Isr("control")
    /\ wi' = ipen_AE /\ space' = (IF ipen_AE THEN wspace ELSE 0)
    /\ ravail' = ipen_AF
    /\ ipc' = IF ipen_AF THEN "rx" ELSE IF ipen_AE THEN "tx" ELSE "idle"
    /\ UNCHANGED <<hwVars, driver, ring, pc, call>>

RxFull == Next1(rx_in) = rx_out

I_RxByte ==
    /\ Isr("rx") /\ ~RxFull
    /\ ReadData
    /\ ravail' = (Len(rfifo) > 1)
    /\ IF rfifo = <<>>
       THEN ipc' = "rx_end" /\ UNCHANGED <<rx_buf, rx_in>>
       ELSE /\ rx_buf' = [rx_buf EXCEPT ![rx_in] = Head(rfifo)]
            /\ rx_in' = Next1(rx_in)
            /\ UNCHANGED ipc
    /\ UNCHANGED <<driver, pc, call,
                   rx_out, tx_in, tx_out, tx_buf, wi, space>>

I_RxFull ==
    /\ Isr("rx") /\ RxFull
    /\ ipc' = "rx_end"
    /\ UNCHANGED <<hwVars, driver, ring, pc, call,
                   wi, space, ravail>>

(* The read that got nothing reports a byte that arrived as it was made. *)
I_RxLate ==
    /\ Isr("rx") /\ ~RxFull
    /\ \E c \in HostChar : ReadDataAsSent(c)
    /\ ravail' = TRUE
    /\ ipc' = "rx_end"
    /\ UNCHANGED <<driver, ring, pc, call, wi, space>>

\* Mutant: the receive interrupt left on with the ring full.
I_RxEndKeep ==
    /\ Isr("rx_end")
    /\ ipc' = (IF wi THEN "tx" ELSE "control") /\ ravail' = FALSE
    /\ UNCHANGED <<hwVars, driver, ring, pc, call, wi, space>>

(* The last read reported bytes left in the device: stop its interrupts. *)
I_RxEnd ==
    /\ Isr("rx_end")
    /\ IF ravail THEN SetEnables(irq_enable \ {"RE"})
                 ELSE UNCHANGED <<hwVars, irq_enable>>
    /\ ipc' = IF wi THEN "tx" ELSE "control"
    /\ ravail' = FALSE
    /\ UNCHANGED <<host_inactive, timeout, ring, pc, call, wi, space>>

\* Mutant: the space of the device FIFO is not counted down.
I_TxByteNoCount ==
    /\ Isr("tx") /\ space > 0 /\ tx_out # tx_in
    /\ WriteData(tx_buf[tx_out])
    /\ tx_out' = Next1(tx_out)
    /\ UNCHANGED <<driver, pc, call, space,
                   rx_in, rx_out, tx_in, rx_buf, tx_buf, ipc, wi, ravail>>

I_TxByte ==
    /\ Isr("tx") /\ space > 0 /\ tx_out # tx_in
    /\ WriteData(tx_buf[tx_out])
    /\ tx_out' = Next1(tx_out)
    /\ space' = space - 1
    /\ UNCHANGED <<driver, pc, call,
                   rx_in, rx_out, tx_in, rx_buf, tx_buf, ipc, wi, ravail>>

\* Mutant: the transmit interrupt turned off whether or not bytes are left.
I_TxEndAlways ==
    /\ Isr("tx") /\ ~(space > 0 /\ tx_out # tx_in)
    /\ SetEnables(irq_enable \ {"WE"})
    /\ ipc' = "control" /\ wi' = FALSE /\ space' = 0
    /\ UNCHANGED <<host_inactive, timeout, ring, pc, call, ravail>>

(* Space is left over: nothing to send, so stop the transmit interrupts. *)
I_TxEnd ==
    /\ Isr("tx") /\ ~(space > 0 /\ tx_out # tx_in)
    /\ IF space > 0 THEN SetEnables(irq_enable \ {"WE"})
                    ELSE UNCHANGED <<hwVars, irq_enable>>
    /\ ipc' = "control" /\ wi' = FALSE /\ space' = 0
    /\ UNCHANGED <<host_inactive, timeout, ring, pc, call, ravail>>

---------------------------------------------------------------------------
\* Mutant: the count of seconds may reach the timeout that means never.
TimeoutPastNever ==
    /\ ipc = "idle" /\ pc \notin Masked
    /\ IF ac
       THEN WriteControl(irq_enable, TRUE) /\ host_inactive' = 0
       ELSE /\ host_inactive' = IF host_inactive < INT_MAX - 1
                                THEN host_inactive + 1 ELSE host_inactive
            /\ UNCHANGED hwVars
    /\ UNCHANGED <<irq_enable, timeout, ring, pc, call, isr>>

(* altera_avalon_jtag_uart_timeout: the alarm that alt_tick runs each second. *)
Timeout ==
    /\ ipc = "idle" /\ pc \notin Masked
    /\ IF ac
       THEN /\ WriteControl(irq_enable, TRUE)
            /\ host_inactive' = 0
       ELSE /\ host_inactive' = IF host_inactive < INT_MAX - 2
                                THEN host_inactive + 1 ELSE host_inactive
            /\ UNCHANGED hwVars
    /\ UNCHANGED <<irq_enable, timeout, ring, pc, call, isr>>

---------------------------------------------------------------------------
(* What keeps running.                                                       *)

Calls == \/ \E m \in Messages, nb \in BOOLEAN : WriteCall(m, nb)
         \/ \E s \in Spaces, nb \in BOOLEAN : ReadCall(s, nb)
         \/ \E nb \in BOOLEAN : CloseCall(nb)
         \/ \E t \in Timeouts : SetTimeout(t)

AppStep == \/ W_Snap \/ W_Copy \/ W_Advance \/ W_Kick \/ W_Set
           \/ W_SpinExit \/ W_Check \/ W_End
           \/ R_Snap \/ R_Copy \/ R_Advance \/ R_SpinExit \/ R_Check \/ R_End
           \/ R_Rearm \/ R_Set \/ C_Return

IsrStep == \/ I_Control \/ I_RxByte \/ I_RxLate \/ I_RxFull \/ I_RxEnd
           \/ I_TxByte \/ I_TxEnd

driverVars == <<driver, ring, pc, call, isr>>

HostStep == /\ \/ \E c \in HostChar : HostSend(c)
               \/ HostPause
               \/ HostTake
            /\ UNCHANGED driverVars

Next == Calls \/ AppStep \/ IsrEnter \/ IsrStep \/ Timeout \/ HostStep

Spec == Init /\ [][Next]_vars

(* The processor keeps executing: the application's step when it is enabled *)
(* for good, the interrupt routine's next step, and an interrupt as soon as *)
(* interrupts are on, which calls in their sections keep turning off.       *)
CpuFairness == WF_vars(AppStep) /\ SF_vars(IsrEnter) /\ WF_vars(IsrStep)

---------------------------------------------------------------------------
(* Properties.                                                               *)

WritePcs == {"w_snap", "w_copy", "w_kick", "w_set", "w_spin", "w_check", "w_end"}
ReadPcs  == {"r_snap", "r_copy", "r_spin", "r_check", "r_end", "r_set"}
IsrPcs   == {"idle", "control", "rx", "rx_end", "tx"}

(* Every variable has its type; the ring indices stay inside the rings. *)
TypeOK ==
    /\ HwTypeOK
    /\ irq_enable \subseteq {"RE", "WE"}
    /\ host_inactive \in Nat /\ timeout \in 2..INT_MAX-1
    /\ rx_in \in Index /\ rx_out \in Index /\ tx_in \in Index /\ tx_out \in Index
    /\ rx_buf \in [Index -> Slot] /\ tx_buf \in [Index -> Slot]
    /\ pc \in {"idle", "c_spin"} \cup WritePcs \cup ReadPcs
    /\ nonblock \in BOOLEAN
    /\ msg \in Seq(Char) /\ got \in Seq(Char)
    /\ room \in Nat /\ moved \in Nat /\ ret \in Int
    /\ in \in Index /\ out \in Index /\ n \in Nat /\ k \in Nat
    /\ en \subseteq {"RE", "WE"}
    /\ ipc \in IsrPcs /\ wi \in BOOLEAN /\ space \in Nat /\ ravail \in BOOLEAN

(* Nothing written is stranded: while the transmit ring holds bytes, either *)
(* the transmit interrupt is enabled or the write() that put them there has *)
(* still to kick it (write.c:132-139 against init.c:187-195).               *)
TxKicked ==
    tx_in # tx_out =>
        "WE" \in irq_enable \/ pc \in {"w_snap", "w_copy", "w_kick", "w_set"}

(* The receive interrupt is off only while the ring holds bytes, so that a  *)
(* read() will come back with some and turn it on, or while the read() that *)
(* took the last of them has still to do so (read.c:188-195 against         *)
(* init.c:132-166).                                                         *)
RxRearmed ==
    "RE" \notin irq_enable =>
        rx_in # rx_out \/ (got # <<>> /\ pc \in {"r_snap", "r_copy", "r_end", "r_set"})

(* What the interrupt routine has turned off is turned on again only by the *)
(* call it is for: transmit by a write(), receive by a read().  The one     *)
(* never puts back the other's bit as it was when it loaded the enables     *)
(* (write.c:136-139, read.c:191-194 against init.c:161-162, 189-190).       *)
OwnEnableOnly ==
    [][ /\ "WE" \in ien' \ ien => pc = "w_set"
        /\ "RE" \in ien' \ ien => pc = "r_set" ]_vars

(* While write() copies, the slots it copies to are free, whatever the      *)
(* interrupt routine has consumed since the indices were read: the copied   *)
(* region lies inside the buffer and never meets the bytes still to be sent *)
(* (write.c:108-128).                                                       *)
WriterOwnsSlots ==
    pc = "w_copy" => /\ in = tx_in
                     /\ in + n <= BUF_LEN
                     /\ n + Used(tx_in, tx_out) < BUF_LEN

(* While read() copies, the slots it copies from hold unread bytes: the     *)
(* interrupt routine, which stores behind rx_in, cannot reach them          *)
(* (read.c:124-142).                                                        *)
ReaderOwnsSlots ==
    pc = "r_copy" => /\ out = rx_out
                     /\ out + n <= BUF_LEN
                     /\ n <= Used(rx_in, rx_out)

(* The interrupt routine never writes into a full device FIFO: the space it *)
(* read from the control register can only have grown since (init.c:175-185). *)
NoTxOverflow == space <= wspace

(* A timeout of INT_MAX-1 ("never") is never reached: the count of seconds  *)
(* without the host stops short of it (init.c:216, ioctl.c:65).             *)
NeverMeansNever == timeout = INT_MAX - 1 => host_inactive < timeout

(* The interrupt routine's outer loop ends, although the host may keep      *)
(* sending and taking while it runs (init.c:119-196).                       *)
IsrReturns == ipc # "idle" ~> ipc = "idle"

(* With no host, every read(), write() and close() still comes back: the    *)
(* alarm counts host_inactive up to the timeout (write.c:183-188,           *)
(* read.c:173-178, init.c:247).                                             *)
CallsReturn == pc # "idle" ~> pc = "idle"

(* What the host sends does not stay in the device with the ring empty:     *)
(* disabling and re-enabling the receive interrupt strands no byte.         *)
RxFlows == rfifo # <<>> ~> (rfifo = <<>> \/ rx_in # rx_out)

(* "If there is still data available here then the buffer is full"         *)
(* (init.c:158-160), said where the interrupt routine turns the receive     *)
(* interrupt off.                                                           *)
StillDataMeansFull == ipc = "rx_end" /\ ravail => RxFull

---------------------------------------------------------------------------
(* The inductive invariant: what the proofs need beside the properties.      *)

FifoBounds == Len(rfifo) <= FifoDepth /\ Len(wfifo) <= FifoDepth

(* A chunk being copied is not empty and within what the caller offered. *)
ChunkShape ==
    /\ pc = "w_copy" => n \in 1..Len(msg) /\ k \in 0..n
    /\ pc = "r_copy" => n \in 1..room /\ k \in 0..n /\ k <= Len(got)

(* Slot i lies between the oldest byte o and the next free slot x. *)
Live(i, x, o) == IF x >= o THEN o <= i /\ i < x ELSE o <= i \/ i < x

(* No slot is read before it was written: the bytes of the rings, and those *)
(* write() has copied so far, are bytes someone sent.                       *)
LiveSlotsWritten ==
    /\ \A i \in Index : Live(i, tx_in, tx_out) => tx_buf[i] \in Char
    /\ \A i \in Index : Live(i, rx_in, rx_out) => rx_buf[i] \in Char
    /\ pc = "w_copy" => \A i \in Index : in <= i /\ i < in + k => tx_buf[i] \in Char

(* The device keeps its pause flag only while bytes wait. *)
PauseMeansData == pauseIrq => rfifo # <<>>

(* A receive round finds a byte to take or has taken one, so that when it   *)
(* ends with bytes left in the device the ring is not empty.                *)
RoundTakes == /\ ipc = "rx" => rfifo # <<>> \/ rx_in # rx_out
              /\ ipc = "rx_end" /\ ravail => rx_in # rx_out

(* While a call is in its section nothing else runs, and what it loaded is  *)
(* what irq_enable and the control register still hold.                     *)
SectionHeld ==
    /\ ien = irq_enable
    /\ pc \in Masked => ipc = "idle"
    /\ pc = "w_set" => en = irq_enable \cup {"WE"}
    /\ pc = "r_set" => en = irq_enable \cup {"RE"}

(* The count of seconds stops one short of INT_MAX-1. *)
SecondsCapped == host_inactive \in 0..INT_MAX-2

IInv == /\ TypeOK
        /\ FifoBounds
        /\ ChunkShape
        /\ LiveSlotsWritten
        /\ WriterOwnsSlots
        /\ ReaderOwnsSlots
        /\ NoTxOverflow
        /\ TxKicked
        /\ PauseMeansData
        /\ RoundTakes
        /\ RxRearmed
        /\ SectionHeld
===========================================================================
