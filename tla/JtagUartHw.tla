---------------------------- MODULE JtagUartHw ----------------------------
(* The JTAG UART peripheral: two hardware FIFOs, the interrupt enables, the *)
(* read-pause flag and the activity flag, as seen through its two registers. *)
(* One action is one bus access, or one event on the JTAG (host) side.       *)
(* The register operators say what an access does to the device; the driver *)
(* module makes them conjuncts of its own actions.                           *)
EXTENDS Integers, Sequences

CONSTANTS Char,       \* the bytes that may travel
          FifoDepth,  \* words in each hardware FIFO (64)
          Threshold   \* almost-empty / almost-full margin (8)

ASSUME HwAssumption == /\ FifoDepth \in Nat
                       /\ Threshold \in Nat
                       /\ Threshold < FifoDepth

VARIABLES ien,       \* interrupt enables latched in the device: ien_AF, ien_AE
          rfifo,     \* host to CPU, oldest first
          wfifo,     \* CPU to host, oldest first
          pauseIrq,  \* the host paused while rfifo held data
          ac         \* the host was active since ac was last cleared

hwVars == <<ien, rfifo, wfifo, pauseIrq, ac>>

HwInit == /\ ien = {}
          /\ rfifo = <<>>
          /\ wfifo = <<>>
          /\ pauseIrq = FALSE
          /\ ac = FALSE

HwTypeOK == /\ ien \subseteq {"RE", "WE"}
            /\ rfifo \in Seq(Char)
            /\ wfifo \in Seq(Char)
            /\ pauseIrq \in BOOLEAN
            /\ ac \in BOOLEAN

(* The two interrupt conditions and the line the CPU sees. *)
ipen_AF == "RE" \in ien /\ (pauseIrq \/ FifoDepth - Len(rfifo) <= Threshold)
ipen_AE == "WE" \in ien /\ Len(wfifo) <= Threshold
av_irq  == ipen_AF \/ ipen_AE

(* What a read of the control register reports of the write FIFO. *)
wspace == FifoDepth - Len(wfifo)

---------------------------------------------------------------------------
(* Register accesses.                                                        *)

(* A control write latches the enables; bit 10 clears the activity flag. *)
WriteControl(enables, clearAC) ==
    /\ ien' = enables
    /\ ac' = (ac /\ ~clearAC)
    /\ UNCHANGED <<rfifo, wfifo, pauseIrq>>

(* A data write into a full FIFO is dropped (woverflow). *)
WriteData(c) ==
    /\ wfifo' = IF Len(wfifo) < FifoDepth THEN Append(wfifo, c) ELSE wfifo
    /\ UNCHANGED <<ien, rfifo, pauseIrq, ac>>

(* A data read pops the FIFO if it can, and clears the pause flag always. *)
ReadData ==
    /\ rfifo' = IF rfifo = <<>> THEN <<>> ELSE Tail(rfifo)
    /\ pauseIrq' = FALSE
    /\ UNCHANGED <<ien, wfifo, ac>>

(* A byte may arrive in the very cycle of a data read that finds the FIFO    *)
(* empty: rvalid is latched before it, the count of bytes left after it, so *)
(* the read says both that it got nothing and that something is left.       *)
ReadDataAsSent(c) ==
    /\ rfifo = <<>> /\ rfifo' = <<c>>
    /\ pauseIrq' = FALSE
    /\ ac' = TRUE
    /\ UNCHANGED <<ien, wfifo>>

---------------------------------------------------------------------------
(* The JTAG side.                                                            *)

(* The host delivers a byte; it is told (t_dav) when there is no room. *)
HostSend(c) ==
    /\ Len(rfifo) < FifoDepth
    /\ rfifo' = Append(rfifo, c)
    /\ ac' = TRUE
    /\ UNCHANGED <<ien, wfifo, pauseIrq>>

(* The host pauses its transmission: an interrupt if bytes are waiting. *)
HostPause ==
    /\ pauseIrq' = (pauseIrq \/ rfifo # <<>>)
    /\ ac' = TRUE
    /\ UNCHANGED <<ien, rfifo, wfifo>>

(* The host takes the oldest byte; this alone does not set ac. *)
HostTake ==
    /\ wfifo # <<>>
    /\ wfifo' = Tail(wfifo)
    /\ UNCHANGED <<ien, rfifo, pauseIrq, ac>>
===========================================================================
