-------------------------- MODULE JtagUartChannel --------------------------
(* The driver and the device, seen as the two first-in first-out channels of *)
(* bytes of CharChannel: what is on its way to the host is in the transmit   *)
(* ring and behind it in the write FIFO; what comes from the host is in the  *)
(* read FIFO and behind it in the receive ring.                              *)
EXTENDS JtagUartDriver

(* The bytes of a ring, oldest first. *)
Contents(buf, i, o) == [j \in 1..Used(i, o) |-> buf[(o + j - 1) % BUF_LEN]]

(* A byte that read() has copied is obtained when rx_out passes it. *)
Obtained == SubSeq(got, 1, Len(got) - (IF pc = "r_copy" THEN k ELSE 0))

ToHost   == wfifo \o Contents(tx_buf, tx_in, tx_out)
FromHost == Contents(rx_buf, rx_in, rx_out) \o rfifo

(* An error is a return without a byte. *)
Returned == IF ret > 0 THEN ret ELSE 0

Channel == INSTANCE CharChannel WITH
    src  <- msg,
    sent <- moved,
    tx   <- ToHost,
    rx   <- FromHost,
    dst  <- Obtained,
    ret  <- Returned,
    Capacity <- BUF_LEN - 1 + FifoDepth

(* The driver and the device implement the two channels: nothing is lost,    *)
(* duplicated or reordered between write() and the host or the host and      *)
(* read(), and the counts they return are true (read.c:72-198, write.c:75-214, *)
(* init.c:105-197).                                                          *)
ChannelSafety == Channel!ChannelSpec

---------------------------------------------------------------------------
(* What the mapping needs beside IInv.                                       *)

(* A call's locals are set only while that call is under way. *)
CallLocals ==
    /\ pc \notin WritePcs => msg = <<>> /\ moved = 0
    /\ pc \notin ReadPcs => got = <<>>

(* The bytes copied so far are those of the message, or of the ring. *)
Copied ==
    /\ pc = "w_copy" => \A j \in 1..k : tx_buf[in + j - 1] = msg[j]
    /\ pc = "r_copy" => \A j \in 1..k : got[Len(got) - k + j] = rx_buf[out + j - 1]

ChannelInv == IInv /\ CallLocals /\ Copied
===========================================================================
