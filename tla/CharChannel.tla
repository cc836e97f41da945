---------------------------- MODULE CharChannel ----------------------------
(* What the JTAG UART, driver and device together, promises their user: two *)
(* independent first-in first-out channels of bytes.  write() moves a prefix *)
(* of its argument into one, the host takes them out in order; the host      *)
(* feeds the other, read() takes them out in order.  Nothing is lost,        *)
(* duplicated, reordered or invented, and the count write() and read()       *)
(* return is the count of bytes they moved.                                  *)
EXTENDS Integers, Sequences

CONSTANTS Char, Messages, HostChar,
          Capacity   \* the most one channel ever holds

VARIABLES src,    \* write(): the bytes it has still to hand over
          sent,   \* write(): how many it has handed over
          tx,     \* CPU to host
          rx,     \* host to CPU
          dst,    \* read(): the bytes it has obtained
          ret     \* what the last call returned

abstractVars == <<src, sent, tx, rx, dst, ret>>

ChannelInit ==
    src = <<>> /\ sent = 0 /\ tx = <<>> /\ rx = <<>> /\ dst = <<>> /\ ret = 0

(* A call starts: write(m), or any other. *)
Start(m) == /\ dst = <<>> /\ src = <<>> /\ sent = 0
            /\ src' = m /\ ret' = 0
            /\ UNCHANGED <<sent, tx, rx, dst>>

Accept(j) == /\ j <= Len(src) /\ Len(tx) + j <= Capacity
             /\ tx' = tx \o SubSeq(src, 1, j)
             /\ src' = SubSeq(src, j + 1, Len(src))
             /\ sent' = sent + j
             /\ UNCHANGED <<rx, dst, ret>>

HostTakes == /\ tx # <<>>
             /\ tx' = Tail(tx)
             /\ UNCHANGED <<src, sent, rx, dst, ret>>

HostSends(c) == /\ Len(rx) < Capacity
                /\ rx' = Append(rx, c)
                /\ UNCHANGED <<src, sent, tx, dst, ret>>

Obtain(j) == /\ j <= Len(rx)
             /\ dst' = dst \o SubSeq(rx, 1, j)
             /\ rx' = SubSeq(rx, j + 1, Len(rx))
             /\ UNCHANGED <<src, sent, tx, ret>>

(* The call returns the count of bytes moved, or that none were. *)
Finish == /\ src' = <<>> /\ sent' = 0 /\ dst' = <<>>
          /\ ret' = IF sent > 0 THEN sent ELSE Len(dst)
          /\ UNCHANGED <<tx, rx>>

ChannelNext == \/ \E m \in Messages \cup {<<>>} : Start(m)
               \/ \E j \in 1..Capacity : Accept(j) \/ Obtain(j)
               \/ HostTakes
               \/ \E c \in HostChar : HostSends(c)
               \/ Finish

ChannelSpec == ChannelInit /\ [][ChannelNext]_abstractVars

(* With a host that keeps taking, whatever was accepted reaches it. *)
Delivery == WF_abstractVars(HostTakes)
FairChannelSpec == ChannelSpec /\ Delivery
=============================================================================
