--------------------------- MODULE DescriptorPool ---------------------------
(* What the file descriptor layer of the HAL promises: a pool of descriptors, *)
(* each referring to at most one device, and exclusive locks on devices.  A  *)
(* device has at most one lock, nobody obtains a descriptor for a device      *)
(* locked through another one, and only the holder gives a lock back.  The    *)
(* pool does not promise that the holder is alone: see LockIsExclusive in     *)
(* FileDescriptors.                                                           *)
EXTENDS Integers

CONSTANTS Fd,        \* descriptors
          Reserved,  \* those of standard input, output and error
          Device,    \* what a descriptor may refer to
          None       \* no device

VARIABLES refers,  \* the device each descriptor refers to
          locked   \* the descriptors that hold the lock of their device

pool == <<refers, locked>>

TypeOK == refers \in [Fd -> Device \cup {None}] /\ locked \subseteq Fd

Init == /\ refers \in [Fd -> Device \cup {None}]
        /\ \A f \in Fd : refers[f] = None <=> f \notin Reserved
        /\ locked = {}

LockedElsewhere(f, v) == \E g \in locked \ {f} : refers[g] = v

Obtain(f) == /\ f \notin Reserved /\ refers[f] = None
             /\ \E v \in Device : /\ ~LockedElsewhere(f, v)
                                  /\ refers' = [refers EXCEPT ![f] = v]
             /\ UNCHANGED locked

GiveBack(f) == /\ f \notin Reserved
               /\ refers' = [refers EXCEPT ![f] = None]
               /\ locked' = locked \ {f}

(* Start-up code points a reserved descriptor somewhere else. *)
Redirect(f) == /\ f \in Reserved /\ locked = {}
               /\ \E v \in Device : refers' = [refers EXCEPT ![f] = v]
               /\ UNCHANGED locked

Lock(f) == /\ refers[f] # None /\ ~LockedElsewhere(f, refers[f])
           /\ locked' = locked \cup {f}
           /\ UNCHANGED refers

Unlock(f) == locked' = locked \ {f} /\ UNCHANGED refers

Next == \E f \in Fd : Obtain(f) \/ GiveBack(f) \/ Redirect(f) \/ Lock(f) \/ Unlock(f)

Spec == Init /\ [][Next]_pool
===========================================================================
