----------------------- MODULE FileDescriptors_proofs -----------------------
(* Proofs about the table of descriptors: the standard channels stay, a       *)
(* device has one lock, and the table implements the pool of DescriptorPool.  *)
EXTENDS FileDescriptors, FiniteSetTheorems, WellFoundedInduction, TLAPS

(* The part of the type invariant the other proofs need. *)
TableOK == /\ alt_fd_list \in [Fd -> [dev : Served \cup {None}, fd_flags : SUBSET Flag]]
           /\ alt_max_fd \in Fd \cup {-1}
           /\ alt_dev_list \in Seq(Device) /\ alt_fs_list \in Seq(Filesystem)
           /\ boot \in 0..4

StdKept == \A f \in Std : alt_fd_list[f].dev # None

IInv == TableOK /\ StdKept /\ HighWater /\ LockLeavesOneOther
---------------------------------------------------------------------------
(* A non-empty set of naturals has a least element. *)
LEMMA LeastLemma ==
    ASSUME NEW T, T \subseteq Nat, T # {}
    PROVE  Least(T) \in T
<1>1. PICK m \in T : \A n \in T : ~(<<n, m>> \in OpToRel(<, Nat))
  BY NatLessThanWellFounded, WFMin
<1>2. \A n \in T : ~(n < m)
  BY <1>1 DEF OpToRel
<1>3. \A n \in T : m <= n
  BY <1>2
<1> QED BY <1>3 DEF Least

(* Looking a name up gives a registered device, a registered file system, *)
(* or nothing.                                                             *)
LEMMA FirstLemma ==
    ASSUME NEW S, NEW list \in Seq(S), NEW hits, hits \subseteq DOMAIN list
    PROVE  First(list, hits) \in S \cup {None}
<1>1. DOMAIN list \subseteq Nat /\ \A i \in DOMAIN list : list[i] \in S
  OBVIOUS
<1>2. hits # {} => Least(hits) \in hits
  BY <1>1, LeastLemma
<1> QED BY <1>1, <1>2 DEF First

LEMMA FoundLemma ==
    ASSUME TableOK, NEW name
    PROVE  /\ alt_find_dev(name) \in Device \cup {None}
           /\ alt_find_file(name) \in Filesystem \cup {None}
  BY FirstLemma DEF alt_find_dev, alt_find_file, TableOK

(* open() takes a free descriptor, never a standard one. *)
LEMMA ClaimLemma ==
    ASSUME TableOK, StdKept, NEW name
    PROVE  /\ Claim(name) \in Fd \cup {Nobody}
           /\ Claim(name) # Nobody => /\ Claim(name) > 2
                                      /\ alt_fd_list[Claim(name)].dev = None
                                      /\ Found(name) \in Served
           /\ Found(name) # None => Found(name) \in IF Isafs(name) THEN Filesystem ELSE Device
<1> DEFINE T == {f \in Fd : alt_fd_list[f].dev = None}
<1>1. alt_get_fd = Nobody \/ alt_get_fd \in T
  <2>1. CASE T = {}
    BY <2>1 DEF alt_get_fd
  <2>2. CASE T # {}
    <3>1. T \subseteq Nat
      BY FdAssumption DEF Fd
    <3>2. Least(T) \in T
      BY <2>2, <3>1, LeastLemma
    <3> QED BY <2>2, <3>2 DEF alt_get_fd
  <2> QED BY <2>1, <2>2
<1>2. \A f \in T : f > 2
  BY FdAssumption DEF StdKept, Fd, Std
<1>3. Found(name) # None => Found(name) \in IF Isafs(name) THEN Filesystem ELSE Device
  BY FoundLemma, FdAssumption DEF Found, Isafs, Served
<1>4. Found(name) # None => Found(name) \in Served
  BY <1>3 DEF Served
<1> QED BY <1>1, <1>2, <1>3, <1>4 DEF Claim
---------------------------------------------------------------------------
(* What a step can do to the table.                                          *)

EntryOK(e) == /\ e \in [dev : Served, fd_flags : SUBSET Flag]
              /\ "ALT_FD_EXCL" \notin e.fd_flags
              /\ "ALT_FD_DEV" \in e.fd_flags => e.dev \in Device

Keep == alt_fd_list' = alt_fd_list

Take(c, e) == /\ c > 2 /\ alt_fd_list[c].dev = None /\ EntryOK(e) /\ alt_max_fd' >= c
              /\ \A g \in Fd : g # c /\ Locked(g) => alt_fd_list[g].dev # e.dev
              /\ alt_fd_list' = [alt_fd_list EXCEPT ![c] = e]

Mode(s) == IF s = STDIN_FILENO THEN {} ELSE {"O_WRONLY"}
AccessOf(flags) == flags \cap O_ACCMODE

Point(s, e) == /\ s \in Std /\ EntryOK(e) /\ boot < 4 /\ alt_max_fd' > 2
               /\ AccessOf(e.fd_flags) = Mode(s)
               /\ alt_fd_list' = [alt_fd_list EXCEPT ![s] = e]

Release(f) == f > 2 /\ alt_fd_list' = [alt_fd_list EXCEPT ![f] = Free]

Lock(f) == /\ main /\ "ALT_FD_DEV" \in alt_fd_list[f].fd_flags
           /\ \A g \in 0..(alt_max_fd - 1) : g # f => alt_fd_list[g].dev # alt_fd_list[f].dev
           /\ alt_fd_list' = [alt_fd_list EXCEPT ![f].fd_flags = @ \cup {"ALT_FD_EXCL"}]

Change(f, flags) == /\ alt_fd_list[f].dev # None /\ flags \subseteq Flag
                    /\ "ALT_FD_EXCL" \in flags => Locked(f)
                    /\ "ALT_FD_DEV" \in flags <=> "ALT_FD_DEV" \in alt_fd_list[f].fd_flags
                    /\ AccessOf(flags) = AccessOf(alt_fd_list[f].fd_flags)
                    /\ alt_fd_list' = [alt_fd_list EXCEPT ![f].fd_flags = flags]

Shape == \/ Keep
         \/ \E f \in Fd : \/ \E e : Take(f, e) \/ Point(f, e)
                          \/ Release(f) \/ Lock(f)
                          \/ \E flags : Change(f, flags)

(* The high-water mark and the start-up counter only rise. *)
Rises == /\ alt_max_fd' \in Fd \cup {-1} /\ alt_max_fd' >= alt_max_fd
         /\ boot' \in 0..4 /\ boot' >= boot

(* The entry open() writes, and the table after its error path. *)
LEMMA ClaimedLemma ==
    ASSUME IInv, NEW name, NEW flags \in SUBSET Flag, Claim(name) # Nobody
    PROVE  /\ \E e : /\ EntryOK(e) /\ e.dev = Found(name) /\ AccessOf(e.fd_flags) = AccessOf(flags)
                     /\ Claimed(name, flags) = [alt_fd_list EXCEPT ![Claim(name)] = e]
           /\ alt_release_fd(Claimed(name, flags), Claim(name)) = alt_fd_list
<1> DEFINE c == Claim(name)
           e == [dev |-> Found(name),
                 fd_flags |-> (flags \ ALT_FD_FLAGS_MASK) \cup (IF Isafs(name) THEN {} ELSE {"ALT_FD_DEV"})]
<1>1. c \in Fd /\ c > 2 /\ alt_fd_list[c].dev = None /\ Found(name) \in Served
  BY ClaimLemma DEF IInv
<1>2. Claimed(name, flags) = [alt_fd_list EXCEPT ![c] = e]
  BY DEF Claimed
<1>3. EntryOK(e)
  <2>1. e \in [dev : Served, fd_flags : SUBSET Flag] /\ "ALT_FD_EXCL" \notin e.fd_flags
    BY <1>1 DEF Flag, ALT_FD_FLAGS_MASK
  <2>2. "ALT_FD_DEV" \in e.fd_flags => e.dev \in Device
    <3>1. "ALT_FD_DEV" \in e.fd_flags => ~Isafs(name)
      BY DEF ALT_FD_FLAGS_MASK
    <3> QED BY <3>1, <1>1, ClaimLemma, FdAssumption DEF IInv, Served
  <2> QED BY <2>1, <2>2 DEF EntryOK
<1>4. alt_fd_list[c] = Free
  BY <1>1 DEF IInv, HighWater
<1>5. alt_release_fd(Claimed(name, flags), c) = [[alt_fd_list EXCEPT ![c] = e] EXCEPT ![c] = Free]
  BY <1>1, <1>2 DEF alt_release_fd
<1>6. alt_fd_list \in [Fd -> [dev : Served \cup {None}, fd_flags : SUBSET Flag]]
  BY DEF IInv, TableOK
<1>7. [[alt_fd_list EXCEPT ![c] = e] EXCEPT ![c] = Free] = alt_fd_list
  BY <1>1, <1>4, <1>6
<1>8. alt_release_fd(Claimed(name, flags), Claim(name)) = alt_fd_list
  BY <1>5, <1>7
<1>9. e.dev = Found(name) /\ AccessOf(e.fd_flags) = AccessOf(flags)
  BY DEF AccessOf, O_ACCMODE, ALT_FD_FLAGS_MASK
<1> HIDE DEF e
<1> QED BY <1>2, <1>3, <1>8, <1>9

(* Looking a descriptor up fails, or the table is as it was. *)
LEMMA ReleasedLemma ==
    ASSUME IInv, NEW name, NEW flags \in SUBSET Flag
    PROVE  alt_release_fd(Claimed(name, flags), Claim(name)) = alt_fd_list
<1>1. CASE Claim(name) = Nobody
  BY <1>1 DEF Claimed, alt_release_fd, Nobody
<1> QED BY <1>1, ClaimedLemma

LEMMA RaisedLemma ==
    ASSUME IInv, NEW name
    PROVE  /\ Raised(Claim(name)) \in Fd \cup {-1}
           /\ Raised(Claim(name)) >= alt_max_fd /\ Raised(Claim(name)) >= Claim(name)
<1>1. Claim(name) \in Fd \cup {-1} /\ alt_max_fd \in Fd \cup {-1}
  BY ClaimLemma DEF IInv, TableOK, Nobody
<1>2. Claim(name) \in Int /\ alt_max_fd \in Int
  BY <1>1, FdAssumption DEF Fd
<1> QED BY <1>1, <1>2 DEF Raised
---------------------------------------------------------------------------
(* Every step has one of the shapes.                                         *)

LEMMA RedirectShape ==
    ASSUME IInv, NEW answer, alt_io_redirect(answer)
    PROVE  Shape /\ Rises
<1> DEFINE std == Channel[boot]
           name == StdDevice[std]
           flags == IF std = STDIN_FILENO THEN {} ELSE {"O_WRONLY"}
           old == Claim(name)
           list == Claimed(name, flags)
<1>1. std \in Std /\ flags \in SUBSET Flag /\ boot < 4
  BY DEF alt_io_redirect, Channel, Std, STDIN_FILENO, STDOUT_FILENO, STDERR_FILENO, Flag
<1>2. Rises
  BY RaisedLemma DEF alt_io_redirect, Rises, IInv, TableOK
<1>3. alt_max_fd' = Raised(old)
  BY DEF alt_io_redirect
<1>4. CASE OpenStatus(name, flags, answer) = Success
  <2>1. old # Nobody
    BY <1>4 DEF OpenStatus, Claim, Success
  <2>2. old \in Fd /\ old > 2 /\ std # old /\ std \in Fd /\ std <= 2
    BY <1>1, <2>1, ClaimLemma, FdAssumption DEF IInv, Std, Fd
  <2>3. PICK e : /\ EntryOK(e) /\ list = [alt_fd_list EXCEPT ![old] = e]
                 /\ AccessOf(e.fd_flags) = AccessOf(flags)
    BY <1>1, <2>1, ClaimedLemma
  <2>8. AccessOf(e.fd_flags) = Mode(std)
    BY <2>3 DEF Mode, AccessOf, O_ACCMODE
  <2>4. alt_fd_list \in [Fd -> [dev : Served \cup {None}, fd_flags : SUBSET Flag]] /\ alt_fd_list[old] = Free
    BY <2>1, ClaimLemma DEF IInv, TableOK, HighWater
  <2>5. alt_fd_list' = [[list EXCEPT ![std] = list[old]] EXCEPT ![old] = Free]
    BY <1>4, <2>2 DEF alt_io_redirect, alt_release_fd
  <2> HIDE DEF old, list, std, name, flags
  <2>6. alt_fd_list' = [alt_fd_list EXCEPT ![std] = e]
    BY <2>2, <2>3, <2>4, <2>5
  <2>7. alt_max_fd' > 2
    <3>1. Raised(old) \in Fd \cup {-1} /\ Raised(old) >= old
      BY RaisedLemma DEF old
    <3> QED BY <1>3, <2>2, <3>1, FdAssumption DEF Fd
  <2> QED BY <1>1, <1>2, <2>2, <2>3, <2>6, <2>7, <2>8 DEF Shape, Point
<1>5. CASE OpenStatus(name, flags, answer) # Success
  <2>1. alt_fd_list' = alt_release_fd(list, old)
    BY <1>5 DEF alt_io_redirect
  <2> QED BY <1>1, <1>2, <2>1, ReleasedLemma DEF Shape, Keep
<1> QED BY <1>4, <1>5

LEMMA OpenShape ==
    ASSUME IInv, NEW name, NEW flags \in SUBSET Flag, NEW answer, ALT_OPEN(name, flags, answer)
    PROVE  Shape /\ Rises
<1> DEFINE c == Claim(name)
<1>1. Rises
  BY RaisedLemma DEF ALT_OPEN, Rises, IInv, TableOK
<1>2. CASE OpenStatus(name, flags, answer) = Success
  <2>1. c # Nobody
    BY <1>2 DEF OpenStatus, Claim, Success
  <2>2. c \in Fd /\ c > 2 /\ alt_fd_list[c].dev = None
    BY <2>1, ClaimLemma DEF IInv
  <2>3. PICK e : EntryOK(e) /\ e.dev = Found(name) /\ Claimed(name, flags) = [alt_fd_list EXCEPT ![c] = e]
    BY <2>1, ClaimedLemma
  <2>4. alt_fd_list' = [alt_fd_list EXCEPT ![c] = e]
    BY <1>2, <2>3 DEF ALT_OPEN
  <2>5. alt_max_fd' = Raised(c) /\ alt_max_fd' >= c
    BY RaisedLemma DEF ALT_OPEN
  <2>6. ASSUME NEW g \in Fd, g # c, Locked(g), alt_fd_list[g].dev = e.dev PROVE FALSE
    <3>1. alt_fd_list[g].dev \in Device /\ alt_max_fd > 2
      BY <2>6 DEF IInv, HighWater
    <3>2. ~Isafs(name)
      <4>1. alt_fd_list[g].dev \in Served
        BY <3>1 DEF Served
      <4> QED BY <2>3, <2>6, <3>1, <4>1, ClaimLemma, FdAssumption DEF IInv, Served
    <3>3. g \in 0..Raised(c)
      <4>1. g <= alt_max_fd
        <5>1. CASE g > 2
          <6>1. alt_fd_list[g].dev # None
            BY <3>1, FdAssumption DEF Served
          <6> QED BY <5>1, <6>1, <2>6 DEF IInv, HighWater
        <5>2. CASE g <= 2
          BY <5>2, <3>1, <2>6, FdAssumption DEF Fd, IInv, TableOK
        <5> QED BY <5>1, <5>2, FdAssumption, <2>6 DEF Fd
      <4>2. Raised(c) \in Fd \cup {-1} /\ Raised(c) >= alt_max_fd
        BY RaisedLemma
      <4> QED BY <4>1, <4>2, FdAssumption, <2>6 DEF Fd, IInv, TableOK
    <3>4. alt_fd_list \in [Fd -> [dev : Served \cup {None}, fd_flags : SUBSET Flag]]
      BY DEF IInv, TableOK
    <3>5. Claimed(name, flags)[g] = alt_fd_list[g] /\ Claimed(name, flags)[c].dev = e.dev
      BY <2>2, <2>3, <2>6, <3>4
    <3>6. alt_file_locked(Claimed(name, flags), c, Raised(c))
      BY <2>6, <3>3, <3>5 DEF alt_file_locked, Locked
    <3>7. OpenStatus(name, flags, answer) = "EACCES"
      BY <2>1, <3>2, <3>6 DEF OpenStatus, Claim
    <3> QED BY <1>2, <3>7 DEF Success
  <2> QED BY <1>1, <2>2, <2>3, <2>4, <2>5, <2>6 DEF Shape, Take
<1>3. CASE OpenStatus(name, flags, answer) # Success
  <2>1. alt_fd_list' = alt_release_fd(Claimed(name, flags), c)
    BY <1>3 DEF ALT_OPEN
  <2> QED BY <1>1, <2>1, ReleasedLemma DEF Shape, Keep
<1> QED BY <1>2, <1>3

LEMMA CloseShape ==
    ASSUME IInv, NEW f \in Descriptor, NEW answer, ALT_CLOSE(f, answer)
    PROVE  Shape /\ Rises
<1>1. Rises
  BY FdAssumption DEF ALT_CLOSE, Rises, IInv, TableOK, Fd
<1>2. CASE f = Nobody
  BY <1>1, <1>2 DEF ALT_CLOSE, Shape, Keep
<1>3. CASE f # Nobody /\ f > 2
  BY <1>1, <1>3 DEF ALT_CLOSE, Shape, Release, alt_release_fd, Descriptor
<1>4. CASE f # Nobody /\ ~(f > 2)
  BY <1>1, <1>4 DEF ALT_CLOSE, Shape, Keep, alt_release_fd
<1> QED BY <1>2, <1>3, <1>4

LEMMA IoctlShape ==
    ASSUME IInv, NEW f \in Descriptor, NEW req, NEW answer, ALT_IOCTL(f, req, answer)
    PROVE  Shape /\ Rises
<1>1. Rises
  BY FdAssumption DEF ALT_IOCTL, Rises, IInv, TableOK, Fd
<1>2. alt_fd_list \in [Fd -> [dev : Served \cup {None}, fd_flags : SUBSET Flag]]
  BY DEF IInv, TableOK
<1>3. CASE UNCHANGED alt_fd_list
  BY <1>1, <1>3 DEF Shape, Keep
<1>4. CASE f # Nobody /\ "ALT_FD_DEV" \in alt_fd_list[f].fd_flags /\ alt_fd_lock(f)
  <2>1. f \in Fd /\ main
    BY <1>4 DEF Descriptor, ALT_IOCTL
  <2>2. CASE UNCHANGED alt_fd_list
    BY <1>3, <2>2
  <2>3. CASE ~UNCHANGED alt_fd_list
    <3>1. Lock(f)
      BY <1>4, <2>1, <2>3 DEF alt_fd_lock, Lock
    <3> QED BY <1>1, <2>1, <3>1 DEF Shape
  <2> QED BY <2>2, <2>3
<1>5. CASE f # Nobody /\ "ALT_FD_DEV" \in alt_fd_list[f].fd_flags /\ alt_fd_unlock(f)
  <2>1. f \in Fd /\ alt_fd_list[f].dev # None
    BY <1>5 DEF Descriptor, ALT_IOCTL, Usable
  <2> DEFINE flags == alt_fd_list[f].fd_flags \ {"ALT_FD_EXCL"}
  <2>2. alt_fd_list' = [alt_fd_list EXCEPT ![f].fd_flags = flags]
    BY <1>5 DEF alt_fd_unlock
  <2>3. flags \subseteq Flag
    BY <1>2, <2>1
  <2>4. AccessOf(flags) = AccessOf(alt_fd_list[f].fd_flags)
    BY DEF AccessOf, O_ACCMODE
  <2>5. Change(f, flags)
    BY <2>1, <2>2, <2>3, <2>4 DEF Change
  <2> QED BY <1>1, <2>1, <2>5 DEF Shape
<1> QED BY <1>3, <1>4, <1>5 DEF ALT_IOCTL

LEMMA FcntlShape ==
    ASSUME IInv, NEW f \in Descriptor, NEW cmd, NEW arg \in SetFlags, ALT_FCNTL(f, cmd, arg)
    PROVE  Shape /\ Rises
<1>1. Rises
  BY FdAssumption DEF ALT_FCNTL, Rises, IInv, TableOK, Fd
<1>2. alt_fd_list \in [Fd -> [dev : Served \cup {None}, fd_flags : SUBSET Flag]]
  BY DEF IInv, TableOK
<1>3. CASE f # Nobody /\ cmd = "F_SETFL"
  <2>1. f \in Fd /\ alt_fd_list[f].dev # None
    BY <1>3 DEF Descriptor, ALT_FCNTL, Usable
  <2> DEFINE flags == SetFl(alt_fd_list[f].fd_flags, arg)
  <2>2. alt_fd_list' = [alt_fd_list EXCEPT ![f].fd_flags = flags]
    BY <1>3 DEF ALT_FCNTL
  <2>3. flags \subseteq Flag
    BY <1>2, <2>1 DEF SetFl, ALT_FCNTL_FLAGS_MASK, Flag
  <2>4. /\ "ALT_FD_EXCL" \in flags => Locked(f)
        /\ "ALT_FD_DEV" \in flags <=> "ALT_FD_DEV" \in alt_fd_list[f].fd_flags
    BY DEF SetFl, ALT_FCNTL_FLAGS_MASK, Locked
  <2>5. AccessOf(flags) = AccessOf(alt_fd_list[f].fd_flags)
    BY DEF AccessOf, SetFl, O_ACCMODE, ALT_FCNTL_FLAGS_MASK
  <2>6. Change(f, flags)
    BY <2>1, <2>2, <2>3, <2>4, <2>5 DEF Change
  <2> QED BY <1>1, <2>1, <2>6 DEF Shape
<1>4. CASE ~(f # Nobody /\ cmd = "F_SETFL")
  BY <1>1, <1>4 DEF ALT_FCNTL, Shape, Keep
<1> QED BY <1>3, <1>4

LEMMA StatShape ==
    ASSUME IInv, NEW name, NEW answer, ALT_STAT(name, answer)
    PROVE  Shape /\ Rises
<1>1. Rises
  BY RaisedLemma DEF ALT_STAT, Rises, IInv, TableOK
<1>2. alt_fd_list' = alt_release_fd(Claimed(name, {}), Claim(name))
  BY DEF ALT_STAT
<1> QED BY <1>1, <1>2, ReleasedLemma DEF Shape, Keep

LEMMA ThroughShape ==
    ASSUME IInv, NEW op, NEW f, NEW out, Through(op, f, out)
    PROVE  Shape /\ Rises
  BY FdAssumption DEF Through, Shape, Keep, Rises, IInv, TableOK, Fd

LEMMA NextShape ==
    ASSUME IInv, [Next]_fdVars
    PROVE  Shape /\ Rises
<1>1. CASE UNCHANGED fdVars
  BY <1>1, FdAssumption DEF fdVars, Shape, Keep, Rises, IInv, TableOK, Fd
<1>2. CASE AltSysInit
  BY <1>2, FdAssumption DEF AltSysInit, Shape, Keep, Rises, IInv, TableOK, Fd
<1>3. ASSUME NEW answer \in Status, alt_io_redirect(answer) PROVE Shape /\ Rises
  BY <1>3, RedirectShape
<1>4. CASE Call
  <2>1. PICK answer \in Status :
          \/ \E name \in Name : \/ \E flags \in OpenFlags : ALT_OPEN(name, flags, answer)
                                \/ ALT_STAT(name, answer)
          \/ \E f \in Descriptor :
               \/ ALT_CLOSE(f, answer)
               \/ \E req \in {"TIOCEXCL", "TIOCNXCL", "TIOCSTIMEOUT"} : ALT_IOCTL(f, req, answer)
               \/ \E cmd \in {"F_GETFL", "F_SETFL", "F_DUPFD"}, arg \in SetFlags : ALT_FCNTL(f, cmd, arg)
               \/ ALT_READ(f, answer) \/ ALT_WRITE(f, answer)
               \/ ALT_LSEEK(f, answer) \/ ALT_FSTAT(f, answer) \/ ALT_ISATTY(f, answer)
    BY <1>4 DEF Call
  <2>2. ASSUME NEW name \in Name, NEW flags \in OpenFlags, ALT_OPEN(name, flags, answer)
        PROVE Shape /\ Rises
    BY <2>2, OpenShape, FdAssumption
  <2>3. ASSUME NEW f \in Descriptor,
               \/ ALT_READ(f, answer) \/ ALT_WRITE(f, answer)
               \/ ALT_LSEEK(f, answer) \/ ALT_FSTAT(f, answer) \/ ALT_ISATTY(f, answer)
        PROVE Shape /\ Rises
    <3>1. \E op, out : Through(op, f, out)
      BY <2>3 DEF ALT_READ, ALT_WRITE, ALT_LSEEK, ALT_FSTAT, ALT_ISATTY
    <3> QED BY <3>1, ThroughShape
  <2> QED BY <2>1, <2>2, <2>3, StatShape, CloseShape, IoctlShape, FcntlShape
<1> QED BY <1>1, <1>2, <1>3, <1>4 DEF Next, Boot
---------------------------------------------------------------------------
(* The inductive invariant.                                                  *)

LEMMA RegisteredLemma ==
    ASSUME NEW S, NEW list \in Seq(S), NEW new \in Seq(S)
    PROVE  Registered(list, new) \in Seq(S)
<1> DEFINE n == Len(new) + Len(list)
<1>1. n \in Nat
  OBVIOUS
<1>2. ASSUME NEW i \in 1..n
      PROVE  (IF i <= Len(new) THEN new[Len(new) + 1 - i] ELSE list[i - Len(new)]) \in S
  <2>1. CASE i <= Len(new)
    <3>1. Len(new) + 1 - i \in 1..Len(new)
      BY <2>1
    <3> QED BY <2>1, <3>1
  <2>2. CASE ~(i <= Len(new))
    <3>1. i - Len(new) \in 1..Len(list)
      BY <2>2
    <3> QED BY <2>2, <3>1
  <2> QED BY <2>1, <2>2
<1>3. Registered(list, new) \in [1..n -> S]
  BY <1>2 DEF Registered
<1> QED BY <1>1, <1>3

LEMMA InitInv == Init => IInv
<1> SUFFICES ASSUME Init PROVE IInv
  OBVIOUS
<1>1. alt_fd_list \in [Fd -> [dev : Served \cup {None}, fd_flags : SUBSET Flag]]
  BY FdAssumption DEF Init, Free, Served
<1>2. TableOK
  BY <1>1, FdAssumption DEF Init, TableOK
<1>3. \A f \in Fd : alt_fd_list[f].fd_flags = {} /\ (f > 2 => alt_fd_list[f] = Free)
  BY FdAssumption DEF Init, Free, Std, Fd
<1>4. \A f \in Std : f \in Fd /\ alt_fd_list[f].dev # None
  BY FdAssumption DEF Init, Std, Fd, Served
<1>5. HighWater
  <2>1. \A f \in Fd : f > 2 => alt_fd_list[f].dev = None
    BY <1>3 DEF Free
  <2>2. \A f \in Fd : alt_fd_list[f].dev = None => alt_fd_list[f] = Free
    <3>1. \A f \in Fd : f > 2 \/ f \in Std
      BY FdAssumption DEF Fd, Std
    <3> QED BY <1>3, <1>4, <3>1
  <2> QED BY <1>3, <2>1, <2>2 DEF HighWater, Locked
<1>6. LockLeavesOneOther
  BY <1>3 DEF LockLeavesOneOther, Locked
<1> QED BY <1>2, <1>4, <1>5, <1>6 DEF IInv, StdKept

LEMMA StepKeepsTable ==
    ASSUME IInv, [Next]_fdVars
    PROVE  TableOK'
<1> DEFINE Table == [Fd -> [dev : Served \cup {None}, fd_flags : SUBSET Flag]]
<1>1. alt_fd_list' \in Table
  <2>1. alt_fd_list \in Table
    BY DEF IInv, TableOK
  <2>2. Free \in [dev : Served \cup {None}, fd_flags : SUBSET Flag]
    BY DEF Free
  <2>3. CASE Keep
    BY <2>1, <2>3 DEF Keep
  <2>4. ASSUME NEW f \in Fd, NEW e, Take(f, e) \/ Point(f, e) PROVE alt_fd_list' \in Table
    BY <2>1, <2>4 DEF Take, Point, EntryOK
  <2>5. ASSUME NEW f \in Fd, Release(f) PROVE alt_fd_list' \in Table
    BY <2>1, <2>2, <2>5 DEF Release
  <2>6. ASSUME NEW f \in Fd, Lock(f) PROVE alt_fd_list' \in Table
    BY <2>1, <2>6 DEF Lock, Flag
  <2>7. ASSUME NEW f \in Fd, NEW flags, Change(f, flags) PROVE alt_fd_list' \in Table
    BY <2>1, <2>7 DEF Change
  <2> QED BY <2>3, <2>4, <2>5, <2>6, <2>7, NextShape DEF Shape
<1>2. alt_max_fd' \in Fd \cup {-1} /\ boot' \in 0..4
  BY NextShape DEF Rises
<1>3. alt_dev_list' \in Seq(Device) /\ alt_fs_list' \in Seq(Filesystem)
  <2>1. CASE AltSysInit
    BY <2>1, RegisteredLemma, FdAssumption DEF AltSysInit, IInv, TableOK
  <2>2. CASE UNCHANGED lists
    BY <2>2 DEF lists, IInv, TableOK
  <2>3. \A answer : alt_io_redirect(answer) => UNCHANGED lists
    BY DEF alt_io_redirect, lists
  <2>4. Call => UNCHANGED lists
    BY DEF Call, lists, ALT_OPEN, ALT_CLOSE, ALT_IOCTL, ALT_FCNTL, ALT_STAT, Through,
           ALT_READ, ALT_WRITE, ALT_LSEEK, ALT_FSTAT, ALT_ISATTY
  <2> QED BY <2>1, <2>2, <2>3, <2>4 DEF Next, Boot, fdVars, lists
<1> QED BY <1>1, <1>2, <1>3 DEF TableOK

LEMMA ShapeKeepsStd ==
    ASSUME IInv, Shape
    PROVE  StdKept'
<1>1. /\ alt_fd_list \in [Fd -> [dev : Served \cup {None}, fd_flags : SUBSET Flag]]
      /\ \A f \in Std : f \in Fd /\ ~(f > 2) /\ alt_fd_list[f].dev # None
      /\ None \notin Served
  BY FdAssumption DEF IInv, TableOK, StdKept, Std, Fd
<1>2. CASE Keep
  BY <1>1, <1>2 DEF Keep, StdKept
<1>3. ASSUME NEW f \in Fd, NEW e, Take(f, e) \/ Point(f, e) PROVE StdKept'
  BY <1>1, <1>3 DEF Take, Point, EntryOK, StdKept
<1>4. ASSUME NEW f \in Fd, Release(f) PROVE StdKept'
  BY <1>1, <1>4 DEF Release, StdKept
<1>5. ASSUME NEW f \in Fd, Lock(f) PROVE StdKept'
  BY <1>1, <1>5 DEF Lock, StdKept
<1>6. ASSUME NEW f \in Fd, NEW flags, Change(f, flags) PROVE StdKept'
  BY <1>1, <1>6 DEF Change, StdKept
<1> QED BY <1>2, <1>3, <1>4, <1>5, <1>6 DEF Shape

LEMMA ShapeKeepsModes ==
    ASSUME IInv, StdModes, Shape
    PROVE  StdModes'
<1>1. /\ alt_fd_list \in [Fd -> [dev : Served \cup {None}, fd_flags : SUBSET Flag]]
      /\ \A f \in Std : f \in Fd /\ ~(f > 2)
  BY FdAssumption DEF IInv, TableOK, Std, Fd
<1>2. \A f \in Std : \/ alt_fd_list[f].dev = alt_dev_null
                     \/ AccessOf(alt_fd_list[f].fd_flags) = Mode(f)
  BY DEF StdModes, AccessOf, Mode
<1>3. SUFFICES \A f \in Std : \/ alt_fd_list'[f].dev = alt_dev_null
                              \/ AccessOf(alt_fd_list'[f].fd_flags) = Mode(f)
  BY DEF StdModes, AccessOf, Mode
<1>4. CASE Keep
  BY <1>2, <1>4 DEF Keep
<1>5. ASSUME NEW f \in Fd, NEW e, Take(f, e) PROVE \A s \in Std : alt_fd_list'[s] = alt_fd_list[s]
  BY <1>1, <1>5 DEF Take
<1>6. ASSUME NEW f \in Fd, NEW e, Point(f, e)
      PROVE \A s \in Std : IF s = f THEN AccessOf(alt_fd_list'[s].fd_flags) = Mode(s)
                                   ELSE alt_fd_list'[s] = alt_fd_list[s]
  BY <1>1, <1>6 DEF Point
<1>7. ASSUME NEW f \in Fd, Release(f) PROVE \A s \in Std : alt_fd_list'[s] = alt_fd_list[s]
  BY <1>1, <1>7 DEF Release
<1>8. ASSUME NEW f \in Fd, Lock(f)
      PROVE \A s \in Std : /\ alt_fd_list'[s].dev = alt_fd_list[s].dev
                           /\ AccessOf(alt_fd_list'[s].fd_flags) = AccessOf(alt_fd_list[s].fd_flags)
  <2>1. \A x : AccessOf(x \cup {"ALT_FD_EXCL"}) = AccessOf(x)
    BY DEF AccessOf, O_ACCMODE
  <2> QED BY <1>1, <1>8, <2>1 DEF Lock
<1>9. ASSUME NEW f \in Fd, NEW flags, Change(f, flags)
      PROVE \A s \in Std : /\ alt_fd_list'[s].dev = alt_fd_list[s].dev
                           /\ AccessOf(alt_fd_list'[s].fd_flags) = AccessOf(alt_fd_list[s].fd_flags)
  BY <1>1, <1>9 DEF Change
<1> QED BY <1>2, <1>4, <1>5, <1>6, <1>7, <1>8, <1>9 DEF Shape

LEMMA ShapeKeepsHighWater ==
    ASSUME IInv, Shape, Rises
    PROVE  HighWater'
<1>1. /\ alt_fd_list \in [Fd -> [dev : Served \cup {None}, fd_flags : SUBSET Flag]]
      /\ Fd \subseteq Int /\ alt_max_fd \in Int /\ alt_max_fd' \in Int /\ alt_max_fd' >= alt_max_fd
      /\ main => main'
      /\ None \notin Served /\ Device \subseteq Served
  BY FdAssumption DEF IInv, TableOK, Fd, Rises, Served, main
<1>2. /\ \A f \in Fd : f > 2 /\ alt_fd_list[f].dev # None => f <= alt_max_fd'
      /\ \A f \in Fd : "ALT_FD_DEV" \in alt_fd_list[f].fd_flags =>
                        alt_max_fd' > 2 /\ alt_fd_list[f].dev \in Device
      /\ \A f \in Fd : "ALT_FD_EXCL" \in alt_fd_list[f].fd_flags =>
                        main' /\ "ALT_FD_DEV" \in alt_fd_list[f].fd_flags
      /\ \A f \in Fd : alt_fd_list[f].dev = None => alt_fd_list[f] = Free
  BY <1>1 DEF IInv, HighWater, Locked
<1> SUFFICES ASSUME NEW g \in Fd
             PROVE  /\ g > 2 /\ alt_fd_list'[g].dev # None => g <= alt_max_fd'
                    /\ "ALT_FD_DEV" \in alt_fd_list'[g].fd_flags => alt_max_fd' > 2 /\ alt_fd_list'[g].dev \in Device
                    /\ "ALT_FD_EXCL" \in alt_fd_list'[g].fd_flags => main' /\ "ALT_FD_DEV" \in alt_fd_list'[g].fd_flags
                    /\ alt_fd_list'[g].dev = None => alt_fd_list'[g] = Free
  BY DEF HighWater, Locked
<1>3. CASE alt_fd_list'[g] = alt_fd_list[g]
  BY <1>2, <1>3
<1>4. ASSUME NEW e, EntryOK(e), alt_max_fd' > 2, g > 2 => alt_max_fd' >= g, alt_fd_list'[g] = e
      PROVE  /\ g > 2 /\ alt_fd_list'[g].dev # None => g <= alt_max_fd'
             /\ "ALT_FD_DEV" \in alt_fd_list'[g].fd_flags => alt_max_fd' > 2 /\ alt_fd_list'[g].dev \in Device
             /\ "ALT_FD_EXCL" \in alt_fd_list'[g].fd_flags => main' /\ "ALT_FD_DEV" \in alt_fd_list'[g].fd_flags
             /\ alt_fd_list'[g].dev = None => alt_fd_list'[g] = Free
  BY <1>1, <1>4 DEF EntryOK
<1>5. CASE alt_fd_list'[g] # alt_fd_list[g]
  <2>1. ASSUME NEW f \in Fd, NEW e, Take(f, e)
        PROVE  f = g /\ EntryOK(e) /\ alt_fd_list'[g] = e /\ alt_max_fd' > 2 /\ alt_max_fd' >= g
    BY <1>1, <1>5, <2>1 DEF Take
  <2>2. ASSUME NEW f \in Fd, NEW e, Point(f, e)
        PROVE  f = g /\ EntryOK(e) /\ alt_fd_list'[g] = e /\ alt_max_fd' > 2 /\ ~(g > 2)
    BY <1>1, <1>5, <2>2 DEF Point, Std
  <2>3. ASSUME NEW f \in Fd, Release(f) PROVE alt_fd_list'[g] = Free
    BY <1>1, <1>5, <2>3 DEF Release
  <2>4. ASSUME NEW f \in Fd, Lock(f)
        PROVE  /\ f = g /\ main /\ "ALT_FD_DEV" \in alt_fd_list[g].fd_flags
               /\ alt_fd_list'[g].dev = alt_fd_list[g].dev
               /\ alt_fd_list'[g].fd_flags = alt_fd_list[g].fd_flags \cup {"ALT_FD_EXCL"}
    BY <1>1, <1>5, <2>4 DEF Lock
  <2>5. ASSUME NEW f \in Fd, NEW flags, Change(f, flags)
        PROVE  /\ f = g /\ alt_fd_list[g].dev # None
               /\ alt_fd_list'[g].dev = alt_fd_list[g].dev
               /\ "ALT_FD_EXCL" \in alt_fd_list'[g].fd_flags => "ALT_FD_EXCL" \in alt_fd_list[g].fd_flags
               /\ "ALT_FD_DEV" \in alt_fd_list'[g].fd_flags <=> "ALT_FD_DEV" \in alt_fd_list[g].fd_flags
    BY <1>1, <1>5, <2>5 DEF Change, Locked
  <2>6. ~Keep
    BY <1>5 DEF Keep
  <2>7. CASE \E f \in Fd : \E e : Take(f, e) \/ Point(f, e)
    BY <2>1, <2>2, <2>7, <1>4
  <2>8. CASE \E f \in Fd : Release(f)
    BY <1>1, <2>3, <2>8 DEF Free
  <2>9. CASE \E f \in Fd : Lock(f)
    <3>1. alt_fd_list[g].dev \in Device /\ alt_max_fd' > 2
      BY <1>2, <2>4, <2>9
    <3> QED BY <1>1, <1>2, <2>4, <2>9, <3>1
  <2>10. CASE \E f \in Fd : \E flags : Change(f, flags)
    BY <1>1, <1>2, <2>5, <2>10
  <2> QED BY <2>6, <2>7, <2>8, <2>9, <2>10 DEF Shape
<1> QED BY <1>3, <1>5

(* The search of alt_fd_lock misses one descriptor at most, the highest. *)
LEMMA LockSees ==
    ASSUME IInv, NEW f \in Fd, Lock(f), NEW g \in Fd, g # f, SameDevice(f, g)
    PROVE  g = alt_max_fd /\ g > f
<1>1. Fd \subseteq Nat /\ alt_max_fd \in Int
  BY FdAssumption DEF Fd, IInv, TableOK
<1>2. alt_fd_list[f].dev \in Device /\ alt_max_fd > 2 /\ alt_fd_list[f].dev # None
  BY FdAssumption DEF Lock, IInv, HighWater, Served
<1>3. \A h \in Fd : alt_fd_list[h].dev = alt_fd_list[f].dev => h <= alt_max_fd
  BY <1>1, <1>2 DEF IInv, HighWater
<1>4. ~(g \in 0..(alt_max_fd - 1))
  BY DEF Lock, SameDevice
<1> QED BY <1>1, <1>3, <1>4 DEF SameDevice

LEMMA ShapeKeepsLocks ==
    ASSUME IInv, Shape
    PROVE  LockLeavesOneOther'
<1>1. /\ alt_fd_list \in [Fd -> [dev : Served \cup {None}, fd_flags : SUBSET Flag]]
      /\ None \notin Served
      /\ \A f \in Fd : Locked(f) => main /\ alt_fd_list[f].dev # None
      /\ Fd \subseteq Nat
  BY FdAssumption DEF IInv, TableOK, HighWater, Served, Fd
<1> DEFINE Dev(x)  == alt_fd_list[x].dev
           Excl(x) == "ALT_FD_EXCL" \in alt_fd_list[x].fd_flags
<1>2. \A f, g, h \in Fd : Excl(f) /\ g # f /\ h # f /\ Dev(f) = Dev(g) /\ Dev(f) = Dev(h) => g = h /\ g > f
  BY DEF IInv, LockLeavesOneOther, Locked, SameDevice
<1> SUFFICES ASSUME NEW f \in Fd, NEW g \in Fd, NEW h \in Fd, Excl(f)', g # f, h # f,
                    Dev(f)' = Dev(g)', Dev(f)' = Dev(h)'
             PROVE  g = h /\ g > f
  BY DEF LockLeavesOneOther, Locked, SameDevice
<1>3. CASE Keep
  BY <1>2, <1>3 DEF Keep
<1>4. ASSUME NEW c \in Fd, NEW e, Take(c, e) PROVE g = h /\ g > f
  <2>1. f # c /\ alt_fd_list'[f] = alt_fd_list[f] /\ Locked(f) /\ alt_fd_list'[c] = e
    BY <1>1, <1>4 DEF Take, EntryOK, Locked
  <2>2. e.dev # Dev(f)
    BY <1>4, <2>1 DEF Take
  <2>3. g # c /\ h # c
    BY <2>1, <2>2
  <2> QED BY <1>1, <1>2, <1>4, <2>1, <2>3 DEF Take
<1>5. ASSUME NEW s \in Fd, NEW e, Point(s, e) PROVE FALSE
  <2>1. ~main
    BY <1>5 DEF Point, main
  <2>2. f = s \/ alt_fd_list'[f] = alt_fd_list[f]
    BY <1>1, <1>5 DEF Point
  <2> QED BY <1>1, <1>5, <2>1, <2>2 DEF Point, EntryOK, Locked
<1>6. ASSUME NEW c \in Fd, Release(c) PROVE g = h /\ g > f
  <2>1. f # c /\ alt_fd_list'[f] = alt_fd_list[f] /\ Locked(f) /\ Dev(c)' = None
    BY <1>1, <1>6 DEF Release, Free, Locked
  <2>2. g # c /\ h # c
    BY <1>1, <2>1
  <2> QED BY <1>1, <1>2, <1>6, <2>1, <2>2 DEF Release
<1>7. ASSUME NEW c \in Fd, Lock(c) PROVE g = h /\ g > f
  <2>1. \A x \in Fd : Dev(x)' = Dev(x) /\ (x # c => (Excl(x)' <=> Excl(x)))
    BY <1>1, <1>7 DEF Lock
  <2>2. Dev(f) = Dev(g) /\ Dev(f) = Dev(h)
    BY <2>1
  <2>3. CASE f = c
    <3>1. g = alt_max_fd /\ g > f /\ h = alt_max_fd
      BY <1>7, <2>2, <2>3, LockSees DEF SameDevice
    <3> QED BY <3>1
  <2>4. CASE f # c
    BY <1>2, <2>1, <2>2, <2>4
  <2> QED BY <2>3, <2>4
<1>8. ASSUME NEW c \in Fd, NEW flags, Change(c, flags) PROVE g = h /\ g > f
  <2>1. \A x \in Fd : Dev(x)' = Dev(x) /\ (Excl(x)' => Excl(x))
    BY <1>1, <1>8 DEF Change, Locked
  <2> QED BY <1>2, <2>1, ZenonT(60)
<1> QED BY <1>3, <1>4, <1>5, <1>6, <1>7, <1>8 DEF Shape

LEMMA StepInv == IInv /\ [Next]_fdVars => IInv'
  BY NextShape, StepKeepsTable, ShapeKeepsStd, ShapeKeepsHighWater, ShapeKeepsLocks DEF IInv

LEMMA InvHolds == Spec => []IInv
  BY InitInv, StepInv, PTL DEF Spec

(* While a descriptor holds the lock of a device at most one other refers   *)
(* to it, for every size of the table and set of devices (alt_fd_lock.c:61). *)
THEOREM LockShared == Spec => []LockLeavesOneOther
  BY InvHolds, PTL DEF IInv

(* No two descriptors hold the lock of one device. *)
THEOREM LockUnique == Spec => []OneLocker
<1>1. IInv => OneLocker
  <2> SUFFICES ASSUME IInv, NEW f \in Fd, NEW g \in Fd, Locked(f), Locked(g), SameDevice(f, g), f # g
               PROVE  FALSE
    BY DEF OneLocker
  <2>1. g > f /\ f > g
    BY DEF IInv, LockLeavesOneOther, SameDevice
  <2> QED BY <2>1, FdAssumption DEF Fd
<1> QED BY <1>1, InvHolds, PTL

---------------------------------------------------------------------------
(* What a call reports.                                                      *)

ResOK == /\ res \in [op : CallName, fd : Descriptor, out : Errno]
         /\ boot < 4 => res.out = Success

LEMMA OutcomeLemma ==
    ASSUME NEW op \in CallName, NEW f \in Descriptor, NEW out \in Errno,
           Outcome(op, f, out), main, boot' = boot
    PROVE  ResOK'
  BY DEF Outcome, ResOK, main

LEMMA StepKeepsRes == IInv /\ ResOK /\ [Next]_fdVars => ResOK'
<1> SUFFICES ASSUME IInv, ResOK, [Next]_fdVars PROVE ResOK'
  OBVIOUS
<1>0. {"open", "close", "ioctl", "fcntl", "stat", "read", "write", "lseek", "fstat", "isatty"} \subseteq CallName
  BY DEF CallName
<1>1. Status \subseteq Errno /\ Success \in Status
  BY FdAssumption DEF Errno
<1>2. CASE UNCHANGED <<boot, res>>
  BY <1>2 DEF ResOK
<1>3. CASE AltSysInit
  BY <1>3 DEF AltSysInit, ResOK
<1>4. ASSUME NEW answer \in Status, alt_io_redirect(answer) PROVE ResOK'
  BY <1>4 DEF alt_io_redirect, ResOK, IInv, TableOK
<1>5. ASSUME NEW answer \in Status, NEW name \in Name, NEW flags \in OpenFlags, ALT_OPEN(name, flags, answer)
      PROVE ResOK'
  <2>1. OpenStatus(name, flags, answer) \in Errno
    BY <1>1 DEF OpenStatus, Errno
  <2>2. Claim(name) \in Fd \cup {Nobody}
    BY ClaimLemma DEF IInv
  <2>3. boot' = boot /\ main
    BY <1>5 DEF ALT_OPEN
  <2>4. \E d \in Descriptor, out \in Errno : Outcome("open", d, out)
    BY <1>1, <1>5, <2>1, <2>2 DEF ALT_OPEN, Descriptor
  <2> QED BY <1>0, <2>3, <2>4, OutcomeLemma
<1>6. ASSUME NEW answer \in Status, NEW name \in Name, ALT_STAT(name, answer) PROVE ResOK'
  <2>1. Claim(name) \in Fd \cup {Nobody}
    BY ClaimLemma DEF IInv
  <2>2. boot' = boot /\ main
    BY <1>6 DEF ALT_STAT
  <2>3. \E d \in Descriptor, out \in Errno : Outcome("stat", d, out)
    <3>1. "EBADFD" \in Errno /\ Nobody \in Descriptor
      BY DEF Errno, Descriptor
    <3> QED BY <1>1, <1>6, <2>1, <3>1 DEF ALT_STAT, Descriptor
  <2> QED BY <1>0, <2>2, <2>3, OutcomeLemma
<1>7. ASSUME NEW answer \in Status, NEW f \in Descriptor, ALT_CLOSE(f, answer) PROVE ResOK'
  <2>1. boot' = boot /\ main
    BY <1>7 DEF ALT_CLOSE
  <2>2. \E out \in Errno : Outcome("close", f, out)
    BY <1>1, <1>7 DEF ALT_CLOSE, Errno
  <2> QED BY <1>0, <2>1, <2>2, OutcomeLemma
<1>8. ASSUME NEW answer \in Status, NEW f \in Descriptor, NEW req, ALT_IOCTL(f, req, answer) PROVE ResOK'
  <2>1. boot' = boot /\ main
    BY <1>8 DEF ALT_IOCTL
  <2>2. \E out \in Errno : Outcome("ioctl", f, out)
    BY <1>1, <1>8 DEF ALT_IOCTL, alt_fd_lock, alt_fd_unlock, Errno
  <2> QED BY <1>0, <2>1, <2>2, OutcomeLemma
<1>9. ASSUME NEW f \in Descriptor, NEW cmd, NEW arg, ALT_FCNTL(f, cmd, arg) PROVE ResOK'
  <2>1. boot' = boot /\ main
    BY <1>9 DEF ALT_FCNTL
  <2>2. \E out \in Errno : Outcome("fcntl", f, out)
    BY <1>1, <1>9 DEF ALT_FCNTL, Errno
  <2> QED BY <1>0, <2>1, <2>2, OutcomeLemma
<1>10. ASSUME NEW answer \in Status, NEW f \in Descriptor,
               \/ ALT_READ(f, answer) \/ ALT_WRITE(f, answer)
               \/ ALT_LSEEK(f, answer) \/ ALT_FSTAT(f, answer) \/ ALT_ISATTY(f, answer)
       PROVE ResOK'
  <2>1. \E op \in CallName, out \in Errno : Through(op, f, out)
    <3>1. {"EACCES", "ENOTSUP", "ENOTTY", Success} \cup Status \subseteq Errno
      BY <1>1 DEF Errno
    <3>2. CASE ALT_READ(f, answer)
      BY <1>0, <3>1, <3>2 DEF ALT_READ
    <3>3. CASE ALT_WRITE(f, answer)
      BY <1>0, <3>1, <3>3 DEF ALT_WRITE
    <3>4. CASE ALT_LSEEK(f, answer)
      BY <1>0, <3>1, <3>4 DEF ALT_LSEEK
    <3>5. CASE ALT_FSTAT(f, answer)
      BY <1>0, <3>1, <3>5 DEF ALT_FSTAT
    <3>6. CASE ALT_ISATTY(f, answer)
      BY <1>0, <3>1, <3>6 DEF ALT_ISATTY
    <3> QED BY <1>10, <3>2, <3>3, <3>4, <3>5, <3>6
  <2>2. PICK op \in CallName, out \in Errno : Through(op, f, out)
    BY <2>1
  <2>3. "EBADFD" \in Errno /\ Nobody \in Descriptor
    BY DEF Errno, Descriptor
  <2>4. boot' = boot /\ main /\ \E o \in Errno : Outcome(op, Nobody, o)
    BY <2>2, <2>3 DEF Through
  <2> QED BY <2>3, <2>4, OutcomeLemma
<1> QED BY <1>2, <1>3, <1>4, <1>5, <1>6, <1>7, <1>8, <1>9, <1>10 DEF Next, Boot, Call, fdVars

LEMMA ResHolds == Spec => [](IInv /\ ResOK)
<1>1. Init => ResOK
  <2>1. "none" \in CallName /\ Success \in Errno /\ Nobody \in Descriptor
    BY FdAssumption DEF Errno, Descriptor, CallName
  <2> QED BY <2>1 DEF Init, ResOK
<1> QED BY <1>1, InitInv, StepInv, StepKeepsRes, PTL DEF Spec

(* Every variable keeps its type. *)
THEOREM TypeCorrect == Spec => []TypeOK
<1>1. IInv /\ ResOK => TypeOK
  BY DEF IInv, ResOK, TableOK, TypeOK
<1> QED BY <1>1, ResHolds, PTL

(* Whatever is closed, locked or set, standard input can be read and standard *)
(* output and error written, where the redirection found their devices.        *)
THEOREM TableUsable == Spec => []TableInv
<1>1. Init => StdModes
  <2>1. \A f \in Std : f \in Fd
    BY FdAssumption DEF Std, Fd
  <2> QED BY <2>1 DEF Init, StdModes
<1>2. IInv /\ StdModes /\ [Next]_fdVars => StdModes'
  BY NextShape, ShapeKeepsModes
<1>3. IInv /\ StdModes => StdioUsable
  <2> SUFFICES ASSUME IInv, StdModes, NEW f \in Std
               PROVE  /\ alt_fd_list[f].dev # None
                      /\ {"read", "write"} \subseteq Provides[alt_fd_list[f].dev]
                         => IF f = STDIN_FILENO THEN Readable(alt_fd_list[f]) ELSE Writable(alt_fd_list[f])
    BY DEF StdioUsable
  <2>1. alt_fd_list[f].dev # None
    BY DEF IInv, StdKept
  <2>2. CASE alt_fd_list[f].dev = alt_dev_null
    BY <2>1, <2>2, FdAssumption
  <2>3. CASE alt_fd_list[f].fd_flags \cap O_ACCMODE = IF f = STDIN_FILENO THEN {} ELSE {"O_WRONLY"}
    BY <2>1, <2>3 DEF Readable, Writable
  <2> QED BY <2>2, <2>3 DEF StdModes
<1> QED BY <1>1, <1>2, <1>3, InitInv, StepInv, InvHolds, TypeCorrect, PTL DEF Spec, TableInv

(* A call that reports an error, close() excepted, leaves the table alone. *)
THEOREM FailuresHarmless == Spec => FailureLeavesTable
<1>1. ASSUME IInv, ResOK, [Next]_fdVars, res'.out # Success, res'.op # "close"
      PROVE  alt_fd_list' = alt_fd_list
  <2> USE DEF Outcome
  <2>1. CASE UNCHANGED alt_fd_list
    BY <2>1
  <2>2. ASSUME NEW answer, alt_io_redirect(answer) PROVE FALSE
    BY <1>1, <2>2 DEF alt_io_redirect, ResOK
  <2>3. ASSUME NEW answer, NEW name, NEW flags \in OpenFlags, ALT_OPEN(name, flags, answer)
        PROVE  alt_fd_list' = alt_fd_list
    <3>1. alt_fd_list' = alt_release_fd(Claimed(name, flags), Claim(name))
      BY <1>1, <2>3 DEF ALT_OPEN
    <3> QED BY <1>1, <3>1, ReleasedLemma, FdAssumption
  <2>4. ASSUME NEW answer, NEW name, ALT_STAT(name, answer) PROVE alt_fd_list' = alt_fd_list
    BY <1>1, <2>4, ReleasedLemma DEF ALT_STAT
  <2>5. ASSUME NEW answer, NEW f, ALT_CLOSE(f, answer) PROVE FALSE
    BY <1>1, <2>5 DEF ALT_CLOSE
  <2>6. ASSUME NEW answer, NEW f, NEW req, ALT_IOCTL(f, req, answer) PROVE alt_fd_list' = alt_fd_list
    BY <1>1, <2>6 DEF ALT_IOCTL, alt_fd_lock, alt_fd_unlock
  <2>7. ASSUME NEW f, NEW cmd, NEW arg, ALT_FCNTL(f, cmd, arg) PROVE alt_fd_list' = alt_fd_list
    BY <1>1, <2>7 DEF ALT_FCNTL
  <2>8. Next => \/ UNCHANGED alt_fd_list
                \/ \E answer : alt_io_redirect(answer)
                \/ \E answer, name : \E flags \in OpenFlags : ALT_OPEN(name, flags, answer)
                \/ \E answer, name : ALT_STAT(name, answer)
                \/ \E answer, f : ALT_CLOSE(f, answer)
                \/ \E answer, f, req : ALT_IOCTL(f, req, answer)
                \/ \E f, cmd, arg : ALT_FCNTL(f, cmd, arg)
    BY DEF Next, Boot, Call, AltSysInit, Through, ALT_READ, ALT_WRITE, ALT_LSEEK, ALT_FSTAT, ALT_ISATTY
  <2> QED BY <1>1, <2>1, <2>2, <2>3, <2>4, <2>5, <2>6, <2>7, <2>8 DEF fdVars
<1>2. IInv /\ ResOK /\ [Next]_fdVars =>
         [res'.out # Success /\ res'.op # "close" => alt_fd_list' = alt_fd_list]_fdVars
  BY <1>1
<1> QED BY <1>2, ResHolds, PTL DEF FailureLeavesTable, Spec

(* A lock ends only through the descriptor that holds it. *)
THEOREM LocksKept == Spec => LockEndsWithHolder
<1>1. ASSUME IInv, Next, NEW g \in Fd, Locked(g), ~Locked(g)'
      PROVE  res'.fd = g /\ res'.op \in {"ioctl", "close"}
  <2> USE DEF Outcome, Locked
  <2>0. /\ alt_fd_list \in [Fd -> [dev : Served \cup {None}, fd_flags : SUBSET Flag]]
        /\ main /\ alt_fd_list[g].dev # None
    BY <1>1, FdAssumption DEF IInv, TableOK, HighWater, Served
  <2>1. ~UNCHANGED alt_fd_list
    BY <1>1
  <2>2. ASSUME NEW answer, alt_io_redirect(answer) PROVE FALSE
    BY <2>0, <2>2 DEF alt_io_redirect, main
  <2>3. ASSUME NEW answer, NEW name, NEW flags \in OpenFlags, ALT_OPEN(name, flags, answer) PROVE FALSE
    <3>1. alt_release_fd(Claimed(name, flags), Claim(name)) = alt_fd_list
      BY <1>1, ReleasedLemma, FdAssumption
    <3>2. alt_fd_list' = Claimed(name, flags)
      BY <2>1, <2>3, <3>1 DEF ALT_OPEN
    <3>3. Claim(name) # Nobody
      BY <2>1, <3>2 DEF Claimed
    <3>4. Claim(name) # g
      BY <1>1, <2>0, <3>3, ClaimLemma DEF IInv
    <3> QED BY <1>1, <2>0, <3>2, <3>3, <3>4 DEF Claimed
  <2>4. ASSUME NEW answer, NEW name, ALT_STAT(name, answer) PROVE FALSE
    BY <1>1, <2>1, <2>4, ReleasedLemma DEF ALT_STAT
  <2>5. ASSUME NEW answer, NEW f, ALT_CLOSE(f, answer)
        PROVE  res'.fd = g /\ res'.op \in {"ioctl", "close"}
    BY <1>1, <2>0, <2>1, <2>5 DEF ALT_CLOSE, alt_release_fd
  <2>6. ASSUME NEW answer, NEW f, NEW req, ALT_IOCTL(f, req, answer)
        PROVE  res'.fd = g /\ res'.op \in {"ioctl", "close"}
    BY <1>1, <2>0, <2>1, <2>6 DEF ALT_IOCTL, alt_fd_lock, alt_fd_unlock
  <2>7. ASSUME NEW f, NEW cmd, NEW arg, ALT_FCNTL(f, cmd, arg) PROVE FALSE
    BY <1>1, <2>0, <2>7 DEF ALT_FCNTL, SetFl, ALT_FCNTL_FLAGS_MASK
  <2>8. Next => \/ UNCHANGED alt_fd_list
                \/ \E answer : alt_io_redirect(answer)
                \/ \E answer, name : \E flags \in OpenFlags : ALT_OPEN(name, flags, answer)
                \/ \E answer, name : ALT_STAT(name, answer)
                \/ \E answer, f : ALT_CLOSE(f, answer)
                \/ \E answer, f, req : ALT_IOCTL(f, req, answer)
                \/ \E f, cmd, arg : ALT_FCNTL(f, cmd, arg)
    BY DEF Next, Boot, Call, AltSysInit, Through, ALT_READ, ALT_WRITE, ALT_LSEEK, ALT_FSTAT, ALT_ISATTY
  <2> QED BY <1>1, <2>1, <2>2, <2>3, <2>4, <2>5, <2>6, <2>7, <2>8
<1>2. IInv /\ [Next]_fdVars =>
         [\A f \in Fd : Locked(f) /\ ~Locked(f)' => res'.fd = f /\ res'.op \in {"ioctl", "close"}]_fdVars
  BY <1>1
<1> QED BY <1>2, InvHolds, PTL DEF LockEndsWithHolder, Spec

---------------------------------------------------------------------------
(* The table implements the pool of DescriptorPool.                          *)

LEMMA InitRefines == Init => Pool!Init
<1> SUFFICES ASSUME Init PROVE Pool!Init
  OBVIOUS
<1>1. IInv
  BY InitInv
<1>2. \A f \in Fd : alt_fd_list[f].fd_flags = {} /\ alt_fd_list[f].dev \in Served \cup {None}
  BY <1>1, FdAssumption DEF Init, Free, IInv, TableOK
<1>3. \A f \in Fd : alt_fd_list[f].dev = None <=> f \notin Std
  BY FdAssumption DEF Init, Free, Served
<1> QED BY <1>2, <1>3 DEF Pool!Init, Locked

LEMMA ShapeRefines ==
    ASSUME IInv, Shape
    PROVE  [Pool!Next]_(Pool!pool)
<1> DEFINE R == [f \in Fd |-> alt_fd_list[f].dev]
           L == {f \in Fd : Locked(f)}
<1>1. /\ alt_fd_list \in [Fd -> [dev : Served \cup {None}, fd_flags : SUBSET Flag]]
      /\ \A f \in Fd : f > 2 <=> f \notin Std
      /\ Std \subseteq Fd /\ Fd \subseteq Nat
      /\ \A f \in Fd : Locked(f) => main
  BY FdAssumption DEF IInv, TableOK, HighWater, Fd, Std
<1> USE DEF Pool!Next, Pool!pool, Pool!LockedElsewhere
<1>2. CASE Keep
  BY <1>2 DEF Keep, Locked
<1>3. ASSUME NEW c \in Fd, NEW e, Take(c, e) PROVE Pool!Obtain(c)
  <2>1. R' = [R EXCEPT ![c] = e.dev]
    BY <1>1, <1>3 DEF Take
  <2>2. ~Locked(c) /\ "ALT_FD_EXCL" \notin e.fd_flags
    BY <1>3 DEF Take, EntryOK, IInv, HighWater, Free, Locked
  <2>3. \A g \in Fd : Locked(g)' <=> Locked(g)
    BY <1>1, <1>3, <2>2 DEF Take, Locked
  <2>4. L' = L
    BY <2>3
  <2> QED BY <1>1, <1>3, <2>1, <2>4 DEF Pool!Obtain, Take, EntryOK
<1>4. ASSUME NEW c \in Fd, NEW e, Point(c, e) PROVE Pool!Redirect(c)
  <2>0. ~main
    BY <1>4 DEF Point, main
  <2>1. L = {}
    BY <1>1, <2>0
  <2>2. R' = [R EXCEPT ![c] = e.dev] /\ L' = {}
    BY <1>1, <1>4, <2>1 DEF Point, EntryOK, Locked
  <2> QED BY <1>4, <2>1, <2>2 DEF Pool!Redirect, Point, EntryOK
<1>5. ASSUME NEW c \in Fd, Release(c) PROVE Pool!GiveBack(c)
  <2>1. R' = [R EXCEPT ![c] = None] /\ L' = L \ {c}
    BY <1>1, <1>5 DEF Release, Free, Locked
  <2> QED BY <1>1, <1>5, <2>1 DEF Pool!GiveBack, Release
<1>6. ASSUME NEW c \in Fd, Lock(c) PROVE Pool!Lock(c)
  <2>1. R' = R /\ L' = L \cup {c}
    BY <1>1, <1>6 DEF Lock, Locked, Flag
  <2>2. R[c] # None
    BY <1>6, FdAssumption DEF Lock, IInv, HighWater, Served
  <2>3. ASSUME NEW g \in L \ {c}, R[g] = R[c] PROVE FALSE
    <3>1. g > c
      BY <1>6, <2>3, LockSees DEF SameDevice
    <3>2. c > g
      BY <2>3 DEF IInv, LockLeavesOneOther, SameDevice
    <3> QED BY <1>1, <2>3, <3>1, <3>2
  <2> QED BY <2>1, <2>2, <2>3 DEF Pool!Lock
<1>7. ASSUME NEW c \in Fd, NEW flags, Change(c, flags) PROVE [Pool!Unlock(c)]_(Pool!pool)
  <2>1. R' = R
    BY <1>1, <1>7 DEF Change
  <2>2. L' = L \/ L' = L \ {c}
    BY <1>1, <1>7 DEF Change, Locked
  <2> QED BY <2>1, <2>2 DEF Pool!Unlock
<1> QED BY <1>2, <1>3, <1>4, <1>5, <1>6, <1>7 DEF Shape

(* For every size of the table and set of devices, the descriptor layer     *)
(* implements a pool whose devices have at most one lock.                    *)
THEOREM PoolImplemented == Spec => ImplementsPool
<1>1. IInv /\ [Next]_fdVars => [Pool!Next]_(Pool!pool)
  BY NextShape, ShapeRefines
<1> QED BY <1>1, InitRefines, InvHolds, PTL DEF ImplementsPool, Pool!Spec, Spec
===========================================================================
