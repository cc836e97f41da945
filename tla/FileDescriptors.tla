-------------------------- MODULE FileDescriptors --------------------------
(* The file descriptor layer of the HAL (alt_dev.c, alt_open.c, alt_close.c *)
(* and the calls beside them): the table alt_fd_list, its high-water mark,   *)
(* the lists of devices and file systems, the redirection of the standard    *)
(* channels before main() and the exclusive locks of TIOCEXCL.  One action   *)
(* is one system call; a driver's answer is any the callback may give.       *)
EXTENDS Integers, Sequences

CONSTANTS
    ALT_MAX_FD,          \* size of alt_fd_list (system.h)
    Device, Filesystem,  \* what alt_sys_init may register
    alt_dev_null,        \* the device registered statically
    BootDevices, BootFilesystems,  \* in the order alt_sys_init registers them
    NameOf,              \* their names, as sequences of path components
    Provides,            \* the callbacks each of them has
    StdDevice,           \* the name system.h gives for each standard channel
    Name, OpenFlags, SetFlags,     \* what main passes to open() and F_SETFL
    Status,              \* what a callback may answer: Success or an errno
    None

Fd  == 0..(ALT_MAX_FD - 1)
Std == 0..2
STDIN_FILENO  == 0
STDOUT_FILENO == 1
STDERR_FILENO == 2
Served == Device \cup Filesystem

\* The bits of fd_flags the layer looks at.
Flag == {"O_WRONLY", "O_RDWR", "O_APPEND", "O_NONBLOCK", "ALT_FD_EXCL", "ALT_FD_DEV"}
O_ACCMODE == {"O_WRONLY", "O_RDWR"}
ALT_FD_FLAGS_MASK    == {"ALT_FD_EXCL", "ALT_FD_DEV"}
ALT_FCNTL_FLAGS_MASK == {"O_APPEND", "O_NONBLOCK"}

Success == "ok"
Errno == {"ENODEV", "EMFILE", "EACCES", "EBADFD", "ENOTTY", "ENOTSUP", "EINVAL"} \cup Status

ASSUME FdAssumption ==
    /\ ALT_MAX_FD \in Nat /\ ALT_MAX_FD > 3
    /\ alt_dev_null \in Device /\ None \notin Served
    /\ "read" \notin Provides[alt_dev_null]   \* it only takes what is written (alt_dev.c:88)
    /\ Device \cap Filesystem = {}
    /\ BootDevices \in Seq(Device) /\ BootFilesystems \in Seq(Filesystem)
    /\ Provides \in [Served -> SUBSET {"open", "close", "read", "write", "lseek", "fstat", "ioctl"}]
    /\ OpenFlags \subseteq SUBSET Flag /\ SetFlags \subseteq SUBSET Flag
    /\ Success \in Status

VARIABLES
    alt_fd_list,   \* [dev, fd_flags] of each descriptor
    alt_max_fd,    \* highest descriptor ever allocated, -1 at first
    alt_dev_list, alt_fs_list,
    boot,          \* how far the start-up code is: 4 when main() runs
    res            \* the last call: its name, descriptor and outcome

fdVars == <<alt_fd_list, alt_max_fd, alt_dev_list, alt_fs_list, boot, res>>
lists  == <<alt_dev_list, alt_fs_list>>

Free == [dev |-> None, fd_flags |-> {}]
Nobody == -1   \* a negative descriptor

Init == /\ alt_fd_list = [f \in Fd |-> IF f \in Std THEN [dev |-> alt_dev_null, fd_flags |-> {}] ELSE Free]
        /\ alt_max_fd = -1
        /\ alt_dev_list = <<alt_dev_null>> /\ alt_fs_list = <<>>
        /\ boot = 0
        /\ res = [op |-> "none", fd |-> Nobody, out |-> Success]

CallName == {"none", "open", "close", "ioctl", "fcntl", "read", "write", "lseek", "fstat", "isatty", "stat"}

Outcome(op, f, out) == res' = [op |-> op, fd |-> f, out |-> out]
---------------------------------------------------------------------------
(* alt_dev_reg and alt_fs_reg insert at the head of the list. *)
Registered(list, new) == [i \in 1..(Len(new) + Len(list)) |->
                            IF i <= Len(new) THEN new[Len(new) + 1 - i] ELSE list[i - Len(new)]]

Least(T) == CHOOSE m \in T : \A n \in T : m <= n

First(list, hits) == IF hits = {} THEN None ELSE list[Least(hits)]

PrefixOf(s, t) == Len(s) <= Len(t) /\ \A i \in DOMAIN s : s[i] = t[i]

alt_find_dev(name) ==
    First(alt_dev_list, {i \in DOMAIN alt_dev_list : NameOf[alt_dev_list[i]] = name})
alt_find_file(name) ==
    First(alt_fs_list, {i \in DOMAIN alt_fs_list : PrefixOf(NameOf[alt_fs_list[i]], name)})

Isafs(name) == alt_find_dev(name) = None
Found(name) == IF Isafs(name) THEN alt_find_file(name) ELSE alt_find_dev(name)

(* The first descriptor without a device, or none. *)
alt_get_fd == LET free == {f \in Fd : alt_fd_list[f].dev = None}
              IN IF free = {} THEN Nobody ELSE Least(free)

alt_release_fd(list, f) == IF f > 2 THEN [list EXCEPT ![f] = Free] ELSE list

\* Mutant: the search stops as early as alt_fd_lock's.
alt_file_lockedShort(list, f, max) ==
    \E g \in 0..(max - 1) : /\ g # f /\ list[g].dev = list[f].dev
                            /\ "ALT_FD_EXCL" \in list[g].fd_flags
(* Another descriptor has locked the device: unlike alt_fd_lock's, this    *)
(* search includes the highest descriptor.                                 *)
alt_file_locked(list, f, max) ==
    \E g \in 0..max : /\ g # f /\ list[g].dev = list[f].dev
                      /\ "ALT_FD_EXCL" \in list[g].fd_flags

Claim(name) == IF Found(name) = None THEN Nobody ELSE alt_get_fd

Raised(f) == IF f > alt_max_fd THEN f ELSE alt_max_fd

(* The table while open() runs: the descriptor is taken before it is known  *)
(* whether the device may be opened.                                        *)
Claimed(name, flags) ==
    IF Claim(name) = Nobody THEN alt_fd_list
    ELSE [alt_fd_list EXCEPT ![Claim(name)] =
            [dev |-> Found(name),
             fd_flags |-> (flags \ ALT_FD_FLAGS_MASK) \cup (IF Isafs(name) THEN {} ELSE {"ALT_FD_DEV"})]]

(* status of ALT_OPEN, given what the open callback answers. *)
OpenStatus(name, flags, answer) ==
    CASE Found(name) = None -> "ENODEV"
      [] Found(name) # None /\ alt_get_fd = Nobody -> "EMFILE"
      [] OTHER ->
           IF ~Isafs(name) /\ alt_file_locked(Claimed(name, flags), Claim(name), Raised(Claim(name)))
           THEN "EACCES"
           ELSE IF "open" \in Provides[Found(name)] THEN answer ELSE Success
---------------------------------------------------------------------------
(* Start-up code. *)

AltSysInit == /\ boot = 0
              /\ alt_dev_list' = Registered(alt_dev_list, BootDevices)
              /\ alt_fs_list' = Registered(alt_fs_list, BootFilesystems)
              /\ boot' = 1
              /\ UNCHANGED <<alt_fd_list, alt_max_fd, res>>

Channel == <<STDOUT_FILENO, STDIN_FILENO, STDERR_FILENO>>

(* alt_open_fd: open the device under a descriptor of its own, copy it over *)
(* the standard one, release the descriptor.                                *)
alt_io_redirect(answer) ==
    /\ boot \in 1..3
    /\ LET std == Channel[boot]
           name == StdDevice[std]
           flags == IF std = STDIN_FILENO THEN {} ELSE {"O_WRONLY"}
           old == Claim(name)
           list == Claimed(name, flags)
       IN /\ alt_max_fd' = Raised(old)
          /\ alt_fd_list' = alt_release_fd(
                IF OpenStatus(name, flags, answer) = Success
                THEN [list EXCEPT ![std] = list[old]] ELSE list, old)
    /\ boot' = boot + 1
    /\ UNCHANGED <<alt_dev_list, alt_fs_list, res>>
---------------------------------------------------------------------------
(* The calls of main().  A descriptor is one that is open, or negative as   *)
(* a failed open() leaves it; any other index is not checked by the code.   *)

main == boot = 4
Usable(f) == f # Nobody => alt_fd_list[f].dev # None

\* Mutant: the error path forgets the descriptor.
ALT_OPENNoCleanup(name, flags, answer) ==
    /\ main
    /\ alt_max_fd' = Raised(Claim(name))
    /\ alt_fd_list' = Claimed(name, flags)
    /\ LET status == OpenStatus(name, flags, answer)
       IN Outcome("open", IF status = Success THEN Claim(name) ELSE Nobody, status)
    /\ UNCHANGED <<lists, boot>>
ALT_OPEN(name, flags, answer) ==
    /\ main
    /\ alt_max_fd' = Raised(Claim(name))
    /\ LET status == OpenStatus(name, flags, answer)
       IN IF status = Success
          THEN /\ alt_fd_list' = Claimed(name, flags)
               /\ Outcome("open", Claim(name), Success)
          ELSE /\ alt_fd_list' = alt_release_fd(Claimed(name, flags), Claim(name))
               /\ Outcome("open", Nobody, status)
    /\ UNCHANGED <<lists, boot>>

(* The descriptor is released whatever the driver's close() answers. *)
ALT_CLOSE(f, answer) ==
    /\ main /\ Usable(f)
    /\ IF f = Nobody
       THEN Outcome("close", f, "EBADFD") /\ UNCHANGED alt_fd_list
       ELSE /\ alt_fd_list' = alt_release_fd(alt_fd_list, f)
            /\ Outcome("close", f, IF "close" \in Provides[alt_fd_list[f].dev] THEN answer ELSE Success)
    /\ UNCHANGED <<alt_max_fd, lists, boot>>

\* Mutant: no search.
alt_fd_lockUnasked(f) ==
    /\ alt_fd_list' = [alt_fd_list EXCEPT ![f].fd_flags = @ \cup {"ALT_FD_EXCL"}]
    /\ Outcome("ioctl", f, Success)
(* TIOCEXCL: the search stops below alt_max_fd. *)
alt_fd_lock(f) ==
    IF \E g \in 0..(alt_max_fd - 1) : g # f /\ alt_fd_list[g].dev = alt_fd_list[f].dev
    THEN Outcome("ioctl", f, "EACCES") /\ UNCHANGED alt_fd_list
    ELSE /\ alt_fd_list' = [alt_fd_list EXCEPT ![f].fd_flags = @ \cup {"ALT_FD_EXCL"}]
         /\ Outcome("ioctl", f, Success)

\* Mutant: whoever asks gives the lock of the device back.
alt_fd_unlockDevice(f) ==
    /\ alt_fd_list' = [g \in Fd |-> IF alt_fd_list[g].dev # alt_fd_list[f].dev THEN alt_fd_list[g]
                       ELSE [alt_fd_list[g] EXCEPT !.fd_flags = @ \ {"ALT_FD_EXCL"}]]
    /\ Outcome("ioctl", f, Success)
alt_fd_unlock(f) ==
    /\ alt_fd_list' = [alt_fd_list EXCEPT ![f].fd_flags = @ \ {"ALT_FD_EXCL"}]
    /\ Outcome("ioctl", f, Success)

(* Requests go to the driver unless they are the two for locks, and the    *)
(* descriptor belongs to a device.                                         *)
ALT_IOCTL(f, req, answer) ==
    /\ main /\ Usable(f)
    /\ \/ f = Nobody /\ Outcome("ioctl", f, "EBADFD") /\ UNCHANGED alt_fd_list
       \/ f # Nobody /\ "ALT_FD_DEV" \in alt_fd_list[f].fd_flags
          /\ \/ req = "TIOCEXCL" /\ alt_fd_lock(f)
             \/ req = "TIOCNXCL" /\ alt_fd_unlock(f)
       \/ /\ f # Nobody
          /\ "ALT_FD_DEV" \notin alt_fd_list[f].fd_flags \/ req \notin {"TIOCEXCL", "TIOCNXCL"}
          /\ Outcome("ioctl", f, IF "ioctl" \in Provides[alt_fd_list[f].dev] THEN answer ELSE "ENOTTY")
          /\ UNCHANGED alt_fd_list
    /\ UNCHANGED <<alt_max_fd, lists, boot>>

(* F_SETFL changes two bits only; F_GETFL only returns the others. *)
\* Mutant: F_SETFL sets every flag.
SetFlAll(flags, arg) == arg
SetFl(flags, arg) == (flags \ ALT_FCNTL_FLAGS_MASK) \cup (arg \cap ALT_FCNTL_FLAGS_MASK)

ALT_FCNTL(f, cmd, arg) ==
    /\ main /\ Usable(f)
    /\ IF f # Nobody /\ cmd = "F_SETFL"
       THEN alt_fd_list' = [alt_fd_list EXCEPT ![f].fd_flags = SetFl(@, arg)]
       ELSE UNCHANGED alt_fd_list
    /\ Outcome("fcntl", f, IF f = Nobody THEN "EBADFD"
                           ELSE IF cmd \in {"F_GETFL", "F_SETFL"} THEN Success ELSE "EINVAL")
    /\ UNCHANGED <<alt_max_fd, lists, boot>>

(* Calls that go through to the driver and change nothing here. *)
Readable(e) == e.fd_flags \cap O_ACCMODE # {"O_WRONLY"} /\ "read" \in Provides[e.dev]
Writable(e) == e.fd_flags \cap O_ACCMODE # {} /\ "write" \in Provides[e.dev]

Through(op, f, out) == /\ main /\ Usable(f)
                       /\ Outcome(op, Nobody, IF f = Nobody THEN "EBADFD" ELSE out)
                       /\ UNCHANGED <<alt_fd_list, alt_max_fd, lists, boot>>

Entry(f) == IF f = Nobody THEN [dev |-> alt_dev_null, fd_flags |-> {}] ELSE alt_fd_list[f]

ALT_READ(f, answer)  == Through("read", f, IF Readable(Entry(f)) THEN answer ELSE "EACCES")
ALT_WRITE(f, answer) == Through("write", f, IF Writable(Entry(f)) THEN answer ELSE "EACCES")
ALT_LSEEK(f, answer) == Through("lseek", f, IF "lseek" \in Provides[Entry(f).dev] THEN answer ELSE "ENOTSUP")
ALT_FSTAT(f, answer) == Through("fstat", f, IF "fstat" \in Provides[Entry(f).dev] THEN answer ELSE Success)
(* isatty() ignores what fstat() answers and reads a structure that may not *)
(* have been filled in: "no terminal" is possible whenever there is one.    *)
ALT_ISATTY(f, answer) == Through("isatty", f,
    IF "fstat" \in Provides[Entry(f).dev] /\ answer # Success THEN "ENOTTY" ELSE Success)

(* stat() opens the file, asks, and closes it: the descriptor it needs may *)
(* not be there, and the high-water mark stays up.                          *)
ALT_STAT(name, answer) ==
    /\ main
    /\ LET status == OpenStatus(name, {}, answer)
           list == Claimed(name, {})
       IN /\ alt_fd_list' = alt_release_fd(list, Claim(name))
          /\ \/ status # Success /\ Outcome("stat", Nobody, "EBADFD")
             \/ /\ status = Success
                /\ \E st \in Status :
                     Outcome("stat", Claim(name), IF "fstat" \in Provides[Found(name)] THEN st ELSE Success)
    /\ alt_max_fd' = Raised(Claim(name))
    /\ UNCHANGED <<lists, boot>>

Descriptor == Fd \cup {Nobody}

Boot == AltSysInit \/ \E answer \in Status : alt_io_redirect(answer)

Call == \E answer \in Status :
    \/ \E name \in Name : \/ \E flags \in OpenFlags : ALT_OPEN(name, flags, answer)
                          \/ ALT_STAT(name, answer)
    \/ \E f \in Descriptor :
         \/ ALT_CLOSE(f, answer)
         \/ \E req \in {"TIOCEXCL", "TIOCNXCL", "TIOCSTIMEOUT"} : ALT_IOCTL(f, req, answer)
         \/ \E cmd \in {"F_GETFL", "F_SETFL", "F_DUPFD"}, arg \in SetFlags : ALT_FCNTL(f, cmd, arg)
         \/ ALT_READ(f, answer) \/ ALT_WRITE(f, answer)
         \/ ALT_LSEEK(f, answer) \/ ALT_FSTAT(f, answer) \/ ALT_ISATTY(f, answer)

Next == Boot \/ Call

Spec == Init /\ [][Next]_fdVars
---------------------------------------------------------------------------
TypeOK ==
    /\ alt_fd_list \in [Fd -> [dev : Served \cup {None}, fd_flags : SUBSET Flag]]
    /\ alt_max_fd \in Fd \cup {-1}
    /\ alt_dev_list \in Seq(Device) /\ alt_fs_list \in Seq(Filesystem)
    /\ boot \in 0..4
    /\ res \in [op : CallName, fd : Descriptor, out : Errno]

Locked(f) == "ALT_FD_EXCL" \in alt_fd_list[f].fd_flags
SameDevice(f, g) == alt_fd_list[f].dev = alt_fd_list[g].dev

(* A device is locked through one descriptor at a time, in spite of the      *)
(* high-water mark that cuts two searches short (alt_open.c:77,              *)
(* alt_fd_lock.c:61).                                                        *)
OneLocker == \A f, g \in Fd : Locked(f) /\ Locked(g) /\ SameDevice(f, g) => f = g

(* What TIOCEXCL does give: while a descriptor holds the lock, at most one  *)
(* other refers to the device, and that one is a higher descriptor.          *)
LockLeavesOneOther ==
    \A f, g, h \in Fd :
        Locked(f) /\ g # f /\ h # f /\ SameDevice(f, g) /\ SameDevice(f, h) => g = h /\ g > f

(* What the search of alt_fd_lock relies on: a descriptor in use lies below *)
(* the high-water mark, the standard ones once something has been opened.    *)
HighWater ==
    /\ \A f \in Fd : f > 2 /\ alt_fd_list[f].dev # None => f <= alt_max_fd
    /\ \A f \in Fd : "ALT_FD_DEV" \in alt_fd_list[f].fd_flags =>
                        alt_max_fd > 2 /\ alt_fd_list[f].dev \in Device
    /\ \A f \in Fd : Locked(f) => main /\ "ALT_FD_DEV" \in alt_fd_list[f].fd_flags
    /\ \A f \in Fd : alt_fd_list[f].dev = None => alt_fd_list[f] = Free

(* What alt_fd_lock.c:43 says it gives: the holder is alone. *)
LockIsExclusive == \A f, g \in Fd : Locked(f) /\ SameDevice(f, g) => f = g

(* From main() on, standard input can be read and standard output and error *)
(* written whatever has been closed, locked or set by F_SETFL, provided the  *)
(* redirection found the devices (alt_release_fd.c:46, alt_fcntl.c:89).      *)
StdioUsable ==
    \A f \in Std :
        /\ alt_fd_list[f].dev # None
        /\ main /\ alt_fd_list[f].dev = Found(StdDevice[f])
             /\ {"read", "write"} \subseteq Provides[alt_fd_list[f].dev]
             => IF f = STDIN_FILENO THEN Readable(alt_fd_list[f]) ELSE Writable(alt_fd_list[f])

(* The table keeps its type and the standard channels their use. *)
TableInv == TypeOK /\ StdioUsable

(* What is inductive about the latter: a standard channel is the null device *)
(* still, or opened in the mode it is for.                                    *)
StdModes ==
    \A f \in Std : \/ alt_fd_list[f].dev = alt_dev_null
                  \/ alt_fd_list[f].fd_flags \cap O_ACCMODE = IF f = STDIN_FILENO THEN {} ELSE {"O_WRONLY"}

(* A call that reports an error leaves every descriptor as it was, although *)
(* open() fills one in before it knows; close() alone releases first and     *)
(* reports then (alt_open.c:160, alt_close.c:83).                            *)
FailureLeavesTable ==
    [][res'.out # Success /\ res'.op # "close" => alt_fd_list' = alt_fd_list]_fdVars

(* A lock ends only through the descriptor that holds it, and only by the   *)
(* two calls alt_fd_lock.c:47 names.                                         *)
LockEndsWithHolder ==
    [][\A f \in Fd : Locked(f) /\ ~Locked(f)' => res'.fd = f /\ res'.op \in {"ioctl", "close"}]_fdVars

Pool == INSTANCE DescriptorPool WITH
    Reserved <- Std,
    Device   <- Served,
    refers   <- [f \in Fd |-> alt_fd_list[f].dev],
    locked   <- {f \in Fd : Locked(f)}

(* The table of descriptors implements the pool with locks. *)
ImplementsPool == Pool!Spec
===========================================================================
