# A TLA+ model of the NuttyNios controller

The repository holds the game controller of the NuttyNios game: a DE10-Lite FPGA
board with a Nios II processor (`nios2system`), the hardware abstraction layer of
its board support package (`software/firmware02_bsp`, the HAL) and the firmware
(`software/firmware02`). A timer interrupt samples the accelerometer; the main
loop filters the samples and prints them over the JTAG UART to a script on the
host; the host sends back texts, scores, LED and difficulty commands.

This directory holds TLA+ modules for the parts of that system that are hard to
test, TLC configurations that check them on small instances, and proofs, checked
by TLAPS, that the central safety properties hold for every size. Paths below
are relative to `src/`; `init.c`, `read.c`, `write.c`, `ioctl.c` and `fd.c` stand
for the `altera_avalon_jtag_uart_*.c` files of
`software/firmware02_bsp/drivers/src/`, `main.c` and `utils.h` for those of
`software/firmware02/`, `.v` for
`nios2system/synthesis/submodules/nios2system_jtag_uart.v`, and a name that begins
with `alt_` for the file of that name in `software/firmware02_bsp/HAL`.

## 1. Inventory

| part | state | operations | meets |
|---|---|---|---|
| **JTAG UART device** (`.v`) | two 64-byte FIFOs, two interrupt enables, `pause_irq`, `ac`, `rvalid` | read and write of two registers; the host sends, pauses, takes | driver (registers, interrupt 1), host (JTAG) |
| **JTAG UART driver** (`init.c`, `read.c`, `write.c`, `ioctl.c`, `fd.c`) | two 2048-byte rings with four indices, `irq_enable`, `timeout`, `host_inactive` | `init`, `irq`, `timeout`, `read`, `write`, `close`, `ioctl` | device, alarms, file descriptors |
| **Main loop** (`main.c`, `utils.h`) | `messagebuff`, `message`, `leds`, `word`, `display_buff`, `delay`, `stopscroll`, `filter` | read and parse, obey a message, filter, print, refresh | driver (stdin, stdout), sampling interrupt, display PIOs |
| **Sampling interrupt** (`main.c:179`) and accelerometer driver | `coords`, `coord_data_ready`; the SPI core's address register | `get_accler_isr`: three axes, two bytes each | main loop, timer 0, the chip |
| **FIR filter** (`main.c:109-148`) | 25 samples for each axis, coefficients | `fir_filter_fixed`, `generate_fixed` | main loop |
| **Line and script** (`alt_printf.c`, `test.py`) | the characters under way | print in hexadecimal, parse it | main loop, driver, host |
| **Interval timer** (`nios2system_timer0.v`, `_timer1.v`) | counter, period, control, snapshot | six registers, one access a clock | system clock, sampling, timestamps |
| **System clock and alarms** (`alt_tick.c`, `alt_alarm_start.c`, `altera_avalon_timer_sc.c`) | a doubly linked list, `_alt_nticks` | start, stop, tick | timer 0, the driver's `timeout` |
| **Timestamp driver** (`altera_avalon_timer_ts.c`) | - | start, read in two halves | timer 1 |
| **Interrupt dispatch** (`alt_irq_handler.c`, `alt_irq_register.c`, `alt_legacy_irq.h`) | table of handlers, `alt_irq_active`, `alt_priority_mask`, `ienable`, `PIE` | register, enable, sections, nesting, dispatch | every driver |
| **Exceptions** (`alt_exception_entry.S`, `alt_irq_entry.S`, `alt_exception_muldiv.S`, `alt_instruction_exception_entry.c`) | the registers, the stack frame | save, dispatch, emulate, restore | interrupts, any instruction |
| **File descriptors** (`alt_open.c` ... `alt_fd_lock.c`, `alt_dev.c`) | `alt_fd_list`, `alt_max_fd`, flags | open, close, read, write, ioctl, fcntl, locks, redirection | drivers |
| **Heap** (`alt_sbrk.c`), **profiler** (`alt_mcount.S`, `alt_gmon.c`) | `heap_end`; lists of functions and arcs | `sbrk`; `mcount`, `__mcount_record` | the C library; interrupts |
| **Time of day** (`alt_settod.c`, `alt_gettod.c`) | `alt_resettime` | set, get | tick counter |
| **Boot** (`crt0.S`, `alt_load.c`, `alt_main.c`, `alt_sys_init.c`, `alt_exit.c`) | the initial contents of memory | clear, copy, initialise, run `main` | everything |

How they interact: the CPU is one processor on which interrupt routines run
between any two instructions of the application, and, as no handler of this
program calls `alt_irq_interruptible`, to their end without nesting. What
application and interrupt routine share is shared without locks except for
`alt_irq_disable_all` around the interrupt enables (`write.c:136`, `read.c:191`).
The devices and the host run beside the CPU.

Not all of the HAL is in this program. Linked are boot, exceptions (without the
instruction emulation and the trap handler, `-DALT_NO_INSTRUCTION_EMULATION` in
`software/firmware02_bsp/public.mk:214`), interrupt dispatch, the file descriptors,
`sbrk`, the drivers, the clock and `alt_printf`. The profiler, the time of day, the
locks of `TIOCEXCL`, `alt_irq_interruptible` and the emulation are in the board support
package for a program that asks for them, and are modelled as such.

### What is hard here, and the property for it

* **A ring shared with an interrupt routine.** `write()` reads `tx_out` once and
  copies for as long as `memcpy` takes while `irq` moves it (`WriterOwnsSlots`);
  `read()` the same in the other direction (`ReaderOwnsSlots`). One slot stays
  free, in each of three geometries of the ring; one wrong case and a full ring
  reads as an empty one (`ChannelSafety`).
* **Lost wake-ups.** `irq` turns its own interrupts off when it has nothing to do,
  and the application turns them on again: bytes must never be left with nobody
  due to move them (`TxKicked`, `RxRearmed`, `RxFlows`, `Delivery`). Both directions
  share the word that says which are on, and it is loaded, changed and stored (`OwnEnableOnly`).
* **A device that moves while it is being looked at.** The space read from the
  control register is used for many writes (`NoTxOverflow`); the flags of one data
  read speak of two different moments (`StillDataMeansFull`); the interrupt routine
  loops while the host keeps sending (`IsrReturns`).
* **Waiting for a host that may be gone** (`CallsReturn`, `NeverMeansNever`), and
  what becomes of the wait when `main` takes the clock away (`AbsenceNoticed`).
* **A message protocol cut anywhere by non-blocking reads** (`ParserFollowsInput`,
  `EveryMessageObeyed`), and a flag shared with the sampling interrupt
  (`OnlyNewSamples`).
* **A triple of coordinates written byte by byte and read axis by axis**
  (`AxesInOrder`, `TripleInOrder`), from a timer that is set up twice
  (`SamplesKeepComing`).
* **Values in two halves**: the tick counter (`TornOnlyAtWrap`), the timestamp
  (`ReadWithinCall`, `StampIsAge`).
* **A list that changes while it is walked** (`ListIsListed`, `NeverOverdue`, `TicksEnd`).
* **Masks and sections that nest** (`SectionsHold`, `MainUnmasked`, `PriorityKept`,
  `SearchEnds`, `HighestServed`).
* **Descriptors taken before it is known whether they may be, and searches that
  stop at a high-water mark** (`FailureLeavesTable`, `OneLocker`, `LockLeavesOneOther`,
  `LockIsExclusive`, `LockEndsWithHolder`, `StdioUsable`).
* **Code that runs on somebody else's registers** (`RegistersKept`, `EmulationExact`,
  `EmulatesAsDocumented`) **or without the interrupts off** (`CopiesBounded`,
  `CallsCounted`, `RegionsApart`, `RecordsInSlabs`, `SamplesInHistogram`).
* **A reset in the middle of anything** (`FreshStart`, `AlarmStarted`).
* **Displays driven by counters that other commands stop** (`ScoreHeld`,
  `ScrollKeepsText`, `LedsRefreshed`, `TextShown`).
* **Arithmetic nobody sees the inside of** (`TwoTaps`, `IsFir`, `LineIsSample`,
  `SetThenGet`, `TimeIsExact`).

`PROJECT.json` lists each hazard at its line.

## 2. Modules

| module | what it is |
|---|---|
| `JtagUartHw` | the device: its variables, what a register access does, what the host does |
| `JtagUartDriver` | EXTENDS it: the driver, as the application and the interrupt routine interleave; properties; the inductive invariant |
| `JtagUartDriver_proofs` | theorems about `JtagUartDriver` |
| `CharChannel` | the abstract specification of the driver: two FIFO channels of bytes |
| `JtagUartChannel`, `JtagUartChannel_proofs` | EXTENDS the driver: driver and device seen as those channels; the refinement and the firmware's use of the driver as theorems |
| `MCJtagUart`, `MCJtagSafety` | instances, three scenes for safety |
| `TimerTakeover`, `MCTimerTakeover` | EXTENDS the driver: who owns timer 0's interrupt, `main` as its user |
| `MCJtagLiveness` | three scenes for liveness, the last of them `TimerTakeover`'s |
| `Firmware`, `Firmware_proofs` | the main loop and the sampling flag; theorems |
| `FirFilter`, `MCFirFilter` | `fir_filter_fixed` and `float_to_fixed23`, and 6-bit instances |
| `FileDescriptors`, `FileDescriptors_proofs`, `MCFileDescriptors` | the table of descriptors; theorems; an instance |
| `DescriptorPool` | the abstract specification of the table: a pool with exclusive locks |
| `SystemClock` | the tick counter and the list of alarms |
| `Interrupts` | dispatch, masks, sections, nesting |
| `IrqClock_proofs` | theorems about these two |
| `MCIrqClock` | `Interrupts` and `SystemClock` side by side |
| `IntervalTimer` | the timer device, a clock edge at a time |
| `Timestamp` | EXTENDS it: the timestamp driver on timer 1 |
| `Sampling` | EXTENDS `IntervalTimer`: timer 0 set up twice, the sampling routine, the chip, the triple |
| `Timers_proofs` | theorems about `Sampling` and `Timestamp` |
| `SampleLine`, `MCSampleLine` | the printed line and the script that reads it |
| `TimeOfDay`, `Heap`, `Profiler`, `Boot` | one part of the HAL each |
| `Services_proofs` | theorems about `Heap`, `TimeOfDay` and `Boot` |
| `Exceptions`, `MCExceptions` | an exception from entry to `eret`, with the instruction emulation |
| `Loops_proofs` | theorems about `FirFilter`, `Exceptions`, `Profiler` and `SampleLine` |
| `MCServices` | the parts from `Timestamp` on and the filter side by side |

### JtagUartHw

`ien` is `ien_AF` and `ien_AE`, `rfifo` and `wfifo` are the FIFOs, `pauseIrq` and
`ac` the flags of the same name. `WriteControl`, `WriteData`, `ReadData` are the
register accesses; a full write FIFO drops the byte (`.v:505`), a data read clears
the pause flag even when it gets nothing. `rvalid` is latched before the clock edge
at which a byte may arrive (`.v:511`) and the count of bytes left is taken after it
(`.v:520`): `ReadDataAsSent(c)` is a read that meets such a byte. The depth 64 and
the margin 8 are the constants `FifoDepth` and `Threshold`.

### JtagUartDriver

The grain is one access to what is shared: a ring index, a slot, a driver field or a
device register. `pc` says where the application is in `write` (`w_*`), `read`
(`r_*`) or `close` (`c_spin`), `ipc` where the interrupt routine is. An application
action requires `ipc = "idle"`: handlers do not nest and the application does not
run beside them. `memcpy` is one action a byte (`W_Copy`, `R_Copy`), so that the
interrupt routine may run between any two bytes.

| code | actions |
|---|---|
| `write.c:100-128` | `W_Snap` reads both indices and computes the room, `W_Copy` copies a byte, `W_Advance` moves `tx_in` |
| `write.c:129-149` | `W_Kick` loads `irq_enable`, `W_Set` stores it with the transmit bit set; whether to go on |
| `write.c:177-191` | `W_SpinExit`, `W_Check`: two looks at `host_inactive`, as in the code |
| `read.c:115-150` | `R_Snap`, `R_Copy`, `R_Advance` |
| `read.c:171-203` | `R_SpinExit`, `R_Check`; `R_End` with nothing read, else `R_Rearm` and `R_Set`, which load and store `irq_enable` |
| `init.c:106-197` | `IsrEnter`, `I_Control`, `I_RxByte`, `I_RxLate`, `I_RxFull`, `I_RxEnd`, `I_TxByte`, `I_TxEnd` |
| `init.c:203-225` | `Timeout`; it runs at interrupt level, so only while `ipc = "idle"` |
| `init.c:241-254`, `ioctl.c:52-84` | `CloseCall`, `C_Return`, `SetTimeout` |

The calls change `irq_enable` in two steps, load and store, with `en` what was loaded.
Between them `pc` is in `Masked`, the section between `alt_irq_disable_all` and
`alt_irq_enable_all`, where neither `IsrEnter` nor `Timeout` is enabled: take `Masked` away, and a
`write()` stores the receive enable as it was before the routine turned it off
(`OwnEnableOnly`). `SetEnables`, the store and the register write after it, is one step, as only the driver
looks at `irq_enable` and only the device at the register. The interrupt routine does load
and store in one step: nothing interrupts it. The build has no operating system
(`ALT_SEM_PEND` and the event flags are empty) and is not the "small" driver, as
`public.mk` and `system.h` configure it. It is compiled without optimisation, so
the busy waits read the fields again each time, as the `volatile`s ask anyway.
`TIOCGCONNECTED` changes nothing and is left out.

### CharChannel and JtagUartChannel

`write()` moves prefixes of its argument into one FIFO, the host takes from it; the
host feeds the other and `read()` takes from that; each call returns the count of
bytes it moved. `JtagUartChannel!Channel` maps the driver to it: the transmit channel is
the device's write FIFO followed by the transmit ring, the receive channel is the
receive ring followed by the device's read FIFO, and bytes that `read()` has copied
but not yet given up still belong to the ring.

### TimerTakeover

`alt_sys_init` gives timer 0 to the system clock (`alt_sys_init.c:99`), whose
interrupt runs `alt_tick` and with it the driver's alarm. `timer_init` of `main.c`
then registers `get_accler_isr` on the same interrupt. `timer0Isr` is what the
dispatch table holds; `Tick` is `Timeout` guarded by it; `main` reads without
blocking and prints blocking.

### Firmware

One action for each stretch of the loop between two accesses to `coord_data_ready`
and `coords`: `Read`, `Parse` a byte at a time to the `EndOfBuffer`, `Handle` (the whole command),
`TestReady`, one `FilterAxis` an axis, `Refresh`, `Clear`, and `get_accler_isr` in
between anywhere. Bytes are symbols; a text is a sequence of them padded with
`Blank`; the two banners are one symbol each; `decode_7seg` makes blanks and what lies
above `z` dark, keeps the other characters apart, and gives what lies below `0` one value,
"stray": the code looks those up before the start of its table (`utils.h:83`), as it does
for the zeros the display buffer starts with; `fresh` is the set of axes that were
sampled since main filtered them. Blocking in the print is the driver's business
and left to `TimerTakeover`. `heard` and `handled` are history.

### FirFilter

`fir_filter_fixed` with the accumulation wrapped to `Width` bits after every
operation and the shift loop run element by element in the order of the code; the
coefficients are floats, of sign, exponent and fraction, that `float_to_fixed23`
takes apart; the difficulty may change between samples; `past` is history.

### FileDescriptors and DescriptorPool

One action is one system call, named as in the code (`ALT_OPEN`, `ALT_CLOSE`, `ALT_IOCTL`,
`ALT_FCNTL`, `ALT_READ`, `ALT_WRITE`, `ALT_LSEEK`, `ALT_FSTAT`, `ALT_ISATTY`, `ALT_STAT`), or one step of the
start-up (`AltSysInit`, `alt_io_redirect`, three times). The table holds a device and the
flags the layer looks at; a driver's callback answers anything in `Status`, and `Provides` says which
callbacks a driver has. `Claimed` is the table as `open` has filled it in before it
knows whether it may, and `OpenStatus` the outcome. `alt_fd_lock` searches below
`alt_max_fd`, `alt_file_locked` up to it, as the two files do. `DescriptorPool` knows only
which device a descriptor refers to and which descriptors hold a lock; a failing call
is a stutter there, so the refinement says that whatever `open` does to the table
before it fails, it undoes. Calls are sequential: the code's locks are empty without an
operating system, and no interrupt routine of the program makes such a call.

### SystemClock

`next` and `prev` are the links of `alt_llist`, `alt_alarm_list` the head. `alt_tick` is `Tick`,
then `Visit`, `CallbackReturns`, `TickDone`, one for each turn of its loop; while a callback
runs, it may start and stop alarms, its own and others. `polite` says whether a behaviour's callbacks
leave other alarms alone; `listed` is history. Times are natural numbers here: the 64 bits
of the code do not wrap at 20000 ticks a second. `ReadHalf`,
`ReadRest` read the two words of `_alt_nticks`.

### Interrupts

`level` is a stack of activations: `main` at the bottom, above it one of `alt_irq_handler`
for each interrupt taken. `Enter` is exception entry; `Dispatch`, `Acknowledge`, `Return` the
loop of `alt_irq_handler.c:117-155`; the other actions are the calls of `alt_irq.h` and
`alt_legacy_irq.h`, made by `main` or a handler, with the contexts they return kept in the
activation. `alt_irq_interruptible` lets lines above its own in.

### IntervalTimer, Timestamp, Sampling

`IntervalTimer!Edge(w)` is one clock edge with the register access `w`; each register takes its next
value as the `always` blocks of the Verilog give it. `Timestamp` adds the accesses of
`alt_timestamp_start` and `alt_timestamp`, one each, and an interrupt routine that takes a
timestamp between any two. `Sampling` adds the accesses of `alt_avalon_timer_sc_init` and `timer_init` to timer 0
(`Setup`), the routine with its six pairs of accesses to the accelerometer (`AddressAxis`,
`ReadAxis`), a chip whose measurement may change at any time (`Measure`) and the main loop's
filtering. A byte is known by the register and the measurement it is from. Routines cannot be interrupted,
but the timer and the chip run on.

### SampleLine

`alt_printf` appends a line's characters, digits found as `alt_printf.c:83-107` finds them; the script
reads them one by one, splits, checks for five fields and puts the sign back. It may be
started in the middle of a line, stopped, and started again.

### TimeOfDay, Heap, Profiler

`TimeOfDay` follows both calls through the borrow and carry loops. `Heap`: `ALT_SBRK` is one step, interrupts being
off; its callers are the C library, which may give back its last region, and the profiler, for
its slabs of records and for the histogram, into which the alarm `nios2_pcsample` counts (`counters` is
which half words it wrote, not how often). `Profiler` is `mcount` a memory access at a time, by the program and by an interrupt
routine that runs between any two of them; entries and arcs are numbered in the order of their making, which
is the reverse of their lists.

### Exceptions

The registers are `regs`, the frame `stack`; `Entry` and `Exit` save and restore; `IrqHandler`,
`Emulate`, `alt_instruction_exception_entry` and `Breakpoint` are the four that may serve. The emulation
is run bit by bit, with its carries and corrections, and finds its operands on the stack of 31
words it builds itself (`Frame`).

### Boot

`step` follows `crt0.S`, `alt_load`, `alt_main` and `alt_sys_init`; the loops write one word a step.
`Restart` is a reset at any moment that leaves the memory as it is, as a soft reset or a debugger's does.

## 3. Runs

`tlc -config X.cfg M` for the configuration and module named in `PROJECT.json`.

| run | result | what it asks |
|---|---|---|
| `jtag_uart_safety` | holds | `write`, `close`, `ioctl`, `read`, the interrupt routine, the alarm, a host that takes, sends and pauses: `WriterOwnsSlots`, `ReaderOwnsSlots`, `NoTxOverflow`, `NeverMeansNever`, `TxKicked`, `RxRearmed`, `OwnEnableOnly`, `ChannelSafety` |
| `jtag_uart_liveness` | holds | no host: `CallsReturn`; a host, or the firmware after the takeover: `RxFlows`, `IsrReturns`, `Delivery` |
| `firmware` | holds | the six properties of the main loop |
| `file_descriptors` | holds | `TableInv`, `LockLeavesOneOther`, `FailureLeavesTable`, `LockEndsWithHolder`, `ImplementsPool` |
| `irq_clock` | holds | dispatch: `IrqInv`, `SearchEnds`, `PriorityKept`, `HighestServed`; alarms: `ClockInv`, `TornOnlyAtWrap`, `TicksEnd` |
| `services` | holds | `TsInv`, `SaInv`, `SamplesKeepComing`, `TodInv`, `HeapInv`, `TwoTaps`, `LineIsSample`, `ExcInv`, `ProfInv`, `BootInv` |
| `jtag_uart_still_data` | violated | `StillDataMeansFull`: a comment that is not so |
| `takeover_absence` | violated | `AbsenceNoticed`: the alarm is gone |
| `firmware_lost_message` | violated | `EveryMessageObeyed`: two messages in one read |
| `fir_convolution` | violated | `IsFir`: what the filter is meant to compute |
| `file_descriptors_exclusive` | violated | `LockIsExclusive`: a lock that is not exclusive |
| `emulation_as_documented` | violated | `EmulatesAsDocumented`: limitations the list leaves out |

A property whose name ends in `Inv` is the conjunction of the named invariants of its module:

| invariant | of |
|---|---|
| `FirmwareInv` | `TypeOK`, `ParserFollowsInput` |
| `TableInv` | `TypeOK`, `StdioUsable` |
| `IrqInv` | `IrqTypeOK`, `SectionsHold`, `MainUnmasked` |
| `ClockInv` | `TypeOK`, `LinksMatch`, `ListIsListed`, `NeverOverdue` |
| `TsInv` | `TsTypeOK`, `StampIsAge`, `ReadWithinCall` |
| `SaInv` | `SaTypeOK`, `AxesInOrder`, `TripleInOrder` |
| `TodInv` | `SetThenGet`, `TimeIsExact` |
| `HeapInv` | `RegionsApart`, `RecordsInSlabs`, `SamplesInHistogram` |
| `ExcInv` | `RegistersKept`, `EmulationExact` |
| `ProfInv` | `CopiesBounded`, `CallsCounted` |
| `BootInv` | `FreshStart`, `AlarmStarted` |

Four runs check several instances at once. The variable `scene` (`MCJtagSafety`, `MCJtagLiveness`)
says what the environment of a behaviour is, `part` (`MCIrqClock`, `MCServices`) which module it is
a behaviour of; neither changes, and what does not belong to the part stays as it began. The states
reached are the disjoint union of those of the instances.

### Bounds, and why they are enough

*Driver.* Rings of 3 slots (2 bytes), device FIFOs of 2 with margin 1,
messages of 0 to 3 bytes. With these every geometry occurs: `in` before, after and at
`out`, the oldest byte in slot 0, a chunk that ends at the end of the array, a
message longer than the contiguous room, than the ring, and one that has to wait; an
almost-full interrupt with the FIFO not full; a ring that fills with bytes left in the
device. The scenes `write` and `read` use two
distinct bytes, so that reordering, loss and duplication are distinguished; `both`
and the liveness scenes look at counts and use one incoming byte. `INT_MAX` is 5 and the default
timeout 2: the count of seconds meets its cap (3) below "never" (4). The scene `write` has one
`ioctl` timeout, 0, which the code turns into "never"; it has no incoming byte and
`read` no `write`: their product is `both`, with one message, without blocking. The proofs below
remove these bounds for the safety properties.

*Firmware.* Five symbols, one for each branch of the code (`$` ends a message, `1`
stands for the LED commands, `~` for the score, `+` for the difficulties, `t` for a text),
at most 4 bytes in all (`MaxBytes`), reads of at most 3, a display of 2 digits out of
a buffer of 4, a delay of 2. Messages of length 0 to 3 occur, cut at every place,
two and more in one read; a text both shorter and longer than the display; scrolling
all the way round. `FirmwareAssumption` keeps texts and scores within the arrays of
`main.c`, which does not check them.

*Descriptors.* Five descriptors, so two beside the standard ones: the table is filled, a device
has two users above and below the high-water mark. Three devices and a file system,
one of them without callbacks, a file that refuses; flags that ask `open` and `F_SETFL` for what
they must not give. The theorems hold for any number of each.

*Interrupts.* Three lines, up to four levels, one call of the API in an activation, two nested
sections: a handler interrupts one that interrupts one, and each may enable, disable or
register any line. *Clock.* Three alarms, delays and periods 0 and 1, three ticks, a word of 2 so
that the low half wraps: a callback can stop the alarm before, at and after its own.

*Timers.* Halves of 3, so that a count of 9 runs out and wraps; a timer of 3 clocks against a
routine of 13 accesses, so that interrupts are missed; two measurements and three samples, so that one
arrives within a triple and one within an axis. *Time.* A second of 12 with rates 2, 3 and 5, one of
which does not divide it. *Heap.* 19 bytes, slabs of one record and a rest, regions of 1 and 3 against words
of 2, a text of one bucket and a half. *Profiler.* Two functions, two sites, five calls. *Boot.* Two words of the program's in each section.

*FIR.* 3 taps of 6 bits, five sample values, coefficients whose products leave the
6 bits and whose fractions lose bits in the conversion. `TwoTaps` is about the last two samples, so 3
taps show the third. *Line.* 6-bit numbers of three digits, both ends of the range, zero, and numbers of one and two
digits, two lines in the channel. *Exceptions.* Four-bit registers: all 256 pairs of operands of all seven
operations, and for two of them each choice of three among nine registers, those with a meaning of their own included.

No state constraint and no symmetry is used: every state space is finite as it
stands. `jtag_uart_safety` has 3.3 million states, `irq_clock` 430 000,
`services` 790 000, `firmware` 660 000. Deadlock is checked everywhere but in `takeover_absence`, where a
program that waits for ever is what the run is about, and `services`, where
the counters of a part come to their bound and its behaviours end.

### Fairness

* `WF(AppStep)`, `SF(IsrEnter)`, `WF(IsrStep)`: the processor keeps executing, and
  the level-triggered interrupt it is owed is taken as soon as interrupts are on; strong, because a
  program that calls `read()` again and again turns them off again and again, without ever waiting in
  between. Weak fairness of the application
  does not forbid interrupts from holding it off: only a step that stays enabled
  must be taken.
* `WF(Timeout)` in the scene `absent`, and `SF(Tick)`, `SF(IsrEnter)` in `TimerTakeover`, `Tick` while the system clock
  owns the timer: the tick is a hardware timer, whose interrupt waits for interrupts to be on. The scene needs no more than
  the weak form; the run that is violated is given the most that may be assumed.
* `WF(HostTake)`, `WF(HostPause)` where a host is: `nios2-terminal` keeps taking bytes and pauses
  between those it sends; the device turns a pause into an interrupt when bytes wait
  (`.v:445`). Nothing is assumed of a host in the scene `absent` and in `NoHostSpec`.
* `Firmware`: `WF` of the main loop and of the sampling interrupt, which is a timer.
  Nothing makes the host send.
* `Interrupts`: `WF` of a handler's own steps (drivers end), `SF(Enter)` and `SF(LeaveSection)`: the processor
  takes an interrupt at the first instruction at which it is let in, and a critical section, which
  contains no wait, comes to its end although handlers run in between.
* `SystemClock`: `WF` of the routine, which runs with interrupts off.
* `Sampling`: `WF` of the clock and of the routine's steps. Nothing is assumed of `main`, the chip or the host.

### What the violated properties show

* `StillDataMeansFull`. `init.c:158` says "If there is still data available here then
  the buffer is full". A byte that arrives in the cycle of the read that found the
  FIFO empty is counted as left, although that read was not valid: the receive
  interrupt is turned off with room in the ring. The byte waits in the device until a
  `read()` obtains something. `RxRearmed` (proved) and `RxFlows` (checked) show that it
  is never left with an empty ring, so nothing is lost or stuck for a reader that goes
  on reading.
* `AbsenceNoticed`. After `timer_init` no alarm runs, although `init.c:86` registers
  one "every second to check for presence of host". With nobody at the other end a
  print waits for ever once the ring is full; with a host it always ends, and every byte is
  delivered (`Delivery` in the scene `firmware`).
* `EveryMessageObeyed`. `main.c:241` overwrites a complete message by the next one of
  the same read; only the last is obeyed.
* `IsFir`. The loop at `main.c:145` shifts upwards and so copies `memory[0]` into every
  element. What is computed is `TwoTaps`: the newest sample with its own coefficient
  and the previous one with the sum of all the others.
* `LockIsExclusive`. `alt_fd_lock.c:43` grants the lock "if there are no other open file
  descriptors which reference the same device", but its search (`:61`) stops short of the
  highest one. `LockLeavesOneOther` is what remains true: at most one other, and a higher one.
* `EmulatesAsDocumented`. `alt_exception_muldiv.S:60` says "The emulations match the instructions, except for
  the following limitations", and lists some registers. It does not list `sp` and `ea` as sources, nor `gp`
  and `et` as destinations, for which they do not match either. `EmulationExact` is the
  statement with those added.

More that the models show without a run of its own. A `+` or `-` in a text, and the buffer
before the first text, are shown as segments that belong to no such character
("stray"). While a score is shown the delay
that gates `update_leds` stands still, so an LED command waits for the next text
(the exception in `LedsRefreshed`). A printed triple may mix samples, though only
forwards (`TripleInOrder`). An alarm stopped by the callback of the one before it leaves `alt_tick` on an entry
linked to itself, for ever (the exception in `TicksEnd`); a line enabled inside an interruptible
handler undoes its mask (`PriorityKept`); where the tick rate does not divide a second the time of day can go back
(`TimeIsExact`); where the text is not a multiple of 32 bytes, samples of its end are counted in the half word
behind the histogram (the exception in `SamplesInHistogram`). The comment before `sbrk` says that it "does not perform any
bounds checking. Memory will be allocated, even if the request region colides with the stack or overflows the available
physical memory" (`alt_sbrk.c:46-48`); the test at `alt_sbrk.c:88` refuses what does not fit below
`__alt_heap_limit`, which is why `RegionsApart` has `g.to <= HeapLimit`, and the stack alone stays unchecked. The enumeration in `alt_exceptions.h:95` and the code agree that 0 runs the
instruction again, the one at `alt_exception_entry.S:276` says the opposite of the branch beside it. And the README's "around 200Hz"
sampling is about 1000 Hz by `main.c:192` (period 0xC4F0 of a 50 MHz clock), which no module depends on.

### Mutants

Every property of a run that holds has a mutant in `PROJECT.json`: an operator beside
the one it replaces, with a mistake somebody could make (no slot left free, a search that ends one
early, an interrupt not turned on again, a flag not cleared, the shift
loop the other way round), under which TLC finds that property violated. They are
not used by any specification.

## 4. Proofs

Every theorem below is checked by `tlapm` to its last step. Together they state every invariant
and every action property of the runs that hold, and the refinements of `CharChannel` and
`DescriptorPool`, for every value of the constants that meets the assumptions of the modules, which the runs evaluate.
Each module of theorems is for the modules it extends; a proof that needs an inductive invariant
finds it at the end of the module it is about, behind the properties.

### The driver: `JtagUartDriver_proofs`

For every `BUF_LEN > 1`, every FIFO depth above its threshold, every alphabet, message set and
room offered:

| theorem | says |
|---|---|
| `DriverInvariant` | `Spec => []IInv` |
| `TypeCorrect` | `Spec => []TypeOK` |
| `WriterSafe`, `ReaderSafe` | the region being copied never meets what the interrupt routine moves |
| `NoOverflow` | no byte is ever dropped by a full device FIFO |
| `TxNeverStranded` | bytes in the transmit ring have the interrupt on, or a `write()` about to turn it on |
| `EnablesNotConfused` | `Spec => OwnEnableOnly`: an interrupt turned off comes on again only by the call it is for |
| `NeverIsNever` | `Spec => []NeverMeansNever` |
| `RxAlwaysRearmed` | the receive interrupt is off only with bytes in the ring, or with a `read()` about to turn it on |

They rest on `HwAssumption` (a threshold below the depth) and `DriverAssumption` (the
types of the constants).

None of the properties is inductive alone. `IInv` adds

* *types*, with the slots of the rings: `TypeOK` alone cannot show that a byte put
  into the device is one of `Char`, because a slot may still hold `Nul`, hence
  `LiveSlotsWritten`: slots between the indices, and those `write()` has filled so far,
  have been written;
* *regions*: `ChunkShape` says what `n` and `k` are while copying. `WriterOwnsSlots`
  survives the interrupt routine because taking a byte makes `Used` smaller, and
  `ReaderOwnsSlots` because storing one, which happens only when the ring is not full,
  makes it larger (`UsedLemma`); the snapshot establishes them (`WriteRoomLemma`,
  `ReadAvailLemma`, one case for each geometry); advancing by `n` with a wrap is
  `WrapLemma`;
* *FIFOs*: `FifoBounds`. `NoTxOverflow` holds because the host only makes room and the
  routine counts down what it uses;
* *rounds*: `PauseMeansData` and `RoundTakes`. A receive round starts with a byte to take
  (an interrupt condition, with a threshold below the depth, means that there is one),
  so when it ends with bytes left behind, the ring is not empty. Without this the late
  byte would break `RxRearmed`;
* *wake-ups*: `TxKicked` and `RxRearmed` themselves;
* *sections*: `SectionHeld`. While a call is in its section no routine runs, so what it loaded is what
  `irq_enable` and the register still hold when it stores. `EnablesNotConfused` is an action property and follows from
  it, step by step.

`StepKeepsIInv` takes these groups one by one (`WriteTypes`, `ReadTypes`, `IsrTypes`,
`OutsideTypes`, `LiveKept`, `RegionsKept`, `FifosKept`, `WakeupsKept`, `RoundsKept`, `SectionKept`), each
with one step for each action that can disturb the group.

`NeverIsNever` has an invariant of its own, `SecondsCapped`: only the alarm changes
`host_inactive`, and it stops at `INT_MAX - 2`, one short of what `ioctl` stores for "never".

### The driver as two channels, and under the firmware: `JtagUartChannel_proofs`

| theorem | says |
|---|---|
| `DriverImplementsChannel` | `Spec => ChannelSafety`: driver and device implement `CharChannel` |
| `FirmwareUsesDriver` | every behaviour of `TimerTakeover` is one of the driver |
| `FirmwareKeepsDriver` | so the firmware has `ChannelSafety` and the five invariants of the driver |
| `AbsenceUnnoticed` | once `main` has the timer and the host has not been given up, it never is |

The mapping needs `ChannelInv`, which is `IInv` with `CallLocals` (`msg`, `moved` and `got` are set only within their call)
and `Copied` (what `memcpy` has copied so far is what was in the message, or in the ring). `ContentsLemma`
gives the bytes of a ring by their positions, and one lemma for each thing the code does to a ring
says what becomes of them: a prefix more behind, a prefix less in front, one byte moved to or from a FIFO. The interrupt
routine's transfers between ring and FIFO then are stutters of the channels; advancing an index is the step.

`AbsenceUnnoticed` is what the code has in place of the violated `AbsenceNoticed`: `host_inactive` is counted by the alarm only.

### The main loop: `Firmware_proofs`

For every length of texts, display and delay and every input:

| theorem | says |
|---|---|
| `SamplesOnce` | `Spec => []OnlyNewSamples` |
| `TextKept` | `Spec => []ScrollKeepsText` |
| `ScoreStays` | `Spec => ScoreHeld` |
| `MessagesFollowInput` | `Spec => []FirmwareInv`: types and `ParserFollowsInput` |

The first rests on `SampleInv`: while the flag is up and main has not begun, all three axes
are fresh (the interrupt sets both at once and `Clear` puts the flag down last), and from
axis to axis those still to come stay so. The second rests on `ScrollInv`, which names the
rotation as a function (`Turned`); one scroll step turns it once more (`TurnedAgain`, from
`RotatedLemma`, what `shiftBuffer` does, and `TurnLemma`, the modulo), and a new text starts
at no turn (`TurnedZero`).

The fourth needs types, `ScrollInv` and `ParserFollowsInput` together: the length and type of the display follow from the
rotation, and the parser's step from the types. The parser's property speaks of the last terminator of the whole input
and of the one before; `LastBeforeIs` and `EndsAre` say that these exist, `OneByteMore` what one more byte, a terminator
or another, makes of them, `ParsedOnward` that the parser then is where that byte puts it, and `StepKeepsParsed` that
nothing else touches what the parser has.

### Descriptors: `FileDescriptors_proofs`

For every size of the table above the standard descriptors, every set of
devices and file systems with any names and callbacks, every order of registration and every
flags and answers:

| theorem | says |
|---|---|
| `LockShared` | `Spec => []LockLeavesOneOther` |
| `LockUnique` | `Spec => []OneLocker`: no device is locked through two descriptors |
| `TypeCorrect` | `Spec => []TypeOK` |
| `TableUsable` | `Spec => []TableInv`: the standard channels can be read and written |
| `FailuresHarmless` | `Spec => FailureLeavesTable` |
| `LocksKept` | `Spec => LockEndsWithHolder` |
| `PoolImplemented` | `Spec => ImplementsPool`: the table implements `DescriptorPool` |

The invariant is `TableOK` (types), `StdKept` (the standard descriptors refer to something, so `alt_get_fd` never
returns one), `HighWater` and `LockLeavesOneOther`. `HighWater` is what makes the cut-off search
good for anything: what it misses is the one descriptor at the mark. The proof goes by what a step can do
to the table: `Shape` is one of keeping it, taking a free entry for a device locked by nobody else, redirecting a
standard entry before `main`, releasing an entry, locking one after the search, and changing other flags. One
lemma for each call shows that it has a shape (`OpenShape`, `CloseShape`, `IoctlShape`, `FcntlShape`, `StatShape`,
`ThroughShape`, `RedirectShape`; `ReleasedLemma` is the error path of `open`), and one for each part of the invariant
that every shape keeps it. The refinement maps each shape to an action of the pool. `TableUsable` adds `StdModes`, that a
standard descriptor is the null device or was opened for what its channel is for: the
redirection gives it that mode, and `F_SETFL` cannot take it away.

### Interrupts and the clock: `IrqClock_proofs`

For any number of lines, calls, nested sections and nested handlers:

| theorem | says |
|---|---|
| `SectionsAndMasks` | `IrqSpec => []IrqInv`: types, `SectionsHold`, `MainUnmasked` |
| `SearchFinds` | `IrqSpec => []SearchEnds` |
| `PriorityHolds` | `IrqSpec => []PriorityKept` |

One invariant, `IrqIInv`, serves all three, because they need each other: `SectionInv` (interrupts are off in a section
and in a handler that is not interruptible) makes every interrupted activation one that is outside a section and interruptible
(`StackInv`), so that the mask in force is always that of the innermost interruptible activation, and
the one it saved that of the activation below (`MaskInv`). Without that nothing would say that
unwinding the stack ends with all lines. `MaskInv` also has that only active lines are enabled and only lines with a
handler are active, hence `SearchEnds`; and, until a mask was undone, what a handler still has to look at is under its mask
(`ScanInv`), hence `PriorityKept`. `CodeStep` is what every call of the API shares, `LoopStep` what the loop of
`alt_irq_handler` does between two handlers, `EnterStep` and `ReturnStep` are the two that change the height of the stack.

For any number of alarms, delays and periods, and any width of a word:

| theorem | says |
|---|---|
| `AlarmsServed` | `Spec => []ClockInv`: types, `LinksMatch`, `ListIsListed`, `NeverOverdue` |
| `TornOnlyWhereWrapped` | `Spec => []TornOnlyAtWrap` |

`LinksMatch` (each link has its counterpart) is inductive with `LinkedOK`: alarms on the list are linked, those that
are not are linked to nothing or to themselves, and the walk stands on linked entries. `InsertLemma` and
`RemoveLemma` say what the two operations leave, the removal of an entry linked to itself included.

That a walk from the head meets every listed alarm speaks of a path of any length. `Ahead(x, a)` states it without a path:
`a` is in every set that holds `x` and is closed under `next` up to the head. `InsertAhead` and `RemoveAhead` show
from such sets what the operations do to it, so that `AllAhead` (the head has every listed alarm ahead) is inductive, and
with `LinkedOK` it is `ListIsListed`. `DueAhead` says that an alarm that is due is still ahead of the walk, or
being served, or the walk is lost on an entry off the list; when a walk ends, nothing is ahead of it (`HeadEnds`), so nothing is due. `HalfRead`
is what `main` knows between its two loads.

### Timers: `Timers_proofs`

| theorem | says |
|---|---|
| `SamplesInOrder` | `SaSpec => []SaInv`: types, `AxesInOrder`, `TripleInOrder`, for every period of the timer, chip and number of samples |
| `TripleForwards` | `SaSpec => []TripleInOrder`, from a smaller invariant |
| `TimeOfTheCall` | `TsSpec => []TsInv`: types, `StampIsAge`, `ReadWithinCall`, for every width of the timer |

`SaIInv`: between two runs of the routine the three axes are of one sample, during
one those it has begun are of the next (`CoordsInv`, with `IsrInv` for how far it is), and what main filtered
never is newer than what it will filter (`FilteredInv`); main goes on only between runs. Of the bytes, `RoutineInv`
says whose routine is running, and `BytesInv` that what is left of it is the end of its list of accesses and
what it has read so far is in the order of the list and of the measurements.

`TsIInv`: while the timer is being started it stands still and gets its full period (`StartInv`), then it is
the full period less the clocks since, once around and no more (`CountInv`), and the lower half main holds belongs to a moment of
its call (`CallInv`). The upper half may be of a later snapshot, taken by
an interrupt routine; `Mixed` shows that both together are still the count of the earlier moment, unless the upper half
has run down in between, which is the exception `ReadWithinCall` names.

### One part of the HAL each: `Services_proofs`

| theorem | says |
|---|---|
| `MemoryApart` | `HeapSpec => []HeapInv`, for every heap, word, slab, record and bucket size |
| `TimeKept` | `TodSpec => []TodInv`, for every rate, time set and length of a second |
| `BootsAfresh` | `BootSpec => []BootInv`, for every finite set of devices and words in each section |

`MemoryApart` rests on `HeapIInv`. `RegionsApart` needs that no region is empty and that the end never falls
below a region, so that only the highest can be given back (`TrimStep`); the records need `SlabInv`, that
what is left of a slab ends with it and holds no record, until one was refused; the samples need `HistogramInv`,
which names the bucket of each counter. `SbrkKeepsRegions` is what a call of `ALT_SBRK` does for all its callers.

`TimeKept` rests on `TodIInv`, the equation between what `alt_resettime` holds and the time last set, and on
arithmetic: `Parts` (whole seconds and rest together are the ticks) and `Normalised` (one round of
the borrow and the carry loop brings the microseconds into range).

`BootsAfresh` rests on `BootIInv`: nothing interrupts before the dispatcher is ready (`NoneInterrupts`), a loop has done the
words before its pointer and the loops before it all of theirs (`LoopsDone`), and the tick rate is known
from the timer on (`ClockKnown`); a reset anywhere starts over and so promises nothing but that.

### Loops over data: `Loops_proofs`

| theorem | says |
|---|---|
| `FilterHasTwoTaps` | `Spec => TwoTaps`, for any number of taps, widths, coefficients and samples |
| `ExceptionsUnnoticed` | `ExcSpec => []ExcInv`: registers kept, products and quotients exact, for registers of any width |
| `CallGraphComplete` | `ProfSpec => []ProfInv`, for any functions, sites and calls |
| `LinesReadBack` | `LineSpec => []LineIsSample`, for numbers and digits of any width |

A loop of the code is a recursive function of its rounds, or a sum or a concatenation over a sequence. What it has
done after each round is proved by taking the least round after which it had not (`EveryRound`, `LoopRuns`: the
naturals are well-founded), so a loop invariant is stated and shown the way it would be for the program. Powers of two, which the
code masks and shifts with, are the sizes of sets of bits (`Subsets`, `PowerOfTwo`), hence `PowersMeet`
and `PowersMultiply`, and `Remainder` and its companions say what `%` keeps.

*Filter.* `FirInv`: after a sample every element of the memory is that sample (`ShiftCopies`). `AccumulateIsConvolution`:
wrapping every partial sum gives what wrapping the last one would (`WrapMore`, `WrapSum`).

*Exceptions.* `ExcIInv` follows the registers by the stage of the exception: untouched until they are saved, then on the stack, and
as before at the exit whoever served (`Untouched`, `OnStack`, `Restored`); `ResumeInv` is the return address. For the answer,
`ExcAllInv` adds that all are words and that the exit finds the answer where it restores the destination from
(`AnswerLeft`). The loops have the invariants of long division (`DivideExact`: what is left, what is in the quotient, and the shifted rest make the dividend)
and of multiplication in two halves (`LowRound`, `HighRound` with the carry of `CarryComesBack`); `ProductExact` and
`QuotientExact` put the signs back.

*Profiler.* `ProfIInv`: `MissInv` says how much a search can have overlooked - the program one entry and one record,
which an interrupt routine has added behind its back, the routine nothing - and so
`CopyInv` bounds the copies by two; `CountsInv` balances calls against counts, with `Undone` for what the program's
store is about to take back of a count the routine raised after the program had loaded it.

*Line.* `HexReadBack`: the digits found by shifting are quotients by powers of the base, and the parser's sum of them is the number.
`SignReadBack` undoes the two's complement, `FieldsAreFive` cuts the text where the commas are, and `LineReadBack` puts these together.
For the behaviours, `LineIInv` says that the channel holds the lines printed, one after the other (`Placed`), but
for the head of the first, which is what the client has read, unless it came in the middle (`HeadRead`).

## 5. Only model-checked, and not modelled

Only checked by TLC: everything under fairness, `CallsReturn`, `IsrReturns`, `RxFlows`,
`Delivery`, `LedsRefreshed`, `TextShown`, `HighestServed`, `TicksEnd`, `SamplesKeepComing`, which is beyond the
prover, as is `ENABLED`. No invariant or action property of a run that holds is left to TLC alone. The runs that are
violated ask for what does not hold; what holds instead is proved where it has a name (`TwoTaps`, `LockLeavesOneOther`,
`EmulationExact`, `RxRearmed`, `AbsenceUnnoticed`).

Not modelled:

* The generated processor, interconnect and pin components: vendor code, partly encrypted. In the
  device, the JTAG side is its effect on the FIFOs and flags.
* Logging (`alt_log_printf.c` and its header): `ALT_LOG_ENABLE` is not defined, so every call is an empty macro.
* `alt_iic.c`, `alt_iic_isr_register.c`: the other interrupt interface; with the legacy one in `public.mk` they compile to nothing.
* Delay loops, cache flushes (the processor has no caches), DMA and flash look-ups (the system has neither), the
  stubs of the C library interface, which return an error whatever the state, and `system.h` and `nios2.h`, which are constants.
* The accelerometer driver's calls the program does not make (open by name, write, z offset), the time zone, the timestamp
  calls before a device is registered, `%c` and `%s`. How far the profiler's 16-bit counters get.
* The rest of `software/firmware02_bsp`, which is what the map does not cover: each of its nearly 150 small files opens
  with a page of licence, many more lines are headers of register addresses and declarations, the variants the
  build does not choose (an operating system, direct drivers, a small driver, a checked stack) and the
  items above. What remains of the code that is built and changes state is in a module.
* Buttons and switches are passed on unchanged. Texts of 25 characters or more and scores of more than 6
  digits overrun arrays of `main.c`; C gives that no meaning, and the models stay below it.
* Parts whose proper working nothing in the repository states: which segments a stray character
  should show, whether `isatty` should look at a structure `fstat` did not fill in (the model allows either answer), what the last
  two hard coefficients, unlike the mirror image of the first two, are for.

## 6. Plan

1. Composition: the main loop of `Firmware` on the channel of `CharChannel` instead of on an input of its own, so that
   `MessagesFollowInput` and `FirmwareKeepsDriver` become one statement about what the host sent and what is shown.
2. The tick of `Interrupts` and the walk of `SystemClock` as one module, so that `NeverOverdue` holds with a clock that can be held off.
3. `Loops_proofs` is the longest module of theorems; its lemmas about rounds and powers could be one of their own.
