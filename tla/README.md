# The itop-4412 drivers in TLA+

The repository is a collection of Linux character, platform, I2C and SPI
drivers for the iTOP-4412 and FS4412 boards, one per directory, numbered in the
order in which a course teaches them.  `hq_source_code/` holds 63 of them,
`source_code/` another 33; many come in several versions (`006` to `009`, `029`
to `032`, ...).  There is no common library: the drivers have in common the way
they load and unload, the kernel primitives they use, and the mistakes those
primitives invite.  What can go wrong in them is concurrency (several processes
in the same file operations, interrupts, bottom halves), the error paths of
`init`, and the order in which things are set up and taken down.

This directory holds TLA+ models of those parts, the TLC runs that check them,
and proofs that TLAPS checks.  `PROJECT.json` is the index: it lists the runs,
the source lines that each definition models (`map`), a mutant for each
property (a plausible bug, defined next to the action it replaces, that TLC
must find), the hazards of the code with the properties aimed at them, and the
theorems.

## 1. Inventory

| component | state | operations | hard parts | correct when |
|---|---|---|---|---|
| exclusive open (016-019, 025, 026; 26.1, 26.2) | a counter, a bit, a flag, a semaphore or a mutex, and for three of them a spinlock | open, release, init | the test and the repair of a failed test are two operations (016, 025), or the test and the mark (26.1, 26.2); locks are initialised after registration | one opener (019: two); the guard tells the truth; every open returns; the device recovers |
| blocking I/O with queue and semaphore (029-032) | `kbuf`, `counter`, `sem`, `wq` | read, write, poll | unlocked `counter`, ignored result of `down_interruptible()`, lost wakeups, faults between two steps | no lost wakeup, units match data, announced data is copied out or replaced |
| load, roll back, unload (all) | what is registered, mapped, allocated | init/probe, its error path, exit/remove, and calls meanwhile | partial failure, order, open files | nothing left behind, nothing released twice, no handler without what it uses |
| bottom halves (048, 057-059) | work, tasklet | interrupt, work function, remove | scheduled work against removal | nothing runs after the text is gone |
| timers (049, 055, 056, 33) | `timer_list` | expiry, re-arm, exit | `del_timer()` does not wait | the timer is gone with the module |
| button driver (062) | `key_val`, `ev_press`, interrupts | open, close, read, poll, fasync, interrupt | several files share one buffer and one set of interrupts; the flag is reset after the copy; the edge is cleared after the pin is read | no press lost, no freed memory used, nothing left behind |
| flag and wait queue (033-039) | `flag`, `ker_buf` | read, write, poll, fasync | flag reset after the copy, failed copies that are ignored | unread data makes no reader wait |
| semaphore alone (027) | `sem`, `counter` | read, write | as 029 | unread data has a unit |
| byte buffers (006-009, 013-015, 022, 025, 026; copies 016-019) | `kbuf`, `counter` | read, write, ioctl, `mystrcpy` | no lock, boundaries of the shift | a queue, or a box, of bytes; no copy outside the array |
| LEDs, beeper, PWM (15 drivers) | data registers, shared with drivers of other pins | on, off, ioctl, open, release, load | read-modify-write without a lock, whole-register writes, index bounds | a pin shows what was last asked of it; dark when nobody uses it |
| MPU6050 (050, 060, 061) | the words under assembly, in 061 a global union | ioctl | two transfers per word; the chip samples, transfers fail and other calls come in between | no torn value; calls keep apart |
| I2C touch screen, SPI RFID reader (31, 32) | the address sent last | read | address and data are two transfers (32) | the byte is of the register asked for |
| bit-banged I2C (000_save/iic.c) | two pins | start, stop, ack, byte | clock and data order, a slow or absent slave, the poll counter | bytes arrive in order; every call ends with a free bus |
| keys (29, 30, 047, 053), GPIO levels (021), platform devices (040-042, 045, 051, 000_save/pdev.c) | what they register | load, unload | as for all drivers | as for all drivers |
| introductory modules (001-004, 024; 001, 006), test programs | none, or parameters that are printed | - | - | - |

Interactions: processes call the file operations through the VFS, several at a
time; interrupts call handlers, which schedule work or wake readers; the module
loader and the driver core call init/exit and probe/remove, while file
operations are already, or still, possible.  The drivers do not call each other,
but some share a register: 023 and 028 both drive pins of `GPF3DAT`, and some
of those of 005 are in the registers of LED1 and LED2 of 028.

## 2. Plan

In order of importance.  Done:

1. Exclusive open: `ExclusiveOpen` (the promise) and `GuardedOpen`, which
   executes the guard of each of the eight drivers and implements it as far as
   that guard does.  Run and proofs.
2. `WaitqueueIO`: blocking I/O, safety and liveness.  Runs and proofs.
3. `ModuleLifecycle` executing `DriverTables`, audited by `DriverAudit`.  Run
   and proofs.
4. `DeferredWork`: interrupt, work, tasklet and timer against removal.  Run and
   proofs.
5. `ButtonDriver` (062): several files, keys, interrupts.  Runs and proofs.
6. `BufferIO` executing `BufferTables`, with `ByteBox` as its promise: the
   buffers without a lock, the flag drivers and 027.  Run and proofs.
7. `LedRegisters`: fifteen drivers that change bits of shared data registers.
   Run and proofs.
8. `RegisterReads`: six drivers that read registers over I2C and SPI.  Run and
   proofs.
9. `BitBangI2C`: the master of iic.c against a slave.  Run and proofs.
10. A proof that `BufferIO` implements `ByteBox` while calls do not overlap.
11. A proof of the audit, from what a reader can tell of the tables.

Left:

12. `WaitqueueIO` for the flag drivers (033-039), whose waits are guards now.

## 3. Modules

### Exclusive open

`ExclusiveOpen` is the abstract specification: a set `holders`, a grant when it
has fewer than `capacity` members, a release.  A refused open is a stutter.

`GuardedOpen` executes `open()` and `release()` of eight drivers.  `guard` picks
the driver's guard and never changes; `value` is its counter, bit, flag or
semaphore; `pc` says where each file is.

- `"dec"` (016, 025): the decrement that tests, and the increment that repairs
  a failed test (`DecGranted`, `DecBusy`, `DecUndo`), are atomic, each.
- `"sem"` (018, 019): `down_trylock()` is atomic, so an open is one step.
- `"flag"`, `"count"` (017, 026): each access under the spinlock is a step
  (`OpenLock`, `OpenTest`, `OpenMark`, `OpenUnlock`; `CloseLock`, ...).
- `"int"`, `"bit"` (26.1, 26.2): the test and the mark are two steps.

`Register` and `InitGuard` are the two halves of init: the device is visible
before its semaphore or lock is initialised.  `InitGuard` stores "unlocked"
whoever holds the lock.  `overlapped` records that somebody did, or that two
opens of 26.1 or 26.2 met between test and mark.

`KeepsPromise`: up to the first overlap each step is one of `ExclusiveOpen`;
for 016, 018, 019 and 025 there is none.  `Accounted` and `DeviceRecovers` say
what is left after an overlap: 26.1 still counts right, 26.2 still clears its
bit.  A spinlock that was initialised under its holder is `Broken`: nothing is
promised about it, since what happens next depends on its kind (a ticket lock is
wedged by the second unlock), and since 026 can then store 0 twice and stay
taken for ever.

### Blocking I/O

`WaitqueueIO` (029 to 032).  Every access to `counter`, `kbuf`, `sem` and the
queue is a step of its own, since no lock protects them.  The kernel's
`wait_event_interruptible()` and `select()` are the steps `Enqueue`, `Leave`,
`Sleep`, `Woken`, `Signalled`, `GiveUp`; `up()` hands its unit to a waiter, as
the kernel's semaphore does.  `kbuf` is reduced to the number of unread bytes.
A read whose copy fails, a write whose copy fails, a signal in
`down_interruptible()`, whose result the drivers ignore, and `O_NONBLOCK` (030)
are actions.  `drifted` records the events that separate semaphore and
data: data overwritten before it was read, an empty write, an interrupted down,
a failed copy to the user.  `SIGIO` (032) changes no state and is not modelled.

`DataIsRead` cannot be that every write is read: `counter = 0` in `read()` also
wipes the count of a write that came in after the copy, and that data is never
seen (`CounterRecordsKbuf`, a violation).  It speaks of `Announced` data: it is in
`kbuf`, `counter` says so, and nobody is at a step that undoes either (a reader
between its size and `counter = 0`, a writer between its copy and
`counter = size`).  Such data is copied out, or another write replaces it,
whatever units of the semaphore earlier calls left over.  Of a read that asks
for less than there is, the code gives up the rest, and so does `kbuf` here.

### Loading and unloading

`ModuleLifecycle` executes the load and unload code of one driver, given as a
table: the steps of init with what each does when it fails, the
list that each error path releases, the list that exit releases, and what the
file operations and the interrupt handler use.  Meanwhile processes open, call
and close as soon as the character device is registered, and interrupts fire as
soon as they are requested.  `stray` records a release of something not held,
`careless` a handler that ran without something it uses or after its text was
gone.

`DriverTables` has the tables of 92 drivers, read off their init/exit or
probe/remove functions line by line; drivers that share their code share the
operator.  `DriverAudit` states what holds of them and names the drivers of
which it does not:

- `LeaksOnFailure` (12): an error path forgets something;
- `LeaksOnExit` (14): exit forgets something;
- `ReportsSuccess` (12): init rolls back and returns 0, so exit rolls back again;
- `Unchecked` (36): the result of a registration is dropped;
- `DeregistersTwice` (1);
- `UsesUnseen` (9): init writes through what `ioremap()` or `kmalloc()` returned
  without a look, and crashes if it was nothing;
- `OpensEarly` (24): the device or the interrupt is there before what its
  handlers use;
- `FailsOpen` (21): init can still fail, and take things away, behind an open door;
- `RevokedUnderOpenFiles` (3: 043, 050, 054): remove() takes away what an open
  file uses.

The properties say that everybody else is free of the fault, in every
combination of failures.  `MissingTells` is about the last four: at the step at
which a handler (or init) first misses something, the phase decides which list
the driver is on.  So a driver that may be opened too early is excused for what
happens while init runs, and for nothing after it.  These four lists are exact:
TLC finds a behaviour for every driver that they name, in that phase.  37
drivers satisfy `WellFormed` (each failure is undone exactly and reported, exit
releases everything), and 15 of them also `DoorLast` (the character device comes
last), so `DisciplinePays` is not vacuous.

The audit is also stated of the tables alone, as a reviewer would do it at his
desk: `CleansUp` (each error path that reports an error releases all that may
have been acquired), `CleansAway` (so does exit), `Owns` (what is released was
acquired for certain, once), `Serves` (what the handlers use is there once init
is done, and stays while they can run; a failure that passes for a success shuts
the device, `LoadsOrShuts`), `OpensReady` (it is there before the door is),
`FailsClosed` (no error path is entered with a door open), `Looks` (no result is
used unseen).  `AuditAssumption` says that the drivers
not named above meet these; TLC evaluates it over the 92 tables, and the proofs
derive `NothingLeftBehind`, `ReleasesItsOwn` and `MissingTells` from it.

### Deferred work and timers

`DeferredWork` (048, 057, 058, 059; 049, 055, 056, 33).  `kind` picks the
driver.  The steps are those of init that matter here (`InitWork`, `RequestIrq`,
`AddTimer`, in the driver's order), the handler (`KeyPress`, `Schedule`), the
deferred function (`Start`, for timers `Rearm`, `Finish`) and exit (`FreeIrq` or
`DelTimer`, then `GiveBack` of the text).  `free_irq()` waits for the handler;
neither it nor `del_timer()` waits for, or cancels, what the kernel has
scheduled or is running.  `caught` records that exit met such a thing,
`early` that a key came before `INIT_WORK()` (057, 058), `oops` that code ran
that was gone or a work that was not initialised.

### The button driver

`ButtonDriver` (062).  `pc[f]` is where the process of file `f` is in `open()`,
`read()` or `close()`; every request, allocation, release, copy and reset is a
step, and the two loops over the keys go one key at a time (`i`).  `isr[k]` is
where `buttons_irq()` is for key `k`: read the pin, clear the latched edge, save
the level, set `ev_press`.  `Edge` is the user's finger, and may come at any
point.  `key_val` is a pointer: `live` is the set of buffers that are allocated,
and `badUse` records a use of `key_val` when it points elsewhere.  `fresh` and
`erased` are history: whether a read has copied all that was saved, and whether
a reset of `ev_press` hid the rest.

### Buffers without a lock

`BufferIO` executes `read()` and `write()` of one driver, given by its form:
whether reads shift the rest of the buffer (`queue`), empty it (`last`), clear
it (`page`) or leave it (`keep`), whether a semaphore is between them (027),
whether a failed copy is ignored, and which calls copy the whole array whatever
was asked.  `counter -= size` and `counter += size` are a load and a store each;
the test against the room, the copy and the update of `counter` are separate
steps, as nothing locks them.  `BufferTables` gives the form of each of the 22
drivers.  `ByteBox` is the promise: a sequence of bytes that `write()` extends,
replaces or overlays and `read()` takes from.

Its properties say what is left without a lock.  `StaysInside`: a copy leaves
the array, or `counter` leaves its range, only in the drivers that shift, and
only when two reads or two writes overlap; one reader next to one writer is
safe.  `UnreadIsAnnounced`: unread data makes a reader wait only if a read met a
write, or a failed read cleared the flag (033, 034, 036) or kept its unit (027).
`ImplementsBox`: calls that do not overlap keep the promise.

### LEDs, beepers, PWM

`LedRegisters` executes fifteen drivers, given by what makes their calls (open
and release, load and unload, ioctl), how they access a register (`readl()`,
change, `writel()`; a `writel()` of the whole register; `gpio_set_value()`), what
init asks, and which pins share a register.  `todo[p]` is what the call of
process `p` still has to do, `copy[p]` what its `readl()` returned; the step
from one to the other is where another process, init, or the driver of a
neighbouring pin comes in.  That driver is a process like the others, `Other`: it
has an access of its own to make, in one of the `Ways`, and with "rmw" it may
hold a copy of the register across a store of the modelled driver, and write the
old bit back.  Every register has such a neighbour (`Neighbours`); one pin stands
for all the pins that others drive.  014, 028 and 044 can be called while init still
sets up the pins.  `Stray` is the access with the index one past the array,
which `arg > LED_NUM` lets through.

`owed` is history: the level each pin owes to who last named it, or `"any"` once
somebody wrote an old copy over it, or a whole register, or the stray index hit
it.  `PinsTellLastAsked` says that nothing else ever disturbs a pin.  It is about
the lost update, and does not deny it: the history says "any" only for a pin
that was set while somebody held a copy of its register, so a model in which a
store spoiled more, or the wrong pins, violates it.  No pin is exempt from that:
each data register holds eight, and any of these drivers can lose an update to
its neighbour.

### Registers over I2C and SPI

`RegisterReads` executes six drivers.  `at[p]` is the operation and the word a
call is at: `first` (the transfer of the first byte), `put` (`=`), `second`,
`fetch` and `or` (`|=`, a load and a store), `copy` (`copy_to_user()`), and in 32
`aim`, the transfer of the address, between which and `first` a program may
write a value (`WriteRegister`).  A byte is named by its register, word and
sample; a word is the set of the bytes ORed into it, so a byte that is missing,
doubled, of another call or of another sample shows.  What a failed transfer
yields differs: an error code that is ORed in as it is (050, 060), the number of
the register (31), zero (061), whatever the stack held (32).  `spoiled` is
history: of each word, whether the chip sampled between its bytes, a transfer of
it failed, or another call came between.

`OneFreshSample` is what all six promise; `CallsKeepApart` is what the drivers
promise in addition that assemble in a local variable, and 061, whose `data` is
global, does not.

### Bit-banged I2C

In `BitBangI2C` a function of iic.c is the sequence of its accesses to the
pins (`Start`, `SendByte`, ...), and a call the sequence of its functions
(`program`: `WriteOneByte`; a read is composed by the programs that use
`IIC_Read_Byte()`).  `pc` is the function that runs, `at` its next access, `turn`
the bit that its loop is at; each access is a step.
The slave reacts to edges of the clock and to START and STOP, and acknowledges
at once, late (`AckLate`), or never.  `IIC_Wait_Ack()` polls `MaxPoll` times,
then sends STOP and returns 1, which `IIC_WriteOneByte()` ignores and goes on
sending.  `BytesArrive`: what it sends then reaches nobody.  The data pin is
push-pull; `winner` decides, for a whole behaviour, who wins when both drive it.

## 4. Runs

| run | instance | states | shows |
|---|---|---|---|
| `guarded_open` | 8 drivers, 3 files, 2 slots | 4045 | account of the units, refusals have a cause, every open returns, the device recovers, refinement of `ExclusiveOpen` |
| `waitqueue_io` | 3 readers (one non-blocking), 2 writers, 1 poller, 2 writes, faults and signals | 387 000 | no lost wakeup, units follow data |
| `waitqueue_live` | 2 readers (one non-blocking), 2 writers, 1 poller, 3 writes of 0 to 2 bytes | 330 000 | announced data is copied out or replaced, under fairness |
| `waitqueue_count` | 1 reader, 1 writer, 2 writes | | violation: `counter` does not record what is in `kbuf` |
| `module_lifecycle` | 92 drivers, 1 open file | 9503 | the audit |
| `deferred_work` | all kinds | 154 | what outlives exit is what exit caught; the timer never stops by itself; each key gets a run |
| `button_driver` | 2 files, 2 keys, 2 buffers, 1 failed open | 2.9 million | one file at a time uses no freed memory and leaves nothing behind; saved keys are announced |
| `button_value` | 1 file, 1 key | | violation: `key_val` can say "pressed" for ever of a key that is released |
| `buffer_io` | 22 drivers, 3 processes, 3 bytes, 2 values, 2 units | 222 000 | copies stay inside, unread data is announced, the promise of `ByteBox` |
| `led_registers` | 15 drivers, 2 files, init and the driver of the neighbouring pins, 2 LEDs in the array, LED1 and LED3 of 028 asked for | 1.9 million | a pin shows what was last asked of it unless a copy was held just then; dark when idle |
| `register_reads` | 6 drivers, 2 programs, 2 words, 2 samples, 1 failure | 3.4 million | each word is from one sample unless something came between its own bytes; calls keep apart |
| `bit_bang_i2c` | 3 bits a byte, 2 polls, reads of 2 bytes | 378 000 | bytes arrive, the bus is free after each call, data is stable while the clock is high, calls end |

Bounds.  Three files are enough for each of the races of the open drivers (one
between its two operations, one granted, one refused) and more than the two
slots.  In `WaitqueueIO` `KMax = 1` distinguishes empty from full, which is all
that `read()` and `write()` test, and `waitqueue_live` takes 2, for short reads;
`MaxWrites` bounds the writes, and two are enough for an overwrite, three for an
overwrite followed by a fresh write.  Readers are unbounded.  `MaxOpens = 1`: an
open file matters by being there.  In `ButtonDriver` two files are enough to
share, and two keys to leave one of two interrupts requested; `MaxFailures`
bounds the failed opens, one of which leaks a buffer or an interrupt.  In
`BufferIO` `KMax = 3` lets a read leave a byte behind and a write find room for
one only; three processes are two calls of one sort next to one of the other;
`MaxUnits` bounds the semaphore: a writer waits where the code would go on.
`DeferredWork` has no bound.  In `LedRegisters` two files, init and the
neighbour are three holders of a copy and a writer between them; the array is as
long as an index and its successor need.  Of the pins around 028 `UsedPins`
picks those that are asked for after init: LED1, LED3 and the neighbour of LED3,
hence two registers, one of them with two pins in use; init sets all four.  The
neighbour's access is an "rmw" or a "write" there: "pin" is an "rmw" with
nothing between its load and its store.  In `RegisterReads` two words let a call
be between them, two programs make the other call, one new sample falls between
any two bytes (a later one would only do it again), and one failure meets each
transfer.  In `BitBangI2C` three bits are one first, one in the middle and one
last; two polls are none, some, and too many; of two bytes read one is
acknowledged and one is not.  Symmetry is used in `waitqueue_io`,
`button_driver`, `buffer_io`, `led_registers` and `register_reads`, which check
no liveness.  The theorems below show that the safety properties do not depend
on these bounds.

`CHECK_DEADLOCK FALSE` where the system may stop: all writes done and readers
asleep; a driver that failed to load, or is gone; and where a model stops of
itself, after an oops, a bad use, or a copy outside the array.

Fairness.  `GuardedOpen`: insmod finishes, a call that has begun returns,
spinners are served (strong fairness on taking the lock: a ticket lock), and
files are closed in the end (a process that exits closes them); nobody is forced
to open.  `WaitqueueIO`: every process that
is inside a call and can run does run; readers call `read()` again, as the test
programs do; nobody is forced to write.  Signals and faults are switched off for
liveness, since each may legitimately take a unit away.  `DeferredWork`: interrupt
handlers run to their end, and the kernel runs what is scheduled and lets timers expire;
nobody is forced to press a key or to unload.  `BitBangI2C`: the
processor goes on; the slave is not forced to do anything.

## 5. Proofs

For every set of processes, every parameter and every table:

- `GuardedOpenProofs`: the guard decides which account is inductive.  016, 025:
  `value + holders + opens being backed out = 1`; a grant needs 1, hence nobody
  else.  018, 019: `value + holders = Slots`, together with "before `sema_init()`
  the count is 0 and nobody holds the device".  017, 026: until an overlap the
  lock is taken exactly when one process is inside, and the flag is set exactly
  when somebody has marked the device; the second needs the first, since only
  the lock keeps a tested flag clear.  26.1 counts its holders always, 26.2
  until an overlap.  `Refinement` maps holders and treats refusals as stutters.
- `WaitqueueIOProofs`: types; no lost wakeup; `UnitsFollowData`, by counting the
  processes that hold or post a unit; that nobody waits for the semaphore while
  a unit is free.
- `ModuleLifecycleProofs`: while loading, `held` is what the steps so far
  acquired, while unwinding and exiting its hard part is the set of what is left
  on the list; from this, for any well-formed table, `Discipline`.
  The audit needs no well-formed table.  There `held` is bounded on both sides
  (`Passing`): from above by what the steps so far may have acquired less what
  the lists have released, which gives `CleanAudit`; from below, for drivers that
  report their failures, by what cannot have failed unnoticed less the same,
  which gives `OwnAudit`.  `ServiceAudit` goes by the phase: what a handler uses
  is there before its door (`Early`), no door is open when an error path is entered
  (`Sheltered`), and a driver that rolled back and passes for loaded has none
  (`Shut`, `Closing`); what is left is the loaded module, whose open files pin it
  or whose remove() spares what they use.  The concrete tables enter only
  through `AuditAssumption`.
- `DeferredWork` is proved about in the last part of the same module, which
  extends both (the names of `DeferredWork` that both would have begin with
  `DW`), as what exit leaves to run afterwards: before it is initialised nothing is
  queued but by an early key; after exit nothing is queued or running but what
  was caught; the timer of a loaded module is armed or about to arm itself.
  Together with the roles of the kinds this is inductive.
- `ButtonDriverProofs`: while one file alone is not closed, its label says
  exactly which buffer is live and which interrupts are requested (`Sole`);
  a handler runs only for a requested interrupt, so it meets the buffer.
  `TypeCorrect` counts: the requests of a key are at least the files whose
  `close()` will still remove one, and exceed them by failed opens only.
- `BufferIOProofs`: `Bounds`, for any number of processes and any length.  With
  one reader and one writer, the reader's size is within `counter` and the value
  it loaded is at most `counter`, since only the writer changes it meanwhile,
  and upwards; the writer's size fits behind `counter` and the value it loaded
  is at least `counter`, since the reader only lowers it.  `NothingHidden`: the
  writer announces after it copied, the reader clears after it copied, hence
  unread data is announced, about to be, or in the hands of a reader that holds
  its unit.  `BoxRefinement`: as long as calls do not overlap one process at a
  time is in a call (`Sole`), and what it loaded and clamped still holds
  (`Steady`); the box is then a view of `kbuf` from that process's label (`View`),
  and each step of the code leaves the view alone or is a take, a put or a
  refusal of `ByteBox`.
- `LedRegistersProofs`: `PinsTellLastAsked` is inductive with `CopiesHonest`: a
  copy that is about to be written back, the neighbour's included, agrees with
  what its pins owe, but for those that already owe "any".  `DarkWhenIdle`
  follows the calls: a pin that is lit belongs to an open file or to a call
  whose last access puts it out.  Both need, of each driver, which registers its
  pins partition (`DriverFacts`).
- `RegisterReadsProofs`: a delivered word can be judged only by following its
  bytes, through the transfer's result, the first store, the load of `|=` and the
  second store.  `Kept(same)` says of each of these places what a word that
  nothing happened to consists of so far; with `same` that all its bytes are of
  one sample (`OneFreshSample`), without it that each is of a sample since the
  call began (`CallsKeepApart`).  That a store of another call disturbs only what
  it marks as spoiled is the lemma `Others`.
- `BitBangI2CProofs`: for any number of bits and of bytes read, and any number
  of polls that a `u8` can pass, the invariant gives for each function what its
  accesses find (`InStart`, `InSend`, `InWait`, `InRead`, `InStop`): the pins,
  the state of the slave, and how much of the call the slave has.  While nothing
  timed out, that is everything up to the current bit, and of a read byte the
  same bits on both sides.  After the STOP of a timeout the slave is idle and
  has what was accepted before, and perhaps the byte it was asked about; the one
  exception is a slave that acknowledged a read too late and wins the line
  against the STOP: it sends one byte, which the read that the caller goes on to
  takes from it (`Stray`), and the NACK or the STOP ends it.  Without `Stray`
  the invariant is not inductive, and it is why `OneDriver` and `DataStable`
  excuse a call with a timeout.

Assumptions are those of the modules (`ASSUME`), which TLC evaluates in each run:
finite sets of processes, natural bounds, well-typed tables, that device and
interrupt registrations are among the resources that must be released, and, for
the audit, that the tables pass as `AuditAssumption` says.

Model-checked only: liveness (`OpenReturns`, `DeviceRecovers`, `DataIsRead`,
`EveryPressServed`, `CallEnds`), which the prover has no means for, and
`AuditAssumption`, which is about the concrete tables.  Every invariant and every
action property of a passing run is also proved.

## 6. What is abstracted, and what is left out

- Copies to and from user space are one step; the bytes are modelled in
  `BufferIO` only, and there as long as calls do not overlap.
- In `ButtonDriver` and `BufferIO` a wait is a guard; how a sleeper and
  `wake_up()` race is the subject of `WaitqueueIO`.
- The first levels that `open()` of 062 stores are read and written in one step.
- A queued work that `INIT_WORK()` then overwrites is an oops; an uninitialised
  work may be queued or not.
- `poll()` and `fasync()` of 033 to 039 and 062 only queue the caller, and the
  `ioctl()` of 008, 009, 014, 015 and 022 copy a structure of their own or print;
  neither changes what the models follow.  That `write()` of 035, 037 and 038
  returns 0 is up to the caller.
- A plain access to a shared integer reads or writes the whole word, and
  `if (size > counter) size = counter` reads `counter` once, as compilers do.
- The spinlock is a word; interrupts on the local processor and memory barriers
  are not modelled.
- Of several waiters on a semaphore any may be served; the kernel takes the
  oldest, which is one of the model's choices.
- A loop over minors, pins or devices in init is unrolled to two.
- `LedRegisters` has data registers only: pin functions, pull-ups and the timer's
  divider are written by init and read by nobody; 28 loses its `GPD0CON` for the
  same reason.  005 deregisters its device in `probe()`, so its `ioctl()` is
  reachable only by who opened it in between; the model lets it be called.  The
  pins of 005 and 014 are in several registers and are put into one, which lets
  the neighbour's copy spoil more of them at a time.  Of the pins that other
  drivers have in a register one is modelled, and one process drives it.
- `class_destroy()` of a class that was never created (011) does nothing in the
  kernel, and is left out.
- `RegisterReads` leaves out the five configuration writes of `probe()`, the
  write of 31, which is one transfer and keeps nothing, and the reset pin.  What
  a chip returns after 32 wrote a value to it is any register.  `char` is unsigned
  on this processor, so an error code that 060 reads as a byte does not set the
  upper bits.  `|=` loads its left operand after the call on its right has
  returned, as gcc does.  What an unknown command copies out was asked for by
  nobody and is not followed.
- In `BitBangI2C` the slave and the programs that read are not in the source.
  The slave reacts to an edge before the next access, and never stretches the
  clock.  The source delays after most edges; where it does not, above all
  between `IIC_SCL=1` and `IIC_SDA=1` in `IIC_Stop()`, a quick enough slave is
  assumed.  A call starts from bytes: `IIC_WriteOneByte()` takes u16 addresses,
  which `IIC_Send_Byte()` cuts to their lower byte, so "what was sent" is what is
  left of them.
- Kernel functions (`register_chrdev`, `cdev_add`, `wake_up`, ...) are modelled
  by what the drivers rely on.
- Not modelled: the test programs (they are the processes of the models), the
  introductory modules, which have no state beyond parameters that they print,
  platform data, generated `.mod.c` and `.cmd` files.
