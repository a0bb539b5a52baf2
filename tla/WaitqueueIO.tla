----------------------------- MODULE WaitqueueIO -----------------------------
(***************************************************************************)
(* The drivers 029_module_waitqueue_io to 032_module_fasync_io: a buffer   *)
(* (kbuf, counter), a wait queue for readers and for poll(), and a         *)
(* semaphore that starts at 0 and that every write() ups once.  A reader   *)
(* first waits until counter # 0, then downs the semaphore, copies and     *)
(* resets counter.  No lock protects counter: every line is a step.        *)
(* 030 adds O_NONBLOCK to 029, 031 adds poll().                            *)
(***************************************************************************)
EXTENDS Integers, FiniteSets

CONSTANTS Readers, Writers, Pollers,  \* processes by what they do
          Nonblock,    \* the readers whose file has O_NONBLOCK
          KMax,        \* KMAX: capacity of kbuf in bytes
          ReadSizes,   \* the sizes that programs pass to read()
          WriteSizes,  \* ... and to write()
          Signals,     \* may a signal interrupt a sleeping reader?
          Faults,      \* may copy_to_user()/copy_from_user() fail?
          MaxWrites    \* bound: how many writes are begun altogether

ASSUME ProcessAssumption ==
  /\ IsFiniteSet(Readers) /\ IsFiniteSet(Writers)
  /\ Readers \cap Writers = {} /\ Readers \cap Pollers = {}
  /\ Writers \cap Pollers = {} /\ Nonblock \subseteq Readers
ASSUME ParameterAssumption ==
  /\ KMax \in Nat \ {0} /\ MaxWrites \in Nat
  /\ ReadSizes \subseteq Nat /\ WriteSizes \subseteq Nat
  /\ Signals \in BOOLEAN /\ Faults \in BOOLEAN

VARIABLES
  counter,  \* the driver's counter
  kbuf,     \* how many bytes of kbuf a writer put there and no reader has taken
  sem,      \* count of the semaphore
  wq,       \* processes on the wait queue that no wake_up() has reached
  pc,       \* where each process is
  len,      \* the local variable size of each reader and writer (0 when dead)
  writes,   \* number of writes begun (bounded by MaxWrites)
  drifted   \* history: an event that separates the semaphore from the data

vars == <<counter, kbuf, sem, wq, pc, len, writes, drifted>>

Processes == Readers \cup Writers \cup Pollers

Waiting == {"enqueue", "recheck", "asleep"}      \* in wait_event or select()
Reading == {"down", "semwait", "clamp", "copy_out", "reset"}
Writing == {"copy_in", "count", "up", "wake"}

TypeOK == /\ counter \in 0..KMax /\ kbuf \in 0..KMax
          /\ sem \in Nat
          /\ wq \subseteq Readers \cup Pollers
          /\ pc \in [Processes -> {"idle"} \cup Waiting \cup Reading \cup Writing]
          /\ \A p \in Pollers : pc[p] \in {"idle"} \cup Waiting
          /\ \A r \in Readers : pc[r] \in {"idle"} \cup Waiting \cup Reading
          /\ \A w \in Writers : pc[w] \in {"idle"} \cup Writing
          /\ len \in [Readers \cup Writers -> 0..KMax]
          /\ writes \in 0..MaxWrites
          /\ drifted \in BOOLEAN

\* kbuf is empty, the semaphore is 0 (sema_init(&sem, 0)).
Init == /\ counter = 0 /\ kbuf = 0 /\ sem = 0 /\ wq = {}
        /\ pc = [p \in Processes |-> "idle"]
        /\ len = [p \in Readers \cup Writers |-> 0]
        /\ writes = 0
        /\ drifted = FALSE

\* Process p, at label from, moves to label to.
Step(p, from, to) == /\ pc[p] = from
                     /\ pc' = [pc EXCEPT ![p] = to]

SemWaiters == {r \in Readers : pc[r] = "semwait"}
Consuming  == {r \in Readers : pc[r] \in {"clamp", "copy_out", "reset"}}
Posting    == {w \in Writers : pc[w] = "up"}
Waking     == {w \in Writers : pc[w] \in {"up", "wake"}}
-----------------------------------------------------------------------------
(***************************************************************************)
(* read()                                                                  *)
(***************************************************************************)

\* "if (counter == 0)": data seen, on to the semaphore.
ReadSees(r) == /\ counter # 0
               /\ Step(r, "idle", "down")
               /\ UNCHANGED <<counter, kbuf, sem, wq, len, writes, drifted>>

\* No data: wait.  (With O_NONBLOCK: -EAGAIN, and nothing has changed.)
ReadWaits(r) == /\ counter = 0
                /\ r \notin Nonblock
                /\ Step(r, "idle", "enqueue")
                /\ UNCHANGED <<counter, kbuf, sem, wq, len, writes, drifted>>

\* Mutant: a down() that takes nothing.
Down_KeepsUnit(r) == /\ sem > 0
                     /\ Step(r, "down", "clamp")
                     /\ UNCHANGED <<counter, kbuf, sem, wq, len, writes, drifted>>

\* down_interruptible() takes a unit, or queues up for one.
Down(r) == /\ sem > 0
           /\ sem' = sem - 1
           /\ Step(r, "down", "clamp")
           /\ UNCHANGED <<counter, kbuf, wq, len, writes, drifted>>

DownSleeps(r) == /\ sem = 0
                 /\ Step(r, "down", "semwait")
                 /\ UNCHANGED <<counter, kbuf, sem, wq, len, writes, drifted>>

\* A signal ends down_interruptible(); its result is ignored and the read goes
\* on without a unit.
DownInterrupted(r) == /\ Signals
                      /\ Step(r, "semwait", "clamp")
                      /\ drifted' = TRUE
                      /\ UNCHANGED <<counter, kbuf, sem, wq, len, writes>>

\* "if (size > counter) size = counter".
Clamp(r) == /\ Step(r, "clamp", "copy_out")
            /\ \E size \in ReadSizes :
                 len' = [len EXCEPT ![r] = IF size > counter THEN counter ELSE size]
            /\ UNCHANGED <<counter, kbuf, sem, wq, writes, drifted>>

\* What a short read leaves in kbuf is given up.
CopyOut(r) == /\ Step(r, "copy_out", "reset")
              /\ kbuf' = IF len[r] = 0 THEN kbuf ELSE 0
              /\ len' = [len EXCEPT ![r] = 0]
              /\ UNCHANGED <<counter, sem, wq, writes, drifted>>

\* copy_to_user() fails: -1, with the unit gone and the data still there.
CopyOutFault(r) == /\ Faults /\ len[r] > 0
                   /\ Step(r, "copy_out", "idle")
                   /\ drifted' = TRUE
                   /\ len' = [len EXCEPT ![r] = 0]
                   /\ UNCHANGED <<counter, kbuf, sem, wq, writes>>

\* "counter = 0", return size.
Reset(r) == /\ Step(r, "reset", "idle")
            /\ counter' = 0
            /\ UNCHANGED <<kbuf, sem, wq, len, writes, drifted>>
-----------------------------------------------------------------------------
(***************************************************************************)
(* wait_event_interruptible(wq, counter != 0), and the same dance of       *)
(* select() around demo_poll(): queue up, test again, sleep.               *)
(***************************************************************************)

\* select() calls demo_poll(), whose poll_wait() comes before the test.
PollStarts(p) == /\ Step(p, "idle", "enqueue")
                 /\ UNCHANGED <<counter, kbuf, sem, wq, len, writes, drifted>>

Enqueue(p) == /\ Step(p, "enqueue", "recheck")
              /\ wq' = wq \cup {p}
              /\ UNCHANGED <<counter, kbuf, sem, len, writes, drifted>>

\* The condition holds: leave the queue.  A reader goes on to the semaphore, a
\* poller returns POLLIN.
Leave(p) == /\ counter # 0
            /\ Step(p, "recheck", IF p \in Readers THEN "down" ELSE "idle")
            /\ wq' = wq \ {p}
            /\ UNCHANGED <<counter, kbuf, sem, len, writes, drifted>>

\* Mutant: sleep without a second look at counter.
Sleep_NoRecheck(p) == /\ Step(p, "recheck", "asleep")
                      /\ UNCHANGED <<counter, kbuf, sem, wq, len, writes, drifted>>

Sleep(p) == /\ counter = 0
            /\ Step(p, "recheck", "asleep")
            /\ UNCHANGED <<counter, kbuf, sem, wq, len, writes, drifted>>

\* Woken (wake_up() took the process off the queue): test again.
Woken(p) == /\ p \notin wq
            /\ Step(p, "asleep", "enqueue")
            /\ UNCHANGED <<counter, kbuf, sem, wq, len, writes, drifted>>

\* A signal ends the sleep as well; the condition is tested once more before
\* the call gives up with -ERESTARTSYS.
Signalled(p) == /\ Signals
                /\ Step(p, "asleep", "enqueue")
                /\ UNCHANGED <<counter, kbuf, sem, wq, len, writes, drifted>>

GiveUp(p) == /\ Signals /\ counter = 0
             /\ Step(p, "recheck", "idle")
             /\ wq' = wq \ {p}
             /\ UNCHANGED <<counter, kbuf, sem, len, writes, drifted>>
-----------------------------------------------------------------------------
(***************************************************************************)
(* write()                                                                 *)
(***************************************************************************)

\* Mutant: no test against KMAX.
WriteStarts_Unchecked(w) ==
  /\ writes < MaxWrites
  /\ writes' = writes + 1
  /\ Step(w, "idle", "copy_in")
  /\ \E size \in WriteSizes : len' = [len EXCEPT ![w] = size]
  /\ UNCHANGED <<counter, kbuf, sem, wq, drifted>>

\* A write of size bytes.  (More than KMAX: -ENOMEM, and nothing
\* has changed.)
WriteStarts(w) == /\ writes < MaxWrites
                  /\ writes' = writes + 1
                  /\ Step(w, "idle", "copy_in")
                  /\ \E size \in WriteSizes :
                       /\ size <= KMax
                       /\ len' = [len EXCEPT ![w] = size]
                  /\ UNCHANGED <<counter, kbuf, sem, wq, drifted>>

CopyIn(w) == /\ Step(w, "copy_in", "count")
             /\ kbuf' = len[w]
             /\ UNCHANGED <<counter, sem, wq, len, writes, drifted>>

\* copy_from_user() fails: -1, what was in kbuf may be damaged.
CopyInFault(w) == /\ Faults /\ len[w] > 0
                  /\ Step(w, "copy_in", "idle")
                  /\ kbuf' \in {kbuf, 0}
                  /\ len' = [len EXCEPT ![w] = 0]
                  /\ UNCHANGED <<counter, sem, wq, writes, drifted>>

\* "counter = size".  Data that nobody has read yet is lost, and its unit of
\* the semaphore stays behind; an empty write brings a unit without data.
Count(w) == /\ Step(w, "count", "up")
            /\ counter' = len[w]
            /\ drifted' = (drifted \/ counter # 0 \/ len[w] = 0)
            /\ len' = [len EXCEPT ![w] = 0]
            /\ UNCHANGED <<kbuf, sem, wq, writes>>

\* Mutant: write() without its up().
Up_Skipped(w) == /\ Step(w, "up", "wake")
                 /\ UNCHANGED <<counter, kbuf, sem, wq, len, writes, drifted>>

\* up(&sem): the unit goes to a waiting reader if there is one (the kernel
\* takes the oldest; nothing below depends on which).
Up(w) == /\ pc[w] = "up"
         /\ IF SemWaiters = {}
              THEN /\ sem' = sem + 1
                   /\ pc' = [pc EXCEPT ![w] = "wake"]
              ELSE /\ \E r \in SemWaiters :
                        pc' = [pc EXCEPT ![w] = "wake", ![r] = "clamp"]
                   /\ UNCHANGED sem
         /\ UNCHANGED <<counter, kbuf, wq, len, writes, drifted>>

\* wake_up(&wq), then return size.
WakeUp(w) == /\ Step(w, "wake", "idle")
             /\ wq' = {}
             /\ UNCHANGED <<counter, kbuf, sem, len, writes, drifted>>
-----------------------------------------------------------------------------
Wait(p) == Enqueue(p) \/ Leave(p) \/ Sleep(p) \/ Woken(p)

Interrupt(p) == Signalled(p) \/ GiveUp(p)

Read(r) == \/ ReadSees(r) \/ ReadWaits(r) \/ Down(r) \/ DownSleeps(r)
           \/ Clamp(r) \/ CopyOut(r) \/ Reset(r)

Write(w) == CopyIn(w) \/ Count(w) \/ Up(w) \/ WakeUp(w)

Next == \/ \E r \in Readers : \/ Read(r) \/ Wait(r) \/ Interrupt(r)
                             \/ DownInterrupted(r) \/ CopyOutFault(r)
        \/ \E p \in Pollers : PollStarts(p) \/ Wait(p) \/ Interrupt(p)
        \/ \E w \in Writers : WriteStarts(w) \/ Write(w) \/ CopyInFault(w)

Spec == Init /\ [][Next]_vars

\* The scheduler runs every runnable process; the readers of the test programs
\* call read() again and again.  Nothing forces a write.
Fairness == /\ \A r \in Readers : WF_vars(Read(r)) /\ WF_vars(Wait(r))
            /\ \A p \in Pollers : WF_vars(Wait(p))
            /\ \A w \in Writers : WF_vars(Write(w))

FairSpec == Spec /\ Fairness
-----------------------------------------------------------------------------
(***************************************************************************)
(* No lost wakeup: a process sleeps on the queue while there is data only  *)
(* as long as a writer is still on its way to wake_up() (lines 88-93).     *)
(***************************************************************************)
NoLostWakeup ==
  \A p \in wq : pc[p] = "asleep" /\ counter # 0 => Waking # {}

(***************************************************************************)
(* Units and data go together: unless a write hit unread data or was       *)
(* empty, a signal broke into down_interruptible(), or a copy to the user  *)
(* failed, there is exactly one unit - free, being posted, or in the hands *)
(* of one reader - when counter # 0, and none when counter = 0.            *)
(***************************************************************************)
UnitsFollowData ==
  ~drifted => sem + Cardinality(Consuming) + Cardinality(Posting)
                = IF counter # 0 THEN 1 ELSE 0

(***************************************************************************)
(* Under the same condition a reader that got its unit finds data: a       *)
(* blocking read does not return 0 bytes.                                  *)
(***************************************************************************)
ReaderFindsData == ~drifted => \A r \in Consuming : pc[r] = "clamp" => counter # 0

(***************************************************************************)
(* And no reader is stuck on the semaphore next to data that nobody is     *)
(* delivering.                                                             *)
(***************************************************************************)
NoReaderStuck ==
  ~drifted /\ SemWaiters # {} /\ counter # 0 => Consuming \cup Posting # {}

(***************************************************************************)
(* Without signals, faults and reads of 0 bytes, data that is announced is *)
(* copied out by a reader (the readers keep calling read()) or replaced by *)
(* a later write: no spare unit, overwritten data or wakeup of another     *)
(* process leaves it lying.  That is promised from a state in which no     *)
(* reader is between its size and "counter = 0": the reset of such a       *)
(* reader wipes what a write brings meanwhile (see CounterRecordsKbuf),    *)
(* and no writer is between its copy and "counter = size".                 *)
(***************************************************************************)
Replacing == \E w \in Writers : pc[w] = "count"

Announced == /\ counter # 0 /\ kbuf # 0
             /\ \A r \in Readers : pc[r] \notin {"copy_out", "reset"}
             /\ ~Replacing

DataIsRead == Announced ~> (kbuf = 0 \/ Replacing)

(***************************************************************************)
(* "records how many bytes there actually are in kbuf" (line 24): with     *)
(* no call in progress, counter is the number of unread bytes.             *)
(***************************************************************************)
CounterRecordsKbuf ==
  (\A p \in Processes : pc[p] = "idle") => counter = kbuf
=============================================================================
