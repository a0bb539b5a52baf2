----------------------------- MODULE GuardedOpen -----------------------------
(***************************************************************************)
(* Eight drivers that let only so many files be open at a time, and the    *)
(* six guards they put in front of open():                                 *)
(*   "dec"    016_atomic, 025_module_atomic: decrement an atomic counter   *)
(*            and test it; if the test fails, increment it again           *)
(*   "sem"    018_mutex, 019_semaphore: mutex_trylock(), down_trylock()    *)
(*   "flag"   017_spinlock: a flag under a spinlock                        *)
(*   "count"  026_module_spinlock: a counter under a spinlock              *)
(*   "int"    26.1: read an atomic counter, then increment it              *)
(*   "bit"    26.2: read an atomic bit, then set it                        *)
(* A step is one atomic operation, or one access under the lock; other     *)
(* opens and closes run in between.  The semaphore, the mutex and the      *)
(* spinlocks are initialised after the device has been registered, so user *)
(* space can be inside open() while that happens; before it they are zero: *)
(* an unlocked spinlock, a semaphore with nothing to give.  The spinlock   *)
(* is a word, taken or free; what it does after it was initialised under   *)
(* its holder depends on its kind (a ticket lock is then wedged), and the  *)
(* properties promise nothing for that case.                               *)
(***************************************************************************)
EXTENDS Integers, FiniteSets

CONSTANTS Openers,   \* files on which open() may be called
          Slots      \* initial value: 2 in 019_semaphore, 1 in 018_mutex

ASSUME OpenersAssumption == IsFiniteSet(Openers)
ASSUME SlotsAssumption == Slots \in Nat \ {0}

VARIABLES guard,      \* the driver's guard; it stays
          stage,      \* progress of init: "loading", "visible" (the device is
                      \* registered), "ready" (semaphore or lock initialised)
          value,      \* at, sem, flag, flags, value_atomic or value_bit
          lock,       \* the spinlock word: is it taken?
          pc,         \* where each file is
          overlapped  \* history: a lock was taken when it was initialised, or
                      \* a file passed the test of 26.1 or 26.2 while another
                      \* was between its test and its mark

vars == <<guard, stage, value, lock, pc, overlapped>>

Locked  == {"flag", "count"}
Checked == {"int", "bit"}
Late    == Locked \cup {"sem"}            \* initialised after registration
Guards  == {"dec"} \cup Late \cup Checked

InsideOpen  == {"testing", "marking", "marked"}  \* open(), lock taken
InsideClose == {"clearing", "cleared"}           \* release(), lock taken

Labels == {"closed", "open"}
          \cup (IF guard = "dec" THEN {"undo"} ELSE {})
          \cup (IF guard \in Checked THEN {"admitted"} ELSE {})
          \cup (IF guard \in Locked
                  THEN {"opening", "closing"} \cup InsideOpen \cup InsideClose
                  ELSE {})

TypeOK == /\ guard \in Guards
          /\ stage \in IF guard \in Late THEN {"loading", "visible", "ready"}
                                         ELSE {"ready"}
          /\ value \in Int
          /\ guard = "dec" => value <= 1
          /\ guard = "sem" => value \in 0..Slots
          /\ guard = "int" => value >= 0
          /\ guard \in {"flag", "bit"} => value \in {0, 1}
          /\ lock \in BOOLEAN /\ (lock => guard \in Locked)
          /\ pc \in [Openers -> Labels]
          /\ overlapped \in BOOLEAN

Init == /\ guard \in Guards
        /\ stage = IF guard \in Late THEN "loading" ELSE "ready"
        /\ value = IF guard \in {"dec", "count"} THEN 1 ELSE 0
        /\ lock = FALSE
        /\ pc = [p \in Openers |-> "closed"]
        /\ overlapped = FALSE

\* The files that have the device, those that give a unit back that they did
\* not get, those between the test and the mark, those that hold the lock.
Holders  == {p \in Openers :
               pc[p] \in {"open", "marked", "closing", "clearing"}}
Undoing  == {p \in Openers : pc[p] = "undo"}
Admitted == {p \in Openers : pc[p] = "admitted"}
Inside   == {p \in Openers : pc[p] \in InsideOpen \cup InsideClose}

\* File p, at label from, moves to label to.
Step(p, from, to) == /\ pc[p] = from
                     /\ pc' = [pc EXCEPT ![p] = to]
-----------------------------------------------------------------------------
(***************************************************************************)
(* init: register_chrdev() or cdev_add(), then sema_init(&sem, 2),         *)
(* mutex_init() or spin_lock_init(), which store a value whatever was      *)
(* there before.                                                           *)
(***************************************************************************)
Register == /\ stage = "loading"
            /\ stage' = "visible"
            /\ UNCHANGED <<guard, value, lock, pc, overlapped>>

InitGuard == /\ stage = "visible"
             /\ stage' = "ready"
             /\ value' = IF guard = "sem" THEN Slots ELSE value
             /\ lock' = FALSE
             /\ overlapped' = (overlapped \/ lock)
             /\ UNCHANGED <<guard, pc>>
-----------------------------------------------------------------------------
(***************************************************************************)
(* 016, 025                                                                *)
(***************************************************************************)

\* atomic_dec_and_test() brings the counter to 0: open() returns 0.
DecGranted(p) == /\ guard = "dec"
                 /\ value - 1 = 0
                 /\ value' = value - 1
                 /\ Step(p, "closed", "open")
                 /\ UNCHANGED <<guard, stage, lock, overlapped>>

\* atomic_dec_and_test() leaves another value: the unit is to be put back.
DecBusy(p) == /\ guard = "dec"
              /\ value - 1 # 0
              /\ value' = value - 1
              /\ Step(p, "closed", "undo")
              /\ UNCHANGED <<guard, stage, lock, overlapped>>

\* Mutant: the counter is restored with atomic_set(&at, 1).
DecUndo_Set(p) == /\ value' = 1
                  /\ Step(p, "undo", "closed")
                  /\ UNCHANGED <<guard, stage, lock, overlapped>>

\* atomic_inc() and return -EBUSY.
DecUndo(p) == /\ value' = value + 1
              /\ Step(p, "undo", "closed")
              /\ UNCHANGED <<guard, stage, lock, overlapped>>
-----------------------------------------------------------------------------
(***************************************************************************)
(* 018, 019                                                                *)
(***************************************************************************)

\* down_trylock() succeeds: open() returns 0.  (When it fails, open() returns
\* -EBUSY and nothing has changed.)
SemGranted(p) == /\ guard = "sem" /\ stage # "loading"
                 /\ value > 0
                 /\ value' = value - 1
                 /\ Step(p, "closed", "open")
                 /\ UNCHANGED <<guard, stage, lock, overlapped>>
-----------------------------------------------------------------------------
(***************************************************************************)
(* 26.1, 26.2                                                              *)
(***************************************************************************)

\* The mark is clear.  (When it is set, open() returns -EBUSY and nothing has
\* changed.)
CheckTest(p) == /\ guard \in Checked
                /\ value = 0
                /\ overlapped' = (overlapped \/ Admitted # {})
                /\ Step(p, "closed", "admitted")
                /\ UNCHANGED <<guard, stage, value, lock>>

\* atomic_inc(&value_atomic), set_bit(0, &value_bit).
CheckMark(p) == /\ value' = IF guard = "int" THEN value + 1 ELSE 1
                /\ Step(p, "admitted", "open")
                /\ UNCHANGED <<guard, stage, lock, overlapped>>
-----------------------------------------------------------------------------
(***************************************************************************)
(* release() of the guards without a lock: atomic_inc(), up() or           *)
(* mutex_unlock(), atomic_dec(), clear_bit().                              *)
(***************************************************************************)

\* Mutants: 26.1 resets what it counts; a release() that gives nothing back.
Released_Resets == IF guard \in Checked THEN 0 ELSE value + 1

Give_Nothing(p) == /\ guard \notin Locked
                   /\ Step(p, "open", "closed")
                   /\ UNCHANGED <<guard, stage, value, lock, overlapped>>

Released == CASE guard = "int" -> value - 1
              [] guard = "bit" -> 0
              [] OTHER -> value + 1

Give(p) == /\ guard \notin Locked
           /\ value' = Released
           /\ Step(p, "open", "closed")
           /\ UNCHANGED <<guard, stage, lock, overlapped>>
-----------------------------------------------------------------------------
(***************************************************************************)
(* 017, 026                                                                *)
(***************************************************************************)

\* The device is taken, as open() of 017 and of 026 asks.
FlagSet == IF guard = "flag" THEN value # 0 ELSE value # 1

\* A process calls open() on a device it can see.
CallOpen(p) == /\ guard \in Locked /\ stage # "loading"
               /\ Step(p, "closed", "opening")
               /\ UNCHANGED <<guard, stage, value, lock, overlapped>>

Acquire(p, from, to) == /\ ~lock
                        /\ lock' = TRUE
                        /\ Step(p, from, to)
                        /\ UNCHANGED <<guard, stage, value, overlapped>>

Unlock(p, from, to) == /\ lock' = FALSE
                       /\ Step(p, from, to)
                       /\ UNCHANGED <<guard, stage, value, overlapped>>

\* Mutants: open() without its spin_lock(), a refusal that returns with the
\* lock held, and a release() that leaves the flag set.
OpenLock_Missing(p) == /\ Step(p, "opening", "testing")
                       /\ UNCHANGED <<guard, stage, value, lock, overlapped>>

OpenRefused_KeepsLock(p) ==
  /\ FlagSet
  /\ Step(p, "testing", "closed")
  /\ UNCHANGED <<guard, stage, value, lock, overlapped>>

CloseClear_Forgets(p) == /\ Step(p, "clearing", "cleared")
                         /\ UNCHANGED <<guard, stage, value, lock, overlapped>>

OpenLock(p) == Acquire(p, "opening", "testing")

\* The device is taken: unlock and return -EBUSY, -EAGAIN.
OpenRefused(p) == FlagSet /\ Unlock(p, "testing", "closed")

\* It is not; nothing but the lock keeps it so until it is marked.
OpenTest(p) == /\ ~FlagSet
               /\ Step(p, "testing", "marking")
               /\ UNCHANGED <<guard, stage, value, lock, overlapped>>

\* "flag = 1", "flags--"; the compiler knows that flags was 1, and may store 0.
OpenMark(p) == /\ value' \in IF guard = "flag" THEN {1} ELSE {0, value - 1}
               /\ Step(p, "marking", "marked")
               /\ UNCHANGED <<guard, stage, lock, overlapped>>

OpenUnlock(p) == Unlock(p, "marked", "open")

\* The last reference to the file goes away: release() is called.
CallClose(p) == /\ guard \in Locked
                /\ Step(p, "open", "closing")
                /\ UNCHANGED <<guard, stage, value, lock, overlapped>>

CloseLock(p) == Acquire(p, "closing", "clearing")

\* "flag = 0", "flags++".
CloseClear(p) == /\ value' = IF guard = "flag" THEN 0 ELSE value + 1
                 /\ Step(p, "clearing", "cleared")
                 /\ UNCHANGED <<guard, stage, lock, overlapped>>

CloseUnlock(p) == Unlock(p, "cleared", "closed")
-----------------------------------------------------------------------------
Call(p) == DecGranted(p) \/ DecBusy(p) \/ SemGranted(p) \/ CheckTest(p)
           \/ CallOpen(p)

Return(p) == DecUndo(p) \/ CheckMark(p) \/ OpenRefused(p) \/ OpenTest(p)
             \/ OpenMark(p) \/ OpenUnlock(p)

Close(p) == Give(p) \/ CallClose(p) \/ CloseClear(p) \/ CloseUnlock(p)

Next == \/ Register \/ InitGuard
        \/ \E p \in Openers : \/ Call(p) \/ Return(p) \/ Close(p)
                              \/ OpenLock(p) \/ CloseLock(p)

Spec == Init /\ [][Next]_vars

\* Insmod runs to its end and a call to its return, spinlocks are served in
\* turn (strong fairness), and a process that exits closes its files; nobody
\* is forced to call open().
Fairness == /\ WF_vars(InitGuard)
            /\ \A p \in Openers :
                 /\ WF_vars(Return(p)) /\ WF_vars(Close(p))
                 /\ SF_vars(OpenLock(p)) /\ SF_vars(CloseLock(p))

FairSpec == Spec /\ Fairness
-----------------------------------------------------------------------------
Capacity == IF guard = "sem" THEN Slots ELSE 1

\* How many units the guard says are in use.
Taken == CASE guard \in {"dec", "count"} -> 1 - value
           [] guard = "sem" -> Slots - value
           [] OTHER -> value

\* What may be asked of the guard's value: nobody is inside the lock, no calls
\* have overlapped (the counter of 26.1 bears that), sema_init() has been run.
Settled == /\ ~lock
           /\ overlapped => guard = "int"
           /\ guard = "sem" => stage = "ready"

(***************************************************************************)
(* The guard tells the truth: the units in use are those of the open files *)
(* and of the opens being backed out, so that nothing loses a unit (busy   *)
(* for ever) or mints one (open twice).  Two things hold even of guards    *)
(* that have lost their exclusion or are not yet initialised: the bit of   *)
(* 26.2 does not outlive its files, and sema_init() overwrites no unit     *)
(* that is in use.                                                         *)
(***************************************************************************)
Accounted ==
  /\ Settled => Taken = Cardinality(Holders) + Cardinality(Undoing)
  /\ guard = "bit" /\ Holders = {} => Taken = 0
  /\ guard = "sem" /\ stage # "ready" => Holders = {}

(***************************************************************************)
(* -EBUSY is never given out of nowhere: when an open is refused the       *)
(* device is open, or another refused open has not yet put its unit back   *)
(* (016: an open can be refused on a free device).                         *)
(***************************************************************************)
RefusalHasCause ==
  [][\A p \in Openers :
       DecBusy(p) \/ (OpenRefused(p) /\ ~overlapped)
         => Holders # {} \/ Undoing # {}]_vars

\* The lock was initialised under its holder.
Broken == guard \in Locked /\ overlapped

(***************************************************************************)
(* Every open() returns, granted or refused: no path through open() or     *)
(* release() leaves the lock taken, so nobody spins for ever.              *)
(***************************************************************************)
OpenReturns ==
  \A p \in Openers : pc[p] \in {"opening", "undo", "admitted"}
                       ~> pc[p] \in {"open", "closed"} \/ Broken

Idle == Holders = {} /\ (stage = "loading" \/ Taken = 0)

(***************************************************************************)
(* Unless opens keep arriving for ever, the device is free again and again *)
(* and its guard says so: no refused open and no overlap of 26.1 or 26.2   *)
(* leaves it busy with nobody inside.                                      *)
(***************************************************************************)
DeviceRecovers == \/ []<>(Idle \/ Broken)
                  \/ []<><<\E p \in Openers : Call(p)>>_vars

Promise == INSTANCE ExclusiveOpen WITH holders <- Holders, capacity <- Capacity

(***************************************************************************)
(* Up to the first overlap (there is none for 016, 018, 019 and 025) each  *)
(* step is a step of the exclusive device or invisible to its users.       *)
(***************************************************************************)
KeepsPromise ==
  Promise!Init
  /\ [][~overlapped' => Promise!Next \/ UNCHANGED <<Capacity, Holders>>]_vars
=============================================================================
