-------------------------- MODULE GuardedOpenProofs ---------------------------
(***************************************************************************)
(* Proofs about GuardedOpen for every finite set of openers and every      *)
(* number of slots.  No guard's exclusion is inductive by itself: a grant  *)
(* of 016 is safe because the counter accounts for every open file and     *)
(* every open being backed out, one of 019 because nothing was granted     *)
(* before sema_init(), one of 017 because the flag follows the holders and *)
(* the lock keeps everybody else away, one of 26.1 as long as no other     *)
(* file stands between its test and its mark.  The inductive invariant     *)
(* has one part for each of these; the steps of a driver touch only its    *)
(* own part, because the guard of a driver never changes.                  *)
(***************************************************************************)
EXTENDS GuardedOpen, FiniteSetTheorems, TLAPS

\* TypeOK without the bounds on value that only the account can give.
Shape == /\ guard \in Guards
         /\ stage \in IF guard \in Late THEN {"loading", "visible", "ready"}
                                        ELSE {"ready"}
         /\ value \in Int
         /\ guard \in {"flag", "bit"} => value \in {0, 1}
         /\ lock \in BOOLEAN /\ (lock => guard \in Locked)
         /\ pc \in [Openers -> Labels]
         /\ overlapped \in BOOLEAN

\* The unit is in the counter, with an open file, or on its way back.
DecInv == /\ value + Cardinality(Holders) + Cardinality(Undoing) = 1
          /\ ~overlapped

\* Nothing to give before sema_init(); no slot lost or minted after it.
SemInv == /\ stage # "ready" => value = 0 /\ Holders = {}
          /\ stage = "ready" => value + Cardinality(Holders) = Slots
          /\ value >= 0
          /\ ~overlapped

\* The lock word says whether somebody is inside, and only one can be; the flag
\* is set exactly while the device is held, by one file; a file about to set it
\* found it clear.
LockInv == ~overlapped =>
             /\ lock <=> Inside # {}
             /\ \A p, q \in Inside : p = q
             /\ FlagSet <=> Holders # {}
             /\ \A p, q \in Holders : p = q
             /\ \A p \in Openers : pc[p] = "marking" => ~FlagSet
             /\ value \in {0, 1}

\* The counter of 26.1 counts the holders, the bit of 26.2 does not outlive
\* them; without an overlap at most one file is past the test.
CheckInv == /\ guard = "int" => value = Cardinality(Holders)
            /\ guard = "bit" /\ Holders = {} => value = 0
            /\ guard = "bit" /\ ~overlapped /\ Holders # {} => value = 1
            /\ ~overlapped => \A p, q \in Holders \cup Admitted : p = q

IInv == /\ Shape
        /\ guard = "dec" => DecInv
        /\ guard = "sem" => SemInv
        /\ guard \in Locked => LockInv
        /\ guard \in Checked => CheckInv

\* Sets of files can be counted.
LEMMA Countable ==
  ASSUME NEW S, S \subseteq Openers
  PROVE  /\ IsFiniteSet(S) /\ Cardinality(S) \in Nat
         /\ Cardinality(S) = 0 <=> S = {}
BY OpenersAssumption, FS_Subset, FS_CardinalityType, FS_EmptySet

\* In particular the holders and the opens being backed out.
LEMMA Counts ==
  /\ IsFiniteSet(Holders) /\ Cardinality(Holders) \in Nat
  /\ Cardinality(Holders) = 0 <=> Holders = {}
  /\ IsFiniteSet(Undoing) /\ Cardinality(Undoing) \in Nat
  /\ Cardinality(Undoing) = 0 <=> Undoing = {}
BY Countable DEF Holders, Undoing

\* At most one element: the set is empty or a singleton.
LEMMA AtMostOne ==
  ASSUME NEW S, \A p, q \in S : p = q
  PROVE  Cardinality(S) = IF S = {} THEN 0 ELSE 1
<1>1. CASE S = {}
  BY <1>1, FS_EmptySet
<1>2. CASE S # {}
  <2>1. PICK p : p \in S
    BY <1>2
  <2>2. S = {p}
    BY <2>1
  <2> QED BY <1>2, <2>2, FS_Singleton
<1> QED BY <1>1, <1>2

\* The initial state satisfies the inductive invariant.
LEMMA InitIInv == Init => IInv
<1> SUFFICES ASSUME Init PROVE IInv OBVIOUS
<1>1. Shape
  <2>1. "closed" \in Labels
    BY DEF Labels
  <2>2. guard \in Guards /\ pc \in [Openers -> Labels]
    BY <2>1 DEF Init
  <2>3. guard \in {"flag", "bit"} => value \in {0, 1}
    BY DEF Init
  <2>4. stage \in IF guard \in Late THEN {"loading", "visible", "ready"}
                                    ELSE {"ready"}
    BY DEF Init
  <2>5. value \in Int /\ lock = FALSE /\ overlapped = FALSE
    BY DEF Init
  <2> QED BY <2>2, <2>3, <2>4, <2>5 DEF Shape
<1>2. Holders = {} /\ Undoing = {} /\ Inside = {} /\ Admitted = {}
  BY DEF Init, Holders, Undoing, Inside, InsideOpen, InsideClose, Admitted
<1>3. Cardinality({}) = 0
  BY FS_EmptySet
<1>4. guard = "dec" => DecInv
  BY <1>2, <1>3 DEF Init, DecInv
<1>5. guard = "sem" => SemInv
  BY <1>2 DEF Init, SemInv, Late
<1>6. guard \in Locked => LockInv
  BY <1>2 DEF Init, LockInv, Locked, FlagSet
<1>7. guard \in Checked => CheckInv
  BY <1>2, <1>3 DEF Init, CheckInv, Checked
<1> QED BY <1>1, <1>4, <1>5, <1>6, <1>7 DEF IInv

\* Every step keeps the shape, and the guard.
LEMMA ShapeStep == Shape /\ [Next]_vars => Shape' /\ guard' = guard
<1> SUFFICES ASSUME Shape, [Next]_vars PROVE Shape' /\ guard' = guard
  OBVIOUS
<1> USE SlotsAssumption
        DEF Shape, Guards, Locked, Checked, Late, Labels, InsideOpen,
            InsideClose, Step
<1>1. CASE Register \/ InitGuard
  <2>1. guard' = guard /\ pc' = pc /\ Labels' = Labels
    BY <1>1 DEF Register, InitGuard
  <2>2. CASE Register
    BY <2>1, <2>2 DEF Register
  <2>3. CASE InitGuard
    <3>1. value' \in Int /\ (guard \in {"flag", "bit"} => value' = value)
      BY <2>3 DEF InitGuard
    <3> QED BY <2>1, <2>3, <3>1 DEF InitGuard
  <2> QED BY <1>1, <2>2, <2>3
<1>2. ASSUME NEW p \in Openers, DecGranted(p) \/ DecBusy(p) \/ DecUndo(p)
      PROVE  Shape' /\ guard' = guard
  BY <1>2 DEF DecGranted, DecBusy, DecUndo
<1>3. ASSUME NEW p \in Openers, SemGranted(p)
      PROVE  Shape' /\ guard' = guard
  BY <1>3 DEF SemGranted
<1>4. ASSUME NEW p \in Openers, CheckTest(p) \/ CheckMark(p)
      PROVE  Shape' /\ guard' = guard
  <2>1. CASE CheckTest(p)
    BY <2>1 DEF CheckTest
  <2>2. CASE CheckMark(p)
    <3>1. guard \in Checked
      BY <2>2 DEF CheckMark
    <3>2. value' \in Int /\ (guard = "bit" => value' = 1)
      BY <2>2 DEF CheckMark
    <3> QED BY <2>2, <3>1, <3>2 DEF CheckMark
  <2> QED BY <1>4, <2>1, <2>2
<1>5. ASSUME NEW p \in Openers, Give(p)
      PROVE  Shape' /\ guard' = guard
  BY <1>5 DEF Give, Released
<1>6. ASSUME NEW p \in Openers, CallOpen(p) \/ OpenLock(p) \/ OpenRefused(p)
      PROVE  Shape' /\ guard' = guard
  BY <1>6 DEF CallOpen, OpenLock, OpenRefused, Acquire, Unlock
<1>7. ASSUME NEW p \in Openers, OpenTest(p) \/ OpenMark(p) \/ OpenUnlock(p)
      PROVE  Shape' /\ guard' = guard
  <2>1. guard \in Locked
    BY <1>7 DEF OpenTest, OpenMark, OpenUnlock, Unlock
  <2>2. CASE OpenTest(p) \/ OpenUnlock(p)
    BY <2>1, <2>2 DEF OpenTest, OpenUnlock, Unlock
  <2>3. CASE OpenMark(p)
    <3>1. value' \in Int /\ (guard = "flag" => value' = 1)
      BY <2>3 DEF OpenMark
    <3> QED BY <2>1, <2>3, <3>1 DEF OpenMark
  <2> QED BY <1>7, <2>2, <2>3
<1>8. ASSUME NEW p \in Openers, CallClose(p) \/ CloseLock(p)
      PROVE  Shape' /\ guard' = guard
  BY <1>8 DEF CallClose, CloseLock, Acquire
<1>9. ASSUME NEW p \in Openers, CloseClear(p) \/ CloseUnlock(p)
      PROVE  Shape' /\ guard' = guard
  <2>1. guard \in Locked
    BY <1>9 DEF CloseClear, CloseUnlock, Unlock
  <2>2. CASE CloseUnlock(p)
    BY <2>1, <2>2 DEF CloseUnlock, Unlock
  <2>3. CASE CloseClear(p)
    <3>1. value' \in Int /\ (guard = "flag" => value' = 0)
      BY <2>3 DEF CloseClear
    <3> QED BY <2>1, <2>3, <3>1 DEF CloseClear
  <2> QED BY <1>9, <2>2, <2>3
<1>10. CASE UNCHANGED vars
  BY <1>10 DEF vars
<1> QED BY <1>1, <1>2, <1>3, <1>4, <1>5, <1>6, <1>7, <1>8, <1>9, <1>10
        DEF Next, Call, Return, Close

\* A driver takes only the steps of its own guard.
LEMMA OwnSteps ==
  ASSUME Shape, Next
  PROVE  /\ guard = "dec" => \E p \in Openers :
                DecGranted(p) \/ DecBusy(p) \/ DecUndo(p) \/ Give(p)
         /\ guard = "sem" => \/ Register \/ InitGuard
                             \/ \E p \in Openers : SemGranted(p) \/ Give(p)
         /\ guard \in Locked =>
              \/ Register \/ InitGuard
              \/ \E p \in Openers :
                   \/ CallOpen(p) \/ OpenLock(p) \/ OpenRefused(p)
                   \/ OpenTest(p) \/ OpenMark(p) \/ OpenUnlock(p)
                   \/ CallClose(p) \/ CloseLock(p) \/ CloseClear(p)
                   \/ CloseUnlock(p)
         /\ guard \in Checked => \E p \in Openers :
                CheckTest(p) \/ CheckMark(p) \/ Give(p)
<1> USE DEF Shape, Late, Locked, Checked
<1>1. (Register \/ InitGuard) => guard \in Late
  BY DEF Register, InitGuard
<1>2. ASSUME NEW p \in Openers PROVE
        /\ DecGranted(p) \/ DecBusy(p) \/ DecUndo(p) => guard = "dec"
        /\ SemGranted(p) => guard = "sem"
        /\ CheckTest(p) \/ CheckMark(p) => guard \in Checked
        /\ Give(p) => guard \notin Locked
        /\ CallOpen(p) \/ CallClose(p) => guard \in Locked
  BY DEF DecGranted, DecBusy, DecUndo, SemGranted, CheckTest, CheckMark, Give,
         CallOpen, CallClose, Step, Labels, InsideOpen, InsideClose
<1>3. ASSUME NEW p \in Openers,
             \/ OpenLock(p) \/ OpenRefused(p) \/ OpenTest(p) \/ OpenMark(p)
             \/ OpenUnlock(p)
      PROVE  guard \in Locked
  BY <1>3 DEF OpenLock, OpenRefused, OpenTest, OpenMark, OpenUnlock, Acquire,
              Unlock, Step, Labels
<1>4. ASSUME NEW p \in Openers,
             CloseLock(p) \/ CloseClear(p) \/ CloseUnlock(p)
      PROVE  guard \in Locked
  BY <1>4 DEF CloseLock, CloseClear, CloseUnlock, Acquire, Unlock, Step, Labels
<1>5. guard = "dec" => guard \notin Late /\ guard \notin Checked
  OBVIOUS
<1>6. guard = "sem" => guard \notin Locked /\ guard \notin Checked
  OBVIOUS
<1>7. guard \in Checked => guard \notin Late
  OBVIOUS
<1>8. guard \in Locked => guard \notin Checked /\ guard \notin {"dec", "sem"}
  OBVIOUS
<1> QED BY <1>1, <1>2, <1>3, <1>4, <1>5, <1>6, <1>7, <1>8
        DEF Next, Call, Return, Close

-----------------------------------------------------------------------------
\* How the holders and the opens being backed out change with each step of 016
\* and 025.
LEMMA DecCounts ==
  ASSUME Shape, guard = "dec", NEW p \in Openers
  PROVE  /\ DecGranted(p) => /\ p \notin Holders /\ Holders' = Holders \cup {p}
                             /\ Undoing' = Undoing
         /\ DecBusy(p) => /\ p \notin Undoing /\ Undoing' = Undoing \cup {p}
                          /\ Holders' = Holders
         /\ DecUndo(p) => /\ p \in Undoing /\ Undoing' = Undoing \ {p}
                          /\ Holders' = Holders
         /\ Give(p) => /\ p \in Holders /\ Holders' = Holders \ {p}
                       /\ Undoing' = Undoing
<1> USE DEF Shape, Step, Holders, Undoing, Labels, Locked, Checked
<1>1. DecGranted(p) => /\ p \notin Holders /\ Holders' = Holders \cup {p}
                       /\ Undoing' = Undoing
  BY DEF DecGranted
<1>2. DecBusy(p) => /\ p \notin Undoing /\ Undoing' = Undoing \cup {p}
                    /\ Holders' = Holders
  BY DEF DecBusy
<1>3. DecUndo(p) => /\ p \in Undoing /\ Undoing' = Undoing \ {p}
                    /\ Holders' = Holders
  BY DEF DecUndo
<1>4. Give(p) => /\ p \in Holders /\ Holders' = Holders \ {p}
                 /\ Undoing' = Undoing
  BY DEF Give
<1> QED BY <1>1, <1>2, <1>3, <1>4

\* 016 and 025 neither lose nor mint the unit.
LEMMA DecStep ==
  ASSUME Shape, guard = "dec", DecInv, Next
  PROVE  DecInv'
<1>1. PICK p \in Openers : DecGranted(p) \/ DecBusy(p) \/ DecUndo(p) \/ Give(p)
  BY OwnSteps
<1>2. value \in Int /\ ~overlapped
      /\ value + Cardinality(Holders) + Cardinality(Undoing) = 1
  BY DEF Shape, DecInv
<1>3. CASE DecGranted(p)
  <2>1. /\ Cardinality(Holders') = Cardinality(Holders) + 1
        /\ Undoing' = Undoing
    BY <1>3, DecCounts, Counts, FS_AddElement
  <2> QED BY <1>2, <1>3, <2>1, Counts DEF DecGranted, DecInv
<1>4. CASE DecBusy(p)
  <2>1. /\ Cardinality(Undoing') = Cardinality(Undoing) + 1
        /\ Holders' = Holders
    BY <1>4, DecCounts, Counts, FS_AddElement
  <2> QED BY <1>2, <1>4, <2>1, Counts DEF DecBusy, DecInv
<1>5. CASE DecUndo(p)
  <2>1. /\ Cardinality(Undoing') = Cardinality(Undoing) - 1
        /\ Holders' = Holders
    BY <1>5, DecCounts, Counts, FS_RemoveElement
  <2> QED BY <1>2, <1>5, <2>1, Counts DEF DecUndo, DecInv
<1>6. CASE Give(p)
  <2>1. /\ Cardinality(Holders') = Cardinality(Holders) - 1
        /\ Undoing' = Undoing
    BY <1>6, DecCounts, Counts, FS_RemoveElement
  <2>2. value' = value + 1 /\ overlapped' = overlapped
    BY <1>6 DEF Give, Released
  <2> QED BY <1>2, <2>1, <2>2, Counts DEF DecInv
<1> QED BY <1>1, <1>3, <1>4, <1>5, <1>6

\* How the holders change with each step of 018 and 019.
LEMMA SemCounts ==
  ASSUME Shape, guard = "sem", NEW p \in Openers
  PROVE  /\ SemGranted(p) => p \notin Holders /\ Holders' = Holders \cup {p}
         /\ Give(p) => p \in Holders /\ Holders' = Holders \ {p}
<1> USE DEF Shape, Step, Holders, Labels, Locked, Checked
<1>1. SemGranted(p) => p \notin Holders /\ Holders' = Holders \cup {p}
  BY DEF SemGranted
<1>2. Give(p) => p \in Holders /\ Holders' = Holders \ {p}
  BY DEF Give
<1> QED BY <1>1, <1>2

\* 018 and 019 neither lose nor mint a slot, and sema_init() finds none in use.
LEMMA SemStep ==
  ASSUME Shape, guard = "sem", SemInv, Next
  PROVE  SemInv'
<1>1. Register \/ InitGuard \/ \E p \in Openers : SemGranted(p) \/ Give(p)
  BY OwnSteps
<1>2. value \in Int /\ Slots \in Nat
  BY SlotsAssumption DEF Shape
<1>3. CASE Register
  <2>1. Holders' = Holders
    BY <1>3 DEF Register, Holders
  <2> QED BY <1>3, <2>1 DEF Register, SemInv
<1>4. CASE InitGuard
  <2>1. Holders' = {} /\ value' = Slots /\ stage' = "ready"
    BY <1>4 DEF InitGuard, SemInv, Holders
  <2>2. ~overlapped'
    BY <1>4 DEF InitGuard, SemInv, Shape, Locked
  <2> QED BY <1>2, <2>1, <2>2, FS_EmptySet DEF SemInv
<1>5. ASSUME NEW p \in Openers, SemGranted(p) PROVE SemInv'
  <2>1. Cardinality(Holders') = Cardinality(Holders) + 1
    BY <1>5, SemCounts, Counts, FS_AddElement
  <2>2. stage = "ready" /\ value + Cardinality(Holders) = Slots
    BY <1>5 DEF SemGranted, SemInv
  <2> QED BY <1>2, <1>5, <2>1, <2>2, Counts DEF SemGranted, SemInv
<1>6. ASSUME NEW p \in Openers, Give(p) PROVE SemInv'
  <2>1. /\ Cardinality(Holders') = Cardinality(Holders) - 1
        /\ Holders # {}
    BY <1>6, SemCounts, Counts, FS_RemoveElement
  <2>2. /\ stage = "ready" /\ stage' = stage /\ overlapped' = overlapped
        /\ value + Cardinality(Holders) = Slots /\ value' = value + 1
    BY <1>6, <2>1 DEF Give, Released, SemInv, Shape, Late
  <2> QED BY <1>2, <2>1, <2>2, Counts DEF SemInv
<1> QED BY <1>1, <1>3, <1>4, <1>5, <1>6

\* How the files inside the lock and the holders change with each step of 017
\* and 026, while lock, flag and holders agree.
LEMMA LockSets ==
  ASSUME Shape, guard \in Locked, LockInv, ~overlapped, NEW p \in Openers
  PROVE  /\ CallOpen(p) => Inside' = Inside /\ Holders' = Holders
         /\ OpenLock(p) => Inside' = {p} /\ Holders' = Holders
         /\ OpenRefused(p) => Inside' = {} /\ Holders' = Holders
         /\ OpenTest(p) => Inside' = Inside /\ Holders' = Holders
         /\ OpenMark(p) => Inside' = Inside /\ Holders' = {p}
         /\ OpenUnlock(p) => Inside' = {} /\ Holders' = Holders
         /\ CallClose(p) => Inside' = Inside /\ Holders' = Holders
         /\ CloseLock(p) => Inside' = {p} /\ Holders' = Holders
         /\ CloseClear(p) => Inside' = Inside /\ Holders' = {}
         /\ CloseUnlock(p) => Inside' = {} /\ Holders' = Holders
<1> USE DEF Shape, LockInv, Locked, Step, Labels, Inside, InsideOpen,
            InsideClose, Holders
<1>1. ASSUME CallOpen(p) PROVE Inside' = Inside /\ Holders' = Holders
  <2>1. Inside' = Inside
    BY <1>1 DEF CallOpen
  <2>2. Holders' = Holders
    BY <1>1 DEF CallOpen
  <2> QED BY <2>1, <2>2
<1>2. ASSUME OpenLock(p) PROVE Inside' = {p} /\ Holders' = Holders
  <2>1. Inside' = {p}
    BY <1>2 DEF OpenLock, Acquire
  <2>2. Holders' = Holders
    BY <1>2 DEF OpenLock, Acquire
  <2> QED BY <2>1, <2>2
<1>3. ASSUME OpenRefused(p) PROVE Inside' = {} /\ Holders' = Holders
  <2>1. Inside' = {}
    BY <1>3 DEF OpenRefused, Unlock
  <2>2. Holders' = Holders
    BY <1>3 DEF OpenRefused, Unlock
  <2> QED BY <2>1, <2>2
<1>4. ASSUME OpenTest(p) PROVE Inside' = Inside /\ Holders' = Holders
  <2>1. Inside' = Inside
    BY <1>4 DEF OpenTest
  <2>2. Holders' = Holders
    BY <1>4 DEF OpenTest
  <2> QED BY <2>1, <2>2
<1>5. ASSUME OpenMark(p) PROVE Inside' = Inside /\ Holders' = {p}
  <2>1. Inside' = Inside
    BY <1>5 DEF OpenMark
  <2>2. Holders' = {p}
    BY <1>5 DEF OpenMark
  <2> QED BY <2>1, <2>2
<1>6. ASSUME OpenUnlock(p) PROVE Inside' = {} /\ Holders' = Holders
  <2>1. Inside' = {}
    BY <1>6 DEF OpenUnlock, Unlock
  <2>2. Holders' = Holders
    BY <1>6 DEF OpenUnlock, Unlock
  <2> QED BY <2>1, <2>2
<1>7. ASSUME CallClose(p) PROVE Inside' = Inside /\ Holders' = Holders
  <2>1. Inside' = Inside
    BY <1>7 DEF CallClose
  <2>2. Holders' = Holders
    BY <1>7 DEF CallClose
  <2> QED BY <2>1, <2>2
<1>8. ASSUME CloseLock(p) PROVE Inside' = {p} /\ Holders' = Holders
  <2>1. Inside' = {p}
    BY <1>8 DEF CloseLock, Acquire
  <2>2. Holders' = Holders
    BY <1>8 DEF CloseLock, Acquire
  <2> QED BY <2>1, <2>2
<1>9. ASSUME CloseClear(p) PROVE Inside' = Inside /\ Holders' = {}
  <2>1. Inside' = Inside
    BY <1>9 DEF CloseClear
  <2>2. Holders' = {}
    BY <1>9 DEF CloseClear
  <2> QED BY <2>1, <2>2
<1>10. ASSUME CloseUnlock(p) PROVE Inside' = {} /\ Holders' = Holders
  <2>1. Inside' = {}
    BY <1>10 DEF CloseUnlock, Unlock
  <2>2. Holders' = Holders
    BY <1>10 DEF CloseUnlock, Unlock
  <2> QED BY <2>1, <2>2
<1> QED BY <1>1, <1>2, <1>3, <1>4, <1>5, <1>6, <1>7, <1>8, <1>9, <1>10

\* Lock, flag and holders of 017 and 026 keep agreeing, until an open meets
\* spin_lock_init().
LEMMA LockStep ==
  ASSUME Shape, guard \in Locked, LockInv, Next
  PROVE  LockInv'
<1> SUFFICES ASSUME ~overlapped' PROVE LockInv'
  BY DEF LockInv
<1> USE DEF Shape, Step, FlagSet
<1>1. CASE Register
  BY <1>1 DEF Register, LockInv, Inside, Holders
<1>2. CASE InitGuard
  <2>1. ~overlapped /\ ~lock /\ ~lock'
    BY <1>2 DEF InitGuard
  <2>2. value' = value /\ guard' = guard /\ pc' = pc
    BY <1>2 DEF InitGuard, Locked
  <2> QED BY <2>1, <2>2 DEF LockInv, Inside, Holders
<1>3. ASSUME NEW p \in Openers, CallOpen(p) PROVE LockInv'
  <2>1. ~overlapped
    BY <1>3 DEF CallOpen
  <2>2. Inside' = Inside /\ Holders' = Holders
    BY <1>3, <2>1, LockSets
  <2> QED BY <1>3, <2>1, <2>2 DEF CallOpen, LockInv,
      Inside, InsideOpen, InsideClose
<1>4. ASSUME NEW p \in Openers, OpenLock(p) PROVE LockInv'
  <2>1. ~overlapped
    BY <1>4 DEF OpenLock, Acquire
  <2>2. Inside' = {p} /\ Holders' = Holders
    BY <1>4, <2>1, LockSets
  <2> QED BY <1>4, <2>1, <2>2 DEF OpenLock, Acquire, LockInv,
      Inside, InsideOpen, InsideClose
<1>5. ASSUME NEW p \in Openers, OpenRefused(p) PROVE LockInv'
  <2>1. ~overlapped
    BY <1>5 DEF OpenRefused, Unlock
  <2>2. Inside' = {} /\ Holders' = Holders
    BY <1>5, <2>1, LockSets
  <2> QED BY <1>5, <2>1, <2>2 DEF OpenRefused, Unlock, LockInv,
      Inside, InsideOpen, InsideClose
<1>6. ASSUME NEW p \in Openers, OpenTest(p) PROVE LockInv'
  <2>1. ~overlapped
    BY <1>6 DEF OpenTest
  <2>2. Inside' = Inside /\ Holders' = Holders
    BY <1>6, <2>1, LockSets
  <2> QED BY <1>6, <2>1, <2>2 DEF OpenTest, LockInv,
      Inside, InsideOpen, InsideClose
<1>7. ASSUME NEW p \in Openers, OpenMark(p) PROVE LockInv'
  <2>1. ~overlapped
    BY <1>7 DEF OpenMark
  <2>2. Inside' = Inside /\ Holders' = {p}
    BY <1>7, <2>1, LockSets
  <2>3. p \in Inside /\ lock' = lock /\ guard' = guard
    BY <1>7 DEF OpenMark, Inside, InsideOpen, InsideClose
  <2>4. value' \in {0, 1} /\ FlagSet'
    BY <1>7, <2>1 DEF OpenMark, LockInv, Holders, Locked
  <2>5. \A q \in Openers : pc'[q] # "marking"
    BY <1>7, <2>1, <2>3
       DEF OpenMark, LockInv, Inside, InsideOpen, InsideClose
  <2> QED BY <2>1, <2>2, <2>3, <2>4, <2>5 DEF LockInv
<1>8. ASSUME NEW p \in Openers, OpenUnlock(p) PROVE LockInv'
  <2>1. ~overlapped
    BY <1>8 DEF OpenUnlock, Unlock
  <2>2. Inside' = {} /\ Holders' = Holders
    BY <1>8, <2>1, LockSets
  <2> QED BY <1>8, <2>1, <2>2 DEF OpenUnlock, Unlock, LockInv,
      Inside, InsideOpen, InsideClose
<1>9. ASSUME NEW p \in Openers, CallClose(p) PROVE LockInv'
  <2>1. ~overlapped
    BY <1>9 DEF CallClose
  <2>2. Inside' = Inside /\ Holders' = Holders
    BY <1>9, <2>1, LockSets
  <2> QED BY <1>9, <2>1, <2>2 DEF CallClose, LockInv,
      Inside, InsideOpen, InsideClose
<1>10. ASSUME NEW p \in Openers, CloseLock(p) PROVE LockInv'
  <2>1. ~overlapped
    BY <1>10 DEF CloseLock, Acquire
  <2>2. Inside' = {p} /\ Holders' = Holders
    BY <1>10, <2>1, LockSets
  <2> QED BY <1>10, <2>1, <2>2 DEF CloseLock, Acquire, LockInv,
      Inside, InsideOpen, InsideClose
<1>11. ASSUME NEW p \in Openers, CloseClear(p) PROVE LockInv'
  <2>1. ~overlapped
    BY <1>11 DEF CloseClear
  <2>2. Inside' = Inside /\ Holders' = {}
    BY <1>11, <2>1, LockSets
  <2>3. p \in Inside /\ lock' = lock /\ guard' = guard
    BY <1>11 DEF CloseClear, Inside, InsideOpen, InsideClose
  <2>4. value' \in {0, 1} /\ ~FlagSet'
    BY <1>11, <2>1 DEF CloseClear, LockInv, Holders, Locked
  <2>5. \A q \in Openers : pc'[q] # "marking"
    BY <1>11, <2>1, <2>3
       DEF CloseClear, LockInv, Inside, InsideOpen, InsideClose
  <2> QED BY <2>1, <2>2, <2>3, <2>4, <2>5 DEF LockInv
<1>12. ASSUME NEW p \in Openers, CloseUnlock(p) PROVE LockInv'
  <2>1. ~overlapped
    BY <1>12 DEF CloseUnlock, Unlock
  <2>2. Inside' = {} /\ Holders' = Holders
    BY <1>12, <2>1, LockSets
  <2> QED BY <1>12, <2>1, <2>2 DEF CloseUnlock, Unlock, LockInv,
      Inside, InsideOpen, InsideClose
<1> QED BY OwnSteps, <1>1, <1>2, <1>3, <1>4, <1>5, <1>6, <1>7, <1>8, <1>9,
           <1>10, <1>11, <1>12

\* How the files past the test and the holders change with each step of 26.1
\* and 26.2.
LEMMA CheckSets ==
  ASSUME Shape, guard \in Checked, NEW p \in Openers
  PROVE  /\ CheckTest(p) => Holders' = Holders /\ Admitted' = Admitted \cup {p}
         /\ CheckMark(p) => /\ p \in Admitted /\ Admitted' = Admitted \ {p}
                            /\ p \notin Holders
                            /\ Holders' = Holders \cup {p}
         /\ Give(p) => /\ p \in Holders /\ Holders' = Holders \ {p}
                       /\ Admitted' = Admitted
<1> USE DEF Shape, Step, Holders, Admitted, Labels, Locked, Checked
<1>1. CheckTest(p) => Holders' = Holders /\ Admitted' = Admitted \cup {p}
  BY DEF CheckTest
<1>2. CheckMark(p) => /\ p \in Admitted /\ Admitted' = Admitted \ {p}
                      /\ p \notin Holders /\ Holders' = Holders \cup {p}
  BY DEF CheckMark
<1>3. Give(p) => /\ p \in Holders /\ Holders' = Holders \ {p}
                 /\ Admitted' = Admitted
  BY DEF Give
<1> QED BY <1>1, <1>2, <1>3

\* A file that passes the test without an overlap is alone.
LEMMA TestAlone ==
  ASSUME Shape, guard \in Checked, CheckInv,
         NEW p \in Openers, CheckTest(p), ~overlapped'
  PROVE  ~overlapped /\ Holders = {} /\ Admitted = {} /\ value = 0
<1>1. ~overlapped /\ Admitted = {} /\ value = 0
  BY DEF CheckTest
<1>2. Holders = {}
  BY <1>1, Counts DEF CheckInv, Checked
<1> QED BY <1>1, <1>2

\* 26.1 and 26.2 keep their mark, and until an overlap their exclusion.
LEMMA CheckStep ==
  ASSUME Shape, guard \in Checked, CheckInv, Next
  PROVE  CheckInv'
<1>1. PICK p \in Openers : CheckTest(p) \/ CheckMark(p) \/ Give(p)
  BY OwnSteps
<1>2. CASE CheckTest(p)
  <2>1. /\ Holders' = Holders /\ Admitted' = Admitted \cup {p}
        /\ value' = value /\ guard' = guard
    BY <1>2, CheckSets DEF CheckTest
  <2>2. CASE ~overlapped'
    <3>1. ~overlapped /\ Holders' = {} /\ Admitted' = {p}
      BY <1>2, <2>1, <2>2, TestAlone
    <3> QED BY <2>1, <3>1 DEF CheckInv
  <2>3. CASE overlapped'
    BY <2>1, <2>3 DEF CheckInv
  <2> QED BY <2>2, <2>3 DEF CheckTest, Shape
<1>3. CASE CheckMark(p)
  <2>1. /\ p \in Admitted /\ Admitted' = Admitted \ {p}
        /\ p \notin Holders /\ Holders' = Holders \cup {p}
        /\ guard' = guard /\ overlapped' = overlapped
    BY <1>3, CheckSets DEF CheckMark
  <2>2. Holders' \cup Admitted' = Holders \cup Admitted
    BY <2>1
  <2>3. Cardinality(Holders') = Cardinality(Holders) + 1
    BY <2>1, Counts, FS_AddElement
  <2>4. /\ guard = "int" => value' = value + 1
        /\ guard = "bit" => value' = 1
    BY <1>3 DEF CheckMark
  <2> QED BY <2>1, <2>2, <2>3, <2>4 DEF CheckInv
<1>4. CASE Give(p)
  <2>1. /\ p \in Holders /\ Holders' = Holders \ {p}
        /\ Admitted' = Admitted
        /\ guard' = guard /\ overlapped' = overlapped
    BY <1>4, CheckSets DEF Give
  <2>2. Cardinality(Holders') = Cardinality(Holders) - 1
    BY <2>1, Counts, FS_RemoveElement
  <2>3. /\ guard = "int" => value' = value - 1
        /\ guard = "bit" => value' = 0
    BY <1>4 DEF Give, Released
  <2>4. ~overlapped => Holders' = {}
    BY <2>1 DEF CheckInv
  <2> QED BY <2>1, <2>2, <2>3, <2>4 DEF CheckInv
<1> QED BY <1>1, <1>2, <1>3, <1>4
-----------------------------------------------------------------------------
\* Every step keeps the inductive invariant.
LEMMA NextIInv == IInv /\ [Next]_vars => IInv'
<1> SUFFICES ASSUME IInv, [Next]_vars PROVE IInv' OBVIOUS
<1>1. Shape' /\ guard' = guard
  BY ShapeStep DEF IInv
<1>2. CASE Next
  BY <1>1, <1>2, DecStep, SemStep, LockStep, CheckStep
     DEF IInv, Locked, Checked
<1>3. CASE UNCHANGED vars
  <2>1. /\ Holders' = Holders /\ Undoing' = Undoing /\ Inside' = Inside
        /\ Admitted' = Admitted
    BY <1>3 DEF vars, Holders, Undoing, Inside, Admitted
  <2>2. /\ DecInv => DecInv'
        /\ SemInv => SemInv'
        /\ LockInv => LockInv'
        /\ CheckInv => CheckInv'
    BY <1>3, <2>1 DEF vars, DecInv, SemInv, LockInv, CheckInv, FlagSet
  <2> QED BY <1>1, <2>2 DEF IInv, Locked, Checked
<1> QED BY <1>2, <1>3

(***************************************************************************)
(* In every behaviour of every driver the value, the lock and the flag     *)
(* agree with the files that hold the device.                              *)
(***************************************************************************)
THEOREM Invariance == Spec => []IInv
BY InitIInv, NextIInv, PTL DEF Spec

(***************************************************************************)
(* The types; a counter that counts what it should cannot leave its range. *)
(***************************************************************************)
THEOREM TypeCorrect == Spec => []TypeOK
<1>1. ASSUME IInv PROVE TypeOK
  <2>1. Shape
    BY <1>1 DEF IInv
  <2>2. guard = "dec" => value <= 1
    BY <1>1, Counts DEF IInv, DecInv, Shape
  <2>3. ASSUME guard = "sem" PROVE value \in 0..Slots
    <3>1. value \in Int /\ Slots \in Nat /\ SemInv
      BY <1>1, <2>3, SlotsAssumption DEF IInv, Shape
    <3>2. CASE stage = "ready"
      BY <3>1, <3>2, Counts DEF SemInv
    <3>3. CASE stage # "ready"
      BY <3>1, <3>3 DEF SemInv
    <3> QED BY <3>2, <3>3
  <2>4. guard = "int" => value >= 0
    BY <1>1, Counts DEF IInv, CheckInv, Checked
  <2> QED BY <2>1, <2>2, <2>3, <2>4 DEF Shape, TypeOK
<1> QED BY <1>1, Invariance, PTL

\* Only the drivers that decrement before they test have opens to back out.
LEMMA NothingToUndo == Shape /\ guard # "dec" => Undoing = {}
BY DEF Shape, Undoing, Labels, InsideOpen, InsideClose

(***************************************************************************)
(* The guard tells the truth: no unit is lost and none is minted.          *)
(***************************************************************************)
THEOREM Account == Spec => []Accounted
<1>1. ASSUME IInv PROVE Accounted
  <2>1. Shape /\ (guard # "dec" => Cardinality(Undoing) = 0)
    BY <1>1, NothingToUndo, Counts DEF IInv
  <2>2. ASSUME Settled
        PROVE  Taken = Cardinality(Holders) + Cardinality(Undoing)
    <3>1. CASE guard = "dec"
      BY <1>1, <2>1, <3>1, Counts DEF Taken, IInv, DecInv, Shape
    <3>2. CASE guard = "sem"
      BY <1>1, <2>1, <2>2, <3>2, Counts, SlotsAssumption
         DEF Taken, Settled, IInv, SemInv, Shape
    <3>3. CASE guard \in Locked
      <4>1. /\ FlagSet <=> Holders # {}
            /\ \A p, q \in Holders : p = q
            /\ value \in {0, 1}
        BY <1>1, <2>2, <3>3 DEF IInv, LockInv, Settled, Locked
      <4>2. Cardinality(Holders) = IF FlagSet THEN 1 ELSE 0
        BY <4>1, AtMostOne
      <4> QED BY <2>1, <3>3, <4>1, <4>2 DEF Taken, FlagSet, Locked
    <3>4. CASE guard = "int"
      BY <1>1, <2>1, <3>4, Counts DEF Taken, IInv, CheckInv, Checked
    <3>5. CASE guard = "bit"
      <4>1. ~overlapped /\ \A p, q \in Holders : p = q
        BY <1>1, <2>2, <3>5 DEF IInv, CheckInv, Checked, Settled
      <4>2. value = IF Holders = {} THEN 0 ELSE 1
        BY <1>1, <3>5, <4>1 DEF IInv, CheckInv, Checked
      <4>3. Cardinality(Holders) = value
        BY <4>1, <4>2, AtMostOne
      <4> QED BY <2>1, <3>5, <4>2, <4>3 DEF Taken
    <3> QED BY <2>1, <3>1, <3>2, <3>3, <3>4, <3>5
            DEF Shape, Guards, Late, Locked, Checked
  <2>3. guard = "bit" /\ Holders = {} => Taken = 0
    BY <1>1 DEF IInv, CheckInv, Checked, Taken
  <2>4. guard = "sem" /\ stage # "ready" => Holders = {}
    BY <1>1 DEF IInv, SemInv
  <2> QED BY <2>2, <2>3, <2>4 DEF Accounted
<1> QED BY <1>1, Invariance, PTL

(***************************************************************************)
(* An open is refused only while the device is open or another refused     *)
(* open has not yet put its unit back.                                     *)
(***************************************************************************)
THEOREM Refusal == Spec => RefusalHasCause
<1>1. ASSUME IInv, NEW p \in Openers, DecBusy(p)
      PROVE  Holders # {} \/ Undoing # {}
  BY <1>1, Counts DEF DecBusy, IInv, DecInv, Shape
<1>2. ASSUME IInv, NEW p \in Openers, OpenRefused(p), ~overlapped
      PROVE  Holders # {}
  <2>1. guard \in Locked
    BY <1>2 DEF OpenRefused, Unlock, Step, IInv, Shape, Labels
  <2> QED BY <1>2, <2>1 DEF OpenRefused, IInv, LockInv
<1>3. IInv /\ [Next]_vars
        => [\A p \in Openers :
              DecBusy(p) \/ (OpenRefused(p) /\ ~overlapped)
                => Holders # {} \/ Undoing # {}]_vars
  BY <1>1, <1>2
<1> QED BY <1>3, Invariance, PTL DEF Spec, RefusalHasCause

\* What a grant of the exclusive device asks for: room for one more.
LEMMA Granted ==
  ASSUME NEW p \in Openers, p \notin Holders, Holders' = Holders \cup {p},
         guard' = guard, Cardinality(Holders) < Capacity
  PROVE  Promise!Next
<1>1. Promise!Cardinality(Holders) = Cardinality(Holders)
  BY DEF Promise!Cardinality, Cardinality
<1>2. Promise!Grant(p)
  BY <1>1 DEF Promise!Grant, Capacity
<1> QED BY <1>2 DEF Promise!Next

\* And a release: that the file had the device.
LEMMA Freed ==
  ASSUME NEW p \in Openers, p \in Holders, Holders' = Holders \ {p},
         guard' = guard
  PROVE  Promise!Next
<1>1. Promise!Free(p)
  BY DEF Promise!Free, Capacity
<1> QED BY <1>1 DEF Promise!Next

(***************************************************************************)
(* 016, 018, 019 and 025 implement the exclusive device of ExclusiveOpen,  *)
(* the others do up to the first overlap.                                  *)
(***************************************************************************)
THEOREM Refinement == Spec => KeepsPromise
<1>1. Init => Promise!Init
  BY SlotsAssumption DEF Init, Promise!Init, Holders, Capacity
<1>2. ASSUME IInv, Next, ~overlapped'
      PROVE  Promise!Next \/ UNCHANGED <<Capacity, Holders>>
  <2>0. Shape /\ guard' = guard /\ UNCHANGED Capacity
    BY <1>2, ShapeStep DEF IInv, Capacity
  <2>1. CASE guard = "dec"
    <3>1. PICK p \in Openers :
            DecGranted(p) \/ DecBusy(p) \/ DecUndo(p) \/ Give(p)
      BY <1>2, <2>0, <2>1, OwnSteps
    <3>2. CASE DecGranted(p)
      <4>1. Cardinality(Holders) = 0
        BY <1>2, <2>1, <3>2, Counts DEF DecGranted, IInv, DecInv, Shape
      <4> QED BY <2>0, <2>1, <3>2, <4>1, DecCounts, Granted DEF Capacity
    <3>3. CASE DecBusy(p) \/ DecUndo(p)
      BY <2>0, <2>1, <3>3, DecCounts
    <3>4. CASE Give(p)
      BY <2>0, <2>1, <3>4, DecCounts, Freed
    <3> QED BY <3>1, <3>2, <3>3, <3>4
  <2>2. CASE guard = "sem"
    <3>1. CASE Register \/ InitGuard
      BY <2>0, <3>1 DEF Register, InitGuard, Holders
    <3>2. ASSUME NEW p \in Openers, SemGranted(p) PROVE Promise!Next
      <4>1. Cardinality(Holders) < Slots
        BY <1>2, <2>2, <3>2, Counts, SlotsAssumption
           DEF SemGranted, IInv, SemInv, Shape
      <4> QED BY <2>0, <2>2, <3>2, <4>1, SemCounts, Granted DEF Capacity
    <3>3. ASSUME NEW p \in Openers, Give(p) PROVE Promise!Next
      BY <2>0, <2>2, <3>3, SemCounts, Freed
    <3> QED BY <1>2, <2>0, <2>2, <3>1, <3>2, <3>3, OwnSteps
  <2>3. CASE guard \in Locked
    <3>0. LockInv
      BY <1>2, <2>3 DEF IInv
    <3>1. CASE Register \/ InitGuard
      BY <2>0, <3>1 DEF Register, InitGuard, Holders
    <3>2. ASSUME NEW p \in Openers, OpenMark(p) PROVE Promise!Next
      <4>1. ~overlapped /\ Holders = {} /\ Capacity = 1
        BY <1>2, <2>3, <3>0, <3>2 DEF OpenMark, Step, LockInv, Capacity, Locked
      <4>2. Holders' = {p}
        BY <2>0, <2>3, <3>0, <3>2, <4>1, LockSets
      <4> QED BY <2>0, <4>1, <4>2, Granted, FS_EmptySet
    <3>3. ASSUME NEW p \in Openers, CloseClear(p) PROVE Promise!Next
      <4>1. ~overlapped /\ p \in Holders
        BY <1>2, <3>3 DEF CloseClear, Step, Holders
      <4>2. Holders' = {} /\ Holders = {p}
        BY <2>0, <2>3, <3>0, <3>3, <4>1, LockSets DEF LockInv
      <4> QED BY <2>0, <4>1, <4>2, Freed
    <3>4. ASSUME NEW p \in Openers,
                 \/ CallOpen(p) \/ OpenLock(p) \/ OpenRefused(p)
                 \/ OpenTest(p) \/ OpenUnlock(p) \/ CallClose(p)
                 \/ CloseLock(p) \/ CloseUnlock(p)
          PROVE  UNCHANGED Holders
      <4>1. ~overlapped
        BY <1>2, <3>4 DEF CallOpen, OpenLock, OpenRefused, OpenTest,
             OpenUnlock, CallClose, CloseLock, CloseUnlock, Acquire, Unlock
      <4> QED BY <2>0, <2>3, <3>0, <3>4, <4>1, LockSets
    <3> QED BY <1>2, <2>0, <2>3, <3>1, <3>2, <3>3, <3>4, OwnSteps
  <2>4. CASE guard \in Checked
    <3>0. CheckInv /\ Capacity = 1
      BY <1>2, <2>4 DEF IInv, Capacity, Checked
    <3>1. PICK p \in Openers : CheckTest(p) \/ CheckMark(p) \/ Give(p)
      BY <1>2, <2>0, <2>4, OwnSteps
    <3>2. CASE CheckTest(p)
      BY <2>0, <2>4, <3>2, CheckSets
    <3>3. CASE CheckMark(p)
      <4>1. ~overlapped /\ p \in Admitted /\ p \notin Holders
        BY <1>2, <2>0, <2>4, <3>3, CheckSets DEF CheckMark
      <4>2. Cardinality(Holders) = 0
        BY <3>0, <4>1, Counts DEF CheckInv
      <4> QED BY <2>0, <2>4, <3>0, <3>3, <4>2, CheckSets, Granted
    <3>4. CASE Give(p)
      BY <2>0, <2>4, <3>4, CheckSets, Freed
    <3> QED BY <3>1, <3>2, <3>3, <3>4
  <2> QED BY <2>0, <2>1, <2>2, <2>3, <2>4
          DEF Shape, Guards, Late, Locked, Checked
<1>3. IInv /\ [Next]_vars
        => [~overlapped'
              => Promise!Next \/ UNCHANGED <<Capacity, Holders>>]_vars
  BY <1>2
<1> QED BY <1>1, <1>3, Invariance, PTL DEF Spec, KeepsPromise
=============================================================================
