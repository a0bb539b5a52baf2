------------------------ MODULE ModuleLifecycleProofs -------------------------
(***************************************************************************)
(* Proofs about ModuleLifecycle for every set of drivers and every table.  *)
(* First, the discipline WellFormed is enough: the invariant follows held  *)
(* through the phases: while loading it is what the steps so far acquired, *)
(* while unwinding and exiting it is what is left on the list todo.        *)
(* Then the audit: what a reader can tell from a table (AuditAssumption)   *)
(* bounds held from above and from below, through every failure that goes  *)
(* unnoticed or passes for a success.  Last, what exit leaves to run later *)
(* (DeferredWork).                                                         *)
(***************************************************************************)
EXTENDS DriverAudit, DeferredWork, TLAPS

\* What is held, and what is left to do, in each phase.
Bookkeeping ==
  /\ stray = {} /\ phase # "crashed"
  /\ phase \in {"loading", "loaded"} => held = Possible(T, step - 1)
  /\ phase = "loaded" => step = Len(T.init) + 1
  /\ phase \in {"unwinding", "exiting"} =>
        IsInjective(todo) /\ held \ Soft = Range(todo)
  /\ phase = "unwinding" => result = "error"
  /\ phase \in {"failed", "gone"} => held \subseteq Soft

\* The device is open only when init has got past its registration.
DoorGuarded ==
  /\ ~careless
  /\ phase \in {"unwinding", "failed"} => held \cap FileDoors = {}
  /\ opens > 0 => /\ phase \in {"loading", "loaded"}
                  /\ \E i \in 1..step - 1 : T.init[i].acq \in FileDoors

IInv == /\ TypeOK
        /\ WellFormed(T) => Bookkeeping
        /\ WellFormed(T) /\ DoorLast(T) => DoorGuarded

\* Taking the head off a list without duplicates.
LEMMA TailOfInjective ==
  ASSUME NEW S, NEW s \in Seq(S), s # <<>>, IsInjective(s)
  PROVE  /\ Head(s) \in Range(s)
         /\ IsInjective(Tail(s))
         /\ Range(Tail(s)) = Range(s) \ {Head(s)}
<1>1. Len(s) \in Nat /\ Len(s) > 0 /\ DOMAIN s = 1..Len(s)
  OBVIOUS
<1>2. Len(Tail(s)) = Len(s) - 1 /\ DOMAIN Tail(s) = 1..Len(s) - 1
  BY <1>1
<1>3. \A i \in 1..Len(s) - 1 : Tail(s)[i] = s[i + 1]
  BY <1>1
<1>4. Head(s) = s[1]
  OBVIOUS
<1>5. Head(s) \in Range(s)
  BY <1>1, <1>4 DEF Range
<1>6. IsInjective(Tail(s))
  BY <1>1, <1>2, <1>3 DEF IsInjective
<1>7. Range(Tail(s)) \subseteq Range(s) \ {Head(s)}
  <2> SUFFICES ASSUME NEW i \in 1..Len(s) - 1
               PROVE  Tail(s)[i] \in Range(s) /\ Tail(s)[i] # Head(s)
    BY <1>2 DEF Range
  <2>1. i + 1 \in 1..Len(s) /\ 1 \in 1..Len(s) /\ i + 1 # 1
    BY <1>1
  <2> QED BY <2>1, <1>1, <1>3, <1>4 DEF Range, IsInjective
<1>8. Range(s) \ {Head(s)} \subseteq Range(Tail(s))
  <2> SUFFICES ASSUME NEW i \in 1..Len(s), s[i] # Head(s)
               PROVE  s[i] \in Range(Tail(s))
    BY <1>1 DEF Range
  <2>1. i - 1 \in 1..Len(s) - 1 /\ Tail(s)[i - 1] = s[i]
    BY <1>1, <1>3, <1>4
  <2> QED BY <2>1, <1>2 DEF Range
<1> QED BY <1>5, <1>6, <1>7, <1>8

\* The parts of a table have the types that TableAssumption states.
LEMMA TableTypes ==
  ASSUME drv \in Drivers
  PROVE  /\ T.init \in Seq(Steps) /\ T.exit \in Seq(Resources)
         /\ Len(T.init) \in Nat
         /\ \A i \in 1..Len(T.init) :
               /\ T.init[i].acq \in Resources
               /\ T.init[i].undo \in Seq(Resources)
               /\ T.init[i].result \in {"error", "zero"}
<1>1. T.init \in Seq(Steps) /\ T.exit \in Seq(Resources)
  BY TableAssumption DEF T
<1>2. Len(T.init) \in Nat /\ \A i \in 1..Len(T.init) : T.init[i] \in Steps
  BY <1>1
<1> QED BY <1>1, <1>2 DEF Steps

\* Adding one step.
LEMMA PossibleStep ==
  ASSUME NEW t, NEW n \in Nat
  PROVE  Possible(t, n + 1) = Possible(t, n) \cup {t.init[n + 1].acq}
<1>1. 1..n + 1 = (1..n) \cup {n + 1}
  OBVIOUS
<1> QED BY <1>1 DEF Possible

\* Acquired is the hard part of Possible.
LEMMA AcquiredPossible ==
  ASSUME NEW t, NEW n PROVE Acquired(t, n) = Possible(t, n) \ Soft
BY DEF Acquired, Possible

\* The initial state satisfies the inductive invariant.
LEMMA InitIInv == Init => IInv
<1> SUFFICES ASSUME Init PROVE IInv OBVIOUS
<1>1. TypeOK
  <2>1. drv \in Drivers BY DEF Init
  <2>2. step \in 1..Len(T.init) + 1 BY <2>1, TableTypes DEF Init
  <2>3. opens \in 0..MaxOpens BY BoundAssumption DEF Init
  <2>4. todo \in Seq(Resources) BY DEF Init
  <2> QED BY <2>1, <2>2, <2>3, <2>4 DEF Init, TypeOK
<1>2. Bookkeeping
  BY DEF Init, Bookkeeping, Possible
<1>3. DoorGuarded
  BY DEF Init, DoorGuarded
<1> QED BY <1>1, <1>2, <1>3 DEF IInv

\* Every action works on the same table.
LEMMA SameTable ==
  ASSUME Next
  PROVE  /\ drv' = drv /\ T' = T
         /\ WellFormed(T)' = WellFormed(T) /\ DoorLast(T)' = DoorLast(T)
<1>1. drv' = drv
  BY DEF Next, Acquire, Fail, FallThrough, Miss, Oops, Loaded, Release, Unwound,
         Unload, Gone, Open, Call, Close, Interrupt
<1>2. T' = T
  BY <1>1 DEF T
<1> QED BY <1>1, <1>2

\* Each step keeps the types.
LEMMA TypeStep ==
  ASSUME TypeOK, Next
  PROVE  TypeOK'
<1>1. drv' = drv /\ T' = T
  BY SameTable
<1>2. /\ T.init \in Seq(Steps) /\ T.exit \in Seq(Resources) /\ Len(T.init) \in Nat
      /\ \A i \in 1..Len(T.init) :
            /\ T.init[i].acq \in Resources
            /\ T.init[i].undo \in Seq(Resources)
            /\ T.init[i].result \in {"error", "zero"}
  BY TableTypes DEF TypeOK
<1> DEFINE Tab == T.init
<1>3. CASE Acquire
  <2>1. step' \in 1..Len(T.init) + 1
    BY <1>2, <1>3 DEF TypeOK, Acquire, Running
  <2>2. held' \subseteq Resources
    BY <1>2, <1>3 DEF TypeOK, Acquire, Running, Current
  <2> QED BY <1>1, <1>3, <2>1, <2>2 DEF TypeOK, Acquire
<1>4. CASE Fail
  <2>1. todo' \in Seq(Resources) /\ result' \in {"error", "zero"}
    BY <1>2, <1>4 DEF TypeOK, Fail, Running, Current
  <2> QED BY <1>1, <1>4, <2>1 DEF TypeOK, Fail
<1>5. CASE FallThrough
  <2>1. todo' \in Seq(Resources) /\ result' \in {"error", "zero"}
    BY <1>2, <1>5 DEF TypeOK, FallThrough, Running, Current
  <2> QED BY <1>1, <1>5, <2>1 DEF TypeOK, FallThrough
<1>6. CASE Miss
  <2>1. step' \in 1..Len(T.init) + 1
    BY <1>2, <1>6 DEF TypeOK, Miss, Running
  <2> QED BY <1>1, <1>6, <2>1 DEF TypeOK, Miss
<1>7. CASE Oops
  BY <1>1, <1>7 DEF TypeOK, Oops
<1>8. CASE Loaded
  BY <1>1, <1>8 DEF TypeOK, Loaded
<1>9. CASE Release
  <2>1. Head(todo) \in Resources /\ Tail(todo) \in Seq(Resources)
    BY <1>9 DEF TypeOK, Release
  <2> QED BY <1>1, <1>9, <2>1 DEF TypeOK, Release
<1>10. CASE Unwound
  BY <1>1, <1>10 DEF TypeOK, Unwound
<1>11. CASE Unload
  BY <1>1, <1>2, <1>11 DEF TypeOK, Unload
<1>12. CASE Gone
  BY <1>1, <1>12 DEF TypeOK, Gone
<1>13. careless' \in BOOLEAN \/ ~(Open \/ Call \/ Close \/ Interrupt)
  BY DEF Open, Call, Close, Interrupt, Handle
<1>14. CASE Open
  <2>1. opens' \in 0..MaxOpens
    BY <1>14, BoundAssumption DEF TypeOK, Open
  <2> QED BY <1>1, <1>13, <1>14, <2>1 DEF TypeOK, Open
<1>15. CASE Call
  BY <1>1, <1>13, <1>15 DEF TypeOK, Call
<1>16. CASE Close
  <2>1. opens' \in 0..MaxOpens
    BY <1>16, BoundAssumption DEF TypeOK, Close
  <2> QED BY <1>1, <1>13, <1>16, <2>1 DEF TypeOK, Close
<1>17. CASE Interrupt
  BY <1>1, <1>13, <1>17 DEF TypeOK, Interrupt
<1> QED BY <1>3, <1>4, <1>5, <1>6, <1>7, <1>8, <1>9, <1>10, <1>11, <1>12, <1>14,
           <1>15, <1>16, <1>17 DEF Next

\* A well-formed driver never loses track of what it holds.
LEMMA BookkeepingStep ==
  ASSUME TypeOK, WellFormed(T), Bookkeeping, Next
  PROVE  Bookkeeping'
<1>1. T' = T
  BY SameTable
<1>2. Len(T.init) \in Nat /\ step \in 1..Len(T.init) + 1
  BY TableTypes DEF TypeOK
<1>3. Running => Current.mode \in {"sure", "checked"}
  BY <1>2 DEF WellFormed, Running, Current
<1>4. CASE Acquire
  <2>1. held' = Possible(T, step' - 1)
    <3>1. held = Possible(T, step - 1) /\ held' = held \cup {T.init[step].acq}
      BY <1>4 DEF Acquire, Running, Current, Bookkeeping
    <3>2. step - 1 \in Nat /\ step - 1 + 1 = step /\ step' - 1 = step
      BY <1>2, <1>4 DEF Acquire
    <3>3. Possible(T, step) = Possible(T, step - 1) \cup {T.init[step].acq}
      BY <3>2, PossibleStep
    <3> QED BY <3>1, <3>2, <3>3
  <2>2. phase' = "loading" /\ stray' = stray
    BY <1>4 DEF Acquire, Running
  <2> QED BY <1>1, <2>1, <2>2 DEF Bookkeeping
<1>5. CASE Fail
  <2>1. step \in 1..Len(T.init) /\ T.init[step].mode = "checked"
    BY <1>2, <1>5 DEF Fail, Running, Current
  <2>2. Undoes(T.init[step].undo, T, step - 1) /\ T.init[step].result = "error"
    BY <2>1 DEF WellFormed
  <2>3. held = Possible(T, step - 1) /\ held' = held /\ todo' = T.init[step].undo
    BY <1>5 DEF Fail, Running, Current, Bookkeeping
  <2>4. IsInjective(todo') /\ held' \ Soft = Range(todo')
    BY <2>2, <2>3, AcquiredPossible DEF Undoes
  <2>5. phase' = "unwinding" /\ result' = "error" /\ stray' = stray
    BY <1>5, <2>2 DEF Fail, Current
  <2> QED BY <2>4, <2>5 DEF Bookkeeping
<1>6. ~FallThrough /\ ~Miss /\ ~Oops
  BY <1>3 DEF FallThrough, Miss, Oops
<1>7. CASE Loaded
  <2>1. step = Len(T.init) + 1
    BY <1>2, <1>7 DEF Loaded
  <2> QED BY <1>1, <1>7, <2>1 DEF Bookkeeping, Loaded
<1>8. CASE Release
  <2>1. IsInjective(todo) /\ held \ Soft = Range(todo)
    BY <1>8 DEF Release, Bookkeeping
  <2>2. todo \in Seq(Resources) /\ todo # <<>>
    BY <1>8 DEF Release, TypeOK
  <2>3. /\ Head(todo) \in Range(todo) /\ IsInjective(Tail(todo))
        /\ Range(Tail(todo)) = Range(todo) \ {Head(todo)}
    BY <2>1, <2>2, TailOfInjective
  <2>4. held' \ Soft = Range(todo') /\ IsInjective(todo')
    BY <1>8, <2>1, <2>3 DEF Release
  <2>5. stray' = stray
    BY <1>8, <2>1, <2>3 DEF Release
  <2>6. phase' = phase /\ phase \in {"unwinding", "exiting"} /\ result' = result
    BY <1>8 DEF Release
  <2> QED BY <2>4, <2>5, <2>6 DEF Bookkeeping
<1>9. todo = <<>> => Range(todo) = {}
  BY DEF Range
<1>10. CASE Unwound
  <2>1. held \subseteq Soft
    BY <1>9, <1>10 DEF Unwound, Bookkeeping
  <2>2. phase' = "failed" /\ held' = held /\ stray' = stray
    BY <1>10 DEF Unwound, Bookkeeping
  <2> QED BY <2>1, <2>2 DEF Bookkeeping
<1>11. CASE Unload
  <2>1. held' = Possible(T, Len(T.init)) /\ todo' = T.exit
    <3>1. step - 1 = Len(T.init)
      BY <1>2, <1>11 DEF Unload, Bookkeeping
    <3> QED BY <3>1, <1>11 DEF Unload, Bookkeeping
  <2>2. IsInjective(todo') /\ held' \ Soft = Range(todo')
    BY <2>1, AcquiredPossible DEF WellFormed, Undoes
  <2>3. phase' = "exiting" /\ stray' = stray
    BY <1>11 DEF Unload
  <2> QED BY <2>2, <2>3 DEF Bookkeeping
<1>12. CASE Gone
  <2>1. held \subseteq Soft
    BY <1>9, <1>12 DEF Gone, Bookkeeping
  <2>2. phase' = "gone" /\ held' = held /\ stray' = stray
    BY <1>12 DEF Gone
  <2> QED BY <2>1, <2>2 DEF Bookkeeping
<1>13. CASE Open \/ Call \/ Close \/ Interrupt
  <2>1. /\ phase' = phase /\ step' = step /\ held' = held /\ todo' = todo
        /\ result' = result /\ stray' = stray
    BY <1>13 DEF Open, Call, Close, Interrupt
  <2> QED BY <1>1, <2>1 DEF Bookkeeping
<1> QED BY <1>4, <1>5, <1>6, <1>7, <1>8, <1>10, <1>11, <1>12, <1>13 DEF Next

\* While a device that comes last can be opened, what its operations use is there.
LEMMA BehindTheDoor ==
  ASSUME TypeOK, DoorLast(T), Bookkeeping, DoorGuarded,
         (held \cap FileDoors # {} /\ phase # "exiting") \/ opens > 0
  PROVE  /\ phase \in {"loading", "loaded"}
         /\ T.files \subseteq held
         /\ \E i \in 1..step - 1 : T.init[i].acq \in FileDoors
<1>1. Len(T.init) \in Nat /\ step \in 1..Len(T.init) + 1
  BY TableTypes DEF TypeOK
<1>2. phase \in {"loading", "loaded"}
  <2>1. CASE opens > 0
    BY <2>1 DEF DoorGuarded
  <2>2. CASE held \cap FileDoors # {} /\ phase # "exiting"
    <3>1. phase \notin {"unwinding", "failed", "crashed"}
      BY <2>2 DEF DoorGuarded, Bookkeeping
    <3>2. phase # "gone"
      BY <2>2, DoorAssumption DEF Bookkeeping
    <3> QED BY <2>2, <3>1, <3>2 DEF TypeOK
  <2> QED BY <2>1, <2>2
<1>3. held = Possible(T, step - 1)
  BY <1>2 DEF Bookkeeping
<1>4. PICK i \in 1..step - 1 : T.init[i].acq \in FileDoors
  BY <1>3 DEF DoorGuarded, Possible
<1>5. i \in 1..Len(T.init) /\ 1..i - 1 \subseteq 1..step - 1
  BY <1>1
<1>6. T.files \subseteq {T.init[j].acq : j \in 1..i - 1}
  BY <1>4, <1>5 DEF DoorLast
<1>7. T.files \subseteq held
  BY <1>3, <1>5, <1>6 DEF Possible
<1> QED BY <1>2, <1>4, <1>7

\* Nothing that runs behind the device misses anything.
LEMMA DoorStep ==
  ASSUME TypeOK, WellFormed(T), DoorLast(T), Bookkeeping, DoorGuarded, Next
  PROVE  DoorGuarded'
<1>1. T' = T
  BY SameTable
<1>2. Len(T.init) \in Nat /\ step \in 1..Len(T.init) + 1 /\ opens \in Nat
  BY TableTypes, BoundAssumption DEF TypeOK
<1>3. Running => Current.mode \in {"sure", "checked"}
  BY <1>2 DEF WellFormed, Running, Current
<1>4. CASE Acquire
  <2>1. 1..step - 1 \subseteq 1..step' - 1
    BY <1>2, <1>4 DEF Acquire
  <2>2. opens' = opens /\ phase' = "loading" /\ phase = "loading" /\ careless' = careless
    BY <1>4 DEF Acquire, Running
  <2> QED BY <1>1, <2>1, <2>2 DEF DoorGuarded
<1>5. CASE Fail
  <2>1. step \in 1..Len(T.init) /\ T.init[step].mode = "checked"
    BY <1>2, <1>5 DEF Fail, Running, Current
  <2>2. \A i \in 1..step - 1 : i \in 1..Len(T.init) /\ step \in i + 1..Len(T.init)
    BY <1>2, <2>1
  <2>3. \A i \in 1..step - 1 : T.init[i].acq \notin FileDoors
    BY <2>1, <2>2 DEF DoorLast
  <2>4. held = Possible(T, step - 1)
    BY <1>5 DEF Fail, Running, Bookkeeping
  <2>5. held' \cap FileDoors = {}
    BY <1>5, <2>3, <2>4 DEF Fail, Possible
  <2>6. ~(opens' > 0)
    BY <1>5, <2>3 DEF Fail, DoorGuarded
  <2>7. careless' = careless
    BY <1>5 DEF Fail
  <2> QED BY <2>5, <2>6, <2>7 DEF DoorGuarded
<1>6. ~FallThrough /\ ~Miss /\ ~Oops
  BY <1>3 DEF FallThrough, Miss, Oops
<1>7. CASE Loaded
  BY <1>1, <1>7 DEF DoorGuarded, Loaded
<1>8. CASE Release
  BY <1>1, <1>8 DEF DoorGuarded, Release
<1>9. CASE Unwound
  BY <1>1, <1>9 DEF DoorGuarded, Bookkeeping, Unwound
<1>10. CASE Unload
  <2>1. opens = 0
    BY <1>10 DEF DoorLast, Unload
  <2> QED BY <1>1, <1>10, <2>1 DEF DoorGuarded, Unload
<1>11. CASE Gone
  BY <1>1, <1>11 DEF DoorGuarded, Gone
<1>12. CASE Open \/ Call \/ Close
  <2>1. (held \cap FileDoors # {} /\ phase # "exiting") \/ opens > 0
    BY <1>12 DEF Open, Call, Close, DoorLast
  <2>2. /\ phase \in {"loading", "loaded"} /\ T.files \subseteq held
        /\ \E i \in 1..step - 1 : T.init[i].acq \in FileDoors
    BY <2>1, BehindTheDoor
  <2>3. phase' = phase /\ step' = step /\ held' = held
    BY <1>12 DEF Open, Call, Close
  <2>4. Handle(T.files)
    BY <1>12 DEF Open, Call, Close
  <2>5. ~careless'
    BY <2>2, <2>4 DEF Handle, TextGone, DoorGuarded
  <2> QED BY <1>1, <2>2, <2>3, <2>5 DEF DoorGuarded
<1>13. CASE Interrupt
  <2>1. phase \notin {"failed", "gone"}
    BY <1>13, DoorAssumption DEF Interrupt, Bookkeeping
  <2>2. ~careless'
    BY <1>13, <2>1 DEF Interrupt, Handle, TextGone, DoorLast, DoorGuarded
  <2> QED BY <1>1, <1>13, <2>2 DEF DoorGuarded, Interrupt
<1> QED BY <1>4, <1>5, <1>6, <1>7, <1>8, <1>9, <1>10, <1>11, <1>12, <1>13 DEF Next

\* The inductive invariant: initially true and kept by every step, for every
\* set of drivers, whatever their tables do.
THEOREM Invariance == Spec => []IInv
<1>1. ASSUME IInv, [Next]_vars PROVE IInv'
  <2>1. CASE Next
    <3>1. TypeOK'
      BY <1>1, <2>1, TypeStep DEF IInv
    <3>2. WellFormed(T)' = WellFormed(T) /\ DoorLast(T)' = DoorLast(T)
      BY <2>1, SameTable
    <3>3. WellFormed(T)' => Bookkeeping'
      BY <1>1, <2>1, <3>2, BookkeepingStep DEF IInv
    <3>4. WellFormed(T)' /\ DoorLast(T)' => DoorGuarded'
      BY <1>1, <2>1, <3>2, DoorStep DEF IInv
    <3> QED BY <3>1, <3>3, <3>4 DEF IInv
  <2>2. CASE UNCHANGED vars
    <3>1. T' = T
      BY <2>2 DEF T, vars
    <3>2. WellFormed(T)' = WellFormed(T) /\ DoorLast(T)' = DoorLast(T)
      BY <3>1
    <3>3. TypeOK' /\ (Bookkeeping' = Bookkeeping) /\ (DoorGuarded' = DoorGuarded)
      BY <1>1, <2>2, <3>1 DEF IInv, TypeOK, Bookkeeping, DoorGuarded, vars
    <3> QED BY <1>1, <3>2, <3>3 DEF IInv
  <2> QED BY <1>1, <2>1, <2>2
<1> QED BY <1>1, InitIInv, PTL DEF Spec

\* The state of every driver, disciplined or not, stays within its types.
THEOREM TypeCorrect == Spec => []TypeOK
<1>1. IInv => TypeOK
  BY DEF IInv
<1> QED BY <1>1, Invariance, PTL

\* Whatever fails while it loads, a driver that undoes exactly what it did
\* leaves nothing behind, releases nothing that it does not hold, and, with the
\* character device last, lets no file operation see it half built.
THEOREM Discipline == Spec => []DisciplinePays
<1>1. ASSUME IInv PROVE DisciplinePays
  <2> SUFFICES ASSUME WellFormed(T)
               PROVE  /\ stray = {}
                      /\ phase \in {"failed", "gone"} => held \subseteq Soft
                      /\ phase = "loaded" => Acquired(T, Len(T.init)) \subseteq held
                      /\ DoorLast(T) => ~careless
    BY DEF DisciplinePays
  <2>1. Bookkeeping
    BY <1>1 DEF IInv
  <2>2. phase = "loaded" => Acquired(T, Len(T.init)) \subseteq held
    <3> SUFFICES ASSUME phase = "loaded" PROVE Acquired(T, Len(T.init)) \subseteq held
      OBVIOUS
    <3>1. Len(T.init) \in Nat
      BY <1>1, TableTypes DEF IInv, TypeOK
    <3>2. held = Possible(T, Len(T.init))
      BY <2>1, <3>1 DEF Bookkeeping
    <3> QED BY <3>2, AcquiredPossible
  <2>3. DoorLast(T) => ~careless
    BY <1>1 DEF IInv, DoorGuarded
  <2> QED BY <2>1, <2>2, <2>3 DEF Bookkeeping
<1> QED BY <1>1, Invariance, PTL
-----------------------------------------------------------------------------
(***************************************************************************)
(* The audit, for every driver, well-formed or not.                        *)
(***************************************************************************)

\* What is held, at most and at least.
Holdings ==
  /\ held \subseteq Possible(T, FullLength(T))
  /\ phase = "loading" => /\ held \subseteq Possible(T, step - 1)
                          /\ Certain(T, step - 1) \subseteq held
  /\ phase = "crashed" => careless

\* On the way to a reported error, and on the way out, what is held is on the
\* list.
Failing == CleansUp(T) =>
  /\ phase = "unwinding" /\ result = "error" => held \ Soft \subseteq Range(todo)
  /\ phase = "failed" => held \subseteq Soft

Leaving == CleansAway(T) =>
  /\ phase = "exiting" => held \ Soft \subseteq Range(todo)
  /\ phase = "gone" => held \subseteq Soft

\* A driver that reports its errors is complete when it is loaded.
Truthful == Honest(T) =>
  /\ phase = "unwinding" => result = "error"
  /\ phase = "loaded" => Certain(T, FullLength(T)) \subseteq held

\* What is on the list is held.
Owning == Owns(T) =>
  /\ stray = {}
  /\ phase \in {"unwinding", "exiting"} => IsInjective(todo) /\ Range(todo) \subseteq held

\* What exit has released when it has come to the rest r of its list.
Released(r) == {T.exit[i] : i \in 1..Len(T.exit) - Len(r)}

\* Nobody calls in, or only through a file that has missed something already.
Shut == held \cap (FileDoors \cup IrqDoors) = {} /\ (opens > 0 => careless)

\* The way there: the device is still on the list, and who opens it misses
\* something.
Closing == /\ held \cap IrqDoors = {}
           /\ held \cap FileDoors \subseteq Range(todo)
           /\ held \cap FileDoors # {} => ~(T.files \subseteq held)
           /\ opens > 0 => careless

\* No file of a module is open when it leaves; exit has got as far as todo says.
Serving == Serves(T) =>
  /\ opens > 0 => Doors(T, FileDoors) # {}
  /\ T.text /\ phase \in {"exiting", "gone"} => opens = 0
  /\ phase = "unwinding" /\ result = "zero" => Closing
  /\ phase = "loaded" => Shut \/ Certain(T, FullLength(T)) \subseteq held
  /\ phase \in {"exiting", "gone"} =>
       /\ Len(todo) <= Len(T.exit)
       /\ \A i \in 1..Len(todo) : todo[i] = T.exit[Len(T.exit) - Len(todo) + i]
       /\ held \cap Released(todo) = {}
       /\ Shut \/ Certain(T, FullLength(T)) \ Released(todo) \subseteq held
  /\ phase = "gone" => todo = <<>>

\* While init runs an open file has its device, and whoever opened it too early
\* has missed something.
Early ==
  phase = "loading" /\ opens > 0 =>
    /\ held \cap FileDoors # {}
    /\ ~(T.files \subseteq Possible(T, step - 1)) => careless

\* No error path runs with a door open.
Sheltered == FailsClosed(T) =>
  (phase \in {"unwinding", "failed"} =>
     held \cap (FileDoors \cup IrqDoors) = {} /\ opens = 0)

Passing == /\ Holdings /\ Failing /\ Leaving /\ Truthful /\ Owning
           /\ Serving /\ Early /\ Sheltered

\* One more step is certain to be done unless it is "loose".
LEMMA CertainStep ==
  ASSUME NEW t, NEW n \in Nat
  PROVE  Certain(t, n + 1) = Certain(t, n)
           \cup (IF t.init[n + 1].mode # "loose" THEN {t.init[n + 1].acq} ELSE {})
<1>1. 1..n + 1 = (1..n) \cup {n + 1}
  OBVIOUS
<1> QED BY <1>1 DEF Certain

\* The rest of a list has what the list has, without its head.
LEMMA TailRange ==
  ASSUME NEW S, NEW s \in Seq(S), s # <<>>
  PROVE  Range(s) \subseteq Range(Tail(s)) \cup {Head(s)}
<1>1. /\ Len(s) \in Nat /\ Len(s) > 0 /\ DOMAIN s = 1..Len(s)
      /\ Len(Tail(s)) = Len(s) - 1 /\ DOMAIN Tail(s) = 1..Len(s) - 1
      /\ \A i \in 1..Len(s) - 1 : Tail(s)[i] = s[i + 1]
      /\ Head(s) = s[1]
  OBVIOUS
<1> SUFFICES ASSUME NEW i \in 1..Len(s), s[i] # Head(s)
             PROVE  s[i] \in Range(Tail(s))
  BY <1>1 DEF Range
<1>2. i - 1 \in 1..Len(s) - 1 /\ Tail(s)[i - 1] = s[i]
  BY <1>1
<1> QED BY <1>1, <1>2 DEF Range

\* Bounds that the steps need.
LEMMA Indices ==
  ASSUME TypeOK
  PROVE  /\ FullLength(T) \in Nat /\ FullLength(T) = Len(T.init)
         /\ step \in 1..FullLength(T) + 1 /\ step - 1 \in Nat
         /\ Running => step \in 1..FullLength(T)
<1>1. Len(T.init) \in Nat /\ step \in 1..Len(T.init) + 1
  BY TableTypes DEF TypeOK
<1> QED BY <1>1 DEF FullLength, Running

\* Fewer steps acquire less.
LEMMA PossibleGrows ==
  ASSUME NEW t, NEW n \in Nat, NEW m \in Nat, m <= n
  PROVE  Possible(t, m) \subseteq Possible(t, n) /\ Certain(t, m) \subseteq Possible(t, m)
BY DEF Possible, Certain

\* held stays within its bounds.
LEMMA HoldingsStep ==
  ASSUME TypeOK, Holdings, Next
  PROVE  Holdings'
<1>1. T' = T
  BY SameTable
<1>2. /\ FullLength(T) \in Nat /\ step \in 1..FullLength(T) + 1 /\ step - 1 \in Nat
      /\ FullLength(T) = Len(T.init)
      /\ Running => step \in 1..FullLength(T)
  BY Indices
<1>3. step - 1 + 1 = step /\ step + 1 - 1 = step
  BY <1>2
<1>4. /\ Possible(T, step) = Possible(T, step - 1) \cup {T.init[step].acq}
      /\ Certain(T, step) = Certain(T, step - 1)
           \cup (IF T.init[step].mode # "loose" THEN {T.init[step].acq} ELSE {})
  BY <1>2, <1>3, PossibleStep, CertainStep
<1>5. CASE Acquire
  <2>1. /\ phase = "loading" /\ phase' = phase /\ step' - 1 = step
        /\ held' = held \cup {T.init[step].acq} /\ step \in 1..FullLength(T)
    BY <1>2, <1>3, <1>5 DEF Acquire, Running, Current
  <2>2. Possible(T, step) \subseteq Possible(T, FullLength(T))
    BY <1>2, <2>1, PossibleGrows
  <2>3. /\ held' \subseteq Possible(T, step)
        /\ Certain(T, step) \subseteq held'
    BY <1>4, <2>1 DEF Holdings
  <2> QED BY <1>1, <2>1, <2>2, <2>3 DEF Holdings
<1>6. CASE Miss
  <2>1. /\ phase = "loading" /\ phase' = phase /\ step' = step + 1 /\ held' = held
        /\ T.init[step].mode = "loose"
    BY <1>6 DEF Miss, Running, Current
  <2>2. step' - 1 = step
    BY <1>2, <2>1
  <2> QED BY <1>1, <1>4, <2>1, <2>2 DEF Holdings
<1>7. CASE Fail \/ FallThrough \/ Loaded \/ Unload \/ Gone
  <2>1. phase' \notin {"loading", "crashed"} /\ held' = held
    BY <1>7 DEF Fail, FallThrough, Loaded, Unload, Gone
  <2> QED BY <1>1, <2>1 DEF Holdings
<1>8. CASE Unwound
  <2>1. phase' \notin {"loading", "crashed"} /\ held' = held
    BY <1>8 DEF Unwound
  <2> QED BY <1>1, <2>1 DEF Holdings
<1>9. CASE Oops
  BY <1>1, <1>9 DEF Oops, Holdings
<1>10. CASE Release
  BY <1>1, <1>10 DEF Release, Holdings
<1>11. CASE Open \/ Call \/ Close \/ Interrupt
  <2>1. UNCHANGED <<phase, step, held>> /\ (careless => careless')
    BY <1>11 DEF Open, Call, Close, Interrupt, Handle
  <2> QED BY <1>1, <2>1 DEF Holdings
<1> QED BY <1>5, <1>6, <1>7, <1>8, <1>9, <1>10, <1>11 DEF Next

\* The lists are complete, and stay so.
LEMMA ListsStep ==
  ASSUME TypeOK, Holdings, Failing, Leaving, Next
  PROVE  Failing' /\ Leaving'
<1>1. T' = T
  BY SameTable
<1>2. /\ FullLength(T) \in Nat /\ step \in 1..FullLength(T) + 1 /\ step - 1 \in Nat
      /\ Running => step \in 1..FullLength(T)
  BY Indices
<1>3. CleansUp(T)' = CleansUp(T) /\ CleansAway(T)' = CleansAway(T)
  BY <1>1
<1>4. todo = <<>> => Range(todo) = {}
  BY DEF Range
<1>5. CASE Acquire \/ Miss \/ Oops \/ Loaded
  <2>1. phase' \in {"loading", "crashed", "loaded"}
    BY <1>5 DEF Acquire, Miss, Oops, Loaded, Running
  <2> QED BY <2>1 DEF Failing, Leaving
<1>6. CASE Fail
  <2>1. /\ T.init[step].mode = "checked" /\ step \in 1..FullLength(T)
        /\ phase' = "unwinding" /\ held' = held /\ todo' = T.init[step].undo
        /\ result' = T.init[step].result /\ held \subseteq Possible(T, step - 1)
    BY <1>2, <1>6 DEF Fail, Running, Current, Holdings
  <2>2. CleansUp(T) /\ result' = "error" => held' \ Soft \subseteq Range(todo')
    BY <2>1, AcquiredPossible DEF CleansUp
  <2> QED BY <1>3, <2>1, <2>2 DEF Failing, Leaving
<1>7. CASE FallThrough
  <2>1. /\ T.init[step].mode = "falls" /\ step \in 1..FullLength(T)
        /\ phase' = "unwinding" /\ held' = held /\ todo' = T.init[step].undo
        /\ held \subseteq Possible(T, step - 1)
    BY <1>2, <1>7 DEF FallThrough, Running, Current, Holdings
  <2>2. CleansUp(T) => held' \ Soft \subseteq Range(todo')
    BY <2>1, AcquiredPossible DEF CleansUp
  <2> QED BY <1>3, <2>1, <2>2 DEF Failing, Leaving
<1>8. CASE Release
  <2>1. /\ phase' = phase /\ phase \in {"unwinding", "exiting"} /\ result' = result
        /\ held' = held \ {Head(todo)} /\ todo' = Tail(todo) /\ todo # <<>>
    BY <1>8 DEF Release
  <2>2. Range(todo) \subseteq Range(todo') \cup {Head(todo)}
    BY <2>1, TailRange DEF TypeOK
  <2>3. held \ Soft \subseteq Range(todo) => held' \ Soft \subseteq Range(todo')
    BY <2>1, <2>2
  <2> QED BY <1>3, <2>1, <2>3 DEF Failing, Leaving
<1>9. CASE Unwound
  <2>1. /\ phase = "unwinding" /\ held' = held /\ todo = <<>>
        /\ phase' = IF result = "error" THEN "failed" ELSE "loaded"
    BY <1>9 DEF Unwound
  <2> QED BY <1>3, <1>4, <2>1 DEF Failing, Leaving
<1>10. CASE Unload
  <2>1. phase' = "exiting" /\ held' = held /\ todo' = T.exit
    BY <1>10 DEF Unload
  <2>2. CleansAway(T) => held' \ Soft \subseteq Range(todo')
    BY <2>1, AcquiredPossible DEF CleansAway, Holdings
  <2> QED BY <1>3, <2>1, <2>2 DEF Failing, Leaving
<1>11. CASE Gone
  <2>1. phase = "exiting" /\ phase' = "gone" /\ held' = held /\ todo = <<>>
    BY <1>11 DEF Gone
  <2> QED BY <1>3, <1>4, <2>1 DEF Failing, Leaving
<1>12. CASE Open \/ Call \/ Close \/ Interrupt
  <2>1. UNCHANGED <<phase, result, held, todo>>
    BY <1>12 DEF Open, Call, Close, Interrupt
  <2> QED BY <1>3, <2>1 DEF Failing, Leaving
<1> QED BY <1>5, <1>6, <1>7, <1>8, <1>9, <1>10, <1>11, <1>12 DEF Next

\* An honest driver unwinds only to fail.
LEMMA TruthfulStep ==
  ASSUME TypeOK, Holdings, Truthful, Next
  PROVE  Truthful'
<1>1. T' = T /\ Honest(T)' = Honest(T)
  BY SameTable
<1>2. /\ FullLength(T) \in Nat /\ step \in 1..FullLength(T) + 1 /\ step - 1 \in Nat
      /\ FullLength(T) = Len(T.init)
      /\ Running => step \in 1..FullLength(T)
  BY Indices
<1> SUFFICES ASSUME Honest(T)
             PROVE  /\ phase' = "unwinding" => result' = "error"
                    /\ phase' = "loaded" => Certain(T, FullLength(T)) \subseteq held'
  BY <1>1 DEF Truthful
<1>3. CASE Acquire \/ Miss \/ Oops \/ Unload \/ Gone
  BY <1>3 DEF Acquire, Miss, Oops, Unload, Gone, Running
<1>4. CASE Fail
  BY <1>2, <1>4 DEF Fail, Current, Honest
<1>5. ~FallThrough
  BY <1>2 DEF FallThrough, Current, Honest
<1>6. CASE Loaded
  <2>1. step - 1 = FullLength(T)
    BY <1>2, <1>6 DEF Loaded
  <2> QED BY <1>6, <2>1 DEF Loaded, Holdings
<1>7. CASE Release
  BY <1>7 DEF Release, Truthful
<1>8. CASE Unwound
  BY <1>8 DEF Unwound, Truthful
<1>9. CASE Open \/ Call \/ Close \/ Interrupt
  <2>1. UNCHANGED <<phase, result, held>>
    BY <1>9 DEF Open, Call, Close, Interrupt
  <2> QED BY <2>1 DEF Truthful
<1> QED BY <1>3, <1>4, <1>5, <1>6, <1>7, <1>8, <1>9 DEF Next

\* Whoever lists only what it holds releases only what it holds.
LEMMA OwningStep ==
  ASSUME TypeOK, Holdings, Truthful, Owning, Next
  PROVE  Owning'
<1>1. T' = T /\ Owns(T)' = Owns(T)
  BY SameTable
<1>2. /\ FullLength(T) \in Nat /\ step \in 1..FullLength(T) + 1 /\ step - 1 \in Nat
      /\ Running => step \in 1..FullLength(T)
  BY Indices
<1> SUFFICES ASSUME Owns(T)
             PROVE  /\ stray' = {}
                    /\ phase' \in {"unwinding", "exiting"} =>
                         IsInjective(todo') /\ Range(todo') \subseteq held'
  BY <1>1 DEF Owning
<1>3. CASE Acquire \/ Miss \/ Oops \/ Loaded \/ Gone
  BY <1>3 DEF Acquire, Miss, Oops, Loaded, Gone, Running, Owning
<1>4. CASE Fail
  <2>1. /\ T.init[step].mode = "checked" /\ step \in 1..FullLength(T)
        /\ held' = held /\ todo' = T.init[step].undo
        /\ stray' = stray /\ Certain(T, step - 1) \subseteq held
    BY <1>2, <1>4 DEF Fail, Running, Current, Holdings
  <2> QED BY <2>1 DEF Owns, Owning
<1>5. ~FallThrough
  BY <1>2 DEF FallThrough, Current, Owns, Honest
<1>6. CASE Release
  <2>1. /\ phase \in {"unwinding", "exiting"} /\ todo # <<>> /\ todo \in Seq(Resources)
        /\ held' = held \ {Head(todo)} /\ todo' = Tail(todo)
        /\ IsInjective(todo) /\ Range(todo) \subseteq held /\ stray = {}
    BY <1>6 DEF Release, Owning, TypeOK
  <2>2. /\ Head(todo) \in Range(todo) /\ IsInjective(Tail(todo))
        /\ Range(Tail(todo)) = Range(todo) \ {Head(todo)}
    BY <2>1, TailOfInjective
  <2>3. stray' = stray
    BY <1>6, <2>1, <2>2 DEF Release
  <2> QED BY <2>1, <2>2, <2>3
<1>7. CASE Unwound
  BY <1>7 DEF Unwound, Owning
<1>8. CASE Unload
  <2>1. /\ held' = held /\ todo' = T.exit /\ stray' = stray
        /\ Certain(T, FullLength(T)) \subseteq held
    BY <1>8 DEF Unload, Truthful, Owns
  <2> QED BY <2>1 DEF Owns, Owning
<1>9. CASE Open \/ Call \/ Close \/ Interrupt
  <2>1. UNCHANGED <<phase, held, todo, stray>>
    BY <1>9 DEF Open, Call, Close, Interrupt
  <2> QED BY <2>1 DEF Owning
<1> QED BY <1>3, <1>4, <1>5, <1>6, <1>7, <1>8, <1>9 DEF Next

\* One more release.
LEMMA ReleasedStep ==
  ASSUME T.exit \in Seq(Resources), NEW r \in Seq(Resources), r # <<>>,
         Len(r) <= Len(T.exit),
         \A i \in 1..Len(r) : r[i] = T.exit[Len(T.exit) - Len(r) + i]
  PROVE  /\ Released(Tail(r)) = Released(r) \cup {Head(r)}
         /\ Len(Tail(r)) <= Len(T.exit)
         /\ \A i \in 1..Len(Tail(r)) :
               Tail(r)[i] = T.exit[Len(T.exit) - Len(Tail(r)) + i]
<1> DEFINE n == Len(T.exit)
           m == Len(r)
<1>1. /\ n \in Nat /\ m \in Nat /\ m > 0 /\ m <= n
      /\ Len(Tail(r)) = m - 1 /\ Head(r) = r[1]
      /\ \A i \in 1..m - 1 : Tail(r)[i] = r[i + 1]
  OBVIOUS
<1>2. \A i \in 1..m : r[i] = T.exit[n - m + i]
  OBVIOUS
<1> HIDE DEF n, m
<1>3. 1..n - (m - 1) = (1..n - m) \cup {n - m + 1} /\ Head(r) = T.exit[n - m + 1]
  BY <1>1, <1>2
<1>4. Released(Tail(r)) = Released(r) \cup {Head(r)}
  BY <1>1, <1>3 DEF Released, n, m
<1>5. \A i \in 1..m - 1 : Tail(r)[i] = T.exit[n - (m - 1) + i]
  <2> SUFFICES ASSUME NEW i \in 1..m - 1
               PROVE  Tail(r)[i] = T.exit[n - (m - 1) + i]
    OBVIOUS
  <2>1. i + 1 \in 1..m /\ n - m + (i + 1) = n - (m - 1) + i
    BY <1>1
  <2> QED BY <1>1, <1>2, <2>1
<1>6. m - 1 <= n
  BY <1>1
<1> QED BY <1>1, <1>4, <1>5, <1>6 DEF n, m

\* When exit is through with its list, the doors of a module are closed.
LEMMA DoorsClosed ==
  ASSUME TypeOK, Holdings, Serving, Serves(T), T.text, phase = "gone"
  PROVE  held \cap (FileDoors \cup IrqDoors) = {}
<1>1. T.exit \in Seq(Resources)
  BY TableTypes DEF TypeOK
<1>2. todo = <<>>
  BY DEF Serving
<1>3. Released(todo) = Range(T.exit)
  BY <1>1, <1>2 DEF Released, Range
<1>4. held \cap Range(T.exit) = {}
  BY <1>3 DEF Serving
<1> QED BY <1>4 DEF Holdings, Serves, Doors

\* While init runs, an open file and its device stay together.
LEMMA EarlyStep ==
  ASSUME TypeOK, Holdings, Early, Next
  PROVE  Early'
<1>1. T' = T
  BY SameTable
<1>2. FullLength(T) \in Nat /\ step \in 1..FullLength(T) + 1
  BY Indices
<1> SUFFICES ASSUME phase' = "loading", opens' > 0
             PROVE  /\ held' \cap FileDoors # {}
                    /\ ~(T.files \subseteq Possible(T, step' - 1)) => careless'
  BY <1>1 DEF Early, Possible
<1>3. CASE Acquire \/ Miss
  <2>1. /\ phase = "loading" /\ opens > 0 /\ careless' = careless
        /\ held \subseteq held' /\ step' = step + 1 /\ Running
    BY <1>3 DEF Acquire, Miss, Running
  <2>2. Possible(T, step - 1) \subseteq Possible(T, step' - 1)
    BY <1>2, <2>1 DEF Possible
  <2> QED BY <2>1, <2>2 DEF Early
<1>4. CASE Open \/ Call \/ Close
  <2>1. /\ phase = "loading" /\ UNCHANGED <<step, held>>
        /\ Handle(T.files) /\ (held \cap FileDoors # {} \/ opens > 0)
    BY <1>4 DEF Open, Call, Close
  <2>2. held \subseteq Possible(T, step - 1)
    BY <2>1 DEF Holdings
  <2>3. ~(T.files \subseteq Possible(T, step - 1)) => careless'
    BY <2>1, <2>2 DEF Handle
  <2> QED BY <2>1, <2>3 DEF Early
<1>5. CASE Interrupt
  <2>1. UNCHANGED <<phase, step, held, opens>> /\ (careless => careless')
    BY <1>5 DEF Interrupt, Handle
  <2> QED BY <2>1 DEF Early
<1>6. ~(Oops \/ Loaded \/ Fail \/ FallThrough \/ Unwound \/ Unload \/ Gone \/ Release)
  BY DEF Oops, Loaded, Fail, FallThrough, Unwound, Unload, Gone, Release
<1> QED BY <1>3, <1>4, <1>5, <1>6 DEF Next

\* A driver whose doors come after its last error path fails behind closed doors.
LEMMA ShelteredStep ==
  ASSUME TypeOK, Holdings, Early, Sheltered, Next
  PROVE  Sheltered'
<1>1. T' = T /\ FailsClosed(T)' = FailsClosed(T)
  BY SameTable
<1>2. /\ FullLength(T) \in Nat /\ step \in 1..FullLength(T) + 1 /\ step - 1 \in Nat
      /\ Running => step \in 1..FullLength(T)
      /\ opens \in Nat
  BY Indices, BoundAssumption DEF TypeOK
<1> SUFFICES ASSUME FailsClosed(T), phase' \in {"unwinding", "failed"}
             PROVE  held' \cap (FileDoors \cup IrqDoors) = {} /\ opens' = 0
  BY <1>1 DEF Sheltered
<1>3. CASE Fail \/ FallThrough
  <2>1. /\ phase = "loading" /\ held' = held /\ opens' = opens
        /\ step \in 1..FullLength(T) /\ T.init[step].mode \in {"checked", "falls"}
    BY <1>2, <1>3 DEF Fail, FallThrough, Running, Current
  <2>2. ASSUME NEW i \in 1..step - 1, T.init[i].acq \in FileDoors \cup IrqDoors
        PROVE  FALSE
    <3>1. i \in 1..FullLength(T) /\ i < step
      BY <1>2, <2>1, <2>2
    <3> QED BY <2>1, <2>2, <3>1 DEF FailsClosed
  <2>3. held \cap (FileDoors \cup IrqDoors) = {}
    BY <2>1, <2>2 DEF Holdings, Possible
  <2>4. opens = 0
    BY <1>2, <2>1, <2>3 DEF Early
  <2> QED BY <2>1, <2>3, <2>4
<1>4. CASE Release
  <2>1. /\ phase = "unwinding" /\ opens' = opens /\ held' \subseteq held
    BY <1>4 DEF Release
  <2> QED BY <2>1 DEF Sheltered
<1>5. CASE Unwound
  <2>1. phase = "unwinding" /\ opens' = opens /\ held' = held
    BY <1>5 DEF Unwound
  <2> QED BY <2>1 DEF Sheltered
<1>6. ~(Acquire \/ Miss \/ Oops \/ Loaded \/ Unload \/ Gone)
  BY DEF Acquire, Miss, Oops, Loaded, Unload, Gone, Running
<1>7. ~(Open \/ Call \/ Close \/ Interrupt)
  <2>1. ASSUME Open \/ Call \/ Close \/ Interrupt PROVE FALSE
    <3>1. phase' = phase /\ (held \cap (FileDoors \cup IrqDoors) # {} \/ opens > 0)
      BY <2>1 DEF Open, Call, Close, Interrupt
    <3> QED BY <1>2, <3>1 DEF Sheltered
  <2> QED BY <2>1
<1> QED BY <1>3, <1>4, <1>5, <1>6, <1>7 DEF Next

\* A failure that passes for a success: the device is on the list.
LEMMA ZeroFails ==
  ASSUME TypeOK, Holdings, Early, Serves(T), Fail, result' = "zero"
  PROVE  Closing'
<1>1. T' = T
  BY DEF Fail, T
<1>2. /\ FullLength(T) \in Nat /\ step \in 1..FullLength(T) + 1 /\ step - 1 \in Nat
      /\ Running => step \in 1..FullLength(T)
  BY Indices
<1>3. /\ phase = "loading" /\ held' = held /\ opens' = opens /\ careless' = careless
      /\ step \in 1..FullLength(T) /\ T.init[step].mode = "checked"
      /\ T.init[step].result = "zero" /\ todo' = T.init[step].undo
  BY <1>2 DEF Fail, Running, Current
<1> DEFINE P == Possible(T, step - 1)
<1>4. held \subseteq P
  BY <1>3 DEF Holdings
<1>5. /\ P \cap IrqDoors = {}
      /\ P \cap FileDoors # {} =>
           /\ P \cap FileDoors \subseteq Range(T.init[step].undo)
           /\ ~(T.files \subseteq P)
  BY <1>3 DEF Serves, LoadsOrShuts
<1> HIDE DEF P
<1>6. held \cap IrqDoors = {}
  BY <1>4, <1>5
<1>7. held \cap FileDoors \subseteq Range(T.init[step].undo)
  BY <1>4, <1>5
<1>8. held \cap FileDoors # {} => ~(T.files \subseteq held)
  BY <1>4, <1>5
<1>9. opens > 0 => careless
  <2>1. ASSUME opens > 0 PROVE careless
    <3>1. held \cap FileDoors # {}
      BY <1>3, <2>1 DEF Early
    <3>2. ~(T.files \subseteq P)
      BY <1>4, <1>5, <3>1
    <3> QED BY <1>3, <2>1, <3>2 DEF Early, P
  <2> QED BY <2>1
<1> QED BY <1>1, <1>3, <1>6, <1>7, <1>8, <1>9 DEF Closing

\* A handler behind a shut door changes nothing; behind a closing one it has
\* missed something.
LEMMA ShutStep ==
  ASSUME TypeOK, Shut \/ Closing, Open \/ Call \/ Close \/ Interrupt
  PROVE  /\ Shut => Shut'
         /\ Closing => Closing'
<1>1. T' = T
  BY DEF Open, Call, Close, Interrupt, T
<1>2. UNCHANGED <<held, todo>> /\ (careless => careless')
  BY DEF Open, Call, Close, Interrupt, Handle
<1>3. opens \in Nat
  BY BoundAssumption DEF TypeOK
<1>4. held \cap IrqDoors = {} => ~Interrupt
  BY DEF Interrupt
<1>5. Call \/ Close => opens > 0
  BY DEF Call, Close
<1>6. Open => held \cap FileDoors # {} /\ (~(T.files \subseteq held) => careless')
  BY DEF Open, Handle
<1>7. ASSUME Shut PROVE Shut'
  <2>1. careless'
    BY <1>2, <1>4, <1>5, <1>6, <1>7 DEF Shut
  <2> QED BY <1>2, <1>7, <2>1 DEF Shut
<1>8. ASSUME Closing PROVE Closing'
  <2>1. careless'
    BY <1>2, <1>4, <1>5, <1>6, <1>8 DEF Closing
  <2> QED BY <1>1, <1>2, <1>8, <2>1 DEF Closing
<1> QED BY <1>7, <1>8

\* What is said of open files and of the progress of exit stays true.
LEMMA ServingStep ==
  ASSUME TypeOK, Holdings, Early, Serving, Next
  PROVE  Serving'
<1>1. T' = T /\ Serves(T)' = Serves(T)
  BY SameTable
<1>2. /\ Running => step \in 1..FullLength(T)
      /\ opens \in Nat /\ T.exit \in Seq(Resources) /\ todo \in Seq(Resources)
      /\ FullLength(T) \in Nat /\ step \in 1..FullLength(T) + 1
      /\ FullLength(T) = Len(T.init)
  BY Indices, BoundAssumption, TableTypes DEF TypeOK
<1>3. \A r : Released(r)' = Released(r)
  BY <1>1 DEF Released
<1>4. /\ Doors(T, FileDoors)' = Doors(T, FileDoors)
      /\ Certain(T, FullLength(T))' = Certain(T, FullLength(T))
  BY <1>1
<1> DEFINE All == Certain(T, FullLength(T))
           Exiting(p, h, l) ==
             p \in {"exiting", "gone"} =>
               /\ Len(l) <= Len(T.exit)
               /\ \A i \in 1..Len(l) : l[i] = T.exit[Len(T.exit) - Len(l) + i]
               /\ h \cap Released(l) = {}
           Ending == phase = "unwinding" /\ result = "zero" => Closing
           Full   == phase = "loaded" => Shut \/ All \subseteq held
           Behind == phase \in {"exiting", "gone"}
                       => Shut \/ All \ Released(todo) \subseteq held
<1> SUFFICES ASSUME Serves(T)
             PROVE  /\ opens' > 0 => Doors(T, FileDoors) # {}
                    /\ T.text /\ phase' \in {"exiting", "gone"} => opens' = 0
                    /\ Ending' /\ Full' /\ Behind'
                    /\ Exiting(phase', held', todo')
                    /\ phase' = "gone" => todo' = <<>>
  BY <1>1, <1>3, <1>4 DEF Serving
<1>5. /\ opens > 0 => Doors(T, FileDoors) # {}
      /\ T.text /\ phase \in {"exiting", "gone"} => opens = 0
      /\ Ending /\ Full /\ Behind
      /\ Exiting(phase, held, todo)
      /\ phase = "gone" => todo = <<>>
  BY DEF Serving
<1>6. CASE Acquire \/ Miss \/ Oops
  <2>1. phase' \notin {"loaded", "unwinding", "exiting", "gone"} /\ opens' = opens
    BY <1>6 DEF Acquire, Miss, Oops, Running
  <2> QED BY <1>5, <2>1
<1>7. CASE Loaded
  <2>1. phase' = "loaded" /\ UNCHANGED <<held, opens>> /\ phase = "loading"
    BY <1>7 DEF Loaded
  <2>2. step - 1 = FullLength(T)
    BY <1>2, <1>7 DEF Loaded
  <2>3. All \subseteq held
    BY <2>1, <2>2 DEF Holdings
  <2>4. Full'
    BY <1>4, <2>1, <2>3
  <2> QED BY <1>5, <2>1, <2>4
<1>8. CASE Fail
  <2>1. phase' = "unwinding" /\ opens' = opens
    BY <1>8 DEF Fail
  <2>2. Ending'
    BY <1>8, ZeroFails
  <2> QED BY <1>5, <2>1, <2>2
<1>9. ~FallThrough
  <2>1. \A i \in 1..FullLength(T) : T.init[i].mode # "falls"
    BY DEF Serves, LoadsOrShuts
  <2> QED BY <1>2, <2>1 DEF FallThrough, Current
<1>10. CASE Unwound
  <2>1. /\ phase = "unwinding" /\ todo = <<>> /\ UNCHANGED <<held, opens, careless>>
        /\ phase' = IF result = "error" THEN "failed" ELSE "loaded"
    BY <1>10 DEF Unwound
  <2>2. Range(todo) = {}
    BY <2>1 DEF Range
  <2>3. phase' = "loaded" => Shut
    <3>1. ASSUME phase' = "loaded" PROVE Shut
      <4>1. result = "zero"
        BY <2>1, <3>1 DEF TypeOK
      <4> QED BY <1>5, <2>1, <2>2, <4>1 DEF Closing, Shut
    <3> QED BY <3>1
  <2>4. Shut' = Shut
    BY <2>1 DEF Shut
  <2>5. Full'
    BY <2>3, <2>4
  <2> QED BY <1>5, <2>1, <2>5
<1>11. CASE Release
  <2>1. /\ phase' = phase /\ phase \in {"unwinding", "exiting"} /\ opens' = opens
        /\ held' = held \ {Head(todo)} /\ todo' = Tail(todo) /\ todo # <<>>
        /\ result' = result /\ careless' = careless
    BY <1>11 DEF Release
  <2>2. CASE phase = "exiting"
    <3>1. /\ Released(todo') = Released(todo) \cup {Head(todo)}
          /\ Len(todo') <= Len(T.exit)
          /\ \A i \in 1..Len(todo') : todo'[i] = T.exit[Len(T.exit) - Len(todo') + i]
      BY <1>2, <1>5, <2>1, <2>2, ReleasedStep
    <3>2. held' \cap Released(todo') = {}
      BY <1>5, <2>1, <2>2, <3>1
    <3>3. Shut => Shut'
      BY <2>1 DEF Shut
    <3>4. Behind'
      BY <1>3, <1>4, <1>5, <2>1, <2>2, <3>1, <3>3
    <3> QED BY <1>5, <2>1, <2>2, <3>1, <3>2, <3>4
  <2>3. CASE phase = "unwinding"
    <3>1. Range(todo) \subseteq Range(todo') \cup {Head(todo)}
      BY <2>1, TailRange DEF TypeOK
    <3>2. Closing => Closing'
      BY <1>1, <2>1, <3>1 DEF Closing
    <3> QED BY <1>5, <2>1, <2>3, <3>2
  <2> QED BY <2>1, <2>2, <2>3
<1>12. CASE Unload
  <2>1. /\ phase = "loaded" /\ phase' = "exiting" /\ opens' = opens /\ held' = held
        /\ todo' = T.exit /\ (T.pins => opens = 0) /\ careless' = careless
    BY <1>12 DEF Unload
  <2>2. Released(T.exit) = {}
    BY <1>2 DEF Released
  <2>3. \A i \in 1..Len(T.exit) : Len(T.exit) - Len(T.exit) + i = i
    BY <1>2
  <2>4. Exiting("exiting", held, T.exit)
    BY <1>2, <2>2, <2>3
  <2>5. T.text => opens = 0
    BY <1>2, <1>5, <2>1 DEF Serves
  <2>6. Shut' = Shut
    BY <2>1 DEF Shut
  <2>7. Behind'
    BY <1>4, <1>5, <2>1, <2>6
  <2> QED BY <1>5, <2>1, <2>4, <2>5, <2>7
<1>13. CASE Gone
  <2>1. phase = "exiting" /\ phase' = "gone" /\ todo = <<>>
        /\ UNCHANGED <<held, todo, opens, careless>>
    BY <1>13 DEF Gone
  <2>2. Shut' = Shut
    BY <2>1 DEF Shut
  <2>3. Behind'
    BY <1>3, <1>4, <1>5, <2>1, <2>2
  <2> QED BY <1>5, <2>1, <2>3
<1>14. CASE Open \/ Call \/ Close \/ Interrupt
  <2>1. UNCHANGED <<phase, held, todo, result>>
    BY <1>14 DEF Open, Call, Close, Interrupt
  <2>2. (Shut => Shut') /\ (Closing => Closing')
    BY <1>14, ShutStep
  <2>3. Ending' /\ Full' /\ Behind'
    BY <1>3, <1>4, <1>5, <2>1, <2>2
  <2>4. opens' > 0 => Doors(T, FileDoors) # {}
    <3>1. Open => Doors(T, FileDoors) # {}
      BY DEF Open, Doors, Holdings
    <3>2. ~Open /\ opens' > 0 => opens > 0
      BY <1>2, <1>14 DEF Call, Close, Interrupt
    <3> QED BY <1>5, <3>1, <3>2
  <2>5. T.text /\ phase' \in {"exiting", "gone"} => opens' = 0
    <3>1. ASSUME T.text, phase \in {"exiting", "gone"} PROVE opens' = 0
      <4>1. opens = 0
        BY <1>5, <3>1
      <4>2. ~Open
        <5>1. phase = "gone" => held \cap FileDoors = {}
          BY <3>1, DoorsClosed
        <5> QED BY <3>1, <5>1 DEF Open
      <4> QED BY <1>14, <4>1, <4>2 DEF Call, Close, Interrupt
    <3> QED BY <2>1, <3>1
  <2> QED BY <1>5, <2>1, <2>3, <2>4, <2>5
<1> QED BY <1>6, <1>7, <1>8, <1>9, <1>10, <1>11, <1>12, <1>13, <1>14 DEF Next

\* The audit's invariant: what the tables are said to do is what happens.
THEOREM Audited == Spec => []Passing
<1>1. Init => Passing
  <2> SUFFICES ASSUME Init PROVE Passing
    OBVIOUS
  <2>1. Holdings
    BY DEF Init, Holdings, Certain
  <2> QED BY <2>1 DEF Init, Passing, Failing, Leaving, Truthful, Owning, Serving,
                      Early, Sheltered
<1>2. ASSUME TypeOK, Passing, Next PROVE Passing'
  BY <1>2, HoldingsStep, ListsStep, TruthfulStep, OwningStep, ServingStep,
     EarlyStep, ShelteredStep DEF Passing
<1>3. ASSUME Passing, UNCHANGED vars PROVE Passing'
  <2>1. T' = T
    BY <1>3 DEF T, vars
  <2>2. \A r : Released(r)' = Released(r)
    BY <2>1 DEF Released
  <2>3. /\ UNCHANGED <<phase, step, held, todo, result, opens, stray, careless>>
        /\ FullLength(T)' = FullLength(T)
    BY <1>3, <2>1 DEF vars
  <2>4. Holdings'
    BY <1>3, <2>1, <2>3 DEF Passing, Holdings
  <2>5. Failing' /\ Leaving' /\ Truthful' /\ Owning'
    BY <1>3, <2>1, <2>3 DEF Passing, Failing, Leaving, Truthful, Owning
  <2>6. Serving'
    BY <1>3, <2>1, <2>2, <2>3 DEF Passing, Serving, Shut, Closing
  <2>7. Early' /\ Sheltered'
    BY <1>3, <2>1, <2>3 DEF Passing, Early, Sheltered
  <2> QED BY <2>4, <2>5, <2>6, <2>7 DEF Passing
<1> QED BY <1>1, <1>2, <1>3, TypeCorrect, PTL DEF Spec

\* Every driver whose error paths and whose exit name everything that was
\* acquired leaves nothing behind, whatever fails: the drivers that do are among
\* those that the audit names.
THEOREM CleanAudit == Spec => []NothingLeftBehind
<1>1. ASSUME TypeOK, Passing PROVE NothingLeftBehind
  <2>1. /\ drv \notin LeaksOnFailure => CleansUp(T)
        /\ drv \notin LeaksOnExit => CleansAway(T)
    BY <1>1, AuditAssumption DEF TypeOK, T
  <2> QED BY <1>1, <2>1 DEF Passing, Failing, Leaving, NothingLeftBehind
<1> QED BY <1>1, Audited, TypeCorrect, PTL

\* Every driver that looks at its errors, reports them, and lists nothing twice
\* releases only what it holds.
THEOREM OwnAudit == Spec => []ReleasesItsOwn
<1>1. ASSUME TypeOK, Passing PROVE ReleasesItsOwn
  <2>1. drv \notin ReportsSuccess \cup Unchecked \cup DeregistersTwice => Owns(T)
    BY <1>1, AuditAssumption DEF TypeOK, T
  <2> QED BY <1>1, <2>1 DEF Passing, Owning, ReleasesItsOwn
<1> QED BY <1>1, Audited, TypeCorrect, PTL

\* Behind an open door of a driver that is loaded, or leaving, everything is there.
LEMMA Service ==
  ASSUME TypeOK, Passing, Serves(T), ~careless,
         Open \/ Call \/ Close \/ Interrupt,
         phase \in {"loaded", "exiting", "gone"}
  PROVE  ~careless'
<1>1. /\ FullLength(T) \in Nat /\ T.exit \in Seq(Resources) /\ todo \in Seq(Resources)
      /\ opens \in Nat
  BY Indices, TableTypes, BoundAssumption DEF TypeOK
<1>0. ~Shut
  <2>1. Shut => opens = 0 /\ held \cap (FileDoors \cup IrqDoors) = {}
    BY <1>1 DEF Shut
  <2>2. opens > 0 \/ held \cap (FileDoors \cup IrqDoors) # {}
    BY DEF Open, Call, Close, Interrupt
  <2> QED BY <2>1, <2>2
<1>2. phase = "loaded" => Certain(T, FullLength(T)) \subseteq held
  BY <1>0 DEF Passing, Serving
<1>3. phase # "loaded" => /\ Len(todo) <= Len(T.exit)
                          /\ held \cap Released(todo) = {}
                          /\ Certain(T, FullLength(T)) \ Released(todo) \subseteq held
  BY <1>0 DEF Passing, Serving
<1>4. held \subseteq Possible(T, FullLength(T))
  BY DEF Passing, Holdings
<1>5. CASE Open \/ Call \/ Close
  <2>1. Doors(T, FileDoors) # {}
    BY <1>4, <1>5 DEF Open, Call, Close, Doors, Passing, Serving
  <2>2. /\ T.files \subseteq Certain(T, FullLength(T))
        /\ IF T.text THEN T.pins ELSE T.files \cap Range(T.exit) = {}
    BY <2>1 DEF Serves
  <2>3. T.text => phase = "loaded"
    <3>1. ASSUME T.text, phase # "loaded" PROVE FALSE
      <4>1. opens = 0
        BY <3>1 DEF Passing, Serving
      <4>2. Open
        BY <1>5, <4>1 DEF Call, Close
      <4>3. phase = "gone" /\ held \cap FileDoors # {}
        BY <3>1, <4>2 DEF Open
      <4> QED BY <3>1, <4>3, DoorsClosed DEF Passing
    <3> QED BY <3>1
  <2>4. phase # "loaded" => Released(todo) \subseteq Range(T.exit)
    BY <1>1, <1>3 DEF Released, Range
  <2>5. T.files \subseteq held
    BY <1>2, <1>3, <2>2, <2>3, <2>4
  <2>6. Handle(T.files)
    BY <1>5 DEF Open, Call, Close
  <2> QED BY <2>3, <2>5, <2>6 DEF Handle, TextGone
<1>6. CASE Interrupt
  <2>1. PICK x \in held : x \in IrqDoors
    BY <1>6 DEF Interrupt
  <2>2. x \in Doors(T, IrqDoors)
    BY <1>4, <2>1 DEF Doors
  <2>3. /\ T.irqs \subseteq Certain(T, FullLength(T))
        /\ \A j \in 1..Len(T.exit) : T.exit[j] \in T.irqs =>
             Doors(T, IrqDoors) \subseteq {T.exit[i] : i \in 1..j - 1}
    BY <2>2 DEF Serves
  <2>4. phase # "loaded" => T.irqs \cap Released(todo) = {}
    <3>1. ASSUME phase # "loaded", NEW j \in 1..Len(T.exit) - Len(todo), T.exit[j] \in T.irqs
          PROVE  FALSE
      <4>1. j \in 1..Len(T.exit) /\ 1..j - 1 \subseteq 1..Len(T.exit) - Len(todo)
        BY <1>1, <1>3, <3>1
      <4>2. x \in Released(todo)
        BY <2>2, <2>3, <3>1, <4>1 DEF Released
      <4> QED BY <1>3, <2>1, <3>1, <4>2
    <3> QED BY <3>1 DEF Released
  <2>5. T.irqs \subseteq held
    BY <1>2, <1>3, <2>3, <2>4
  <2>6. ~TextGone
    BY <2>1, DoorsClosed DEF TextGone, Passing
  <2> QED BY <1>6, <2>5, <2>6 DEF Interrupt, Handle
<1> QED BY <1>5, <1>6

\* While init runs, everything is there behind the door of a driver that opens
\* it last.
LEMMA ReadyService ==
  ASSUME TypeOK, Passing, OpensReady(T), ~careless, phase = "loading",
         Open \/ Call \/ Close \/ Interrupt
  PROVE  ~careless'
<1>1. FullLength(T) \in Nat /\ step \in 1..FullLength(T) + 1
  BY Indices DEF Passing
<1>2. held \subseteq Possible(T, step - 1) /\ Certain(T, step - 1) \subseteq held
  BY DEF Passing, Holdings
<1>3. ASSUME NEW i \in 1..step - 1
      PROVE  /\ i \in 1..FullLength(T)
             /\ Certain(T, i - 1) \subseteq held
  BY <1>1, <1>2 DEF Certain
<1>4. ~TextGone
  BY DEF TextGone
<1>5. CASE Open \/ Call \/ Close
  <2>1. held \cap FileDoors # {}
    BY <1>5 DEF Open, Call, Close, Passing, Early
  <2>2. PICK i \in 1..step - 1 : T.init[i].acq \in FileDoors
    BY <1>2, <2>1 DEF Possible
  <2>3. T.files \subseteq held
    BY <1>3, <2>2 DEF OpensReady
  <2> QED BY <1>4, <1>5, <2>3 DEF Open, Call, Close, Handle
<1>6. CASE Interrupt
  <2>1. held \cap IrqDoors # {}
    BY <1>6 DEF Interrupt
  <2>2. PICK i \in 1..step - 1 : T.init[i].acq \in IrqDoors
    BY <1>2, <2>1 DEF Possible
  <2>3. T.irqs \subseteq held
    BY <1>3, <2>2 DEF OpensReady
  <2> QED BY <1>4, <1>6, <2>3 DEF Interrupt, Handle
<1> QED BY <1>5, <1>6

\* A handler can miss something for the first time only in the phases, and in
\* the drivers, that the audit names: too early, in an error path, under an open
\* file; and init only what it did not look at.
THEOREM ServiceAudit == Spec => MissingTells
<1> DEFINE A == careless' /\ ~careless =>
                  drv \in CASE phase' = "crashed" -> UsesUnseen
                           [] phase' = "loading" -> OpensEarly
                           [] phase' \in {"unwinding", "failed"} -> FailsOpen
                           [] OTHER -> RevokedUnderOpenFiles
<1>1. ASSUME TypeOK, Passing, [Next]_vars PROVE [A]_vars
  <2> SUFFICES ASSUME careless', ~careless, Next
               PROVE  drv \in CASE phase' = "crashed" -> UsesUnseen
                               [] phase' = "loading" -> OpensEarly
                               [] phase' \in {"unwinding", "failed"} -> FailsOpen
                               [] OTHER -> RevokedUnderOpenFiles
    BY <1>1
  <2>1. Oops \/ Open \/ Call \/ Close \/ Interrupt
    BY DEF Next, Acquire, Fail, FallThrough, Miss, Loaded, Release, Unwound,
           Unload, Gone, Running
  <2>2. CASE Oops
    <3>1. phase' = "crashed" /\ Running /\ Current.mode = "blind"
      BY <2>2 DEF Oops
    <3>2. ~Looks(T)
      <4>1. step \in 1..FullLength(T)
        BY <1>1, <3>1, Indices
      <4>2. T.init[step].mode = "blind"
        BY <3>1 DEF Current
      <4> QED BY <4>1, <4>2 DEF Looks
    <3>3. drv \in UsesUnseen
      BY <1>1, <3>2, AuditAssumption DEF TypeOK, T
    <3> QED BY <3>1, <3>3
  <2>3. CASE Open \/ Call \/ Close \/ Interrupt
    <3>1. phase' = phase
      BY <2>3 DEF Open, Call, Close, Interrupt
    <3>2. phase # "crashed"
      BY <1>1 DEF Passing, Holdings
    <3>3. ~TouchesNothing(T)
      <4>1. ASSUME TouchesNothing(T) PROVE FALSE
        <5>1. T.files \subseteq held /\ T.irqs \subseteq held /\ ~TextGone
          BY <4>1 DEF TouchesNothing, TextGone
        <5> QED BY <2>3, <5>1 DEF Open, Call, Close, Interrupt, Handle
      <4> QED BY <4>1
    <3>4. CASE phase = "loading"
      <4>1. ~OpensReady(T)
        BY <1>1, <2>3, <3>4, ReadyService
      <4>2. drv \in OpensEarly
        BY <1>1, <3>3, <4>1, AuditAssumption DEF TypeOK, T
      <4> QED BY <3>1, <3>4, <4>2
    <3>5. CASE phase \in {"unwinding", "failed"}
      <4>1. ~FailsClosed(T)
        <5>1. held \cap (FileDoors \cup IrqDoors) # {} \/ opens > 0
          BY <2>3 DEF Open, Call, Close, Interrupt
        <5>2. opens \in Nat
          BY <1>1, BoundAssumption DEF TypeOK
        <5> QED BY <1>1, <3>5, <5>1, <5>2 DEF Passing, Sheltered
      <4>2. drv \in FailsOpen
        BY <1>1, <3>3, <4>1, AuditAssumption DEF TypeOK, T
      <4> QED BY <3>1, <3>5, <4>2
    <3>6. CASE phase \notin {"loading", "unwinding", "failed"}
      <4>1. phase \in {"loaded", "exiting", "gone"}
        BY <1>1, <3>2, <3>6 DEF TypeOK
      <4>2. ~Serves(T)
        BY <1>1, <2>3, <4>1, Service
      <4>3. drv \in RevokedUnderOpenFiles
        BY <1>1, <3>3, <4>2, AuditAssumption DEF TypeOK, T
      <4> QED BY <3>1, <4>1, <4>3
    <3> QED BY <3>4, <3>5, <3>6
  <2> QED BY <2>1, <2>2, <2>3
<1> QED BY <1>1, Audited, TypeCorrect, PTL DEF Spec, MissingTells
-----------------------------------------------------------------------------
(***************************************************************************)
(* What exit leaves to run later: DeferredWork, for every set of kinds.    *)
(***************************************************************************)
\* Nothing is scheduled before it can be: an uninitialised work only by an
\* early key, a timer only once it is armed.
BeforeReady == ~ready => /\ pending \/ running # "no" => early
                         /\ stage \in {"loading", "gone"}

\* Without its interrupt a driver other than a timer has scheduled nothing.
BeforeIrq == kind # "timer" /\ stage = "loading" /\ ~irq
               => ~pending /\ running = "no"

\* What is there after exit was there at exit; the interrupt is gone by then.
AfterExit == stage \in {"removed", "gone"} =>
               /\ ~irq
               /\ pending \/ running # "no" => caught \/ early

\* While the module loads or is loaded, its timer is armed or about to be.
Armed == kind = "timer" /\ ready /\ stage \in {"loading", "loaded"}
           => pending \/ running = "body"

\* A timer has no interrupt, and only the kinds with one have an early key.
Roles == /\ kind = "timer" => ~irq /\ ~early
         /\ oops => caught \/ early

LaterInv == DWTypeOK /\ BeforeReady /\ BeforeIrq /\ AfterExit /\ Armed /\ Roles

\* Every step keeps it; irq covers a running handler because free_irq()
\* waits for it.
LEMMA LaterStep == ASSUME LaterInv, [DWNext]_dwVars PROVE LaterInv'
<1> USE DEF LaterInv, DWTypeOK, BeforeReady, BeforeIrq, AfterExit, Armed, Roles
<1>1. CASE InitWork
  BY <1>1 DEF InitWork
<1>2. CASE RequestIrq
  BY <1>2 DEF RequestIrq
<1>3. CASE RequestFails
  BY <1>3 DEF RequestFails
<1>4. CASE AddTimer
  BY <1>4 DEF AddTimer
<1>5. CASE LoadEnds
  BY <1>5 DEF LoadEnds
<1>6. CASE KeyPress
  BY <1>6 DEF KeyPress
<1>7. CASE Schedule
  BY <1>7 DEF Schedule
<1>8. CASE ~oops /\ FreeIrq
  <2>1. DWTypeOK'
    BY <1>8 DEF FreeIrq
  <2>2. BeforeReady'
    BY <1>8 DEF FreeIrq
  <2>3. BeforeIrq'
    BY <1>8 DEF FreeIrq
  <2>4. AfterExit'
    BY <1>8 DEF FreeIrq
  <2>5. Armed'
    BY <1>8 DEF FreeIrq
  <2>6. Roles'
    BY <1>8 DEF FreeIrq
  <2> QED BY <2>1, <2>2, <2>3, <2>4, <2>5, <2>6
<1>9. CASE ~oops /\ DelTimer
  <2>1. DWTypeOK'
    BY <1>9 DEF DelTimer
  <2>2. BeforeReady'
    BY <1>9 DEF DelTimer
  <2>3. BeforeIrq'
    BY <1>9 DEF DelTimer
  <2>4. AfterExit'
    BY <1>9 DEF DelTimer
  <2>5. Armed'
    BY <1>9 DEF DelTimer
  <2>6. Roles'
    BY <1>9 DEF DelTimer
  <2> QED BY <2>1, <2>2, <2>3, <2>4, <2>5, <2>6
<1>10. CASE GiveBack
  BY <1>10 DEF GiveBack
<1>11. CASE Start
  BY <1>11 DEF Start
<1>12. CASE Rearm
  BY <1>12 DEF Rearm
<1>13. CASE Finish
  BY <1>13 DEF Finish
<1>14. CASE UNCHANGED dwVars
  BY <1>14 DEF dwVars
<1> QED
  BY <1>1, <1>2, <1>3, <1>4, <1>5, <1>6, <1>7, <1>8, <1>9, <1>10, <1>11, <1>12, <1>13, <1>14
     DEF DWNext, Load, Removal, Deferred

\* The inductive invariant of a driver with a work, a tasklet or a timer.
THEOREM LaterInvariance == DWSpec => []LaterInv
<1>1. DWInit => LaterInv
  BY DEF DWInit, LaterInv, DWTypeOK, BeforeReady, BeforeIrq, AfterExit, Armed, Roles
<1> QED BY <1>1, LaterStep, PTL DEF DWSpec

\* Types of the kinds of drivers that defer work, for any set of kinds.
THEOREM LaterTypes == DWSpec => []DWTypeOK
<1>1. LaterInv => DWTypeOK
  BY DEF LaterInv
<1> QED BY <1>1, LaterInvariance, PTL

\* What outlives exit, or goes wrong at all, was found by exit scheduled or
\* running, or came of a key before INIT_WORK().
THEOREM Survivors == DWSpec => []OnlyTheCaughtSurvive
<1>1. LaterInv => OnlyTheCaughtSurvive
  BY DEF LaterInv, DWTypeOK, AfterExit, Roles, OnlyTheCaughtSurvive
<1> QED BY <1>1, LaterInvariance, PTL

\* The self re-arming timer of a loaded module never stops.
THEOREM TimerChain == DWSpec => []ChainUnbroken
<1>1. LaterInv => ChainUnbroken
  BY DEF LaterInv, BeforeReady, Armed, ChainUnbroken
<1> QED BY <1>1, LaterInvariance, PTL
=============================================================================
