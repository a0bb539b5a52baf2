--------------------------- MODULE WaitqueueIOProofs --------------------------
(***************************************************************************)
(* Proofs about WaitqueueIO for every set of readers, writers and pollers, *)
(* every capacity and every choice of sizes.  TypeOK, NoLostWakeup and     *)
(* UnitsFollowData are inductive one after the other; NoReaderStuck needs  *)
(* in addition that nobody queues for the semaphore while it has a unit.   *)
(***************************************************************************)
EXTENDS WaitqueueIO, FiniteSetTheorems, TLAPS

\* Nobody waits for a unit that is there.
WaitersMeanNoUnit == SemWaiters # {} => sem = 0

IInv == TypeOK /\ NoLostWakeup /\ UnitsFollowData /\ WaitersMeanNoUnit

\* The initial state satisfies the inductive invariant.
LEMMA InitIInv == Init => IInv
<1> SUFFICES ASSUME Init PROVE IInv OBVIOUS
<1>1. TypeOK
  <2>1. 0 \in 0..KMax /\ 0 \in 0..MaxWrites
    BY ParameterAssumption
  <2>2. \A p \in Processes : pc[p] = "idle"
    BY DEF Init
  <2> QED BY <2>1, <2>2 DEF Init, TypeOK, Processes
<1>2. NoLostWakeup
  BY DEF Init, NoLostWakeup
<1>3. UnitsFollowData
  <2>1. Consuming = {} /\ Posting = {}
    BY DEF Init, Consuming, Posting, Processes
  <2> QED BY <2>1, FS_EmptySet DEF Init, UnitsFollowData
<1>4. WaitersMeanNoUnit
  BY DEF Init, WaitersMeanNoUnit
<1> QED BY <1>1, <1>2, <1>3, <1>4 DEF IInv

\* Every step keeps the types, the bounds of counter, kbuf and len included.
LEMMA TypeStep == TypeOK /\ [Next]_vars => TypeOK'
<1> SUFFICES ASSUME TypeOK, [Next]_vars PROVE TypeOK' OBVIOUS
<1> USE ProcessAssumption, ParameterAssumption
    DEF TypeOK, Processes, Waiting, Reading, Writing
<1>1. ASSUME NEW r \in Readers, ReadSees(r) PROVE TypeOK'
  BY <1>1 DEF ReadSees, Step
<1>2. ASSUME NEW r \in Readers, ReadWaits(r) PROVE TypeOK'
  BY <1>2 DEF ReadWaits, Step
<1>3. ASSUME NEW r \in Readers, Down(r) PROVE TypeOK'
  BY <1>3 DEF Down, Step
<1>4. ASSUME NEW r \in Readers, DownSleeps(r) PROVE TypeOK'
  BY <1>4 DEF DownSleeps, Step
<1>5. ASSUME NEW r \in Readers, Clamp(r) PROVE TypeOK'
  BY <1>5 DEF Clamp, Step
<1>6. ASSUME NEW r \in Readers, CopyOut(r) PROVE TypeOK'
  BY <1>6 DEF CopyOut, Step
<1>7. ASSUME NEW r \in Readers, Reset(r) PROVE TypeOK'
  BY <1>7 DEF Reset, Step
<1>8. ASSUME NEW r \in Readers, DownInterrupted(r) PROVE TypeOK'
  BY <1>8 DEF DownInterrupted, Step
<1>9. ASSUME NEW r \in Readers, CopyOutFault(r) PROVE TypeOK'
  BY <1>9 DEF CopyOutFault, Step
<1>10. ASSUME NEW p \in Pollers, PollStarts(p) PROVE TypeOK'
  BY <1>10 DEF PollStarts, Step
<1>11. ASSUME NEW p \in Readers \cup Pollers, Enqueue(p) PROVE TypeOK'
  BY <1>11 DEF Enqueue, Step
<1>12. ASSUME NEW p \in Readers \cup Pollers, Leave(p) PROVE TypeOK'
  BY <1>12 DEF Leave, Step
<1>13. ASSUME NEW p \in Readers \cup Pollers, Sleep(p) PROVE TypeOK'
  BY <1>13 DEF Sleep, Step
<1>14. ASSUME NEW p \in Readers \cup Pollers, Woken(p) PROVE TypeOK'
  BY <1>14 DEF Woken, Step
<1>15. ASSUME NEW p \in Readers \cup Pollers, Signalled(p) PROVE TypeOK'
  BY <1>15 DEF Signalled, Step
<1>16. ASSUME NEW p \in Readers \cup Pollers, GiveUp(p) PROVE TypeOK'
  BY <1>16 DEF GiveUp, Step
<1>17. ASSUME NEW w \in Writers, WriteStarts(w) PROVE TypeOK'
  BY <1>17 DEF WriteStarts, Step
<1>18. ASSUME NEW w \in Writers, CopyIn(w) PROVE TypeOK'
  BY <1>18 DEF CopyIn, Step
<1>19. ASSUME NEW w \in Writers, Count(w) PROVE TypeOK'
  BY <1>19 DEF Count, Step
<1>20. ASSUME NEW w \in Writers, Up(w) PROVE TypeOK'
  BY <1>20 DEF Up, SemWaiters
<1>21. ASSUME NEW w \in Writers, WakeUp(w) PROVE TypeOK'
  BY <1>21 DEF WakeUp, Step
<1>22. ASSUME NEW w \in Writers, CopyInFault(w) PROVE TypeOK'
  BY <1>22 DEF CopyInFault, Step
<1>23. CASE UNCHANGED vars
  BY <1>23 DEF vars
<1> QED BY <1>1, <1>2, <1>3, <1>4, <1>5, <1>6, <1>7, <1>8, <1>9, <1>10,
           <1>11, <1>12, <1>13, <1>14, <1>15, <1>16, <1>17, <1>18,
           <1>19, <1>20, <1>21, <1>22, <1>23
       DEF Next, Read, Wait, Interrupt, Write

\* Every step keeps sleepers and wake-ups together.
LEMMA WakeupStep == TypeOK /\ NoLostWakeup /\ [Next]_vars => NoLostWakeup'
<1> SUFFICES ASSUME TypeOK, NoLostWakeup, [Next]_vars PROVE NoLostWakeup' OBVIOUS
<1> USE ProcessAssumption DEF TypeOK, NoLostWakeup, Processes, Waking
<1>1. ASSUME NEW r \in Readers, ReadSees(r) PROVE NoLostWakeup'
  BY <1>1 DEF ReadSees, Step
<1>2. ASSUME NEW r \in Readers, ReadWaits(r) PROVE NoLostWakeup'
  BY <1>2 DEF ReadWaits, Step
<1>3. ASSUME NEW r \in Readers, Down(r) PROVE NoLostWakeup'
  BY <1>3 DEF Down, Step
<1>4. ASSUME NEW r \in Readers, DownSleeps(r) PROVE NoLostWakeup'
  BY <1>4 DEF DownSleeps, Step
<1>5. ASSUME NEW r \in Readers, Clamp(r) PROVE NoLostWakeup'
  BY <1>5 DEF Clamp, Step
<1>6. ASSUME NEW r \in Readers, CopyOut(r) PROVE NoLostWakeup'
  BY <1>6 DEF CopyOut, Step
<1>7. ASSUME NEW r \in Readers, Reset(r) PROVE NoLostWakeup'
  BY <1>7 DEF Reset, Step
<1>8. ASSUME NEW r \in Readers, DownInterrupted(r) PROVE NoLostWakeup'
  BY <1>8 DEF DownInterrupted, Step
<1>9. ASSUME NEW r \in Readers, CopyOutFault(r) PROVE NoLostWakeup'
  BY <1>9 DEF CopyOutFault, Step
<1>10. ASSUME NEW p \in Pollers, PollStarts(p) PROVE NoLostWakeup'
  BY <1>10 DEF PollStarts, Step
<1>11. ASSUME NEW p \in Readers \cup Pollers, Enqueue(p) PROVE NoLostWakeup'
  BY <1>11 DEF Enqueue, Step
<1>12. ASSUME NEW p \in Readers \cup Pollers, Leave(p) PROVE NoLostWakeup'
  BY <1>12 DEF Leave, Step
<1>13. ASSUME NEW p \in Readers \cup Pollers, Sleep(p) PROVE NoLostWakeup'
  BY <1>13 DEF Sleep, Step
<1>14. ASSUME NEW p \in Readers \cup Pollers, Woken(p) PROVE NoLostWakeup'
  BY <1>14 DEF Woken, Step
<1>15. ASSUME NEW p \in Readers \cup Pollers, Signalled(p) PROVE NoLostWakeup'
  BY <1>15 DEF Signalled, Step
<1>16. ASSUME NEW p \in Readers \cup Pollers, GiveUp(p) PROVE NoLostWakeup'
  BY <1>16 DEF GiveUp, Step
<1>17. ASSUME NEW w \in Writers, WriteStarts(w) PROVE NoLostWakeup'
  BY <1>17 DEF WriteStarts, Step
<1>18. ASSUME NEW w \in Writers, CopyIn(w) PROVE NoLostWakeup'
  BY <1>18 DEF CopyIn, Step
<1>19. ASSUME NEW w \in Writers, Count(w) PROVE NoLostWakeup'
  BY <1>19 DEF Count, Step
<1>20. ASSUME NEW w \in Writers, Up(w) PROVE NoLostWakeup'
  BY <1>20 DEF Up, SemWaiters
<1>21. ASSUME NEW w \in Writers, WakeUp(w) PROVE NoLostWakeup'
  BY <1>21 DEF WakeUp, Step
<1>22. ASSUME NEW w \in Writers, CopyInFault(w) PROVE NoLostWakeup'
  BY <1>22 DEF CopyInFault, Step
<1>23. CASE UNCHANGED vars
  BY <1>23 DEF vars
<1> QED BY <1>1, <1>2, <1>3, <1>4, <1>5, <1>6, <1>7, <1>8, <1>9, <1>10,
           <1>11, <1>12, <1>13, <1>14, <1>15, <1>16, <1>17, <1>18,
           <1>19, <1>20, <1>21, <1>22, <1>23
       DEF Next, Read, Wait, Interrupt, Write

\* Every step keeps waiters away from a free unit.
LEMMA WaitersStep ==
  TypeOK /\ WaitersMeanNoUnit /\ [Next]_vars => WaitersMeanNoUnit'
<1> SUFFICES ASSUME TypeOK, WaitersMeanNoUnit, [Next]_vars
    PROVE WaitersMeanNoUnit' OBVIOUS
<1> USE ProcessAssumption DEF TypeOK, WaitersMeanNoUnit, Processes, SemWaiters
<1>1. ASSUME NEW r \in Readers, ReadSees(r) PROVE WaitersMeanNoUnit'
  BY <1>1 DEF ReadSees, Step
<1>2. ASSUME NEW r \in Readers, ReadWaits(r) PROVE WaitersMeanNoUnit'
  BY <1>2 DEF ReadWaits, Step
<1>3. ASSUME NEW r \in Readers, Down(r) PROVE WaitersMeanNoUnit'
  BY <1>3 DEF Down, Step
<1>4. ASSUME NEW r \in Readers, DownSleeps(r) PROVE WaitersMeanNoUnit'
  BY <1>4 DEF DownSleeps, Step
<1>5. ASSUME NEW r \in Readers, Clamp(r) PROVE WaitersMeanNoUnit'
  BY <1>5 DEF Clamp, Step
<1>6. ASSUME NEW r \in Readers, CopyOut(r) PROVE WaitersMeanNoUnit'
  BY <1>6 DEF CopyOut, Step
<1>7. ASSUME NEW r \in Readers, Reset(r) PROVE WaitersMeanNoUnit'
  BY <1>7 DEF Reset, Step
<1>8. ASSUME NEW r \in Readers, DownInterrupted(r) PROVE WaitersMeanNoUnit'
  BY <1>8 DEF DownInterrupted, Step
<1>9. ASSUME NEW r \in Readers, CopyOutFault(r) PROVE WaitersMeanNoUnit'
  BY <1>9 DEF CopyOutFault, Step
<1>10. ASSUME NEW p \in Pollers, PollStarts(p) PROVE WaitersMeanNoUnit'
  BY <1>10 DEF PollStarts, Step
<1>11. ASSUME NEW p \in Readers \cup Pollers, Enqueue(p) PROVE WaitersMeanNoUnit'
  BY <1>11 DEF Enqueue, Step
<1>12. ASSUME NEW p \in Readers \cup Pollers, Leave(p) PROVE WaitersMeanNoUnit'
  BY <1>12 DEF Leave, Step
<1>13. ASSUME NEW p \in Readers \cup Pollers, Sleep(p) PROVE WaitersMeanNoUnit'
  BY <1>13 DEF Sleep, Step
<1>14. ASSUME NEW p \in Readers \cup Pollers, Woken(p) PROVE WaitersMeanNoUnit'
  BY <1>14 DEF Woken, Step
<1>15. ASSUME NEW p \in Readers \cup Pollers, Signalled(p) PROVE WaitersMeanNoUnit'
  BY <1>15 DEF Signalled, Step
<1>16. ASSUME NEW p \in Readers \cup Pollers, GiveUp(p) PROVE WaitersMeanNoUnit'
  BY <1>16 DEF GiveUp, Step
<1>17. ASSUME NEW w \in Writers, WriteStarts(w) PROVE WaitersMeanNoUnit'
  BY <1>17 DEF WriteStarts, Step
<1>18. ASSUME NEW w \in Writers, CopyIn(w) PROVE WaitersMeanNoUnit'
  BY <1>18 DEF CopyIn, Step
<1>19. ASSUME NEW w \in Writers, Count(w) PROVE WaitersMeanNoUnit'
  BY <1>19 DEF Count, Step
<1>20. ASSUME NEW w \in Writers, Up(w) PROVE WaitersMeanNoUnit'
  BY <1>20 DEF Up
<1>21. ASSUME NEW w \in Writers, WakeUp(w) PROVE WaitersMeanNoUnit'
  BY <1>21 DEF WakeUp, Step
<1>22. ASSUME NEW w \in Writers, CopyInFault(w) PROVE WaitersMeanNoUnit'
  BY <1>22 DEF CopyInFault, Step
<1>23. CASE UNCHANGED vars
  BY <1>23 DEF vars
<1> QED BY <1>1, <1>2, <1>3, <1>4, <1>5, <1>6, <1>7, <1>8, <1>9, <1>10,
           <1>11, <1>12, <1>13, <1>14, <1>15, <1>16, <1>17, <1>18,
           <1>19, <1>20, <1>21, <1>22, <1>23
       DEF Next, Read, Wait, Interrupt, Write

\* The two sets that UnitsFollowData counts are finite.
LEMMA Finite ==
  /\ IsFiniteSet(Consuming) /\ IsFiniteSet(Posting)
  /\ Cardinality(Consuming) \in Nat /\ Cardinality(Posting) \in Nat
<1>1. IsFiniteSet(Consuming) /\ IsFiniteSet(Posting)
  <2>1. Consuming \subseteq Readers /\ Posting \subseteq Writers
    BY DEF Consuming, Posting
  <2> QED BY <2>1, ProcessAssumption, FS_Subset
<1> QED BY <1>1, FS_CardinalityType

\* Every step keeps the units and the data together.
LEMMA UnitsStep == TypeOK /\ UnitsFollowData /\ [Next]_vars => UnitsFollowData'
<1> SUFFICES ASSUME TypeOK, UnitsFollowData, [Next]_vars
    PROVE UnitsFollowData' OBVIOUS
<1> USE ProcessAssumption, ParameterAssumption DEF TypeOK, Processes
<1>1. ASSUME NEW r \in Readers, ReadSees(r) PROVE UnitsFollowData'
  <2>1. Consuming' = Consuming /\ Posting' = Posting
    BY <1>1 DEF ReadSees, Step, Consuming, Posting
  <2> QED BY <1>1, <2>1 DEF ReadSees, UnitsFollowData
<1>2. ASSUME NEW r \in Readers, ReadWaits(r) PROVE UnitsFollowData'
  <2>1. Consuming' = Consuming /\ Posting' = Posting
    BY <1>2 DEF ReadWaits, Step, Consuming, Posting
  <2> QED BY <1>2, <2>1 DEF ReadWaits, UnitsFollowData
<1>3. ASSUME NEW r \in Readers, Down(r) PROVE UnitsFollowData'
  <2>1. r \notin Consuming /\ Consuming' = Consuming \cup {r} /\ Posting' = Posting
    BY <1>3 DEF Down, Step, Consuming, Posting
  <2>2. Cardinality(Consuming') = Cardinality(Consuming) + 1
    BY <2>1, Finite, FS_AddElement
  <2> QED BY <1>3, <2>1, <2>2, Finite DEF Down, UnitsFollowData
<1>4. ASSUME NEW r \in Readers, DownSleeps(r) PROVE UnitsFollowData'
  <2>1. Consuming' = Consuming /\ Posting' = Posting
    BY <1>4 DEF DownSleeps, Step, Consuming, Posting
  <2> QED BY <1>4, <2>1 DEF DownSleeps, UnitsFollowData
<1>5. ASSUME NEW r \in Readers, Clamp(r) PROVE UnitsFollowData'
  <2>1. Consuming' = Consuming /\ Posting' = Posting
    BY <1>5 DEF Clamp, Step, Consuming, Posting
  <2> QED BY <1>5, <2>1 DEF Clamp, UnitsFollowData
<1>6. ASSUME NEW r \in Readers, CopyOut(r) PROVE UnitsFollowData'
  <2>1. Consuming' = Consuming /\ Posting' = Posting
    BY <1>6 DEF CopyOut, Step, Consuming, Posting
  <2> QED BY <1>6, <2>1 DEF CopyOut, UnitsFollowData
<1>7. ASSUME NEW r \in Readers, Reset(r) PROVE UnitsFollowData'
  <2>1. r \in Consuming /\ Consuming' = Consuming \ {r} /\ Posting' = Posting
    BY <1>7 DEF Reset, Step, Consuming, Posting
  <2>2. /\ Cardinality(Consuming') = Cardinality(Consuming) - 1
        /\ Cardinality(Consuming') \in Nat
    BY <2>1, Finite, FS_RemoveElement, FS_CardinalityType
  <2> QED BY <1>7, <2>1, <2>2, Finite DEF Reset, UnitsFollowData
<1>8. ASSUME NEW r \in Readers, DownInterrupted(r) PROVE UnitsFollowData'
  BY <1>8 DEF DownInterrupted, UnitsFollowData
<1>9. ASSUME NEW r \in Readers, CopyOutFault(r) PROVE UnitsFollowData'
  BY <1>9 DEF CopyOutFault, UnitsFollowData
<1>10. ASSUME NEW p \in Pollers, PollStarts(p) PROVE UnitsFollowData'
  <2>1. Consuming' = Consuming /\ Posting' = Posting
    BY <1>10 DEF PollStarts, Step, Consuming, Posting
  <2> QED BY <1>10, <2>1 DEF PollStarts, UnitsFollowData
<1>11. ASSUME NEW p \in Readers \cup Pollers, Enqueue(p) PROVE UnitsFollowData'
  <2>1. Consuming' = Consuming /\ Posting' = Posting
    BY <1>11 DEF Enqueue, Step, Consuming, Posting
  <2> QED BY <1>11, <2>1 DEF Enqueue, UnitsFollowData
<1>12. ASSUME NEW p \in Readers \cup Pollers, Leave(p) PROVE UnitsFollowData'
  <2>1. Consuming' = Consuming /\ Posting' = Posting
    BY <1>12 DEF Leave, Step, Consuming, Posting
  <2> QED BY <1>12, <2>1 DEF Leave, UnitsFollowData
<1>13. ASSUME NEW p \in Readers \cup Pollers, Sleep(p) PROVE UnitsFollowData'
  <2>1. Consuming' = Consuming /\ Posting' = Posting
    BY <1>13 DEF Sleep, Step, Consuming, Posting
  <2> QED BY <1>13, <2>1 DEF Sleep, UnitsFollowData
<1>14. ASSUME NEW p \in Readers \cup Pollers, Woken(p) PROVE UnitsFollowData'
  <2>1. Consuming' = Consuming /\ Posting' = Posting
    BY <1>14 DEF Woken, Step, Consuming, Posting
  <2> QED BY <1>14, <2>1 DEF Woken, UnitsFollowData
<1>15. ASSUME NEW p \in Readers \cup Pollers, Signalled(p) PROVE UnitsFollowData'
  <2>1. Consuming' = Consuming /\ Posting' = Posting
    BY <1>15 DEF Signalled, Step, Consuming, Posting
  <2> QED BY <1>15, <2>1 DEF Signalled, UnitsFollowData
<1>16. ASSUME NEW p \in Readers \cup Pollers, GiveUp(p) PROVE UnitsFollowData'
  <2>1. Consuming' = Consuming /\ Posting' = Posting
    BY <1>16 DEF GiveUp, Step, Consuming, Posting
  <2> QED BY <1>16, <2>1 DEF GiveUp, UnitsFollowData
<1>17. ASSUME NEW w \in Writers, WriteStarts(w) PROVE UnitsFollowData'
  <2>1. Consuming' = Consuming /\ Posting' = Posting
    BY <1>17 DEF WriteStarts, Step, Consuming, Posting
  <2> QED BY <1>17, <2>1 DEF WriteStarts, UnitsFollowData
<1>18. ASSUME NEW w \in Writers, CopyIn(w) PROVE UnitsFollowData'
  <2>1. Consuming' = Consuming /\ Posting' = Posting
    BY <1>18 DEF CopyIn, Step, Consuming, Posting
  <2> QED BY <1>18, <2>1 DEF CopyIn, UnitsFollowData
<1>19. ASSUME NEW w \in Writers, Count(w) PROVE UnitsFollowData'
  <2>1. w \notin Posting /\ Posting' = Posting \cup {w} /\ Consuming' = Consuming
    BY <1>19 DEF Count, Step, Consuming, Posting
  <2>2. Cardinality(Posting') = Cardinality(Posting) + 1
    BY <2>1, Finite, FS_AddElement
  <2>3. ASSUME ~drifted'
        PROVE ~drifted /\ counter = 0 /\ len[w] # 0
    BY <1>19, <2>3 DEF Count
  <2>4. counter' = len[w] /\ sem' = sem
    BY <1>19 DEF Count
  <2>5. ASSUME ~drifted'
        PROVE sem' + Cardinality(Consuming') + Cardinality(Posting') = 1
    <3>1. sem + Cardinality(Consuming) + Cardinality(Posting) = 0
      BY <2>3, <2>5 DEF UnitsFollowData
    <3> QED BY <3>1, <2>1, <2>2, <2>4, Finite
  <2> QED BY <2>3, <2>4, <2>5 DEF UnitsFollowData
<1>20. ASSUME NEW w \in Writers, Up(w) PROVE UnitsFollowData'
  <2>1. w \in Posting /\ Posting' = Posting \ {w}
    BY <1>20 DEF Up, Posting, SemWaiters
  <2>2. Cardinality(Posting') = Cardinality(Posting) - 1
    BY <2>1, Finite, FS_RemoveElement
  <2>3. CASE SemWaiters = {}
    <3>1. Consuming' = Consuming
      BY <1>20, <2>3 DEF Up, Consuming
    <3> QED BY <1>20, <2>2, <2>3, <3>1, Finite DEF Up, UnitsFollowData
  <2>4. CASE SemWaiters # {}
    <3>1. PICK r \in SemWaiters : pc' = [pc EXCEPT ![w] = "wake", ![r] = "clamp"]
      BY <1>20, <2>4 DEF Up
    <3>2. r \notin Consuming /\ Consuming' = Consuming \cup {r}
      BY <3>1 DEF SemWaiters, Consuming
    <3>3. Cardinality(Consuming') = Cardinality(Consuming) + 1
      BY <3>2, Finite, FS_AddElement
    <3> QED BY <1>20, <2>2, <2>4, <3>3, Finite DEF Up, UnitsFollowData
  <2> QED BY <2>3, <2>4
<1>21. ASSUME NEW w \in Writers, WakeUp(w) PROVE UnitsFollowData'
  <2>1. Consuming' = Consuming /\ Posting' = Posting
    BY <1>21 DEF WakeUp, Step, Consuming, Posting
  <2> QED BY <1>21, <2>1 DEF WakeUp, UnitsFollowData
<1>22. ASSUME NEW w \in Writers, CopyInFault(w) PROVE UnitsFollowData'
  <2>1. Consuming' = Consuming /\ Posting' = Posting
    BY <1>22 DEF CopyInFault, Step, Consuming, Posting
  <2> QED BY <1>22, <2>1 DEF CopyInFault, UnitsFollowData
<1>23. CASE UNCHANGED vars
  BY <1>23 DEF vars, UnitsFollowData, Consuming, Posting
<1> QED BY <1>1, <1>2, <1>3, <1>4, <1>5, <1>6, <1>7, <1>8, <1>9, <1>10,
           <1>11, <1>12, <1>13, <1>14, <1>15, <1>16, <1>17, <1>18,
           <1>19, <1>20, <1>21, <1>22, <1>23
       DEF Next, Read, Wait, Interrupt, Write

(***************************************************************************)
(* The inductive invariant, of which the theorems below are corollaries.   *)
(***************************************************************************)
THEOREM Invariance == Spec => []IInv
<1>1. IInv /\ [Next]_vars => IInv'
  BY TypeStep, WakeupStep, UnitsStep, WaitersStep DEF IInv
<1> QED BY InitIInv, <1>1, PTL DEF Spec

(***************************************************************************)
(* counter never exceeds KMAX: no copy runs over the end of kbuf, however  *)
(* the calls interleave.                                                   *)
(***************************************************************************)
THEOREM TypeCorrect == Spec => []TypeOK
<1>1. IInv => TypeOK
  BY DEF IInv
<1> QED BY Invariance, <1>1, PTL

(***************************************************************************)
(* No reader and no poller sleeps through a write.                         *)
(***************************************************************************)
THEOREM Wakeup == Spec => []NoLostWakeup
<1>1. IInv => NoLostWakeup
  BY DEF IInv
<1> QED BY Invariance, <1>1, PTL

(***************************************************************************)
(* One unit per buffer of data, until one of the listed events parts them. *)
(***************************************************************************)
THEOREM Account == Spec => []UnitsFollowData
<1>1. IInv => UnitsFollowData
  BY DEF IInv
<1> QED BY Invariance, <1>1, PTL

(***************************************************************************)
(* Until then a blocking read that got its unit finds data.                *)
(***************************************************************************)
THEOREM Delivery == Spec => []ReaderFindsData
<1>1. IInv => ReaderFindsData
  <2> SUFFICES ASSUME IInv, ~drifted, NEW r \in Consuming, counter = 0
      PROVE FALSE
    BY DEF ReaderFindsData
  <2>1. Cardinality(Consuming) = 0
    BY Finite DEF IInv, TypeOK, UnitsFollowData
  <2> QED BY <2>1, Finite, FS_EmptySet
<1> QED BY Invariance, <1>1, PTL

(***************************************************************************)
(* And no reader is left on the semaphore next to data.                    *)
(***************************************************************************)
THEOREM NotStuck == Spec => []NoReaderStuck
<1>1. IInv => NoReaderStuck
  <2> SUFFICES ASSUME IInv, ~drifted, SemWaiters # {}, counter # 0,
                      Consuming = {}, Posting = {}
      PROVE FALSE
    BY DEF NoReaderStuck
  <2> QED BY FS_EmptySet DEF IInv, UnitsFollowData, WaitersMeanNoUnit
<1> QED BY Invariance, <1>1, PTL
=============================================================================
