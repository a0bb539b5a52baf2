------------------------ MODULE ButtonDriverProofs -------------------------
(***************************************************************************)
(* Proofs about ButtonDriver, for any number of files, keys and buffers:   *)
(* one file at a time is safe and leaves nothing behind, and no saved key  *)
(* goes unannounced except by the reset of ev_press after a copy.          *)
(***************************************************************************)
EXTENDS ButtonDriver, Integers, FiniteSetTheorems, TLAPS

\* The types that one file's account needs; the bounds on actions come from
\* the count of the files below.
Labels == {"closed", "alloc", "request", "initial", "open", "wait", "copy",
           "reset", "free_irq", "kfree"}

Shape == /\ pc \in [Files -> Labels]
         /\ i \in [Files -> 1..NKeys]
         /\ actions \in [Keys -> Int]
         /\ isr \in [Keys -> {"no", "sample", "clear", "save", "flag"}]
         /\ failures \in Nat /\ badUse \in BOOLEAN /\ shared \in BOOLEAN
         /\ \A f \in Files : pc[f] \in {"open", "wait", "copy", "reset", "kfree"}
                               => i[f] = 1

\* How often the interrupt of key k is requested while f alone is not closed.
Wanted(f, k) == CASE pc[f] = "request"  -> IF k < i[f] THEN 1 ELSE 0
                  [] pc[f] = "initial"  -> IF k <= i[f] THEN 1 ELSE 0
                  [] pc[f] = "free_irq" -> IF k < i[f] THEN 0 ELSE 1
                  [] pc[f] = "kfree"    -> 0
                  [] OTHER              -> 1

Alone == ~shared /\ failures = 0

One == \A f, g \in Files : pc[f] # "closed" /\ pc[g] # "closed" => f = g

Empty == live = {} /\ \A k \in Keys : actions[k] = 0 /\ isr[k] = "no"

Full(f) == /\ live = {key_val} /\ key_val # Null
           /\ \A k \in Keys : /\ actions[k] = Wanted(f, k)
                              /\ isr[k] # "no" => actions[k] = 1

\* One file at a time has the buffer and the interrupts that its label says.
Sole == Alone => /\ ~badUse /\ One
                 /\ AllClosed => Empty
                 /\ \A f \in Files : pc[f] = "alloc" => Empty
                 /\ \A f \in Files : pc[f] \notin {"closed", "alloc"} => Full(f)

IInv == Shape /\ Sole
-----------------------------------------------------------------------------
\* The labels and the loop counter.
LEMMA ShapeStep == ASSUME Shape, [Next]_vars PROVE Shape'
<1> USE ParameterAssumption DEF Shape, Labels, Keys
<1>1. ASSUME NEW f \in Files, Open(f) PROVE Shape'
  BY <1>1 DEF Open, Step, device, gpio, notes, Use
<1>2. ASSUME NEW f \in Files, Alloc(f) PROVE Shape'
  BY <1>2 DEF Alloc, Step, device, gpio, notes, Use
<1>3. ASSUME NEW f \in Files, AllocFails(f) PROVE Shape'
  BY <1>3 DEF AllocFails, Step, device, gpio, notes, Use
<1>4. ASSUME NEW f \in Files, Request(f) PROVE Shape'
  BY <1>4 DEF Request, Step, device, gpio, notes, Use
<1>5. ASSUME NEW f \in Files, RequestFails(f) PROVE Shape'
  BY <1>5 DEF RequestFails, Step, device, gpio, notes, Use
<1>6. ASSUME NEW f \in Files, Initial(f) PROVE Shape'
  BY <1>6 DEF Initial, Step, device, gpio, notes, Use
<1>7. ASSUME NEW f \in Files, Close(f) PROVE Shape'
  BY <1>7 DEF Close, Step, device, gpio, notes, Use
<1>8. ASSUME NEW f \in Files, FreeIrq(f) PROVE Shape'
  BY <1>8 DEF FreeIrq, Step, device, gpio, notes, Use
<1>9. ASSUME NEW f \in Files, Kfree(f) PROVE Shape'
  BY <1>9 DEF Kfree, Step, device, gpio, notes, Use
<1>10. ASSUME NEW f \in Files, ReadNonblock(f) PROVE Shape'
  BY <1>10 DEF ReadNonblock, Step, device, gpio, notes, Use
<1>11. ASSUME NEW f \in Files, Read(f) PROVE Shape'
  BY <1>11 DEF Read, Step, device, gpio, notes, Use
<1>12. ASSUME NEW f \in Files, WaitSees(f) PROVE Shape'
  BY <1>12 DEF WaitSees, Step, device, gpio, notes, Use
<1>13. ASSUME NEW f \in Files, WaitSignalled(f) PROVE Shape'
  BY <1>13 DEF WaitSignalled, Step, device, gpio, notes, Use
<1>14. ASSUME NEW f \in Files, Copy(f) PROVE Shape'
  BY <1>14 DEF Copy, Step, device, gpio, notes, Use
<1>15. ASSUME NEW f \in Files, Reset(f) PROVE Shape'
  BY <1>15 DEF Reset, Step, device, gpio, notes, Use
<1>16. ASSUME NEW k \in Keys, Edge(k) PROVE Shape'
  BY <1>16 DEF Edge, IsrStep, device, gpio, notes, Use
<1>17. ASSUME NEW k \in Keys, Interrupt(k) PROVE Shape'
  BY <1>17 DEF Interrupt, IsrStep, device, gpio, notes, Use
<1>18. ASSUME NEW k \in Keys, Sample(k) PROVE Shape'
  BY <1>18 DEF Sample, IsrStep, device, gpio, notes, Use
<1>19. ASSUME NEW k \in Keys, Clear(k) PROVE Shape'
  BY <1>19 DEF Clear, IsrStep, device, gpio, notes, Use
<1>20. ASSUME NEW k \in Keys, Save(k) PROVE Shape'
  BY <1>20 DEF Save, IsrStep, device, gpio, notes, Use
<1>21. ASSUME NEW k \in Keys, Flag(k) PROVE Shape'
  BY <1>21 DEF Flag, IsrStep, device, gpio, notes, Use
<1>22. CASE UNCHANGED vars
  BY <1>22 DEF vars, device, gpio, notes
<1> QED
  BY <1>1, <1>2, <1>3, <1>4, <1>5, <1>6, <1>7, <1>8, <1>9, <1>10, <1>11,
     <1>12, <1>13, <1>14, <1>15, <1>16, <1>17, <1>18, <1>19, <1>20, <1>21, <1>22 DEF Next, OnFile, OnKey

\* One file alone keeps to its buffer and its requests.
LEMMA SoleStep == ASSUME Shape, Shape', Sole, [Next]_vars PROVE Sole'
<1> USE ParameterAssumption DEF Shape, Labels, Keys, Sole, Alone, One, Empty, Full, Wanted, AllClosed
<1>1. ASSUME NEW f \in Files, Open(f) PROVE Sole'
  <2> SUFFICES ASSUME Alone' PROVE Sole'
    OBVIOUS
  <2>1. pc[f] = "closed" /\ pc' = [pc EXCEPT ![f] = "alloc"]
    BY <1>1 DEF Open, Step
  <2>2. UNCHANGED <<i, actions, key_val, live, isr, failures, badUse>>
    BY <1>1 DEF Open, device
  <2>3. Alone /\ \A g \in Files : pc[g] = "closed"
    BY <1>1, <2>1, <2>2 DEF Open, Others
  <2>4. Empty' /\ ~badUse'
    BY <2>2, <2>3
  <2> QED
    BY <2>1, <2>3, <2>4
<1>2. ASSUME NEW f \in Files, Alloc(f) PROVE Sole'
  <2> SUFFICES ASSUME Alone' PROVE Sole'
    OBVIOUS
  <2>1. Alone /\ Empty /\ pc[f] = "alloc" /\ ~badUse'
    BY <1>2 DEF Alloc, Step, notes
  <2>2. PICK b \in Buffers : key_val' = b /\ live' = {b}
    BY <1>2, <2>1 DEF Alloc
  <2>3. pc' = [pc EXCEPT ![f] = "request"] /\ i' = [i EXCEPT ![f] = 1]
    BY <1>2 DEF Alloc, Step
  <2>4. UNCHANGED <<actions, isr>>
    BY <1>2 DEF Alloc, gpio
  <2>5. Full(f)'
    BY <2>1, <2>2, <2>3, <2>4
  <2>6. \A g \in Files : pc'[g] # "closed" => g = f
    BY <2>1, <2>3
  <2> QED
    BY <2>1, <2>3, <2>5, <2>6
<1>3. ASSUME NEW f \in Files, AllocFails(f) PROVE Sole'
  BY <1>3, SMTT(60) DEF AllocFails, Step, device, gpio, notes, Use
<1>4. ASSUME NEW f \in Files, Request(f) PROVE Sole'
  BY <1>4, SMTT(60) DEF Request, Step, device, gpio, notes, Use
<1>5. ASSUME NEW f \in Files, RequestFails(f) PROVE Sole'
  BY <1>5, SMTT(60) DEF RequestFails, Step, device, gpio, notes, Use
<1>6. ASSUME NEW f \in Files, Initial(f) PROVE Sole'
  BY <1>6, SMTT(60) DEF Initial, Step, device, gpio, notes, Use
<1>7. ASSUME NEW f \in Files, Close(f) PROVE Sole'
  BY <1>7, SMTT(60) DEF Close, Step, device, gpio, notes, Use
<1>8. ASSUME NEW f \in Files, FreeIrq(f) PROVE Sole'
  BY <1>8, SMTT(60) DEF FreeIrq, Step, device, gpio, notes, Use
<1>9. ASSUME NEW f \in Files, Kfree(f) PROVE Sole'
  BY <1>9, SMTT(60) DEF Kfree, Step, device, gpio, notes, Use
<1>10. ASSUME NEW f \in Files, ReadNonblock(f) PROVE Sole'
  BY <1>10, SMTT(60) DEF ReadNonblock, Step, device, gpio, notes, Use
<1>11. ASSUME NEW f \in Files, Read(f) PROVE Sole'
  BY <1>11, SMTT(60) DEF Read, Step, device, gpio, notes, Use
<1>12. ASSUME NEW f \in Files, WaitSees(f) PROVE Sole'
  BY <1>12, SMTT(60) DEF WaitSees, Step, device, gpio, notes, Use
<1>13. ASSUME NEW f \in Files, WaitSignalled(f) PROVE Sole'
  BY <1>13, SMTT(60) DEF WaitSignalled, Step, device, gpio, notes, Use
<1>14. ASSUME NEW f \in Files, Copy(f) PROVE Sole'
  BY <1>14, SMTT(60) DEF Copy, Step, device, gpio, notes, Use
<1>15. ASSUME NEW f \in Files, Reset(f) PROVE Sole'
  BY <1>15, SMTT(60) DEF Reset, Step, gpio, Use
<1>16. ASSUME NEW k \in Keys, Edge(k) PROVE Sole'
  BY <1>16 DEF Edge, IsrStep, device, gpio, notes, Use
<1>17. ASSUME NEW k \in Keys, Interrupt(k) PROVE Sole'
  BY <1>17 DEF Interrupt, IsrStep, device, gpio, notes, Use
<1>18. ASSUME NEW k \in Keys, Sample(k) PROVE Sole'
  BY <1>18 DEF Sample, IsrStep, device, gpio, notes, Use
<1>19. ASSUME NEW k \in Keys, Clear(k) PROVE Sole'
  BY <1>19 DEF Clear, IsrStep, device, gpio, notes, Use
<1>20. ASSUME NEW k \in Keys, Save(k) PROVE Sole'
  BY <1>20 DEF Save, IsrStep, device, gpio, notes, Use
<1>21. ASSUME NEW k \in Keys, Flag(k) PROVE Sole'
  BY <1>21 DEF Flag, IsrStep, device, gpio, notes, Use
<1>22. CASE UNCHANGED vars
  BY <1>22 DEF vars, device, gpio, notes
<1> QED
  BY <1>1, <1>2, <1>3, <1>4, <1>5, <1>6, <1>7, <1>8, <1>9, <1>10, <1>11,
     <1>12, <1>13, <1>14, <1>15, <1>16, <1>17, <1>18, <1>19, <1>20, <1>21, <1>22 DEF Next, OnFile, OnKey

\* A saved value is announced: only Reset takes the announcement back, and it
\* notes when that hides something.
LEMMA FreshStep == ASSUME Shape, FreshOrFlagged, [Next]_vars PROVE FreshOrFlagged'
<1> USE DEF FreshOrFlagged, Saving, Shape
<1>1. ASSUME NEW f \in Files, Open(f) PROVE FreshOrFlagged'
  BY <1>1 DEF Open, Step, device, gpio, notes
<1>2. ASSUME NEW f \in Files, Alloc(f) PROVE FreshOrFlagged'
  BY <1>2 DEF Alloc, Step, device, gpio, notes
<1>3. ASSUME NEW f \in Files, AllocFails(f) PROVE FreshOrFlagged'
  BY <1>3 DEF AllocFails, Step, device, gpio, notes
<1>4. ASSUME NEW f \in Files, Request(f) PROVE FreshOrFlagged'
  BY <1>4 DEF Request, Step, device, gpio, notes
<1>5. ASSUME NEW f \in Files, RequestFails(f) PROVE FreshOrFlagged'
  BY <1>5 DEF RequestFails, Step, device, gpio, notes
<1>6. ASSUME NEW f \in Files, Initial(f) PROVE FreshOrFlagged'
  BY <1>6 DEF Initial, Step, device, gpio, notes
<1>7. ASSUME NEW f \in Files, Close(f) PROVE FreshOrFlagged'
  BY <1>7 DEF Close, Step, device, gpio, notes
<1>8. ASSUME NEW f \in Files, FreeIrq(f) PROVE FreshOrFlagged'
  BY <1>8 DEF FreeIrq, Step, device, gpio, notes
<1>9. ASSUME NEW f \in Files, Kfree(f) PROVE FreshOrFlagged'
  BY <1>9 DEF Kfree, Step, device, gpio, notes
<1>10. ASSUME NEW f \in Files, ReadNonblock(f) PROVE FreshOrFlagged'
  BY <1>10 DEF ReadNonblock, Step, device, gpio, notes
<1>11. ASSUME NEW f \in Files, Read(f) PROVE FreshOrFlagged'
  BY <1>11 DEF Read, Step, device, gpio, notes
<1>12. ASSUME NEW f \in Files, WaitSees(f) PROVE FreshOrFlagged'
  BY <1>12 DEF WaitSees, Step, device, gpio, notes
<1>13. ASSUME NEW f \in Files, WaitSignalled(f) PROVE FreshOrFlagged'
  BY <1>13 DEF WaitSignalled, Step, device, gpio, notes
<1>14. ASSUME NEW f \in Files, Copy(f) PROVE FreshOrFlagged'
  BY <1>14 DEF Copy, Step, device, gpio, notes
<1>15. ASSUME NEW f \in Files, Reset(f) PROVE FreshOrFlagged'
  BY <1>15 DEF Reset, Step, device, gpio, notes
<1>16. ASSUME NEW k \in Keys, Edge(k) PROVE FreshOrFlagged'
  BY <1>16 DEF Edge, IsrStep, device, gpio, notes
<1>17. ASSUME NEW k \in Keys, Interrupt(k) PROVE FreshOrFlagged'
  BY <1>17 DEF Interrupt, IsrStep, device, gpio, notes
<1>18. ASSUME NEW k \in Keys, Sample(k) PROVE FreshOrFlagged'
  BY <1>18 DEF Sample, IsrStep, device, gpio, notes
<1>19. ASSUME NEW k \in Keys, Clear(k) PROVE FreshOrFlagged'
  BY <1>19 DEF Clear, IsrStep, device, gpio, notes
<1>20. ASSUME NEW k \in Keys, Save(k) PROVE FreshOrFlagged'
  BY <1>20 DEF Save, IsrStep, device, gpio, notes
<1>21. ASSUME NEW k \in Keys, Flag(k) PROVE FreshOrFlagged'
  BY <1>21 DEF Flag, IsrStep, device, gpio, notes
<1>22. CASE UNCHANGED vars
  BY <1>22 DEF vars, device, gpio, notes
<1> QED
  BY <1>1, <1>2, <1>3, <1>4, <1>5, <1>6, <1>7, <1>8, <1>9, <1>10, <1>11,
     <1>12, <1>13, <1>14, <1>15, <1>16, <1>17, <1>18, <1>19, <1>20, <1>21, <1>22 DEF Next, OnFile, OnKey

-----------------------------------------------------------------------------
\* The types of the remaining variables.
Rest == /\ key_val \in Buffers \cup {Null} /\ live \subseteq Buffers
        /\ val \in [Keys -> BOOLEAN] /\ ev_press \in BOOLEAN
        /\ pin \in [Keys -> BOOLEAN] /\ latch \in [Keys -> BOOLEAN]
        /\ pinval \in [Keys -> BOOLEAN]
        /\ failures \in 0..MaxFailures
        /\ fresh \in BOOLEAN /\ erased \in BOOLEAN

\* The files whose close() will remove a request of key k's interrupt.
Claims(k) == {f \in Files : pc[f] \notin {"closed", "alloc"} /\ Wanted(f, k) = 1}

\* Each of them has a request there to remove, whoever made it, and only failed
\* opens have left more.
Counted == \A k \in Keys : /\ Cardinality(Claims(k)) <= actions[k]
                           /\ actions[k] <= Cardinality(Claims(k)) + failures

\* A sample, a save or a copy stores levels and flags only.
LEMMA RestStep == ASSUME Shape, Rest, [Next]_vars PROVE Rest'
<1> USE ParameterAssumption DEF Shape, Rest
<1>1. ASSUME NEW f \in Files, Open(f) PROVE Rest'
  BY <1>1 DEF Open, Step, device, gpio, notes, Keys
<1>2. ASSUME NEW f \in Files, Alloc(f) PROVE Rest'
  BY <1>2 DEF Alloc, Step, device, gpio, notes, Keys
<1>3. ASSUME NEW f \in Files, AllocFails(f) PROVE Rest'
  BY <1>3 DEF AllocFails, Step, device, gpio, notes, Keys
<1>4. ASSUME NEW f \in Files, Request(f) PROVE Rest'
  BY <1>4 DEF Request, Step, device, gpio, notes, Keys
<1>5. ASSUME NEW f \in Files, RequestFails(f) PROVE Rest'
  BY <1>5 DEF RequestFails, Step, device, gpio, notes, Keys
<1>6. ASSUME NEW f \in Files, Initial(f) PROVE Rest'
  BY <1>6 DEF Initial, Step, device, gpio, notes, Keys
<1>7. ASSUME NEW f \in Files, Close(f) PROVE Rest'
  BY <1>7 DEF Close, Step, device, gpio, notes, Keys
<1>8. ASSUME NEW f \in Files, FreeIrq(f) PROVE Rest'
  BY <1>8 DEF FreeIrq, Step, device, gpio, notes, Keys
<1>9. ASSUME NEW f \in Files, Kfree(f) PROVE Rest'
  BY <1>9 DEF Kfree, Step, device, gpio, notes, Keys
<1>10. ASSUME NEW f \in Files, ReadNonblock(f) PROVE Rest'
  BY <1>10 DEF ReadNonblock, Step, device, gpio, notes, Keys
<1>11. ASSUME NEW f \in Files, Read(f) PROVE Rest'
  BY <1>11 DEF Read, Step, device, gpio, notes, Keys
<1>12. ASSUME NEW f \in Files, WaitSees(f) PROVE Rest'
  BY <1>12 DEF WaitSees, Step, device, gpio, notes, Keys
<1>13. ASSUME NEW f \in Files, WaitSignalled(f) PROVE Rest'
  BY <1>13 DEF WaitSignalled, Step, device, gpio, notes, Keys
<1>14. ASSUME NEW f \in Files, Copy(f) PROVE Rest'
  BY <1>14 DEF Copy, Step, device, gpio, notes, Keys
<1>15. ASSUME NEW f \in Files, Reset(f) PROVE Rest'
  BY <1>15 DEF Reset, Step, device, gpio, notes, Keys
<1>16. ASSUME NEW k \in Keys, Edge(k) PROVE Rest'
  BY <1>16 DEF Edge, IsrStep, device, gpio, notes, Keys
<1>17. ASSUME NEW k \in Keys, Interrupt(k) PROVE Rest'
  BY <1>17 DEF Interrupt, IsrStep, device, gpio, notes, Keys
<1>18. ASSUME NEW k \in Keys, Sample(k) PROVE Rest'
  BY <1>18 DEF Sample, IsrStep, device, gpio, notes, Keys
<1>19. ASSUME NEW k \in Keys, Clear(k) PROVE Rest'
  BY <1>19 DEF Clear, IsrStep, device, gpio, notes, Keys
<1>20. ASSUME NEW k \in Keys, Save(k) PROVE Rest'
  BY <1>20 DEF Save, IsrStep, device, gpio, notes, Keys
<1>21. ASSUME NEW k \in Keys, Flag(k) PROVE Rest'
  BY <1>21 DEF Flag, IsrStep, device, gpio, notes, Keys
<1>22. CASE UNCHANGED vars
  BY <1>22 DEF vars, device, gpio, notes
<1> QED
  BY <1>1, <1>2, <1>3, <1>4, <1>5, <1>6, <1>7, <1>8, <1>9, <1>10, <1>11,
     <1>12, <1>13, <1>14, <1>15, <1>16, <1>17, <1>18, <1>19, <1>20, <1>21,
     <1>22 DEF Next, OnFile, OnKey

\* Claims are finite sets, no larger than Files.
LEMMA ClaimsFinite ==
  ASSUME NEW k \in Keys
  PROVE  /\ IsFiniteSet(Claims(k)) /\ Cardinality(Claims(k)) \in Nat
         /\ Cardinality(Claims(k)) <= Cardinality(Files)
<1>1. Claims(k) \in SUBSET Files
  BY DEF Claims
<1> QED
  BY <1>1, FS_Subset, FS_CardinalityType, FilesAssumption

\* What FS_RemoveElement says of them.
LEMMA ClaimsLess ==
  ASSUME NEW k \in Keys, NEW f \in Files
  PROVE  Cardinality(Claims(k) \ {f}) =
           IF f \in Claims(k) THEN Cardinality(Claims(k)) - 1
           ELSE Cardinality(Claims(k))
<1>1. IsFiniteSet(Claims(k))
  BY ClaimsFinite
<1> QED
  BY <1>1, FS_RemoveElement, Zenon

\* The account of one key, and three ways to keep it: nothing changes but that
\* more opens have failed, a request is made, a request is removed.
CountedOf(k) == /\ Cardinality(Claims(k)) <= actions[k]
                /\ actions[k] <= Cardinality(Claims(k)) + failures

\* What the account is about are integers.
LEMMA Numbers ==
  ASSUME Shape, NEW k \in Keys
  PROVE  Cardinality(Claims(k)) \in Nat /\ actions[k] \in Int /\ failures \in Nat
BY ClaimsFinite DEF Shape

\* Nothing changes but that more opens have failed.
LEMMA Unmoved ==
  ASSUME Shape, Counted, NEW k \in Keys, Claims(k)' = Claims(k),
         actions'[k] = actions[k], failures' \in Nat, failures' >= failures
  PROVE  CountedOf(k)'
<1>1. CountedOf(k)
  BY DEF Counted, CountedOf
<1>2. Cardinality(Claims(k)') = Cardinality(Claims(k))
  OBVIOUS
<1> QED
  BY <1>1, <1>2, Numbers DEF CountedOf

\* A request is made.
LEMMA OneMore ==
  ASSUME Shape, Counted, NEW k \in Keys, UNCHANGED failures,
         Cardinality(Claims(k)') = Cardinality(Claims(k)) + 1,
         actions'[k] = actions[k] + 1
  PROVE  CountedOf(k)'
<1>1. CountedOf(k)
  BY DEF Counted, CountedOf
<1> QED
  BY <1>1, Numbers DEF CountedOf

\* A request is removed.
LEMMA OneLess ==
  ASSUME Shape, Counted, NEW k \in Keys, UNCHANGED failures,
         Cardinality(Claims(k)') = Cardinality(Claims(k)) - 1,
         actions'[k] = actions[k] - 1
  PROVE  CountedOf(k)'
<1>1. CountedOf(k)
  BY DEF Counted, CountedOf
<1> QED
  BY <1>1, Numbers DEF CountedOf

\* The account of the requests, over any interleaving of open() and close().
LEMMA CountedStep == ASSUME Shape, Counted, [Next]_vars PROVE Counted'
<1> USE ParameterAssumption DEF Shape, Labels, Keys
<1>0. ASSUME UNCHANGED actions, failures' \in Nat, failures' >= failures,
             \A k \in Keys : Claims(k)' = Claims(k)
      PROVE  Counted'
  <2>1. ASSUME NEW k \in Keys PROVE CountedOf(k)'
    BY <1>0, <2>1, Unmoved
  <2> QED
    BY <2>1 DEF Counted, CountedOf
<1>1. ASSUME NEW f \in Files, Open(f) PROVE Counted'
  <2>1. UNCHANGED actions /\ failures' \in Nat /\ failures' >= failures
    BY <1>1 DEF Open, device, notes
  <2>2. \A k \in Keys : Claims(k)' = Claims(k)
    BY <1>1 DEF Open, Step, device, notes, Claims, Wanted
  <2> QED
    BY <2>1, <2>2, <1>0
<1>2. ASSUME NEW f \in Files, Alloc(f) PROVE Counted'
  <2>1. UNCHANGED actions /\ failures' \in Nat /\ failures' >= failures
    BY <1>2 DEF Alloc, device, notes
  <2>2. \A k \in Keys : Claims(k)' = Claims(k)
    BY <1>2 DEF Alloc, Step, device, notes, Claims, Wanted
  <2> QED
    BY <2>1, <2>2, <1>0
<1>3. ASSUME NEW f \in Files, AllocFails(f) PROVE Counted'
  <2>1. UNCHANGED actions /\ failures' \in Nat /\ failures' >= failures
    BY <1>3 DEF AllocFails, device, notes
  <2>2. \A k \in Keys : Claims(k)' = Claims(k)
    BY <1>3 DEF AllocFails, Step, device, notes, Claims, Wanted
  <2> QED
    BY <2>1, <2>2, <1>0
<1>4. ASSUME NEW f \in Files, Request(f) PROVE Counted'
  <2>1. PICK j \in Keys : j = i[f]
    BY <1>4
  <2>2. UNCHANGED failures /\ actions' = [actions EXCEPT ![j] = @ + 1]
    BY <1>4, <2>1 DEF Request, notes
  <2>3. f \notin Claims(j) /\ Claims(j)' = Claims(j) \cup {f}
    BY <1>4, <2>1 DEF Request, Step, Claims, Wanted
  <2>4. \A k \in Keys \ {j} : Claims(k)' = Claims(k)
    BY <1>4, <2>1 DEF Request, Step, Claims, Wanted
  <2>5. Cardinality(Claims(j)') = Cardinality(Claims(j)) + 1
    BY <2>3, ClaimsFinite, FS_AddElement
  <2>6. actions'[j] = actions[j] + 1
    BY <2>2
  <2>7. ASSUME NEW k \in Keys
        PROVE  /\ Cardinality(Claims(k)') <= actions'[k]
               /\ actions'[k] <= Cardinality(Claims(k)') + failures
    <3>1. CASE k = j
      BY <3>1, <2>2, <2>5, <2>6, OneMore DEF CountedOf
    <3>2. CASE k # j
      BY <3>2, <2>2, <2>4, Unmoved DEF CountedOf
    <3> QED
      BY <3>1, <3>2
  <2> QED
    BY <2>2, <2>7 DEF Counted
<1>5. ASSUME NEW f \in Files, RequestFails(f) PROVE Counted'
  <2>1. UNCHANGED actions /\ failures' = failures + 1
    BY <1>5 DEF RequestFails, device
  <2>2. \A k \in Keys : Claims(k)' = Claims(k) \ {f}
    BY <1>5 DEF RequestFails, Step, Claims, Wanted
  <2>3. ASSUME NEW k \in Keys
        PROVE  /\ Cardinality(Claims(k)') <= actions[k]
               /\ actions[k] <= Cardinality(Claims(k)') + (failures + 1)
    <3>1. /\ Cardinality(Claims(k)) \in Nat
          /\ Cardinality(Claims(k)') \in {Cardinality(Claims(k)),
                                          Cardinality(Claims(k)) - 1}
      BY <2>2, ClaimsFinite, ClaimsLess
    <3>2. actions[k] \in Int /\ failures \in Nat
      OBVIOUS
    <3> QED
      BY <3>1, <3>2 DEF Counted
  <2> QED
    BY <2>1, <2>3 DEF Counted
<1>6. ASSUME NEW f \in Files, Initial(f) PROVE Counted'
  <2>1. UNCHANGED actions /\ failures' \in Nat /\ failures' >= failures
    BY <1>6 DEF Initial, device, notes
  <2>2. \A k \in Keys : Claims(k)' = Claims(k)
    BY <1>6 DEF Initial, Step, device, notes, Claims, Wanted
  <2> QED
    BY <2>1, <2>2, <1>0
<1>7. ASSUME NEW f \in Files, Close(f) PROVE Counted'
  <2>1. UNCHANGED actions /\ failures' \in Nat /\ failures' >= failures
    BY <1>7 DEF Close, device, notes
  <2>2. \A k \in Keys : Claims(k)' = Claims(k)
    BY <1>7 DEF Close, Step, device, notes, Claims, Wanted
  <2> QED
    BY <2>1, <2>2, <1>0
<1>8. ASSUME NEW f \in Files, FreeIrq(f) PROVE Counted'
  <2>1. PICK j \in Keys : j = i[f]
    BY <1>8
  <2>2. UNCHANGED failures /\ actions' = [actions EXCEPT ![j] = @ - 1]
    BY <1>8, <2>1 DEF FreeIrq, notes
  <2>3. f \in Claims(j) /\ Claims(j)' = Claims(j) \ {f}
    BY <1>8, <2>1 DEF FreeIrq, Step, Claims, Wanted
  <2>4. \A k \in Keys \ {j} : Claims(k)' = Claims(k)
    BY <1>8, <2>1 DEF FreeIrq, Step, Claims, Wanted
  <2>5. Cardinality(Claims(j)') = Cardinality(Claims(j)) - 1
    BY <2>3, ClaimsFinite, ClaimsLess
  <2>6. actions'[j] = actions[j] - 1
    BY <2>2
  <2>7. ASSUME NEW k \in Keys
        PROVE  /\ Cardinality(Claims(k)') <= actions'[k]
               /\ actions'[k] <= Cardinality(Claims(k)') + failures
    <3>1. CASE k = j
      BY <3>1, <2>2, <2>5, <2>6, OneLess DEF CountedOf
    <3>2. CASE k # j
      BY <3>2, <2>2, <2>4, Unmoved DEF CountedOf
    <3> QED
      BY <3>1, <3>2
  <2> QED
    BY <2>2, <2>7 DEF Counted
<1>9. ASSUME NEW f \in Files, Kfree(f) PROVE Counted'
  <2>1. UNCHANGED actions /\ failures' \in Nat /\ failures' >= failures
    BY <1>9 DEF Kfree, device, notes
  <2>2. \A k \in Keys : Claims(k)' = Claims(k)
    BY <1>9 DEF Kfree, Step, device, notes, Claims, Wanted
  <2> QED
    BY <2>1, <2>2, <1>0
<1>10. ASSUME NEW f \in Files, ReadNonblock(f) PROVE Counted'
  <2>1. UNCHANGED actions /\ failures' \in Nat /\ failures' >= failures
    BY <1>10 DEF ReadNonblock, device, notes
  <2>2. \A k \in Keys : Claims(k)' = Claims(k)
    BY <1>10 DEF ReadNonblock, Step, device, notes, Claims, Wanted
  <2> QED
    BY <2>1, <2>2, <1>0
<1>11. ASSUME NEW f \in Files, Read(f) PROVE Counted'
  <2>1. UNCHANGED actions /\ failures' \in Nat /\ failures' >= failures
    BY <1>11 DEF Read, device, notes
  <2>2. \A k \in Keys : Claims(k)' = Claims(k)
    BY <1>11 DEF Read, Step, device, notes, Claims, Wanted
  <2> QED
    BY <2>1, <2>2, <1>0
<1>12. ASSUME NEW f \in Files, WaitSees(f) PROVE Counted'
  <2>1. UNCHANGED actions /\ failures' \in Nat /\ failures' >= failures
    BY <1>12 DEF WaitSees, device, notes
  <2>2. \A k \in Keys : Claims(k)' = Claims(k)
    BY <1>12 DEF WaitSees, Step, device, notes, Claims, Wanted
  <2> QED
    BY <2>1, <2>2, <1>0
<1>13. ASSUME NEW f \in Files, WaitSignalled(f) PROVE Counted'
  <2>1. UNCHANGED actions /\ failures' \in Nat /\ failures' >= failures
    BY <1>13 DEF WaitSignalled, device, notes
  <2>2. \A k \in Keys : Claims(k)' = Claims(k)
    BY <1>13 DEF WaitSignalled, Step, device, notes, Claims, Wanted
  <2> QED
    BY <2>1, <2>2, <1>0
<1>14. ASSUME NEW f \in Files, Copy(f) PROVE Counted'
  <2>1. UNCHANGED actions /\ failures' \in Nat /\ failures' >= failures
    BY <1>14 DEF Copy, device, notes
  <2>2. \A k \in Keys : Claims(k)' = Claims(k)
    BY <1>14 DEF Copy, Step, device, notes, Claims, Wanted
  <2> QED
    BY <2>1, <2>2, <1>0
<1>15. ASSUME NEW f \in Files, Reset(f) PROVE Counted'
  <2>1. UNCHANGED actions /\ failures' \in Nat /\ failures' >= failures
    BY <1>15 DEF Reset, device, notes
  <2>2. \A k \in Keys : Claims(k)' = Claims(k)
    BY <1>15 DEF Reset, Step, device, notes, Claims, Wanted
  <2> QED
    BY <2>1, <2>2, <1>0
<1>16. ASSUME NEW k \in Keys, OnKey(k) PROVE Counted'
  <2>1. UNCHANGED <<pc, i, actions, failures>>
    BY <1>16
       DEF OnKey, Edge, Interrupt, Sample, Clear, Save, Flag, device, notes
  <2> QED
    BY <2>1, <1>0 DEF Claims, Wanted
<1>17. CASE UNCHANGED vars
  <2>1. UNCHANGED <<pc, i, actions, failures>>
    BY <1>17 DEF vars, device, notes
  <2> QED
    BY <2>1, <1>0 DEF Claims, Wanted
<1> QED
  BY <1>1, <1>2, <1>3, <1>4, <1>5, <1>6, <1>7, <1>8, <1>9, <1>10, <1>11,
     <1>12, <1>13, <1>14, <1>15, <1>16, <1>17 DEF Next, OnFile
-----------------------------------------------------------------------------
\* The inductive invariant of the button driver.
THEOREM Invariance == Spec => []IInv
<1>1. ASSUME Init PROVE IInv
  <2>0. /\ 1 \in 1..NKeys
        /\ shared = FALSE /\ badUse = FALSE /\ failures = 0
    BY <1>1, ParameterAssumption DEF Init
  <2>1. Shape
    <3>1. /\ pc \in [Files -> Labels] /\ i \in [Files -> 1..NKeys]
          /\ \A f \in Files : i[f] = 1
      BY <1>1, <2>0 DEF Init, Labels
    <3>2. /\ actions \in [Keys -> Int]
          /\ isr \in [Keys -> {"no", "sample", "clear", "save", "flag"}]
      BY <1>1 DEF Init
    <3> QED
      BY <2>0, <3>1, <3>2 DEF Shape
  <2>2. \A f \in Files : pc[f] = "closed"
    BY <1>1 DEF Init
  <2>3. Empty /\ ~badUse
    BY <1>1 DEF Init, Empty
  <2> QED
    BY <2>1, <2>2, <2>3, Zenon DEF IInv, Sole, One
<1>2. IInv /\ [Next]_vars => IInv'
  BY ShapeStep, SoleStep DEF IInv
<1> QED
  BY <1>1, <1>2, PTL DEF Spec

\* No freed memory is used as long as files are opened one at a time and
\* every open succeeds.
THEOREM Memory == Spec => []FreedMemoryNeedsTwo
<1>1. IInv => FreedMemoryNeedsTwo
  BY DEF IInv, Shape, Sole, Alone, FreedMemoryNeedsTwo
<1> QED
  BY <1>1, Invariance, PTL

\* Then the last close leaves nothing behind either.
THEOREM Leftovers == Spec => []CloseLeavesNothing
<1>1. IInv => CloseLeavesNothing
  BY DEF IInv, Sole, Alone, Empty, CloseLeavesNothing
<1> QED
  BY <1>1, Invariance, PTL

\* However many files there are, a saved key is announced until it is read, or
\* hidden by a reset that came after a copy.
THEOREM Announcement == Spec => []FreshOrFlagged
<1>1. Init => FreshOrFlagged
  BY DEF Init, FreshOrFlagged
<1>2. IInv /\ FreshOrFlagged /\ [Next]_vars => FreshOrFlagged'
  BY FreshStep DEF IInv
<1> QED
  BY <1>1, <1>2, Invariance, PTL DEF Spec

\* The types, with the bounds of the interrupts' requests: close() never calls
\* free_irq() for an interrupt that nobody has requested, however many files
\* open and close at once, and no more are left than opens have failed.
THEOREM TypeCorrect == Spec => []TypeOK
<1>1. ASSUME Init PROVE Rest /\ Counted
  <2>1. Rest
    <3>1. /\ val \in [Keys -> BOOLEAN] /\ pin \in [Keys -> BOOLEAN]
          /\ latch \in [Keys -> BOOLEAN] /\ pinval \in [Keys -> BOOLEAN]
      BY <1>1 DEF Init
    <3>2. /\ key_val = Null /\ live = {} /\ failures = 0
          /\ ev_press = FALSE /\ fresh = TRUE /\ erased = FALSE
      BY <1>1 DEF Init
    <3>3. failures \in 0..MaxFailures
      BY <3>2, ParameterAssumption
    <3> QED
      BY <3>1, <3>2, <3>3, Zenon DEF Rest
  <2>2. \A k \in Keys : Claims(k) = {} /\ actions[k] = 0
    BY <1>1 DEF Init, Claims
  <2> QED
    BY <1>1, <2>1, <2>2, FS_EmptySet DEF Init, Counted
<1>2. IInv /\ Rest /\ Counted /\ [Next]_vars => Rest' /\ Counted'
  BY RestStep, CountedStep DEF IInv
<1>3. ASSUME IInv, Rest, Counted PROVE TypeOK
  <2>1. Cardinality(Files) \in Nat
    BY FilesAssumption, FS_CardinalityType
  <2>2. \A k \in Keys : actions[k] \in 0..Cardinality(Files) + failures
    BY <1>3, <2>1, ClaimsFinite DEF IInv, Shape, Counted
  <2>3. actions \in [Keys -> 0..Cardinality(Files) + failures]
    BY <1>3, <2>2 DEF IInv, Shape
  <2>4. i \in [Files -> 1..NKeys + 1]
    BY <1>3, ParameterAssumption DEF IInv, Shape
  <2> QED
    BY <1>3, <2>3, <2>4 DEF IInv, Shape, Labels, Rest, TypeOK
<1> QED
  BY <1>1, <1>2, <1>3, Invariance, PTL DEF Spec
=============================================================================
