--------------------------- MODULE BufferIOProofs ---------------------------
(***************************************************************************)
(* Proofs about BufferIO, for any number of processes, any length of the   *)
(* array and any set of forms: without a lock, no copy leaves the array    *)
(* unless two reads or two writes of a driver that shifts overlap, unread  *)
(* data is announced to the next reader, and calls that do not overlap     *)
(* implement ByteBox.                                                      *)
(***************************************************************************)
EXTENDS BufferIO, SequenceTheorems, TLAPS

Labels == {"idle", "wait"} \cup Reading \cup Writing

\* The types, without the content of the array.
Types == /\ form \in Forms
         /\ counter \in Int /\ flag \in BOOLEAN
         /\ sem \in 0..MaxUnits
         /\ pc \in [Procs -> Labels]
         /\ size \in [Procs -> 0..KMax]
         /\ tmp \in [Procs -> 0..KMax]
         /\ upset \in BOOLEAN /\ crowded \in BOOLEAN /\ outside \in BOOLEAN
         /\ fresh \in BOOLEAN /\ spoilt \in BOOLEAN

\* Some steps belong to one style of driver.
Roles == \A p \in Procs :
  /\ pc[p] \in {"shift", "load_r", "store_r", "load_w", "store_w"} => form.style = "queue"
  /\ pc[p] \in {"reset", "set", "up"} => form.style = "last"
  /\ pc[p] \in {"clear", "wipe", "raise"} => form.style = "page"
  /\ pc[p] = "up" => form.sem

\* What crowded and spoilt record.
Apart == /\ ~crowded => \A p, q \in Procs :
                          /\ pc[p] \in Reading /\ pc[q] \in Reading => p = q
                          /\ pc[p] \in Writing /\ pc[q] \in Writing => p = q
         /\ ~spoilt => \A p, q \in Procs : ~(pc[p] \in Reading /\ pc[q] \in Writing)

\* The only reader has a size within counter, which only a write changes, and
\* upwards; the only writer has one within the rest of the array.
ReaderFits(p) ==
  /\ pc[p] \in {"copy_out", "shift", "load_r", "store_r"} => size[p] <= counter
  /\ pc[p] = "store_r" => size[p] <= tmp[p] /\ tmp[p] <= counter

WriterFits(p) ==
  /\ pc[p] \in {"copy_in", "load_w"} => counter + size[p] <= KMax
  /\ pc[p] = "store_w" => counter <= tmp[p] /\ tmp[p] + size[p] <= KMax

Shifting == (form.style = "queue" /\ ~crowded) =>
               Inside /\ \A p \in Procs : ReaderFits(p) /\ WriterFits(p)

\* The others work from the start of the array.
Whole == form.style # "queue" => Inside

\* Unread data is announced, about to be, or about to be read by a process
\* that took its unit.
Pending == \/ flag /\ form.style = "page"
           \/ form.style \in {"queue", "keep"}
           \/ form.style = "last" /\ (form.sem => sem > 0)
           \/ \E p \in Procs : pc[p] \in {"raise", "set", "up"}
           \/ \E p \in Procs : form.sem /\ pc[p] \in {"clamp", "copy_out"}

Announced == ~spoilt => /\ fresh => Pending
                        /\ \A p \in Procs : pc[p] = "clear" => ~fresh

\* The rest of the type invariant.
Content == /\ kbuf \in [1..KMax -> Bytes \cup {Zero}]
           /\ counter \in -KMax..2 * KMax
           /\ form.style = "last" => counter \in 0..KMax
           /\ form.style \in {"page", "keep"} => counter = 0
           /\ crowded => upset

IInv == Types /\ Roles /\ Content /\ Apart /\ Shifting /\ Whole /\ Announced
-----------------------------------------------------------------------------
\* The types.
LEMMA TypesStep ==
  ASSUME Types, [Next]_vars PROVE Types'
<1> USE ParameterAssumption, FormsAssumption
    DEF Types, Labels, Reading, Writing, Inside
<1>1. CASE UNCHANGED vars
  BY <1>1 DEF vars, history
<1> SUFFICES ASSUME Inside, NEW p \in Procs, Read(p) \/ Write(p) PROVE Types'
  BY <1>1 DEF Next
<1>2. CASE ReadStarts(p)
  BY <1>2 DEF ReadStarts, MayRead, Meet, Others
<1>3. CASE ReadWaits(p)
  BY <1>3 DEF ReadWaits, Step, history
<1>4. CASE WaitSignalled(p)
  BY <1>4 DEF WaitSignalled, Step, history
<1>5. CASE DownSignalled(p)
  BY <1>5 DEF DownSignalled, Step, Meet, Others
<1>6. CASE Clamp(p)
  BY <1>6 DEF Clamp, Step, Amount, Least, history
<1>7. CASE CopyOut(p)
  <2>1. form.style \in {"queue", "last", "page", "keep"}
    OBVIOUS
  <2>2. AfterCopy[form.style] \in Labels
    BY <2>1 DEF AfterCopy
  <2>3. pc' = [pc EXCEPT ![p] = AfterCopy[form.style]]
    BY <1>7 DEF CopyOut, Step
  <2>4. pc' \in [Procs -> Labels]
    BY <2>2, <2>3
  <2>5. size' \in [Procs -> 0..KMax]
    BY <1>7 DEF CopyOut
  <2> QED
    BY <1>7, <2>4, <2>5 DEF CopyOut
<1>8. CASE CopyOutFails(p)
  BY <1>8 DEF CopyOutFails, Step
<1>9. CASE Shift(p)
  BY <1>9 DEF Shift, Step, history
<1>10. CASE LoadR(p)
  BY <1>10 DEF LoadR, Step, history
<1>11. CASE StoreR(p)
  BY <1>11 DEF StoreR, Step, history
<1>12. CASE Reset(p)
  BY <1>12 DEF Reset, Step, history
<1>13. CASE Clear(p)
  BY <1>13 DEF Clear, Step, history
<1>14. CASE Wipe(p)
  BY <1>14 DEF Wipe, Step, history
<1>15. CASE WriteStarts(p)
  BY <1>15 DEF WriteStarts, Step, Amount, Meet, Others
<1>16. CASE CopyIn(p)
  BY <1>16 DEF CopyIn, Step, AfterCopyIn, Start
<1>17. CASE CopyInFails(p)
  BY <1>17 DEF CopyInFails, Step, Start
<1>18. CASE LoadW(p)
  BY <1>18 DEF LoadW, Step, history
<1>19. CASE StoreW(p)
  BY <1>19 DEF StoreW, Step, history
<1>20. CASE Set(p)
  BY <1>20 DEF Set, Step, AfterStore, history
<1>21. CASE Raise(p)
  BY <1>21 DEF Raise, Step, history
<1>22. CASE Up(p)
  BY <1>22 DEF Up, Step, history
<1> QED
  BY <1>2, <1>3, <1>4, <1>5, <1>6, <1>7, <1>8, <1>9, <1>10, <1>11, <1>12, <1>13,
     <1>14, <1>15, <1>16, <1>17, <1>18, <1>19, <1>20, <1>21, <1>22 DEF Read, Write

\* Labels keep to their style.
LEMMA RolesStep ==
  ASSUME Types, Roles, [Next]_vars PROVE Roles'
<1> USE ParameterAssumption, FormsAssumption
    DEF Types, Labels, Reading, Writing, Roles
<1>1. CASE UNCHANGED vars
  BY <1>1 DEF vars, history
<1> SUFFICES ASSUME NEW p \in Procs, Read(p) \/ Write(p) PROVE Roles'
  BY <1>1 DEF Next
<1>2. CASE ReadStarts(p)
  BY <1>2 DEF ReadStarts, MayRead, Meet, Others
<1>3. CASE ReadWaits(p)
  BY <1>3 DEF ReadWaits, Step, history
<1>4. CASE WaitSignalled(p)
  BY <1>4 DEF WaitSignalled, Step, history
<1>5. CASE DownSignalled(p)
  BY <1>5 DEF DownSignalled, Step, Meet, Others
<1>6. CASE Clamp(p)
  BY <1>6 DEF Clamp, Step, Amount, Least, history
<1>7. CASE CopyOut(p)
  BY <1>7 DEF CopyOut, Step, AfterCopy
<1>8. CASE CopyOutFails(p)
  BY <1>8 DEF CopyOutFails, Step
<1>9. CASE Shift(p)
  BY <1>9 DEF Shift, Step, history
<1>10. CASE LoadR(p)
  BY <1>10 DEF LoadR, Step, history
<1>11. CASE StoreR(p)
  BY <1>11 DEF StoreR, Step, history
<1>12. CASE Reset(p)
  BY <1>12 DEF Reset, Step, history
<1>13. CASE Clear(p)
  BY <1>13 DEF Clear, Step, history
<1>14. CASE Wipe(p)
  BY <1>14 DEF Wipe, Step, history
<1>15. CASE WriteStarts(p)
  BY <1>15 DEF WriteStarts, Step, Amount, Meet, Others
<1>16. CASE CopyIn(p)
  BY <1>16 DEF CopyIn, Step, AfterCopyIn, Start
<1>17. CASE CopyInFails(p)
  BY <1>17 DEF CopyInFails, Step, Start
<1>18. CASE LoadW(p)
  BY <1>18 DEF LoadW, Step, history
<1>19. CASE StoreW(p)
  BY <1>19 DEF StoreW, Step, history
<1>20. CASE Set(p)
  BY <1>20 DEF Set, Step, AfterStore, history
<1>21. CASE Raise(p)
  BY <1>21 DEF Raise, Step, history
<1>22. CASE Up(p)
  BY <1>22 DEF Up, Step, history
<1> QED
  BY <1>2, <1>3, <1>4, <1>5, <1>6, <1>7, <1>8, <1>9, <1>10, <1>11, <1>12, <1>13,
     <1>14, <1>15, <1>16, <1>17, <1>18, <1>19, <1>20, <1>21, <1>22 DEF Read, Write

\* The array, and the range of counter.
LEMMA ContentStep ==
  ASSUME Types, Types', Roles, Content, [Next]_vars PROVE Content'
<1> USE ParameterAssumption, FormsAssumption
    DEF Types, Labels, Reading, Writing, Roles, Content, Inside, Blank
<1>1. CASE UNCHANGED vars
  BY <1>1 DEF vars, history
<1> SUFFICES ASSUME Inside, NEW p \in Procs, Read(p) \/ Write(p) PROVE Content'
  BY <1>1 DEF Next
<1>2. CASE ReadStarts(p)
  BY <1>2 DEF ReadStarts, MayRead, Meet, Others
<1>3. CASE ReadWaits(p)
  BY <1>3 DEF ReadWaits, Step, history
<1>4. CASE WaitSignalled(p)
  BY <1>4 DEF WaitSignalled, Step, history
<1>5. CASE DownSignalled(p)
  BY <1>5 DEF DownSignalled, Step, Meet, Others
<1>6. CASE Clamp(p)
  BY <1>6 DEF Clamp, Step, Amount, Least, history
<1>7. CASE CopyOut(p)
  BY <1>7 DEF CopyOut, Step, AfterCopy
<1>8. CASE CopyOutFails(p)
  BY <1>8 DEF CopyOutFails, Step
<1>9. CASE Shift(p)
  BY <1>9 DEF Shift, Step, history
<1>10. CASE LoadR(p)
  BY <1>10 DEF LoadR, Step, history
<1>11. CASE StoreR(p)
  BY <1>11 DEF StoreR, Step, history
<1>12. CASE Reset(p)
  BY <1>12 DEF Reset, Step, history
<1>13. CASE Clear(p)
  BY <1>13 DEF Clear, Step, history
<1>14. CASE Wipe(p)
  BY <1>14 DEF Wipe, Step, history
<1>15. CASE WriteStarts(p)
  BY <1>15 DEF WriteStarts, Step, Amount, Meet, Others
<1>16. CASE CopyIn(p)
  <2>1. PICK d \in [1..size[p] -> Bytes] : kbuf' = IF upset THEN Blank ELSE Stored(Start, d)
    BY <1>16 DEF CopyIn
  <2>2. Stored(Start, d) \in [1..KMax -> Bytes \cup {Zero}]
    BY DEF Stored, Start
  <2>3. kbuf' \in [1..KMax -> Bytes \cup {Zero}]
    BY <2>1, <2>2 DEF Blank
  <2> QED
    BY <1>16, <2>3 DEF CopyIn
<1>17. CASE CopyInFails(p)
  BY <1>17 DEF CopyInFails, Step, Start
<1>18. CASE LoadW(p)
  BY <1>18 DEF LoadW, Step, history
<1>19. CASE StoreW(p)
  BY <1>19 DEF StoreW, Step, history
<1>20. CASE Set(p)
  BY <1>20 DEF Set, Step, AfterStore, history
<1>21. CASE Raise(p)
  BY <1>21 DEF Raise, Step, history
<1>22. CASE Up(p)
  BY <1>22 DEF Up, Step, history
<1> QED
  BY <1>2, <1>3, <1>4, <1>5, <1>6, <1>7, <1>8, <1>9, <1>10, <1>11, <1>12, <1>13,
     <1>14, <1>15, <1>16, <1>17, <1>18, <1>19, <1>20, <1>21, <1>22 DEF Read, Write

\* crowded and spoilt are set in time.
LEMMA ApartStep ==
  ASSUME Types, Types', Apart, [Next]_vars PROVE Apart'
<1> USE ParameterAssumption, FormsAssumption
    DEF Types, Labels, Reading, Writing, Apart
<1>1. CASE UNCHANGED vars
  BY <1>1 DEF vars, history
<1> SUFFICES ASSUME NEW p \in Procs, Read(p) \/ Write(p) PROVE Apart'
  BY <1>1 DEF Next
<1>2. CASE ReadStarts(p)
  <2>1. pc[p] \in {"idle", "wait"} /\ pc' = [pc EXCEPT ![p] = "clamp"]
    BY <1>2 DEF ReadStarts
  <2>2. /\ ~crowded' => ~crowded /\ Others(p, Reading) = {}
        /\ ~spoilt' => ~spoilt /\ Others(p, Writing) = {}
    BY <1>2 DEF ReadStarts, Meet
  <2>3. \A q \in Procs : /\ pc'[q] \in Writing <=> pc[q] \in Writing
                         /\ pc'[q] \in Reading <=> q = p \/ pc[q] \in Reading
    BY <2>1
  <2>4. \A q \in Procs \ {p} : /\ ~crowded' => pc[q] \notin Reading
                               /\ ~spoilt' => pc[q] \notin Writing
    BY <2>2 DEF Others
  <2> QED
    BY <2>1, <2>2, <2>3, <2>4
<1>3. CASE ReadWaits(p)
  BY <1>3 DEF ReadWaits, Step, history
<1>4. CASE WaitSignalled(p)
  BY <1>4 DEF WaitSignalled, Step, history
<1>5. CASE DownSignalled(p)
  <2>1. pc[p] \in {"idle", "wait"} /\ pc' = [pc EXCEPT ![p] = "clamp"]
    BY <1>5 DEF DownSignalled, Step
  <2>2. /\ ~crowded' => ~crowded /\ Others(p, Reading) = {}
        /\ ~spoilt' => ~spoilt /\ Others(p, Writing) = {}
    BY <1>5 DEF DownSignalled, Step, Meet
  <2>3. \A q \in Procs : /\ pc'[q] \in Writing <=> pc[q] \in Writing
                         /\ pc'[q] \in Reading <=> q = p \/ pc[q] \in Reading
    BY <2>1
  <2>4. \A q \in Procs \ {p} : /\ ~crowded' => pc[q] \notin Reading
                               /\ ~spoilt' => pc[q] \notin Writing
    BY <2>2 DEF Others
  <2> QED
    BY <2>1, <2>2, <2>3, <2>4
<1>6. CASE Clamp(p)
  BY <1>6 DEF Clamp, Step, Amount, Least, history
<1>7. CASE CopyOut(p)
  BY <1>7 DEF CopyOut, Step, AfterCopy
<1>8. CASE CopyOutFails(p)
  BY <1>8 DEF CopyOutFails, Step
<1>9. CASE Shift(p)
  BY <1>9 DEF Shift, Step, history
<1>10. CASE LoadR(p)
  BY <1>10 DEF LoadR, Step, history
<1>11. CASE StoreR(p)
  BY <1>11 DEF StoreR, Step, history
<1>12. CASE Reset(p)
  BY <1>12 DEF Reset, Step, history
<1>13. CASE Clear(p)
  BY <1>13 DEF Clear, Step, history
<1>14. CASE Wipe(p)
  BY <1>14 DEF Wipe, Step, history
<1>15. CASE WriteStarts(p)
  <2>1. pc[p] = "idle" /\ pc' = [pc EXCEPT ![p] = "copy_in"]
    BY <1>15 DEF WriteStarts, Step
  <2>2. /\ ~crowded' => ~crowded /\ Others(p, Writing) = {}
        /\ ~spoilt' => ~spoilt /\ Others(p, Reading) = {}
    BY <1>15 DEF WriteStarts, Meet
  <2>3. \A q \in Procs : /\ pc'[q] \in Reading <=> pc[q] \in Reading
                         /\ pc'[q] \in Writing <=> q = p \/ pc[q] \in Writing
    BY <2>1
  <2>4. \A q \in Procs \ {p} : /\ ~crowded' => pc[q] \notin Writing
                               /\ ~spoilt' => pc[q] \notin Reading
    BY <2>2 DEF Others
  <2> QED
    BY <2>1, <2>2, <2>3, <2>4
<1>16. CASE CopyIn(p)
  BY <1>16 DEF CopyIn, Step, AfterCopyIn, Start
<1>17. CASE CopyInFails(p)
  BY <1>17 DEF CopyInFails, Step, Start
<1>18. CASE LoadW(p)
  BY <1>18 DEF LoadW, Step, history
<1>19. CASE StoreW(p)
  BY <1>19 DEF StoreW, Step, history
<1>20. CASE Set(p)
  BY <1>20 DEF Set, Step, AfterStore, history
<1>21. CASE Raise(p)
  BY <1>21 DEF Raise, Step, history
<1>22. CASE Up(p)
  BY <1>22 DEF Up, Step, history
<1> QED
  BY <1>2, <1>3, <1>4, <1>5, <1>6, <1>7, <1>8, <1>9, <1>10, <1>11, <1>12, <1>13,
     <1>14, <1>15, <1>16, <1>17, <1>18, <1>19, <1>20, <1>21, <1>22 DEF Read, Write

\* A copy from the start fits; counter is 0 or a size.
LEMMA WholeStep ==
  ASSUME Types, Types', Roles, Whole, [Next]_vars PROVE Whole'
<1> USE ParameterAssumption, FormsAssumption
    DEF Types, Labels, Reading, Writing, Roles, Whole, Inside
<1>1. CASE UNCHANGED vars
  BY <1>1 DEF vars, history
<1> SUFFICES ASSUME Inside, NEW p \in Procs, Read(p) \/ Write(p) PROVE Whole'
  BY <1>1 DEF Next
<1>2. CASE ReadStarts(p)
  BY <1>2 DEF ReadStarts, MayRead, Meet, Others
<1>3. CASE ReadWaits(p)
  BY <1>3 DEF ReadWaits, Step, history
<1>4. CASE WaitSignalled(p)
  BY <1>4 DEF WaitSignalled, Step, history
<1>5. CASE DownSignalled(p)
  BY <1>5 DEF DownSignalled, Step, Meet, Others
<1>6. CASE Clamp(p)
  BY <1>6 DEF Clamp, Step, Amount, Least, history
<1>7. CASE CopyOut(p)
  BY <1>7 DEF CopyOut, Step, AfterCopy
<1>8. CASE CopyOutFails(p)
  BY <1>8 DEF CopyOutFails, Step
<1>9. CASE Shift(p)
  BY <1>9 DEF Shift, Step, history
<1>10. CASE LoadR(p)
  BY <1>10 DEF LoadR, Step, history
<1>11. CASE StoreR(p)
  BY <1>11 DEF StoreR, Step, history
<1>12. CASE Reset(p)
  BY <1>12 DEF Reset, Step, history
<1>13. CASE Clear(p)
  BY <1>13 DEF Clear, Step, history
<1>14. CASE Wipe(p)
  BY <1>14 DEF Wipe, Step, history
<1>15. CASE WriteStarts(p)
  BY <1>15 DEF WriteStarts, Step, Amount, Meet, Others
<1>16. CASE CopyIn(p)
  BY <1>16 DEF CopyIn, Step, AfterCopyIn, Start
<1>17. CASE CopyInFails(p)
  BY <1>17 DEF CopyInFails, Step, Start
<1>18. CASE LoadW(p)
  BY <1>18 DEF LoadW, Step, history
<1>19. CASE StoreW(p)
  BY <1>19 DEF StoreW, Step, history
<1>20. CASE Set(p)
  BY <1>20 DEF Set, Step, AfterStore, history
<1>21. CASE Raise(p)
  BY <1>21 DEF Raise, Step, history
<1>22. CASE Up(p)
  BY <1>22 DEF Up, Step, history
<1> QED
  BY <1>2, <1>3, <1>4, <1>5, <1>6, <1>7, <1>8, <1>9, <1>10, <1>11, <1>12, <1>13,
     <1>14, <1>15, <1>16, <1>17, <1>18, <1>19, <1>20, <1>21, <1>22 DEF Read, Write

\* One reader next to one writer: neither spoils the bound of the other.
LEMMA ShiftingStep ==
  ASSUME Types, Types', Roles, Apart, Apart', Shifting, [Next]_vars PROVE Shifting'
<1> USE ParameterAssumption, FormsAssumption
    DEF Types, Labels, Reading, Writing, Roles, Apart, Shifting, Inside, ReaderFits, WriterFits
<1>1. CASE UNCHANGED vars
  BY <1>1 DEF vars, history
<1> SUFFICES ASSUME Inside, NEW p \in Procs, Read(p) \/ Write(p) PROVE Shifting'
  BY <1>1 DEF Next
<1>2. CASE ReadStarts(p)
  BY <1>2 DEF ReadStarts, MayRead, Meet, Others
<1>3. CASE ReadWaits(p)
  BY <1>3 DEF ReadWaits, Step, history
<1>4. CASE WaitSignalled(p)
  BY <1>4 DEF WaitSignalled, Step, history
<1>5. CASE DownSignalled(p)
  BY <1>5 DEF DownSignalled, Step, Meet, Others
<1>6. CASE Clamp(p)
  BY <1>6 DEF Clamp, Step, Amount, Least, history
<1>7. CASE CopyOut(p)
  BY <1>7 DEF CopyOut, Step, AfterCopy
<1>8. CASE CopyOutFails(p)
  BY <1>8 DEF CopyOutFails, Step
<1>9. CASE Shift(p)
  BY <1>9 DEF Shift, Step, history
<1>10. CASE LoadR(p)
  BY <1>10 DEF LoadR, Step, history
<1>11. CASE StoreR(p)
  BY <1>11 DEF StoreR, Step, history
<1>12. CASE Reset(p)
  BY <1>12 DEF Reset, Step, history
<1>13. CASE Clear(p)
  BY <1>13 DEF Clear, Step, history
<1>14. CASE Wipe(p)
  BY <1>14 DEF Wipe, Step, history
<1>15. CASE WriteStarts(p)
  <2> SUFFICES ASSUME form.style = "queue", ~crowded' PROVE Shifting'
    BY <1>15 DEF WriteStarts
  <2>1. ~crowded /\ UNCHANGED <<form, counter, tmp, outside>>
    BY <1>15 DEF WriteStarts, Meet
  <2>2. PICK asked \in 0..KMax : /\ asked <= KMax - counter
                                /\ size' = [size EXCEPT ![p] = asked]
    BY <1>15 DEF WriteStarts, Amount
  <2>3. pc[p] = "idle" /\ pc' = [pc EXCEPT ![p] = "copy_in"]
    BY <1>15 DEF WriteStarts, Step
  <2> QED
    BY <2>1, <2>2, <2>3
<1>16. CASE CopyIn(p)
  BY <1>16 DEF CopyIn, Step, AfterCopyIn, Start
<1>17. CASE CopyInFails(p)
  BY <1>17 DEF CopyInFails, Step, Start
<1>18. CASE LoadW(p)
  BY <1>18 DEF LoadW, Step, history
<1>19. CASE StoreW(p)
  BY <1>19 DEF StoreW, Step, history
<1>20. CASE Set(p)
  BY <1>20 DEF Set, Step, AfterStore, history
<1>21. CASE Raise(p)
  BY <1>21 DEF Raise, Step, history
<1>22. CASE Up(p)
  BY <1>22 DEF Up, Step, history
<1> QED
  BY <1>2, <1>3, <1>4, <1>5, <1>6, <1>7, <1>8, <1>9, <1>10, <1>11, <1>12, <1>13,
     <1>14, <1>15, <1>16, <1>17, <1>18, <1>19, <1>20, <1>21, <1>22 DEF Read, Write

\* The writer announces last, the reader clears after it copied.
LEMMA AnnouncedStep ==
  ASSUME Types, Types', Roles, Apart, Announced, [Next]_vars PROVE Announced'
<1> USE ParameterAssumption, FormsAssumption
    DEF Types, Labels, Reading, Writing, Roles, Apart, Announced, Pending
<1>1. CASE UNCHANGED vars
  BY <1>1 DEF vars, history
<1> SUFFICES ASSUME Inside, NEW p \in Procs, Read(p) \/ Write(p) PROVE Announced'
  BY <1>1 DEF Next
<1>2. CASE ReadStarts(p)
  BY <1>2 DEF ReadStarts, MayRead, Meet, Others
<1>3. CASE ReadWaits(p)
  BY <1>3 DEF ReadWaits, Step, history
<1>4. CASE WaitSignalled(p)
  BY <1>4 DEF WaitSignalled, Step, history
<1>5. CASE DownSignalled(p)
  BY <1>5 DEF DownSignalled, Step, Meet, Others
<1>6. CASE Clamp(p)
  BY <1>6 DEF Clamp, Step, Amount, Least, history
<1>7. CASE CopyOut(p)
  BY <1>7 DEF CopyOut, Step, AfterCopy
<1>8. CASE CopyOutFails(p)
  BY <1>8 DEF CopyOutFails, Step
<1>9. CASE Shift(p)
  BY <1>9 DEF Shift, Step, history
<1>10. CASE LoadR(p)
  BY <1>10 DEF LoadR, Step, history
<1>11. CASE StoreR(p)
  BY <1>11 DEF StoreR, Step, history
<1>12. CASE Reset(p)
  BY <1>12 DEF Reset, Step, history
<1>13. CASE Clear(p)
  BY <1>13 DEF Clear, Step, history
<1>14. CASE Wipe(p)
  BY <1>14 DEF Wipe, Step, history
<1>15. CASE WriteStarts(p)
  BY <1>15 DEF WriteStarts, Step, Amount, Meet, Others
<1>16. CASE CopyIn(p)
  BY <1>16 DEF CopyIn, Step, AfterCopyIn, Start
<1>17. CASE CopyInFails(p)
  BY <1>17 DEF CopyInFails, Step, Start
<1>18. CASE LoadW(p)
  BY <1>18 DEF LoadW, Step, history
<1>19. CASE StoreW(p)
  BY <1>19 DEF StoreW, Step, history
<1>20. CASE Set(p)
  BY <1>20 DEF Set, Step, AfterStore, history
<1>21. CASE Raise(p)
  BY <1>21 DEF Raise, Step, history
<1>22. CASE Up(p)
  BY <1>22 DEF Up, Step, history
<1> QED
  BY <1>2, <1>3, <1>4, <1>5, <1>6, <1>7, <1>8, <1>9, <1>10, <1>11, <1>12, <1>13,
     <1>14, <1>15, <1>16, <1>17, <1>18, <1>19, <1>20, <1>21, <1>22 DEF Read, Write

THEOREM Inductive == Spec => []IInv
<1>1. Init => IInv
  <2> SUFFICES ASSUME Init PROVE IInv
    OBVIOUS
  <2>1. \A p \in Procs : pc[p] = "idle"
    BY DEF Init
  <2>2. Types
    <3>1. {flag, upset, crowded, outside, fresh, spoilt} \subseteq BOOLEAN
      BY Zenon DEF Init
    <3>2. form \in Forms /\ counter \in Int /\ sem \in 0..MaxUnits
      BY ParameterAssumption DEF Init
    <3>3. pc \in [Procs -> Labels]
      BY DEF Init, Labels
    <3>4. size \in [Procs -> 0..KMax] /\ tmp \in [Procs -> 0..KMax]
      BY ParameterAssumption DEF Init
    <3> QED
      BY <3>1, <3>2, <3>3, <3>4, Zenon DEF Types
  <2>3. Roles /\ Apart
    BY <2>1 DEF Roles, Apart, Reading, Writing
  <2>4. Inside
    BY ParameterAssumption DEF Init, Inside
  <2>5. Shifting /\ Whole
    BY <2>1, <2>4 DEF Shifting, Whole, ReaderFits, WriterFits
  <2>6. Announced
    BY <2>1 DEF Init, Announced
  <2>7. Content
    BY ParameterAssumption DEF Init, Content, Blank
  <2> QED
    BY <2>2, <2>3, <2>5, <2>6, <2>7 DEF IInv
<1>2. IInv /\ [Next]_vars => IInv'
  BY TypesStep, RolesStep, ContentStep, ApartStep, WholeStep, ShiftingStep, AnnouncedStep DEF IInv
<1> QED
  BY <1>1, <1>2, PTL DEF Spec

\* Type correctness of the buffer drivers (007's kbuf and counter, 033's flag,
\* 027's semaphore).
THEOREM TypeCorrect == Spec => []TypeOK
<1>1. IInv => TypeOK
  BY DEF IInv, Types, Content, Labels, TypeOK
<1> QED
  BY <1>1, Inductive, PTL

\* No copy leaves the array and counter counts bytes of it, whatever runs at
\* the same time, short of two reads or two writes of a driver that shifts.
THEOREM Bounds == Spec => []StaysInside
<1>1. IInv => StaysInside
  BY DEF IInv, Shifting, Whole, StaysInside
<1> QED
  BY <1>1, Inductive, PTL

\* Unread data makes no reader wait, short of a read that meets a write or
\* throws away what it could not deliver.
THEOREM NothingHidden == Spec => []UnreadIsAnnounced
<1>1. IInv => UnreadIsAnnounced
  BY FormsAssumption DEF IInv, Types, Announced, Pending, UnreadIsAnnounced, Quiet, MayRead
<1> QED
  BY <1>1, Inductive, PTL
-----------------------------------------------------------------------------
(***************************************************************************)
(* The refinement.  Until calls overlap, the box is a function of where    *)
(* the only call is and of its size, and each step changes it by at most   *)
(* one read or write of ByteBox: a read when it copies, a write when it    *)
(* copies, or, in a queue, when it counts what it copied.                  *)
(***************************************************************************)
\* What upset records: no two calls overlap.
Sole == ~upset => \A p, q \in Procs :
  pc[p] \in Reading \cup Writing /\ pc[q] \in Reading \cup Writing => p = q

\* Of the only call: what it clamped still fits, what it loaded is still the
\* value of counter, and behind the bytes in use are those that it stored.
Steady == ~upset => \A p \in Procs :
  /\ form.style \in {"queue", "last"} /\ pc[p] \in {"copy_out", "shift", "load_r", "store_r"}
        => size[p] <= counter
  /\ pc[p] \in {"store_r", "store_w"} => tmp[p] = counter
  /\ pc[p] \in {"load_w", "store_w"} => \A k \in 1..size[p] : kbuf[counter + k] \in Bytes

\* The box, when no process but p is in a call, which is at l and has the size n.
View(l, n) ==
  CASE form.style = "queue" ->
         IF l = "shift" THEN SubSeq(kbuf, 1 + n, counter)
         ELSE IF l \in {"load_r", "store_r"} THEN SubSeq(kbuf, 1, counter - n)
         ELSE SubSeq(kbuf, 1, counter)
    [] form.style = "last" ->
         IF l = "reset" THEN <<>>
         ELSE IF l = "set" THEN SubSeq(kbuf, 1, n) ELSE SubSeq(kbuf, 1, counter)
    [] form.style = "page" -> IF l \in {"clear", "wipe"} THEN Blank ELSE kbuf
    [] OTHER -> kbuf

\* No other process is in a call.
Alone(p) == \A q \in Procs \ {p} : pc[q] \in {"idle", "wait"}

\* The CASE of Box picks the process that is in a call.
LEMMA BoxSeen == \A p \in Procs : Alone(p) => Box = View(pc[p], size[p])
<1> SUFFICES ASSUME NEW p \in Procs, Alone(p) PROVE Box = View(pc[p], size[p])
  OBVIOUS
<1>1. ASSUME NEW labels, "idle" \notin labels, "wait" \notin labels
      PROVE  Busy(labels) = IF pc[p] \in labels THEN {p} ELSE {}
  BY <1>1 DEF Busy, Alone
<1>2. \A S : S = {p} => (CHOOSE q \in S : TRUE) = p
  OBVIOUS
<1>3. /\ Busy({"shift"}) = IF pc[p] = "shift" THEN {p} ELSE {}
      /\ Busy({"load_r", "store_r"}) = IF pc[p] \in {"load_r", "store_r"} THEN {p} ELSE {}
      /\ Busy({"reset"}) = IF pc[p] = "reset" THEN {p} ELSE {}
      /\ Busy({"set"}) = IF pc[p] = "set" THEN {p} ELSE {}
      /\ Busy({"clear", "wipe"}) = IF pc[p] \in {"clear", "wipe"} THEN {p} ELSE {}
  BY <1>1
<1>4. CASE form.style = "queue"
  BY <1>2, <1>3, <1>4 DEF Box, View
<1>5. CASE form.style = "last"
  BY <1>2, <1>3, <1>5 DEF Box, View
<1>6. CASE form.style = "page"
  BY <1>3, <1>6 DEF Box, View
<1>7. CASE form.style \notin {"queue", "last", "page"}
  BY <1>7 DEF Box, View
<1> QED
  BY <1>4, <1>5, <1>6, <1>7

\* The same of the next state.
LEMMA BoxSeenNext == \A p \in Procs : Alone(p)' => Box' = View(pc[p], size[p])'
<1>1. (\A p \in Procs : Alone(p) => Box = View(pc[p], size[p]))'
  BY BoxSeen, PTL
<1> QED
  BY <1>1

\* upset is set in time.
LEMMA SoleStep ==
  ASSUME Types, Types', Sole, [Next]_vars PROVE Sole'
<1> USE ParameterAssumption, FormsAssumption
    DEF Types, Labels, Reading, Writing, Sole
<1>1. CASE UNCHANGED vars
  BY <1>1 DEF vars, history
<1> SUFFICES ASSUME NEW p \in Procs, Read(p) \/ Write(p) PROVE Sole'
  BY <1>1 DEF Next
<1>2. CASE ReadStarts(p)
  <2>1. pc[p] \in {"idle", "wait"} /\ pc' = [pc EXCEPT ![p] = "clamp"]
    BY <1>2 DEF ReadStarts, Step
  <2>2. ~upset' => ~upset /\ Others(p, Reading \cup Writing) = {}
    BY <1>2 DEF ReadStarts, Meet
  <2> QED
    BY <2>1, <2>2 DEF Others
<1>3. CASE ReadWaits(p)
  BY <1>3 DEF ReadWaits, Step, history
<1>4. CASE WaitSignalled(p)
  BY <1>4 DEF WaitSignalled, Step, history
<1>5. CASE DownSignalled(p)
  <2>1. pc[p] \in {"idle", "wait"} /\ pc' = [pc EXCEPT ![p] = "clamp"]
    BY <1>5 DEF DownSignalled, Step
  <2>2. ~upset' => ~upset /\ Others(p, Reading \cup Writing) = {}
    BY <1>5 DEF DownSignalled, Meet
  <2> QED
    BY <2>1, <2>2 DEF Others
<1>6. CASE Clamp(p)
  BY <1>6 DEF Clamp, Step, Amount, Least, history
<1>7. CASE CopyOut(p)
  BY <1>7 DEF CopyOut, Step, AfterCopy
<1>8. CASE CopyOutFails(p)
  BY <1>8 DEF CopyOutFails, Step
<1>9. CASE Shift(p)
  BY <1>9 DEF Shift, Step, history
<1>10. CASE LoadR(p)
  BY <1>10 DEF LoadR, Step, history
<1>11. CASE StoreR(p)
  BY <1>11 DEF StoreR, Step, history
<1>12. CASE Reset(p)
  BY <1>12 DEF Reset, Step, history
<1>13. CASE Clear(p)
  BY <1>13 DEF Clear, Step, history
<1>14. CASE Wipe(p)
  BY <1>14 DEF Wipe, Step, history
<1>15. CASE WriteStarts(p)
  <2>1. pc[p] \in {"idle", "wait"} /\ pc' = [pc EXCEPT ![p] = "copy_in"]
    BY <1>15 DEF WriteStarts, Step
  <2>2. ~upset' => ~upset /\ Others(p, Writing \cup Reading) = {}
    BY <1>15 DEF WriteStarts, Meet
  <2> QED
    BY <2>1, <2>2 DEF Others
<1>16. CASE CopyIn(p)
  BY <1>16 DEF CopyIn, Step, AfterCopyIn, Start
<1>17. CASE CopyInFails(p)
  BY <1>17 DEF CopyInFails, Step, Start
<1>18. CASE LoadW(p)
  BY <1>18 DEF LoadW, Step, history
<1>19. CASE StoreW(p)
  BY <1>19 DEF StoreW, Step, history
<1>20. CASE Set(p)
  BY <1>20 DEF Set, Step, AfterStore, history
<1>21. CASE Raise(p)
  BY <1>21 DEF Raise, Step, history
<1>22. CASE Up(p)
  BY <1>22 DEF Up, Step, history
<1> QED
  BY <1>2, <1>3, <1>4, <1>5, <1>6, <1>7, <1>8, <1>9, <1>10, <1>11, <1>12, <1>13,
     <1>14, <1>15, <1>16, <1>17, <1>18, <1>19, <1>20, <1>21, <1>22 DEF Read, Write

\* What the only call has read stays true, and what it has stored stays stored.
LEMMA SteadyStep ==
  ASSUME Types, Types', Roles, Content, Sole, Sole', Shifting, Whole, Steady, [Next]_vars PROVE Steady'
<1> USE ParameterAssumption, FormsAssumption
    DEF Types, Labels, Reading, Writing, Roles, Sole, Steady
<1>1. CASE UNCHANGED vars
  BY <1>1 DEF vars, history
<1> SUFFICES ASSUME Inside, NEW p \in Procs, Read(p) \/ Write(p) PROVE Steady'
  BY <1>1 DEF Next
<1>2. CASE ReadStarts(p)
  BY <1>2 DEF ReadStarts, MayRead, Meet, Others
<1>3. CASE ReadWaits(p)
  BY <1>3 DEF ReadWaits, Step, history
<1>4. CASE WaitSignalled(p)
  BY <1>4 DEF WaitSignalled, Step, history
<1>5. CASE DownSignalled(p)
  BY <1>5 DEF DownSignalled, Step, Meet, Others
<1>6. CASE Clamp(p)
  BY <1>6 DEF Clamp, Step, Amount, Least, history
<1>7. CASE CopyOut(p)
  BY <1>7 DEF CopyOut, Step, AfterCopy
<1>8. CASE CopyOutFails(p)
  BY <1>8 DEF CopyOutFails, Step
<1>9. CASE Shift(p)
  BY <1>9 DEF Shift, Step, history
<1>10. CASE LoadR(p)
  BY <1>10 DEF LoadR, Step, history
<1>11. CASE StoreR(p)
  BY <1>11 DEF StoreR, Step, history
<1>12. CASE Reset(p)
  BY <1>12 DEF Reset, Step, history
<1>13. CASE Clear(p)
  BY <1>13 DEF Clear, Step, history
<1>14. CASE Wipe(p)
  BY <1>14 DEF Wipe, Step, history
<1>15. CASE WriteStarts(p)
  BY <1>15 DEF WriteStarts, Step, Amount, Meet, Others
<1>16. CASE CopyIn(p)
  <2> SUFFICES ASSUME ~upset, NEW q \in Procs, pc'[q] \in {"load_w", "store_w"},
                      NEW k \in 1..size'[q]
               PROVE  kbuf'[counter + k] \in Bytes
    BY <1>16 DEF CopyIn, Step, AfterCopyIn
  <2>1. p = q /\ form.style = "queue" /\ size' = size
    BY <1>16 DEF CopyIn, Step, AfterCopyIn
  <2>2. PICK d \in [1..size[p] -> Bytes] : kbuf' = Stored(counter, d)
    BY <1>16, <2>1 DEF CopyIn, Start
  <2>3. counter \in 0..KMax /\ counter + size[p] <= KMax
    BY <1>16, <2>1 DEF CopyIn, Step, Content, Shifting, Inside, WriterFits
  <2>4. counter + k \in 1..KMax /\ counter + k - counter = k /\ k \in DOMAIN d
    BY <2>1, <2>3
  <2>5. kbuf'[counter + k] = d[k]
    BY <2>2, <2>4 DEF Stored
  <2> QED
    BY <2>4, <2>5
<1>17. CASE CopyInFails(p)
  BY <1>17 DEF CopyInFails, Step, Start
<1>18. CASE LoadW(p)
  BY <1>18 DEF LoadW, Step, history
<1>19. CASE StoreW(p)
  BY <1>19 DEF StoreW, Step, history
<1>20. CASE Set(p)
  BY <1>20 DEF Set, Step, AfterStore, history
<1>21. CASE Raise(p)
  BY <1>21 DEF Raise, Step, history
<1>22. CASE Up(p)
  BY <1>22 DEF Up, Step, history
<1> QED
  BY <1>2, <1>3, <1>4, <1>5, <1>6, <1>7, <1>8, <1>9, <1>10, <1>11, <1>12, <1>13,
     <1>14, <1>15, <1>16, <1>17, <1>18, <1>19, <1>20, <1>21, <1>22 DEF Read, Write
-----------------------------------------------------------------------------
\* Parts of an array, as sequences.
LEMMA FirstPart ==
  ASSUME NEW S, NEW f \in [1..KMax -> S], NEW n \in 0..KMax
  PROVE  /\ SubSeq(f, 1, n) \in Seq(S) /\ Len(SubSeq(f, 1, n)) = n
         /\ \A i \in 1..n : SubSeq(f, 1, n)[i] = f[i]
<1>1. \A i \in 1..n : f[i] \in S
  BY ParameterAssumption
<1>2. 1 \in Int /\ n \in Int
  BY ParameterAssumption
<1>3. /\ SubSeq(f, 1, n) \in Seq(S)
      /\ Len(SubSeq(f, 1, n)) = IF 1 <= n THEN n - 1 + 1 ELSE 0
      /\ \A i \in 1..n - 1 + 1 : SubSeq(f, 1, n)[i] = f[1 + i - 1]
  BY <1>1, <1>2, SubSeqProperties
<1> QED
  BY <1>3, ParameterAssumption

\* Equal entries make equal parts.
LEMMA EqualParts ==
  ASSUME NEW S, NEW f \in [1..KMax -> S], NEW g \in [1..KMax -> S],
         NEW m \in Nat \ {0}, NEW n \in 0..KMax, m <= n + 1,
         NEW c \in 0..KMax, c = n - m + 1,
         \A i \in 1..c : g[i] = f[m + i - 1]
  PROVE  SubSeq(g, 1, c) = SubSeq(f, m, n)
<1>1. /\ SubSeq(f, m, n) \in Seq(S) /\ Len(SubSeq(f, m, n)) = c
      /\ \A i \in 1..c : SubSeq(f, m, n)[i] = f[m + i - 1]
  <2>1. \A i \in m..n : f[i] \in S
    BY ParameterAssumption
  <2> QED
    BY <2>1, SubSeqProperties, ParameterAssumption
<1>2. /\ SubSeq(g, 1, c) \in Seq(S) /\ Len(SubSeq(g, 1, c)) = c
      /\ \A i \in 1..c : SubSeq(g, 1, c)[i] = g[i]
  BY FirstPart
<1> QED
  BY <1>1, <1>2, SeqEqual

\* What is left of the first c entries without the first n of them.
LEMMA RestOfPart ==
  ASSUME NEW S, NEW f \in [1..KMax -> S], NEW c \in 0..KMax, NEW n \in 0..c
  PROVE  SubSeq(SubSeq(f, 1, c), n + 1, c) = SubSeq(f, 1 + n, c)
<1>1. /\ SubSeq(f, 1, c) \in Seq(S) /\ Len(SubSeq(f, 1, c)) = c
      /\ \A i \in 1..c : SubSeq(f, 1, c)[i] = f[i]
  BY FirstPart
<1>2. /\ SubSeq(f, 1 + n, c) \in Seq(S) /\ Len(SubSeq(f, 1 + n, c)) = c - n
      /\ \A i \in 1..c - n : SubSeq(f, 1 + n, c)[i] = f[n + i]
  <2>1. \A i \in 1 + n..c : f[i] \in S
    BY ParameterAssumption
  <2>2. 1 + n \in Int /\ c \in Int
    BY ParameterAssumption
  <2>3. /\ SubSeq(f, 1 + n, c) \in Seq(S)
        /\ Len(SubSeq(f, 1 + n, c)) = IF 1 + n <= c THEN c - (1 + n) + 1 ELSE 0
        /\ \A i \in 1..c - (1 + n) + 1 : SubSeq(f, 1 + n, c)[i] = f[1 + n + i - 1]
    BY <2>1, <2>2, SubSeqProperties
  <2> QED
    BY <2>3, ParameterAssumption
<1> DEFINE s == SubSeq(f, 1, c)
<1>3. \A i \in n + 1..c : s[i] \in S
  BY <1>1
<1>4. /\ SubSeq(s, n + 1, c) \in Seq(S)
      /\ Len(SubSeq(s, n + 1, c)) = c - n
      /\ \A i \in 1..c - n : SubSeq(s, n + 1, c)[i] = s[n + i]
  <2> HIDE DEF s
  <2>1. n + 1 \in Int /\ c \in Int /\ n \in Int
    BY ParameterAssumption
  <2>2. /\ SubSeq(s, n + 1, c) \in Seq(S)
        /\ Len(SubSeq(s, n + 1, c)) = IF n + 1 <= c THEN c - (n + 1) + 1 ELSE 0
        /\ \A i \in 1..c - (n + 1) + 1 : SubSeq(s, n + 1, c)[i] = s[n + 1 + i - 1]
    BY <1>3, <2>1, SubSeqProperties
  <2> QED
    BY <2>1, <2>2
<1>5. \A i \in 1..c - n : SubSeq(s, n + 1, c)[i] = SubSeq(f, 1 + n, c)[i]
  BY <1>1, <1>2, <1>4
<1> QED
  BY <1>2, <1>4, <1>5, SeqEqual

\* The types that the lemmas about the box need.
LEMMA Within ==
  ASSUME Types, Content, Shifting, Whole, ~upset
  PROVE  /\ kbuf \in [1..KMax -> Bytes \cup {Zero}]
         /\ counter \in 0..KMax
         /\ form.style \in {"queue", "last", "page", "keep"}
         /\ form.style = "queue" => \A p \in Procs : ReaderFits(p) /\ WriterFits(p)
BY FormsAssumption DEF Types, Content, Shifting, Whole, Inside

\* read() takes from the box when it copies.
LEMMA CopyOutTakes ==
  ASSUME Types, Content, Shifting, Whole, Steady, ~upset,
         NEW p \in Procs, CopyOut(p), Alone(p), Alone(p)',
         Box = View(pc[p], size[p]), Box' = View(pc[p], size[p])'
  PROVE  Promise!Next \/ UNCHANGED <<form, Box>>
<1> USE ParameterAssumption
<1>1. /\ pc[p] = "copy_out" /\ pc' = [pc EXCEPT ![p] = AfterCopy[form.style]]
      /\ UNCHANGED <<form, kbuf, counter>>
      /\ pc \in [Procs -> Labels] /\ size \in [Procs -> 0..KMax]
  BY DEF CopyOut, Step, Types
<1>2. pc'[p] = AfterCopy[form.style]
  BY <1>1
<1>3. /\ kbuf \in [1..KMax -> Bytes \cup {Zero}] /\ counter \in 0..KMax
      /\ form.style \in {"queue", "last", "page", "keep"}
  BY Within
<1>4. SubSeq(kbuf, 1, counter) \in Seq(Bytes \cup {Zero}) /\ Len(SubSeq(kbuf, 1, counter)) = counter
  BY <1>3, FirstPart
<1>5. CASE form.style = "queue"
  <2>1. size'[p] = size[p] /\ pc'[p] = "shift"
    BY <1>2, <1>5 DEF CopyOut, AfterCopy
  <2>2. Box = SubSeq(kbuf, 1, counter) /\ Box' = SubSeq(kbuf, 1 + size[p], counter)
    BY <1>1, <1>5, <2>1 DEF View
  <2>3. size[p] \in 0..counter /\ size[p] \in 0..KMax
    BY <1>1, <1>3, <1>5 DEF Steady
  <2>4. Box' = SubSeq(Box, size[p] + 1, Len(Box))
    <3>1. SubSeq(SubSeq(kbuf, 1, counter), size[p] + 1, counter) = SubSeq(kbuf, 1 + size[p], counter)
      BY <1>3, <2>3, RestOfPart
    <3> QED
      BY <1>4, <2>2, <3>1
  <2>5. Promise!Take(size[p])
    BY <1>1, <1>4, <1>5, <2>2, <2>3, <2>4 DEF Promise!Take
  <2> QED
    BY <2>3, <2>5 DEF Promise!Next
<1>6. CASE form.style = "last"
  <2>1. pc'[p] = "reset"
    BY <1>2, <1>6 DEF AfterCopy
  <2>2. Box = SubSeq(kbuf, 1, counter) /\ Box' = <<>>
    BY <1>1, <1>6, <2>1 DEF View
  <2>3. size[p] \in 0..counter /\ size[p] \in 0..KMax
    BY <1>1, <1>3, <1>6 DEF Steady
  <2>4. Promise!Take(size[p])
    BY <1>1, <1>4, <1>6, <2>2, <2>3 DEF Promise!Take
  <2> QED
    BY <2>3, <2>4 DEF Promise!Next
<1>7. CASE form.style = "page"
  <2>1. pc'[p] = "clear"
    BY <1>2, <1>7 DEF AfterCopy
  <2>2. Box' = Blank
    BY <1>1, <1>7, <2>1 DEF View, Blank
  <2>3. Promise!Take(0)
    BY <1>1, <1>7, <2>2 DEF Promise!Take, Promise!Blank, Blank
  <2> QED
    BY <2>3, ParameterAssumption DEF Promise!Next
<1>8. CASE form.style = "keep"
  BY <1>1, <1>8 DEF View
<1> QED
  BY <1>3, <1>5, <1>6, <1>7, <1>8

\* write() fills the box when it copies, but for the queue, where the bytes
\* wait behind those in use.
LEMMA CopyInPuts ==
  ASSUME Types, Content, Content', Shifting, Whole, ~upset, ~upset',
         NEW p \in Procs, CopyIn(p), Alone(p), Alone(p)',
         Box = View(pc[p], size[p]), Box' = View(pc[p], size[p])'
  PROVE  Promise!Next \/ UNCHANGED <<form, Box>>
<1> USE ParameterAssumption
<1>1. /\ pc[p] = "copy_in" /\ pc' = [pc EXCEPT ![p] = AfterCopyIn[form.style]]
      /\ UNCHANGED <<form, counter>>
      /\ pc \in [Procs -> Labels] /\ size \in [Procs -> 0..KMax]
  BY DEF CopyIn, Step, Types
<1>2. pc'[p] = AfterCopyIn[form.style]
  BY <1>1
<1>3. /\ kbuf \in [1..KMax -> Bytes \cup {Zero}] /\ counter \in 0..KMax
      /\ kbuf' \in [1..KMax -> Bytes \cup {Zero}]
      /\ form.style \in {"queue", "last", "page", "keep"}
  BY Within DEF Content
<1>4. PICK d \in [1..size[p] -> Bytes] : kbuf' = Stored(Start, d)
  BY DEF CopyIn
<1>5. size[p] \in 0..KMax /\ DOMAIN d = 1..size[p]
  BY <1>1
<1>6. d \in Seq(Bytes) /\ Len(d) = size[p]
  BY <1>5
<1>7. CASE form.style = "queue"
  <2>1. pc'[p] = "load_w"
    BY <1>2, <1>7 DEF AfterCopyIn
  <2>2. Box = SubSeq(kbuf, 1, counter) /\ Box' = SubSeq(kbuf', 1, counter)
    BY <1>1, <1>7, <2>1 DEF View
  <2>3. \A i \in 1..counter : /\ i \in 1..KMax /\ i - counter \notin 1..size[p]
                              /\ 1 + i - 1 = i
    BY <1>3
  <2>4. \A i \in 1..counter : kbuf'[i] = kbuf[1 + i - 1]
    BY <1>4, <1>5, <1>7, <2>3 DEF Stored, Start
  <2>5. counter = counter - 1 + 1 /\ 1 <= counter + 1 /\ 1 \in Nat \ {0}
    BY <1>3
  <2>6. Box' = Box
    BY <1>3, <2>2, <2>4, <2>5, EqualParts
  <2> QED
    BY <1>1, <2>6
<1>8. CASE form.style = "last"
  <2>1. pc'[p] = "set" /\ size'[p] = size[p]
    BY <1>2, <1>8 DEF CopyIn, AfterCopyIn
  <2>2. Box' = SubSeq(kbuf', 1, size[p])
    BY <1>1, <1>8, <2>1 DEF View
  <2>3. \A i \in 1..size[p] : kbuf'[i] = d[i]
    <3>1. \A i \in 1..size[p] : i \in 1..KMax /\ i - 0 = i
      BY <1>5
    <3> QED
      BY <1>4, <1>5, <1>8, <3>1 DEF Stored, Start
  <2>4. /\ Box' \in Seq(Bytes \cup {Zero}) /\ Len(Box') = size[p]
        /\ \A i \in 1..size[p] : Box'[i] = kbuf'[i]
    BY <1>3, <1>5, <2>2, FirstPart
  <2>5. d \in Seq(Bytes \cup {Zero})
    BY <1>6
  <2>6. Box' = d
    BY <1>6, <2>3, <2>4, <2>5, SeqEqual
  <2>7. Promise!Put(d)
    BY <1>1, <1>8, <2>6 DEF Promise!Put
  <2> QED
    BY <1>5, <2>7 DEF Promise!Next
<1>9. CASE form.style \in {"page", "keep"}
  <2>1. Box = kbuf /\ Box' = kbuf'
    BY <1>1, <1>2, <1>9 DEF View, AfterCopyIn
  <2>2. kbuf' = Promise!Overlay(d)
    BY <1>4, <1>5, <1>6, <1>9, <2>1 DEF Stored, Start, Promise!Overlay
  <2>3. Promise!Put(d)
    BY <1>1, <1>9, <2>1, <2>2 DEF Promise!Put
  <2> QED
    BY <1>5, <2>3 DEF Promise!Next
<1> QED
  BY <1>3, <1>7, <1>8, <1>9

\* "counter += size" puts the bytes that wait into the queue.
LEMMA StoreWPuts ==
  ASSUME Types, Roles, Content, Shifting, Whole, Steady, ~upset,
         NEW p \in Procs, StoreW(p), Alone(p), Alone(p)',
         Box = View(pc[p], size[p]), Box' = View(pc[p], size[p])'
  PROVE  Promise!Next
<1> USE ParameterAssumption
<1> DEFINE c == counter
           n == size[p]
           d == SubSeq(kbuf, c + 1, c + n)
<1>1. /\ pc[p] = "store_w" /\ pc'[p] = "idle" /\ UNCHANGED <<form, kbuf>>
      /\ counter' = tmp[p] + n /\ n \in 0..KMax
  BY DEF StoreW, Step, Types, history
<1>2. form.style = "queue" /\ tmp[p] = c
  BY <1>1 DEF Roles, Steady
<1>3. /\ kbuf \in [1..KMax -> Bytes \cup {Zero}] /\ c \in 0..KMax /\ WriterFits(p)
  BY <1>2, Within
<1>4. c + n \in 0..KMax
  BY <1>1, <1>2, <1>3 DEF WriterFits
<1>5. Box = SubSeq(kbuf, 1, c) /\ Box' = SubSeq(kbuf, 1, c + n)
  BY <1>1, <1>2 DEF View
<1>6. Len(Box) = c
  BY <1>3, <1>5, FirstPart
<1>7. \A i \in c + 1..c + n : kbuf[i] \in Bytes
  <2> SUFFICES ASSUME NEW i \in c + 1..c + n PROVE kbuf[i] \in Bytes
    OBVIOUS
  <2>1. i - c \in 1..n /\ c + (i - c) = i
    BY <1>1, <1>3
  <2> QED
    BY <1>1, <2>1 DEF Steady
<1>8. d \in Seq(Bytes) /\ Len(d) = n
  BY <1>1, <1>3, <1>7, SubSeqProperties
<1>9. d \in [1..n -> Bytes]
  <2> HIDE DEF d, n
  <2> QED
    BY <1>8
<1>10. Box' = Box \o d
  <2>1. kbuf \in Seq(Bytes \cup {Zero}) /\ Len(kbuf) = KMax
    BY <1>3, ParameterAssumption
  <2>2. 1 \in 1..KMax + 1 /\ c \in 1 - 1..KMax /\ c + n \in c..KMax
    BY <1>1, <1>3, <1>4, ParameterAssumption
  <2> QED
    BY <1>5, <2>1, <2>2, ConcatAdjacentSubSeq
<1>11. Promise!Put(d)
  <2>1. Len(Box) + Len(d) <= KMax /\ form' = form
    BY <1>1, <1>4, <1>6, <1>8
  <2> HIDE DEF d
  <2> QED
    BY <1>2, <1>10, <2>1 DEF Promise!Put
<1> QED
  BY <1>1, <1>9, <1>11 DEF Promise!Next

\* The shift moves the bytes that the box already had alone.
LEMMA ShiftKeeps ==
  ASSUME Types, Roles, Content, Content', Shifting, Whole, Steady, ~upset,
         NEW p \in Procs, Shift(p), Alone(p), Alone(p)',
         Box = View(pc[p], size[p]), Box' = View(pc[p], size[p])'
  PROVE  UNCHANGED <<form, Box>>
<1> USE ParameterAssumption
<1>1. /\ pc[p] = "shift" /\ pc'[p] = "load_r" /\ UNCHANGED <<form, counter, size>>
      /\ size[p] \in 0..KMax
  BY DEF Shift, Step, Types, history
<1>2. form.style = "queue"
  BY <1>1 DEF Roles
<1>3. /\ kbuf \in [1..KMax -> Bytes \cup {Zero}] /\ counter \in 0..KMax
      /\ kbuf' \in [1..KMax -> Bytes \cup {Zero}]
  BY Within DEF Content
<1>4. size[p] <= counter
  BY <1>1, <1>2 DEF Steady
<1>5. Box = SubSeq(kbuf, 1 + size[p], counter) /\ Box' = SubSeq(kbuf', 1, counter - size[p])
  BY <1>1, <1>2 DEF View
<1>6. \A i \in 1..counter - size[p] : kbuf'[i] = kbuf[1 + size[p] + i - 1]
  <2>1. \A i \in 1..counter - size[p] :
           i \in 1..KMax /\ i <= counter - size[p] /\ 1 + size[p] + i - 1 = i + size[p]
    BY <1>1, <1>3, <1>4
  <2> QED
    BY <2>1 DEF Shift
<1>7. /\ 1 + size[p] \in Nat \ {0} /\ 1 + size[p] <= counter + 1
      /\ counter - size[p] \in 0..KMax /\ counter - size[p] = counter - (1 + size[p]) + 1
  BY <1>1, <1>3, <1>4
<1>8. SubSeq(kbuf', 1, counter - size[p]) = SubSeq(kbuf, 1 + size[p], counter)
  <2> DEFINE m == 1 + size[p]
             c == counter - size[p]
  <2>1. /\ m \in Nat \ {0} /\ m <= counter + 1 /\ c \in 0..KMax /\ c = counter - m + 1
        /\ \A i \in 1..c : kbuf'[i] = kbuf[m + i - 1]
    BY <1>6, <1>7
  <2> HIDE DEF m, c
  <2>2. SubSeq(kbuf', 1, c) = SubSeq(kbuf, m, counter)
    BY <1>3, <2>1, EqualParts
  <2> QED
    BY <2>2 DEF m, c
<1> QED
  BY <1>1, <1>5, <1>8

\* A step of a process in a call that is alone keeps the promise; the rest of
\* the steps leave the box as it is.
LEMMA BoxStep ==
  ASSUME Types, Roles, Content, Content', Shifting, Whole, Sole, Sole', Steady,
         ~upset, ~upset', Inside, NEW p \in Procs, Read(p) \/ Write(p)
  PROVE  Promise!Next \/ UNCHANGED <<form, Box>>
<1> USE ParameterAssumption, FormsAssumption DEF Types, Labels, Reading, Writing
<1>1. CASE ReadWaits(p) \/ WaitSignalled(p)
  <2>1. /\ UNCHANGED <<form, kbuf, counter, size>>
        /\ pc[p] \in {"idle", "wait"}
        /\ pc' = [pc EXCEPT ![p] = "idle"] \/ pc' = [pc EXCEPT ![p] = "wait"]
    BY <1>1 DEF ReadWaits, WaitSignalled, Step
  <2>2. /\ Busy({"shift"})' = Busy({"shift"})
        /\ Busy({"load_r", "store_r"})' = Busy({"load_r", "store_r"})
        /\ Busy({"reset"})' = Busy({"reset"})
        /\ Busy({"set"})' = Busy({"set"})
        /\ Busy({"clear", "wipe"})' = Busy({"clear", "wipe"})
    BY <2>1 DEF Busy
  <2>3. ASSUME NEW labels, Busy(labels)' = Busy(labels)
        PROVE  (CHOOSE q \in Busy(labels) : TRUE)' = CHOOSE q \in Busy(labels) : TRUE
    BY <2>3
  <2>4. /\ (CHOOSE q \in Busy({"shift"}) : TRUE)' = CHOOSE q \in Busy({"shift"}) : TRUE
        /\ (CHOOSE q \in Busy({"load_r", "store_r"}) : TRUE)'
             = CHOOSE q \in Busy({"load_r", "store_r"}) : TRUE
        /\ (CHOOSE q \in Busy({"set"}) : TRUE)' = CHOOSE q \in Busy({"set"}) : TRUE
    BY <2>2, <2>3
  <2>5. Box' = Box
    BY <2>1, <2>2, <2>4 DEF Box, Blank
  <2> QED
    BY <2>1, <2>5
<1>2. CASE ~(ReadWaits(p) \/ WaitSignalled(p))
  <2>1. /\ \A q \in Procs \ {p} : pc'[q] = pc[q]
        /\ \A q \in Procs \ {p} : pc[q] \in {"idle", "wait"}
    <3>1. CASE ReadStarts(p)
      BY <3>1 DEF ReadStarts, Meet, Others
    <3>2. CASE DownSignalled(p)
      BY <3>2 DEF DownSignalled, Step, Meet, Others
    <3>3. CASE WriteStarts(p)
      BY <3>3 DEF WriteStarts, Step, Meet, Others
    <3>4. CASE ~(ReadStarts(p) \/ DownSignalled(p) \/ WriteStarts(p))
      <4>1. pc[p] \in Reading \cup Writing
        BY <1>2, <3>4 DEF Read, Write, Clamp, CopyOut, CopyOutFails, Shift, LoadR, StoreR,
              Reset, Clear, Wipe, CopyIn, CopyInFails, LoadW, StoreW, Set, Raise, Up, Step
      <4>2. \E l : pc' = [pc EXCEPT ![p] = l]
        BY <1>2, <3>4 DEF Read, Write, Clamp, CopyOut, CopyOutFails, Shift, LoadR, StoreR,
              Reset, Clear, Wipe, CopyIn, CopyInFails, LoadW, StoreW, Set, Raise, Up, Step
      <4> QED
        BY <4>1, <4>2 DEF Sole
    <3> QED
      BY <3>1, <3>2, <3>3, <3>4
  <2>2. Alone(p) /\ Alone(p)'
    BY <2>1 DEF Alone
  <2>3. Box = View(pc[p], size[p]) /\ Box' = View(pc[p], size[p])'
    BY <2>2, BoxSeen, BoxSeenNext
  <2>4. /\ counter \in 0..KMax /\ form.style \in {"queue", "last", "page", "keep"}
    BY Within
  <2>5. CASE ReadStarts(p)
    BY <2>3, <2>5 DEF ReadStarts, Meet, View, Blank
  <2>6. CASE DownSignalled(p)
    BY <2>3, <2>6 DEF DownSignalled, Step, Meet, View, Blank
  <2>7. CASE Clamp(p)
    BY <2>3, <2>7 DEF Clamp, Step, View, Blank
  <2>8. CASE CopyOut(p)
    BY <2>2, <2>3, <2>8, CopyOutTakes
  <2>9. CASE CopyOutFails(p)
    BY <2>3, <2>9 DEF CopyOutFails, Step, View, Blank
  <2>10. CASE Shift(p)
    BY <2>2, <2>3, <2>10, ShiftKeeps
  <2>11. CASE LoadR(p)
    BY <2>3, <2>11 DEF LoadR, Step, View, Roles
  <2>12. CASE StoreR(p)
    <3>1. pc[p] = "store_r" /\ pc'[p] = "idle" /\ UNCHANGED <<form, kbuf>>
      BY <2>12 DEF StoreR, Step
    <3>2. form.style = "queue" /\ counter' = counter - size[p]
      BY <2>12, <3>1 DEF StoreR, Roles, Steady
    <3> QED
      BY <2>3, <3>1, <3>2 DEF View
  <2>13. CASE Reset(p)
    <3>1. /\ pc[p] = "reset" /\ pc'[p] = "idle" /\ UNCHANGED <<form, kbuf>>
          /\ form.style = "last" /\ counter' = 0
      BY <2>13 DEF Reset, Step, Roles
    <3>2. Box = <<>> /\ Box' = SubSeq(kbuf, 1, 0)
      BY <2>3, <3>1 DEF View
    <3> QED
      BY <3>1, <3>2, SubSeqEmpty
  <2>14. CASE Clear(p)
    BY <2>3, <2>14 DEF Clear, Step, View, Roles, Blank
  <2>15. CASE Wipe(p)
    BY <2>3, <2>15 DEF Wipe, Step, View, Roles, Blank
  <2>16. CASE WriteStarts(p)
    BY <2>3, <2>16 DEF WriteStarts, Step, Meet, View, Blank
  <2>17. CASE CopyIn(p)
    BY <2>2, <2>3, <2>17, CopyInPuts
  <2>18. CASE CopyInFails(p)
    BY <2>3, <2>18 DEF CopyInFails, Step, View
  <2>19. CASE LoadW(p)
    BY <2>3, <2>19 DEF LoadW, Step, View, Roles
  <2>20. CASE StoreW(p)
    BY <2>2, <2>3, <2>20, StoreWPuts
  <2>21. CASE Set(p)
    <3>1. /\ pc[p] = "set" /\ pc'[p] \in {"up", "idle"} /\ UNCHANGED <<form, kbuf>>
          /\ form.style = "last" /\ counter' = size[p]
      BY <2>21 DEF Set, Step, AfterStore, Roles
    <3> QED
      BY <2>3, <3>1 DEF View
  <2>22. CASE Raise(p)
    BY <2>3, <2>22 DEF Raise, Step, View, Roles
  <2>23. CASE Up(p)
    BY <2>3, <2>23 DEF Up, Step, View, Roles
  <2> QED
    BY <1>2, <2>5, <2>6, <2>7, <2>8, <2>9, <2>10, <2>11, <2>12, <2>13, <2>14, <2>15, <2>16,
       <2>17, <2>18, <2>19, <2>20, <2>21, <2>22, <2>23 DEF Read, Write
<1> QED
  BY <1>1, <1>2

\* While calls do not overlap and no copy fails half way, a driver with a
\* buffer is the box that its style promises, for any number of processes and
\* any length of the array.
THEOREM BoxRefinement == Spec => ImplementsBox
<1>1. Spec => [](Sole /\ Steady)
  <2>1. Init => Sole /\ Steady
    BY DEF Init, Sole, Steady, Reading, Writing
  <2>2. IInv /\ IInv' /\ Sole /\ Steady /\ [Next]_vars => Sole' /\ Steady'
    BY SoleStep, SteadyStep DEF IInv
  <2> QED
    BY <2>1, <2>2, Inductive, PTL DEF Spec
<1>2. Init => Promise!Init
  <2> SUFFICES ASSUME Init PROVE Promise!Init
    OBVIOUS
  <2>1. /\ form \in Forms /\ kbuf = Blank /\ counter = 0
        /\ \A p \in Procs : pc[p] = "idle"
    BY DEF Init
  <2>2. form.style \in {"queue", "last", "page", "keep"}
    BY <2>1, FormsAssumption
  <2>3. \A labels : "idle" \notin labels => Busy(labels) = {}
    BY <2>1 DEF Busy
  <2>4. /\ Busy({"shift"}) = {} /\ Busy({"load_r", "store_r"}) = {} /\ Busy({"reset"}) = {}
        /\ Busy({"set"}) = {} /\ Busy({"clear", "wipe"}) = {}
    BY <2>3
  <2>5. SubSeq(kbuf, 1, 0) = <<>>
    BY SubSeqEmpty
  <2>6. CASE form.style \in {"queue", "last"}
    <3>1. Box = <<>>
      BY <2>1, <2>4, <2>5, <2>6 DEF Box
    <3> QED
      BY <2>2, <2>6, <3>1 DEF Promise!Init
  <2>7. CASE form.style \in {"page", "keep"}
    <3>1. Box = Blank
      BY <2>1, <2>4, <2>7 DEF Box
    <3> QED
      BY <2>2, <2>7, <3>1 DEF Promise!Init, Promise!Blank, Blank
  <2> QED
    BY <2>2, <2>6, <2>7
<1>3. IInv /\ IInv' /\ Sole /\ Sole' /\ Steady /\ [Next]_vars
        => [upset' \/ Promise!Next]_<<form, Box>>
  <2> SUFFICES ASSUME IInv, IInv', Sole, Sole', Steady, [Next]_vars, ~upset'
               PROVE  Promise!Next \/ UNCHANGED <<form, Box>>
    OBVIOUS
  <2>1. CASE UNCHANGED vars
    BY <2>1 DEF vars, history, Box, Busy, Blank
  <2>2. CASE Next
    <3>1. ~upset
      BY <2>2 DEF IInv, Types, Next, Read, Write, ReadStarts, ReadWaits, WaitSignalled,
            DownSignalled, Clamp, CopyOut, CopyOutFails, Shift, LoadR, StoreR, Reset, Clear,
            Wipe, WriteStarts, CopyIn, CopyInFails, LoadW, StoreW, Set, Raise, Up, Meet, history
    <3>2. PICK p \in Procs : Inside /\ (Read(p) \/ Write(p))
      BY <2>2 DEF Next
    <3> QED
      BY <3>1, <3>2, BoxStep DEF IInv
  <2> QED
    BY <2>1, <2>2
<1> QED
  BY <1>1, <1>2, <1>3, Inductive, PTL DEF Spec, ImplementsBox
=============================================================================
