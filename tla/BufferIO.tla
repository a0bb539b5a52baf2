------------------------------ MODULE BufferIO ------------------------------
(***************************************************************************)
(* read() and write() of the drivers with a buffer and no lock around it   *)
(* (006-009, 013-015, 022, 025-027, 033-039 and their copies under         *)
(* source_code).  They differ in the form that module BufferTables gives   *)
(* for each of them:                                                       *)
(*   style   what a call does to the buffer, see ByteBox:                  *)
(*     queue   counter bytes; read() shifts the rest down                  *)
(*     last    counter bytes; read() sets counter to 0                     *)
(*     page    the whole array and a flag; read() waits for the flag       *)
(*     keep    the whole array                                             *)
(*   sem     read() downs a semaphore first, write() ups it (027)          *)
(*   deaf    a failed copy is printed and otherwise ignored                *)
(*   wide    the calls that copy the whole array whatever was asked for    *)
(*                                                                         *)
(* Every access to shared data is a step.  A wait is a guard here; its     *)
(* race with wake_up() is in WaitqueueIO.                                  *)
(***************************************************************************)
EXTENDS Integers, Sequences

CONSTANTS Procs,   \* processes that call the driver
          Forms,   \* the forms of the drivers
          Bytes,   \* what a program may write
          Zero,    \* the content of an array nobody wrote to
          KMax,    \* KMAX or MAX: length of the array
          MaxUnits \* bound: units of the semaphore

ASSUME FormsAssumption ==
  /\ Forms \subseteq [style : {"queue", "last", "page", "keep"}, sem : BOOLEAN,
                      deaf : BOOLEAN, wide : SUBSET {"read", "write"}]
  /\ \A f \in Forms :
       /\ f.sem => f.style = "last"
       /\ f.deaf => f.style = "page"
       /\ f.wide # {} => f.style \in {"page", "keep"}
ASSUME ParameterAssumption == KMax \in Nat \ {0} /\ Zero \notin Bytes /\ MaxUnits \in Nat

VARIABLES
  form,     \* the driver; chosen at the start
  kbuf,     \* the array (Zero throughout once upset)
  counter,  \* bytes in use (queue, last)
  flag,     \* something was written (page)
  sem,      \* count of the semaphore
  pc,       \* where each process is
  size,     \* its local variable size (0 when dead)
  tmp,      \* the value of counter that it loaded (0 when dead)
  upset,    \* history: calls overlapped, or a failed copy left damage
  crowded,  \* history: two reads, or two writes, overlapped
  outside,  \* history: a copy went beyond the array
  fresh,    \* history: written and not read since
  spoilt    \* history: a read and a write overlapped, or a failed read took
            \* what it did not deliver

history == <<upset, crowded, outside, fresh, spoilt>>

vars == <<form, kbuf, counter, flag, sem, pc, size, tmp, history>>

Reading == {"clamp", "copy_out", "shift", "load_r", "store_r", "reset",
            "clear", "wipe"}
Writing == {"copy_in", "load_w", "store_w", "set", "raise", "up"}

TypeOK == /\ form \in Forms
          /\ kbuf \in [1..KMax -> Bytes \cup {Zero}]
          /\ counter \in -KMax..2 * KMax /\ flag \in BOOLEAN
          /\ sem \in 0..MaxUnits
          /\ pc \in [Procs -> {"idle", "wait"} \cup Reading \cup Writing]
          /\ size \in [Procs -> 0..KMax]
          /\ tmp \in [Procs -> 0..KMax]
          /\ upset \in BOOLEAN /\ crowded \in BOOLEAN /\ outside \in BOOLEAN
          /\ fresh \in BOOLEAN /\ spoilt \in BOOLEAN
          /\ form.style = "last" => counter \in 0..KMax
          /\ form.style \in {"page", "keep"} => counter = 0
          /\ crowded => upset

Blank == [k \in 1..KMax |-> Zero]

Init == /\ form \in Forms
        /\ kbuf = Blank /\ counter = 0 /\ flag = FALSE /\ sem = 0
        /\ pc = [p \in Procs |-> "idle"]
        /\ size = [p \in Procs |-> 0] /\ tmp = [p \in Procs |-> 0]
        /\ upset = FALSE /\ crowded = FALSE /\ outside = FALSE
        /\ fresh = FALSE /\ spoilt = FALSE
-----------------------------------------------------------------------------
Step(p, from, to) == pc[p] = from /\ pc' = [pc EXCEPT ![p] = to]

Others(p, labels) == {q \in Procs \ {p} : pc[q] \in labels}

\* Process p starts to work on the buffer with a read or a write.  Once calls
\* have overlapped, the content of the array is no longer followed.
Meet(p, same, other) ==
  /\ upset' = (upset \/ Others(p, same \cup other) # {})
  /\ crowded' = (crowded \/ Others(p, same) # {})
  /\ spoilt' = (spoilt \/ Others(p, other) # {})
  /\ kbuf' = IF upset' THEN Blank ELSE kbuf

Least(a, b) == IF a < b THEN a ELSE b

\* How much a call copies that could copy n bytes.
Amount(call, n) == IF call \in form.wide THEN KMax ELSE n
-----------------------------------------------------------------------------
(***************************************************************************)
(* read()                                                                  *)
(***************************************************************************)
MayRead == /\ form.style = "page" => flag
           /\ form.sem => sem > 0

\* Data is there, or the driver does not ask.
ReadStarts(p) == /\ MayRead
                 /\ pc[p] \in {"idle", "wait"}
                 /\ pc' = [pc EXCEPT ![p] = "clamp"]
                 /\ sem' = IF form.sem THEN sem - 1 ELSE sem
                 /\ Meet(p, Reading, Writing)
                 /\ UNCHANGED <<form, counter, flag, size, tmp, outside, fresh>>

ReadWaits(p) == /\ ~MayRead
                /\ Step(p, "idle", "wait")
                /\ UNCHANGED <<form, kbuf, counter, flag, sem, size, tmp, history>>

\* A signal: -ERESTARTSYS; but 027 ignores the result of down_interruptible().
\* (O_NONBLOCK, which 034 to 036 and 038 know, ends the wait in the same way.)
WaitSignalled(p) == /\ ~form.sem
                    /\ Step(p, "wait", "idle")
                    /\ UNCHANGED <<form, kbuf, counter, flag, sem, size, tmp, history>>

DownSignalled(p) == /\ form.sem
                    /\ Step(p, "wait", "clamp")
                    /\ Meet(p, Reading, Writing)
                    /\ UNCHANGED <<form, counter, flag, sem, size, tmp, outside, fresh>>

\* "if (size > counter) size = counter", "if (size > MAX) size = MAX".
Clamp(p) == /\ Step(p, "clamp", "copy_out")
            /\ \E asked \in 0..KMax :
                 size' = [size EXCEPT ![p] =
                            IF form.style \in {"queue", "last"} THEN Least(asked, counter)
                            ELSE Amount("read", asked)]
            /\ UNCHANGED <<form, kbuf, counter, flag, sem, tmp, history>>

\* What comes after the copy to the user.
AfterCopy == [queue |-> "shift", last |-> "reset", page |-> "clear", keep |-> "idle"]

CopyOut(p) == /\ Step(p, "copy_out", AfterCopy[form.style])
              /\ size' = IF form.style = "queue" THEN size ELSE [size EXCEPT ![p] = 0]
              /\ fresh' = FALSE
              /\ UNCHANGED <<form, kbuf, counter, flag, sem, tmp, upset, crowded,
                             outside, spoilt>>

\* A failed copy ends the call; 033, 034 and 036 clear the buffer all the same.
CopyOutFails(p) == /\ size[p] > 0
                   /\ Step(p, "copy_out", IF form.deaf THEN "clear" ELSE "idle")
                   /\ size' = [size EXCEPT ![p] = 0]
                   /\ upset' = (upset \/ form.deaf)
                   /\ spoilt' = (spoilt \/ form.deaf \/ form.sem)
                   /\ kbuf' = IF upset' THEN Blank ELSE kbuf
                   /\ UNCHANGED <<form, counter, flag, sem, tmp, crowded, outside, fresh>>

\* Mutant: the last byte of the rest is left behind.
Shift_OffByOne(p) ==
  /\ Step(p, "shift", "load_r")
  /\ kbuf' = [k \in 1..KMax |-> IF k < counter - size[p] THEN kbuf[k + size[p]]
                                                         ELSE kbuf[k]]
  /\ UNCHANGED <<form, counter, flag, sem, size, tmp, history>>

\* mystrcpy(kbuf, kbuf + size, counter - size), which does nothing when another
\* read has made counter smaller than size.
Shift(p) ==
  /\ Step(p, "shift", "load_r")
  /\ kbuf' = [k \in 1..KMax |-> IF k <= counter - size[p] THEN kbuf[k + size[p]]
                                                          ELSE kbuf[k]]
  /\ UNCHANGED <<form, counter, flag, sem, size, tmp, history>>

\* "counter -= size" is a load and a store.
LoadR(p) == /\ Step(p, "load_r", "store_r")
            /\ tmp' = [tmp EXCEPT ![p] = counter]
            /\ UNCHANGED <<form, kbuf, counter, flag, sem, size, history>>

StoreR(p) == /\ Step(p, "store_r", "idle")
             /\ counter' = tmp[p] - size[p]
             /\ tmp' = [tmp EXCEPT ![p] = 0] /\ size' = [size EXCEPT ![p] = 0]
             /\ UNCHANGED <<form, kbuf, flag, sem, history>>

\* "counter = 0".
Reset(p) == /\ Step(p, "reset", "idle")
            /\ counter' = 0
            /\ UNCHANGED <<form, kbuf, flag, sem, size, tmp, history>>

\* "flag = 0" and, after it, memset().
Clear(p) == /\ Step(p, "clear", "wipe")
            /\ flag' = FALSE
            /\ UNCHANGED <<form, kbuf, counter, sem, size, tmp, history>>

Wipe(p) == /\ Step(p, "wipe", "idle")
           /\ kbuf' = Blank
           /\ UNCHANGED <<form, counter, flag, sem, size, tmp, history>>
-----------------------------------------------------------------------------
(***************************************************************************)
(* write()                                                                 *)
(***************************************************************************)

\* Mutant: the room is tested against the whole buffer.
WriteStarts_IgnoresCounter(p) ==
  /\ Step(p, "idle", "copy_in")
  /\ \E asked \in 0..KMax :
       size' = [size EXCEPT ![p] = Amount("write", asked)]
  /\ Meet(p, Writing, Reading)
  /\ UNCHANGED <<form, counter, flag, sem, tmp, outside, fresh>>

\* "if (size > KMAX - counter)", "if (size > KMAX)" return -ENOMEM; "if (size >
\* MAX) size = MAX".
WriteStarts(p) ==
  /\ Step(p, "idle", "copy_in")
  /\ \E asked \in 0..KMax :
       /\ form.style = "queue" => asked <= KMax - counter
       /\ size' = [size EXCEPT ![p] = Amount("write", asked)]
  /\ Meet(p, Writing, Reading)
  /\ UNCHANGED <<form, counter, flag, sem, tmp, outside, fresh>>

AfterStore == IF form.sem THEN "up" ELSE "idle"

AfterCopyIn == [queue |-> "load_w", last |-> "set", page |-> "raise", keep |-> "idle"]

Start == IF form.style = "queue" THEN counter ELSE 0

\* The array with d stored behind its first n bytes.
Stored(n, d) == [k \in 1..KMax |-> IF k - n \in DOMAIN d THEN d[k - n] ELSE kbuf[k]]

\* copy_from_user(kbuf + counter, ...), with the counter of now.
CopyIn(p) == /\ Step(p, "copy_in", AfterCopyIn[form.style])
             /\ \E d \in [1..size[p] -> Bytes] :
                  kbuf' = IF upset THEN Blank ELSE Stored(Start, d)
             /\ outside' = (Start + size[p] > KMax)
             /\ size' = IF form.style \in {"queue", "last"} THEN size
                                                           ELSE [size EXCEPT ![p] = 0]
             /\ fresh' = TRUE
             /\ UNCHANGED <<form, counter, flag, sem, tmp, upset, crowded, spoilt>>

\* A failed copy may have stored some of its bytes: behind those in use, in a
\* queue; over them, in the others.
CopyInFails(p) ==
  /\ size[p] > 0
  /\ Step(p, "copy_in", IF form.deaf THEN "raise" ELSE "idle")
  /\ upset' = (upset \/ form.style # "queue")
  /\ kbuf' = IF upset' THEN Blank ELSE kbuf
  /\ outside' = (Start + size[p] > KMax)
  /\ size' = [size EXCEPT ![p] = 0]
  /\ UNCHANGED <<form, counter, flag, sem, tmp, crowded, fresh, spoilt>>

\* "counter += size".
LoadW(p) == /\ Step(p, "load_w", "store_w")
            /\ tmp' = [tmp EXCEPT ![p] = counter]
            /\ UNCHANGED <<form, kbuf, counter, flag, sem, size, history>>

StoreW(p) == /\ Step(p, "store_w", "idle")
             /\ counter' = tmp[p] + size[p]
             /\ tmp' = [tmp EXCEPT ![p] = 0] /\ size' = [size EXCEPT ![p] = 0]
             /\ UNCHANGED <<form, kbuf, flag, sem, history>>

\* Mutant: one byte is counted that was not written.
Set_OffByOne(p) == /\ Step(p, "set", AfterStore)
                   /\ counter' = size[p] + 1
                   /\ size' = [size EXCEPT ![p] = 0]
                   /\ UNCHANGED <<form, kbuf, flag, sem, tmp, history>>

\* "counter = size".
Set(p) == /\ Step(p, "set", AfterStore)
          /\ counter' = size[p]
          /\ size' = [size EXCEPT ![p] = 0]
          /\ UNCHANGED <<form, kbuf, flag, sem, tmp, history>>

\* Mutant: the flag is raised only for a reader that waits.
Raise_IfAwaited(p) == /\ Step(p, "raise", "idle")
                      /\ flag' = (flag \/ Others(p, {"wait"}) # {})
                      /\ UNCHANGED <<form, kbuf, counter, sem, size, tmp, history>>

\* "flag = 1" and wake_up().
Raise(p) == /\ Step(p, "raise", "idle")
            /\ flag' = TRUE
            /\ UNCHANGED <<form, kbuf, counter, sem, size, tmp, history>>

Up(p) == /\ Step(p, "up", "idle")
         /\ sem < MaxUnits
         /\ sem' = sem + 1
         /\ UNCHANGED <<form, kbuf, counter, flag, size, tmp, history>>
-----------------------------------------------------------------------------
Read(p) == \/ ReadStarts(p) \/ ReadWaits(p) \/ WaitSignalled(p) \/ DownSignalled(p)
           \/ Clamp(p) \/ CopyOut(p) \/ CopyOutFails(p)
           \/ Shift(p) \/ LoadR(p) \/ StoreR(p) \/ Reset(p) \/ Clear(p) \/ Wipe(p)

Write(p) == \/ WriteStarts(p) \/ CopyIn(p) \/ CopyInFails(p)
            \/ LoadW(p) \/ StoreW(p) \/ Set(p) \/ Raise(p) \/ Up(p)

Inside == ~outside /\ counter \in 0..KMax

\* Once memory beyond the array is touched, or about to be, nothing is said.
Next == /\ Inside
        /\ \E p \in Procs : Read(p) \/ Write(p)

Spec == Init /\ [][Next]_vars
-----------------------------------------------------------------------------
(***************************************************************************)
(* No call touches memory beyond kbuf, and counter stays a number of       *)
(* bytes of it, even though nothing is locked - except in the drivers that *)
(* shift (007-009, 022), when two reads or two writes overlap.  One reader *)
(* next to one writer is safe.                                             *)
(***************************************************************************)
StaysInside == Inside \/ (form.style = "queue" /\ crowded)

(***************************************************************************)
(* Data that was written and not read since does not make the next reader  *)
(* wait: the flag is up (033 to 038), the semaphore has a unit (027), in   *)
(* spite of signals, failed copies and writes that overtake each other.    *)
(* What can hide it is a read that overlaps a write, and a read that fails *)
(* to deliver but clears the flag (033, 034, 036) or keeps its unit (027). *)
(***************************************************************************)
Quiet == \A p \in Procs : pc[p] \in {"idle", "wait"}

UnreadIsAnnounced == (Quiet /\ fresh) => (MayRead \/ spoilt)

(***************************************************************************)
(* Calls that do not overlap, and copies that do not fail half way, keep   *)
(* the promise of ByteBox: the queue drivers are queues, and so on.        *)
(***************************************************************************)
Busy(labels) == {p \in Procs : pc[p] \in labels}

Box ==
  CASE form.style = "queue" ->
         IF Busy({"shift"}) # {}
           THEN SubSeq(kbuf, 1 + size[CHOOSE p \in Busy({"shift"}) : TRUE], counter)
         ELSE IF Busy({"load_r", "store_r"}) # {}
           THEN SubSeq(kbuf, 1, counter - size[CHOOSE p \in Busy({"load_r", "store_r"}) : TRUE])
         ELSE SubSeq(kbuf, 1, counter)
    [] form.style = "last" ->
         IF Busy({"reset"}) # {} THEN <<>>
         ELSE IF Busy({"set"}) # {}
           THEN SubSeq(kbuf, 1, size[CHOOSE p \in Busy({"set"}) : TRUE])
         ELSE SubSeq(kbuf, 1, counter)
    [] form.style = "page" -> IF Busy({"clear", "wipe"}) # {} THEN Blank ELSE kbuf
    [] OTHER -> kbuf

Promise == INSTANCE ByteBox WITH Styles <- {"queue", "last", "page", "keep"},
                                 style <- form.style, box <- Box

ImplementsBox == Promise!Init /\ [][upset' \/ Promise!Next]_<<form, Box>>
=============================================================================
