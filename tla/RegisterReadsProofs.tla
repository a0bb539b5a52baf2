------------------------- MODULE RegisterReadsProofs -------------------------
(***************************************************************************)
(* Proofs about RegisterReads for any set of programs and any number of    *)
(* words, samples and failures.  A delivered word can be judged only by    *)
(* following its bytes: through the variable that a transfer returns, the  *)
(* first store, the load of "|=" and the second store.  At each of these   *)
(* places a word that nothing happened to consists of its bytes so far.    *)
(* The two properties are two readings of this: with both bytes of one     *)
(* sample (same), or each of any sample since the call began.              *)
(***************************************************************************)
EXTENDS RegisterReads, TLAPS

First  == drv.halves[1]
Second == drv.halves[2]

\* Half h of word w, of the register that p asked for, in sample s.
Val(p, w, h, s) == <<h, Byte(asked[p], w, s)>>
Span(p) == since[p]..sample

\* Calls with variables of their own, and the words that nothing happened to.
Own == ~drv.shared /\ (drv.split => drv.alone)

Untouched(p, w, same) ==
  IF same THEN \A why \in {"sampled", "failed", "mixed"} :
                 <<w, why>> \notin spoiled[p]
  ELSE Own /\ <<w, "failed">> \notin spoiled[p]

\* Word w is complete in the buffer of p, and not copied yet.
Complete(p, w) == /\ w <= LastWord(asked[p])
                  /\ \/ at[p].op = "copy" /\ at[p].word <= w
                     \/ /\ at[p].op \in {"first", "put", "second", "fetch", "or"}
                        /\ w < at[p].word

\* p is about to do op for word w: what it needs for that, operation by
\* operation.
At(p, op, w) == at[p].op = op /\ at[p].word = w

Aimed(p, w) == At(p, "first", w) /\ drv.split => aim = asked[p]

Received(p, w, same) ==
  At(p, "put", w) => \E s \in Span(p) : /\ byte[p] = {Val(p, w, First, s)}
                                        /\ same /\ Wide => s = sample
Stored(p, w, same) ==
  At(p, "second", w) =>
    \E s \in Span(p) : /\ data[Buf(p)][w] = {Val(p, w, First, s)}
                       /\ same => s = sample
Both(p, w, same) ==
  At(p, "fetch", w) =>
    \E s, t \in Span(p) : /\ data[Buf(p)][w] = {Val(p, w, First, s)}
                          /\ byte[p] = {Val(p, w, Second, t)}
                          /\ same => s = t
Loaded(p, w, same) ==
  At(p, "or", w) => \E s, t \in Span(p) : /\ load[p] = {Val(p, w, First, s)}
                                          /\ byte[p] = {Val(p, w, Second, t)}
                                          /\ same => s = t
Ready(p, w, same) ==
  Complete(p, w) =>
    \E s, t \in Span(p) :
      /\ data[Buf(p)][w] = {Val(p, w, First, s)}
                           \cup (IF Wide THEN {Val(p, w, Second, t)} ELSE {})
      /\ same => s = t

Followed(p, w, same) ==
  /\ Aimed(p, w) /\ Received(p, w, same) /\ Stored(p, w, same)
  /\ Both(p, w, same) /\ Loaded(p, w, same) /\ Ready(p, w, same)

Kept(same) == \A p \in Programs, w \in 1..Size :
                Untouched(p, w, same) => Followed(p, w, same)

\* The caller of 32/4 is alone.
Single == drv.alone => \A p, q \in Programs :
                         at[p] # Idle /\ at[q] # Idle => p = q

\* Which driver reads a second half or sends an address; a call under way is
\* for some register, and within its words.
Sound == \A p \in Programs :
           /\ at[p].op \in {"second", "fetch", "or"} => Wide
           /\ at[p].op = "aim" => drv.split /\ at[p].word = 1
           /\ at[p].op = "idle" => at[p] = Idle
           /\ at[p] # Idle => asked[p] \in drv.kinds
           /\ at[p].op \in {"first", "put", "second", "fetch", "or"}
                => at[p].word <= LastWord(asked[p])
           /\ since[p] <= sample

IInv == TypeOK /\ Sound /\ Single /\ Kept(TRUE) /\ Kept(FALSE)
-----------------------------------------------------------------------------
\* What every driver has, whichever it is.
LEMMA DriverFacts ==
  ASSUME drv \in Drivers
  PROVE  /\ First \in {"lo", "hi"}
         /\ Wide => Second \in {"lo", "hi"} /\ ToSet(drv.halves) = {First, Second}
         /\ ~Wide => ToSet(drv.halves) = {First}
         /\ \A h \in ToSet(drv.halves) : drv.wrong[h] \subseteq {"lo", "hi"}
         /\ drv.kinds \subseteq {"acc", "gyro", "temp"}
         /\ drv.split => ~Wide
<1> USE DEF First, Second, Wide, ToSet, Driver
<1>1. CASE drv = hq_050_mpu6050
  BY <1>1 DEF hq_050_mpu6050
<1>2. CASE drv = hq_060_mpu6050
  BY <1>2 DEF hq_060_mpu6050
<1>3. CASE drv = hq_061_mpu6050
  BY <1>3 DEF hq_061_mpu6050
<1>4. CASE drv = sc_31_i2c_char
  BY <1>4 DEF sc_31_i2c_char
<1>5. CASE drv = sc_32_my_rc522
  BY <1>5 DEF sc_32_my_rc522, sc_31_i2c_char
<1>6. CASE drv = sc_32_4_my_rc522
  BY <1>6 DEF sc_32_4_my_rc522, sc_32_my_rc522, sc_31_i2c_char
<1> QED
  BY <1>1, <1>2, <1>3, <1>4, <1>5, <1>6 DEF Drivers

\* The number of words, and of those that are assembled.
LEMMA Sizes ==
  /\ Size \in Nat \ {0}
  /\ \A k : LastWord(k) \in 1..Size
  /\ ~Wide => Size = 1
BY AxesAssumption DEF Size, LastWord

\* The points that follow a point.
LEMMA AfterFacts ==
  ASSUME NEW k, NEW a \in [op : Ops, word : 1..Size],
         a.op # "idle", a.op = "copy" => a.word < Size,
         a.op \in {"first", "put", "second", "fetch", "or"}
           => a.word <= LastWord(k)
  PROVE  /\ After(k, a) \in [op : Ops, word : 1..Size]
         /\ After(k, a).op \notin {"idle", "aim"}
         /\ After(k, a).op \in {"first", "put", "second", "fetch", "or"}
              => After(k, a).word <= LastWord(k)
         /\ After(k, a).op \in {"second", "fetch", "or"}
              => Wide \/ a.op \in {"second", "fetch", "or"}
BY Sizes DEF After, Assembled, Point, Ops

\* What depends on the driver alone stays.
LEMMA Fixed ==
  ASSUME drv' = drv
  PROVE  /\ Size' = Size /\ Wide' = Wide /\ Own' = Own
         /\ First' = First /\ Second' = Second
         /\ \A p : Buf(p)' = Buf(p)
         /\ \A k : LastWord(k)' = LastWord(k)
BY DEF Size, Wide, Own, First, Second, Buf, LastWord

\* A call that goes on stays in order.
LEMMA GoesOn ==
  ASSUME TypeOK, Sound, NEW p \in Programs, NEW ops \in SUBSET Ops,
         Does(p, ops), "idle" \notin ops, at[p].op = "copy" => at[p].word < Size,
         UNCHANGED <<drv, sample, asked, since>>
  PROVE  /\ Sound'
         /\ at' \in [Programs -> [op : Ops, word : 1..Size]]
         /\ at[p] # Idle
         /\ \A q \in Programs : q # p => at'[q] = at[q]
         /\ at'[p] = After(asked[p], at[p]) /\ at'[p].op # "idle"
<1>1. /\ at \in [Programs -> [op : Ops, word : 1..Size]]
      /\ at' = [at EXCEPT ![p] = After(asked[p], at[p])]
      /\ at[p].op # "idle" /\ at[p] # Idle
  BY DEF TypeOK, Does, Idle, Point
<1>2. /\ at'[p] = After(asked[p], at[p])
      /\ \A q \in Programs : q # p => at'[q] = at[q]
  BY <1>1
<1> DEFINE a == After(asked[p], at[p])
<1>3. /\ a \in [op : Ops, word : 1..Size]
      /\ a.op \notin {"idle", "aim"}
      /\ a.op \in {"first", "put", "second", "fetch", "or"}
           => a.word <= LastWord(asked[p])
      /\ a.op \in {"second", "fetch", "or"} => Wide
  BY <1>1, AfterFacts DEF Sound
<1>4. at' \in [Programs -> [op : Ops, word : 1..Size]]
  BY <1>1, <1>3
<1> HIDE DEF a
<1>5. ASSUME NEW q \in Programs
      PROVE  /\ at'[q].op \in {"second", "fetch", "or"} => Wide
             /\ at'[q].op = "aim" => drv.split /\ at'[q].word = 1
             /\ at'[q].op = "idle" => at'[q] = Idle
             /\ at'[q] # Idle => asked[q] \in drv.kinds
             /\ at'[q].op \in {"first", "put", "second", "fetch", "or"}
                  => at'[q].word <= LastWord(asked[q])
             /\ since[q] <= sample
  <2>1. CASE q = p
    BY <2>1, <1>1, <1>2, <1>3 DEF Sound, a
  <2>2. CASE q # p
    BY <2>2, <1>2 DEF Sound
  <2> QED
    BY <2>1, <2>2
<1>6. Sound'
  BY <1>5, Fixed DEF Sound, Idle, Point
<1> QED
  BY <1>1, <1>2, <1>3, <1>4, <1>6 DEF a

\* The steps of a call that has begun and does not end.
Going(p) == \/ SendAddress(p) \/ SendFails(p) \/ Transfer(p) \/ TransferFails(p)
            \/ Assign(p) \/ LoadWord(p) \/ OrStore(p) \/ CopyWord(p)

\* Such a step is after the begin and before the end of p's own call.
LEMMA GoingFacts ==
  ASSUME TypeOK, Sound, NEW p \in Programs, Going(p)
  PROVE  /\ Sound'
         /\ UNCHANGED <<drv, sample, asked, since>>
         /\ at' \in [Programs -> [op : Ops, word : 1..Size]]
         /\ at[p] # Idle
         /\ \A q \in Programs : q # p => at'[q] = at[q]
         /\ at'[p] = After(asked[p], at[p]) /\ at'[p].op # "idle"
<1>1. UNCHANGED <<drv, sample, asked, since>>
  BY DEF Going, SendAddress, SendFails, Transfer, TransferFails, Assign,
         LoadWord, OrStore, CopyWord, Store
<1>2. PICK ops \in SUBSET Ops : /\ Does(p, ops) /\ "idle" \notin ops
                                /\ "copy" \in ops => at[p].word < Size
  <2>1. /\ {"aim"} \subseteq Ops /\ {"first", "second"} \subseteq Ops
        /\ {"put"} \subseteq Ops /\ {"fetch"} \subseteq Ops
        /\ {"or"} \subseteq Ops /\ {"copy"} \subseteq Ops
    BY DEF Ops
  <2>2. \/ Does(p, {"aim"}) \/ Does(p, {"first", "second"})
        \/ Does(p, {"put"}) \/ Does(p, {"fetch"}) \/ Does(p, {"or"})
        \/ Does(p, {"copy"}) /\ at[p].word < Size
    BY DEF Going, SendAddress, SendFails, Transfer, TransferFails, Assign,
           LoadWord, OrStore, CopyWord
  <2> QED
    BY <2>1, <2>2
<1>3. at[p].op = "copy" => at[p].word < Size
  BY <1>2 DEF Does
<1> QED
  BY <1>1, <1>2, <1>3, GoesOn

\* Calls stay in order.
LEMMA SoundStep == ASSUME TypeOK, Sound, [Next]_vars PROVE Sound'
<1>1. ASSUME NEW p \in Programs, Ioctl(p) PROVE Sound'
  <2>1. PICK k \in drv.kinds : Enter(p, k)
    BY <1>1 DEF Ioctl
  <2>2. /\ at' = [at EXCEPT ![p] = Begin]
        /\ asked' = [asked EXCEPT ![p] = k]
        /\ since' = [since EXCEPT ![p] = sample]
        /\ UNCHANGED <<drv, sample>>
    BY <2>1 DEF Enter
  <2>3. /\ Begin.op \in {"aim", "first"} /\ Begin.word = 1
        /\ Begin.op = "aim" => drv.split
        /\ sample \in Nat
    BY DEF Begin, Point, TypeOK
  <2>4. 1 <= LastWord(k)
    BY Sizes
  <2> QED
    BY <2>2, <2>3, <2>4, Fixed DEF Sound, TypeOK, Idle
<1>2. ASSUME NEW p \in Programs, Going(p) PROVE Sound'
  BY <1>2, GoingFacts
<1>3. ASSUME NEW p \in Programs, CopyEnds(p) PROVE Sound'
  <2>1. /\ at' = [at EXCEPT ![p] = Idle]
        /\ asked' = [asked EXCEPT ![p] = "none"]
        /\ since' = [since EXCEPT ![p] = 0]
        /\ UNCHANGED <<drv, sample>>
    BY <1>3 DEF CopyEnds, Return
  <2>2. Idle.op = "idle" /\ sample \in Nat
    BY DEF Idle, Point, TypeOK
  <2> QED
    BY <2>1, <2>2, Fixed DEF Sound, TypeOK, Idle
<1>4. CASE Sample
  BY <1>4, Fixed DEF Sample, Sound, TypeOK, Idle, Point
<1>5. ASSUME NEW p \in Programs, WriteRegister(p) PROVE Sound'
  BY <1>5, Fixed DEF WriteRegister, Sound, Idle, Point
<1>6. CASE UNCHANGED vars
  BY <1>6, Fixed DEF vars, Sound, Idle, Point
<1> QED
  BY <1>1, <1>2, <1>3, <1>4, <1>5, <1>6 DEF Next, Going

\* The caller of 32/4 stays alone.
LEMMA SingleStep ==
  ASSUME TypeOK, Sound, Single, [Next]_vars PROVE Single'
<1>1. ASSUME NEW p \in Programs, Ioctl(p) PROVE Single'
  BY <1>1 DEF Ioctl, Enter, Single, TypeOK, Idle
<1>2. ASSUME NEW p \in Programs, Going(p) PROVE Single'
  BY <1>2, GoingFacts DEF Single, Idle
<1>3. ASSUME NEW p \in Programs, CopyEnds(p) PROVE Single'
  BY <1>3 DEF CopyEnds, Return, Single, TypeOK, Idle
<1>4. CASE Sample
  BY <1>4 DEF Sample, Single, Idle
<1>5. ASSUME NEW p \in Programs, WriteRegister(p) PROVE Single'
  BY <1>5 DEF WriteRegister, Single, Idle
<1>6. CASE UNCHANGED vars
  BY <1>6 DEF vars, Single, Idle
<1> QED
  BY <1>1, <1>2, <1>3, <1>4, <1>5, <1>6 DEF Next, Going

\* The marks that a step leaves are marks.
Marks == (1..Size) \X {"sampled", "failed", "mixed"}

\* Whoever tells the chip a register.
LEMMA ReaddressTypes ==
  ASSUME TypeOK, NEW p \in Programs, NEW k \in drv.kinds, Readdress(p, k)
  PROVE  aim' \in drv.kinds /\ spoiled' \in [Programs -> SUBSET Marks]
<1> DEFINE hit == [q \in Programs |->
                     IF at[q].op = "first" /\ asked[q] # k THEN {1} ELSE {}]
<1>1. spoiled' = [q \in Programs |->
                    IF q = p THEN spoiled[q]
                    ELSE spoiled[q] \cup (hit[q] \X {"mixed"})]
  BY DEF Readdress, Mix
<1>2. hit \in [Programs -> SUBSET (1..Size)]
  BY Sizes
<1> HIDE DEF hit
<1>3. spoiled \in [Programs -> SUBSET Marks]
  BY DEF TypeOK, Marks
<1>4. ASSUME NEW q \in Programs PROVE spoiled'[q] \in SUBSET Marks
  BY <1>1, <1>2, <1>3 DEF Marks
<1>5. spoiled' \in [Programs -> SUBSET Marks]
  BY <1>1, <1>4
<1> QED
  BY <1>5 DEF Readdress

\* A failed transfer marks the word of its own call.
LEMMA FailTypes ==
  ASSUME spoiled \in [Programs -> SUBSET Marks], NEW p \in Programs,
         at[p].word \in 1..Size, Fail(p)
  PROVE  spoiled' \in [Programs -> SUBSET Marks]
BY DEF Marks, Fail

\* What a transfer returns is a word in the making.
LEMMA ByteTypes ==
  ASSUME TypeOK, Sound, NEW p \in Programs
  PROVE  /\ Transfer(p) => byte' \in [Programs -> Word]
         /\ TransferFails(p) => byte' \in [Programs -> Word]
<1>1. /\ byte \in [Programs -> Word] /\ drv \in Drivers /\ aim \in drv.kinds
      /\ at[p].word \in 1..Size /\ sample \in 0..MaxSample
  BY DEF TypeOK
<1>2. /\ at[p].op \in {"first", "second"} => Half(p) \in {"lo", "hi"}
      /\ at[p].op \in {"first", "second"}
           => drv.wrong[Half(p)] \subseteq {"lo", "hi"}
  BY <1>1, DriverFacts DEF Half, First, Second, Sound
<1>3. ASSUME Transfer(p) PROVE byte' \in [Programs -> Word]
  <2>1. PICK b : /\ b = Byte(IF drv.split THEN aim ELSE asked[p],
                             at[p].word, sample)
                 /\ byte' = [byte EXCEPT ![p] = {<<Half(p), b>>}]
    BY <1>3 DEF Transfer
  <2>2. at[p].op \in {"first", "second"} /\ at[p] # Idle
    BY <1>3 DEF Transfer, Does, Idle, Point
  <2>3. b \in Bytes
    BY <1>1, <2>1, <2>2 DEF Sound, Bytes, Byte
  <2>4. {<<Half(p), b>>} \in Word
    BY <1>2, <2>2, <2>3 DEF Word
  <2> QED
    BY <1>1, <2>1, <2>4
<1>4. ASSUME TransferFails(p) PROVE byte' \in [Programs -> Word]
  <2>1. at[p].op \in {"first", "second"}
    BY <1>4 DEF TransferFails, Does
  <2>2. {<<h, Wrong>> : h \in drv.wrong[Half(p)]} \in Word
    BY <1>2, <2>1 DEF Word, Bytes
  <2> QED
    BY <1>1, <1>4, <2>2 DEF TransferFails
<1> QED
  BY <1>3, <1>4

\* A store changes one word of one buffer.
LEMMA StoreTypes ==
  ASSUME TypeOK, NEW p \in Programs, NEW w \in 1..Size, NEW word \in Word,
         Store(p, w, word)
  PROVE  /\ data' \in [Buffers -> [1..Size -> Word]]
         /\ spoiled' \in [Programs -> SUBSET Marks]
         /\ data'[Buf(p)][w] = word
         /\ \A b \in Buffers, v \in 1..Size :
              b # Buf(p) \/ v # w => data'[b][v] = data[b][v]
         /\ \A q \in Programs \ {p} :
              /\ spoiled[q] \subseteq spoiled'[q]
              /\ Buf(q) = Buf(p) /\ Unfinished(q, w)
                   => <<w, "mixed">> \in spoiled'[q]
         /\ spoiled'[p] = spoiled[p]
<1>1. /\ data \in [Buffers -> [1..Size -> Word]] /\ Buf(p) \in Buffers
      /\ spoiled \in [Programs -> SUBSET Marks]
  BY DEF TypeOK, Buffers, Buf, Marks
<1>2. data' = [data EXCEPT ![Buf(p)][w] = word]
  BY DEF Store
<1> DEFINE hit == [q \in Programs |-> IF Buf(q) = Buf(p) /\ Unfinished(q, w)
                                      THEN {w} ELSE {}]
<1>3. spoiled' = [q \in Programs |->
                    IF q = p THEN spoiled[q]
                    ELSE spoiled[q] \cup (hit[q] \X {"mixed"})]
  BY DEF Store, Mix
<1>4. hit \in [Programs -> SUBSET (1..Size)]
  OBVIOUS
<1>5. spoiled' \in [Programs -> SUBSET Marks]
  <2> HIDE DEF hit
  <2>1. ASSUME NEW q \in Programs PROVE spoiled'[q] \in SUBSET Marks
    <3>1. spoiled[q] \in SUBSET Marks /\ hit[q] \X {"mixed"} \in SUBSET Marks
      BY <1>1, <1>4 DEF Marks
    <3> QED
      BY <1>3, <3>1
  <2> QED
    BY <1>3, <2>1
<1>6. \A q \in Programs \ {p} :
        /\ spoiled[q] \subseteq spoiled'[q]
        /\ Buf(q) = Buf(p) /\ Unfinished(q, w) => <<w, "mixed">> \in spoiled'[q]
  BY <1>3
<1> QED
  BY <1>1, <1>2, <1>3, <1>5, <1>6

\* It is read back as it was stored.
LEMMA StoredWord ==
  ASSUME TypeOK, NEW p \in Programs, NEW w \in 1..Size, NEW word \in Word,
         Store(p, w, word)
  PROVE  data'[Buf(p)][w] = word
<1>1. data \in [Buffers -> [1..Size -> Word]] /\ Buf(p) \in Buffers
  BY DEF TypeOK, Buffers, Buf
<1>2. data' = [data EXCEPT ![Buf(p)][w] = word]
  BY DEF Store
<1> QED
  BY <1>1, <1>2

\* The other words stay.
LEMMA StoredElsewhere ==
  ASSUME TypeOK, NEW p \in Programs, NEW w \in 1..Size, NEW word \in Word,
         Store(p, w, word), NEW b \in Buffers, NEW v \in 1..Size,
         b # Buf(p) \/ v # w
  PROVE  data'[b][v] = data[b][v]
<1>1. data \in [Buffers -> [1..Size -> Word]] /\ Buf(p) \in Buffers
  BY DEF TypeOK, Buffers, Buf
<1>2. data' = [data EXCEPT ![Buf(p)][w] = word]
  BY DEF Store
<1> QED
  BY <1>1, <1>2

\* The types of the variables that only data steps change.
DataTypes == /\ aim \in drv.kinds
             /\ byte \in [Programs -> Word] /\ load \in [Programs -> Word]
             /\ data \in [Buffers -> [1..Size -> Word]]
             /\ spoiled \in [Programs -> SUBSET Marks]

\* A step of a call keeps them.
LEMMA GoingTypes ==
  ASSUME TypeOK, Sound, NEW p \in Programs, Going(p)
  PROVE  DataTypes'
<1> DEFINE w == at[p].word
<1>1. /\ DataTypes /\ w \in 1..Size /\ drv' = drv /\ at[p] # Idle
      /\ asked[p] \in drv.kinds /\ Buf(p) \in Buffers
      /\ {} \in Word /\ byte[p] \in Word /\ load[p] \in Word
  <2>1. /\ drv' = drv /\ at[p] # Idle
    BY GoingFacts
  <2>2. Buf(p) \in Buffers /\ {} \in Word
    BY DEF Buf, Buffers, Word
  <2> QED
    BY <2>1, <2>2 DEF TypeOK, DataTypes, Marks, Sound
<1>2. /\ Size' = Size /\ Word' = Word /\ Marks' = Marks
  BY <1>1, Fixed DEF Word, Bytes, Marks
<1> SUFFICES /\ aim' \in drv.kinds
             /\ byte' \in [Programs -> Word] /\ load' \in [Programs -> Word]
             /\ data' \in [Buffers -> [1..Size -> Word]]
             /\ spoiled' \in [Programs -> SUBSET Marks]
  BY <1>1, <1>2 DEF DataTypes, Buffers
<1> USE DEF DataTypes
<1>3. CASE SendAddress(p)
  <2>1. asked[p] \in drv.kinds /\ Readdress(p, asked[p])
    BY <1>3 DEF SendAddress, Does, Sound, Idle, Point
  <2>2. aim' \in drv.kinds /\ spoiled' \in [Programs -> SUBSET Marks]
    BY <2>1, ReaddressTypes
  <2> QED
    BY <1>1, <1>3, <2>2 DEF SendAddress
<1>4. CASE SendFails(p)
  BY <1>1, <1>4, FailTypes DEF SendFails
<1>5. CASE Transfer(p)
  BY <1>1, <1>5, ByteTypes DEF Transfer
<1>6. CASE TransferFails(p)
  <2>1. spoiled' \in [Programs -> SUBSET Marks]
    BY <1>1, <1>6, FailTypes DEF TransferFails
  <2> QED
    BY <1>1, <1>6, <2>1, ByteTypes DEF TransferFails
<1>7. CASE Assign(p)
  <2>1. Store(p, w, byte[p])
    BY <1>7 DEF Assign
  <2> QED
    BY <1>1, <1>7, <2>1, StoreTypes DEF Assign
<1>8. CASE LoadWord(p)
  BY <1>1, <1>8 DEF LoadWord
<1>9. CASE OrStore(p)
  <2>1. Store(p, w, load[p] \cup byte[p]) /\ load[p] \cup byte[p] \in Word
    BY <1>1, <1>9 DEF OrStore, Word
  <2> QED
    BY <1>1, <1>9, <2>1, StoreTypes DEF OrStore
<1>10. CASE CopyWord(p)
  BY <1>1, <1>10 DEF CopyWord
<1> QED
  BY <1>3, <1>4, <1>5, <1>6, <1>7, <1>8, <1>9, <1>10 DEF Going

\* The types.
LEMMA TypeStep == ASSUME TypeOK, Sound, [Next]_vars PROVE TypeOK'
<1>1. ASSUME NEW p \in Programs, Ioctl(p) PROVE TypeOK'
  <2>1. PICK k \in drv.kinds : Enter(p, k)
    BY <1>1 DEF Ioctl
  <2>2. /\ at' = [at EXCEPT ![p] = Begin]
        /\ asked' = [asked EXCEPT ![p] = k]
        /\ since' = [since EXCEPT ![p] = sample]
        /\ UNCHANGED <<drv, sample, aim, byte, load, spoiled>>
        /\ data' = IF drv.shared THEN data
                   ELSE [data EXCEPT ![p] = [w \in 1..Size |-> Garbage]]
    BY <2>1 DEF Enter
  <2>3. Begin \in [op : Ops, word : 1..Size]
    BY Sizes DEF Begin, Point, Ops
  <2>4. [w \in 1..Size |-> Garbage] \in [1..Size -> Word] /\ p \in Buffers
    BY DEF Garbage, Word, Bytes, Buffers
  <2>5. Word' = Word
    BY <2>2, Fixed DEF Word, Bytes
  <2> QED
    BY <2>2, <2>3, <2>4, <2>5, Fixed DEF TypeOK
<1>2. ASSUME NEW p \in Programs, Going(p) PROVE TypeOK'
  <2>1. /\ UNCHANGED <<drv, sample, asked, since>>
        /\ at' \in [Programs -> [op : Ops, word : 1..Size]]
    BY <1>2, GoingFacts
  <2>2. DataTypes'
    BY <1>2, GoingTypes
  <2> QED
    BY <2>1, <2>2, Fixed DEF TypeOK, DataTypes, Marks
<1>3. ASSUME NEW p \in Programs, CopyEnds(p) PROVE TypeOK'
  <2>1. /\ at' = [at EXCEPT ![p] = Idle]
        /\ asked' = [asked EXCEPT ![p] = "none"]
        /\ byte' = [byte EXCEPT ![p] = {}]
        /\ load' = [load EXCEPT ![p] = {}]
        /\ since' = [since EXCEPT ![p] = 0]
        /\ spoiled' = [spoiled EXCEPT ![p] = {}]
        /\ UNCHANGED <<drv, sample, aim>>
        /\ \/ data' = data
           \/ data' = [data EXCEPT ![Buf(p)] = [w \in 1..Size |-> {}]]
    BY <1>3 DEF CopyEnds, Return
  <2>2. Idle \in [op : Ops, word : 1..Size]
    BY Sizes DEF Idle, Point, Ops
  <2>3. /\ [w \in 1..Size |-> {}] \in [1..Size -> Word] /\ {} \in Word
        /\ Buf(p) \in Buffers
    BY DEF Word, Buf, Buffers
  <2>4. Word' = Word
    BY <2>1, Fixed DEF Word, Bytes
  <2>5. data' \in [Buffers -> [1..Size -> Word]]
    BY <2>1, <2>3 DEF TypeOK
  <2> QED
    BY <2>1, <2>2, <2>3, <2>4, <2>5, MaxSampleAssumption, Fixed DEF TypeOK
<1>4. CASE Sample
  <2>1. UNCHANGED <<drv, aim, at, asked, byte, load, data, since>>
    BY <1>4 DEF Sample
  <2>2. sample' \in 0..MaxSample
    BY <1>4, MaxSampleAssumption DEF Sample, TypeOK
  <2>3. spoiled' \in [Programs -> SUBSET Marks]
    BY <1>4 DEF Sample, HalfRead, TypeOK, Marks
  <2>4. Word' = Word
    BY <2>1, Fixed DEF Word, Bytes
  <2> QED
    BY <2>1, <2>2, <2>3, <2>4, Fixed DEF TypeOK, Marks
<1>5. ASSUME NEW p \in Programs, WriteRegister(p) PROVE TypeOK'
  <2>1. UNCHANGED <<drv, sample, at, asked, byte, load, data, since>>
    BY <1>5 DEF WriteRegister
  <2>2. aim' \in drv.kinds /\ spoiled' \in [Programs -> SUBSET Marks]
    BY <1>5, ReaddressTypes DEF WriteRegister
  <2>3. Word' = Word
    BY <2>1, Fixed DEF Word, Bytes
  <2> QED
    BY <2>1, <2>2, <2>3, Fixed DEF TypeOK, Marks
<1>6. CASE UNCHANGED vars
  <2>1. drv' = drv /\ Word' = Word
    BY <1>6, Fixed DEF vars, Word, Bytes
  <2> QED
    BY <1>6, <2>1, Fixed DEF vars, TypeOK
<1> QED
  BY <1>1, <1>2, <1>3, <1>4, <1>5, <1>6 DEF Next, Going
-----------------------------------------------------------------------------
\* A word that is spared now was spared before.
LEMMA Spared ==
  ASSUME NEW p \in Programs, NEW w, NEW same \in BOOLEAN, drv' = drv,
         spoiled[p] \subseteq spoiled'[p], Untouched(p, w, same)'
  PROVE  Untouched(p, w, same)
BY Fixed DEF Untouched

\* What does not concern word w of p leaves it as it was.
LEMMA Frame ==
  ASSUME TypeOK, NEW p \in Programs, NEW w \in 1..Size, NEW same \in BOOLEAN,
         UNCHANGED <<drv, sample>>, at'[p] = at[p], asked'[p] = asked[p],
         byte'[p] = byte[p], load'[p] = load[p], since'[p] = since[p],
         Unfinished(p, w) => data'[Buf(p)][w] = data[Buf(p)][w],
         At(p, "first", w) /\ drv.split /\ aim = asked[p] => aim' = aim,
         Followed(p, w, same)
  PROVE  Followed(p, w, same)'
<1>1. /\ Span(p)' = Span(p)
      /\ \A h, s : Val(p, w, h, s)' = Val(p, w, h, s)
      /\ \A op : At(p, op, w)' = At(p, op, w)
      /\ Complete(p, w)' = Complete(p, w)
  BY Fixed DEF Span, Val, Byte, At, Complete
<1>2. Aimed(p, w)'
  BY <1>1 DEF Followed, Aimed
<1>3. Received(p, w, same)'
  BY <1>1, Fixed DEF Followed, Received
<1>4. Stored(p, w, same)'
  <2>1. At(p, "second", w) => data'[Buf(p)][w] = data[Buf(p)][w]
    BY DEF At, Unfinished
  <2> QED
    BY <1>1, <2>1, Fixed DEF Followed, Stored
<1>5. Both(p, w, same)'
  <2>1. At(p, "fetch", w) => data'[Buf(p)][w] = data[Buf(p)][w]
    BY DEF At, Unfinished
  <2> QED
    BY <1>1, <2>1, Fixed DEF Followed, Both
<1>6. Loaded(p, w, same)'
  BY <1>1, Fixed DEF Followed, Loaded
<1>7. Ready(p, w, same)'
  <2>1. Complete(p, w) => data'[Buf(p)][w] = data[Buf(p)][w]
    <3>1. at[p].word \in 1..Size /\ Size \in Nat
      BY Sizes DEF TypeOK
    <3> QED
      BY <3>1 DEF Complete, Unfinished
  <2> QED
    BY <1>1, <2>1, Fixed DEF Followed, Ready
<1> QED
  BY <1>2, <1>3, <1>4, <1>5, <1>6, <1>7 DEF Followed

\* A call that is over, or has just begun, has delivered nothing.
LEMMA Nothing ==
  ASSUME NEW p \in Programs, NEW w \in 1..Size, NEW same \in BOOLEAN,
         drv' = drv, at'[p] \in {Idle, Begin}
  PROVE  Followed(p, w, same)'
BY Fixed DEF Idle, Begin, Point, Followed, Aimed, Received, Stored, Both,
             Loaded, Ready, At, Complete

\* ioctl() or read() begins.
LEMMA KeptIoctl ==
  ASSUME TypeOK, Sound, NEW same \in BOOLEAN, Kept(same),
         NEW p \in Programs, Ioctl(p)
  PROVE  Kept(same)'
<1>1. PICK k \in drv.kinds : Enter(p, k)
  BY DEF Ioctl
<1>2. /\ at' = [at EXCEPT ![p] = Begin]
      /\ asked' = [asked EXCEPT ![p] = k]
      /\ since' = [since EXCEPT ![p] = sample]
      /\ UNCHANGED <<drv, sample, aim, byte, load, spoiled>>
      /\ data' = IF drv.shared THEN data
                 ELSE [data EXCEPT ![p] = [w \in 1..Size |-> Garbage]]
  BY <1>1 DEF Enter
<1>3. ASSUME NEW q \in Programs, NEW w \in 1..Size, Untouched(q, w, same)'
      PROVE  Followed(q, w, same)'
  <2>1. CASE q = p
    BY <1>2, <2>1, Nothing DEF TypeOK
  <2>2. CASE q # p
    <3>1. Untouched(q, w, same)
      BY <1>2, <1>3, Spared
    <3>2. data'[Buf(q)] = data[Buf(q)]
      BY <1>2, <2>2 DEF Buf, TypeOK, Buffers
    <3>3. /\ at'[q] = at[q] /\ asked'[q] = asked[q] /\ since'[q] = since[q]
      BY <1>2, <2>2 DEF TypeOK
    <3> QED
      BY <1>2, <3>1, <3>2, <3>3, Frame DEF Kept
  <2> QED
    BY <2>1, <2>2
<1> QED
  BY <1>2, <1>3, Fixed DEF Kept

\* The call returns.
LEMMA KeptReturn ==
  ASSUME TypeOK, Sound, NEW same \in BOOLEAN, Kept(same),
         NEW p \in Programs, CopyEnds(p)
  PROVE  Kept(same)'
<1>1. /\ at' = [at EXCEPT ![p] = Idle]
      /\ asked' = [asked EXCEPT ![p] = "none"]
      /\ byte' = [byte EXCEPT ![p] = {}]
      /\ load' = [load EXCEPT ![p] = {}]
      /\ since' = [since EXCEPT ![p] = 0]
      /\ spoiled' = [spoiled EXCEPT ![p] = {}]
      /\ UNCHANGED <<drv, sample, aim>>
      /\ data' = IF drv.shared /\ \E q \in Programs \ {p} : at[q] # Idle
                 THEN data
                 ELSE [data EXCEPT ![Buf(p)] = [w \in 1..Size |-> {}]]
  BY DEF CopyEnds, Return
<1>2. ASSUME NEW q \in Programs, NEW w \in 1..Size, Untouched(q, w, same)'
      PROVE  Followed(q, w, same)'
  <2>1. CASE q = p
    BY <1>1, <2>1, Nothing DEF TypeOK
  <2>2. CASE q # p /\ at[q] = Idle
    BY <1>1, <2>2, Nothing DEF TypeOK
  <2>3. CASE q # p /\ at[q] # Idle
    <3>1. /\ at'[q] = at[q] /\ asked'[q] = asked[q] /\ since'[q] = since[q]
          /\ byte'[q] = byte[q] /\ load'[q] = load[q]
          /\ spoiled'[q] = spoiled[q]
      BY <1>1, <2>3 DEF TypeOK
    <3>2. Untouched(q, w, same)
      BY <1>1, <1>2, <3>1, Spared
    <3>3. data'[Buf(q)] = data[Buf(q)]
      BY <1>1, <2>3 DEF Buf, TypeOK, Buffers
    <3> QED
      BY <1>1, <3>1, <3>2, <3>3, Frame DEF Kept
  <2> QED
    BY <2>1, <2>2, <2>3
<1> QED
  BY <1>1, <1>2, Fixed DEF Kept

\* The chip takes a sample: only a word with one half read is torn by it.
LEMMA KeptSample ==
  ASSUME TypeOK, Sound, NEW same \in BOOLEAN, Kept(same), Sample
  PROVE  Kept(same)'
<1>1. /\ sample' = sample + 1
      /\ UNCHANGED <<drv, aim, at, asked, byte, load, data, since>>
      /\ spoiled' = [q \in Programs |->
                       spoiled[q] \cup (HalfRead(q) \X {"sampled"})]
  BY DEF Sample
<1>2. ASSUME NEW q \in Programs, NEW w \in 1..Size, Untouched(q, w, same)'
      PROVE  Followed(q, w, same)'
  <2>1. spoiled'[q] = spoiled[q] \cup (HalfRead(q) \X {"sampled"})
    BY <1>1
  <2>2. Untouched(q, w, same)
    BY <1>1, <1>2, <2>1, Spared
  <2>3. Followed(q, w, same)
    BY <2>2 DEF Kept
  <2>4. same => w \notin HalfRead(q)
    BY <1>2, <2>1 DEF Untouched
  <2>5. /\ Span(q) \subseteq Span(q)'
        /\ \A h, s : Val(q, w, h, s)' = Val(q, w, h, s)
        /\ \A op : At(q, op, w)' = At(q, op, w)
        /\ Complete(q, w)' = Complete(q, w)
    BY <1>1, Fixed DEF Span, Val, Byte, At, Complete, TypeOK
  <2>6. Aimed(q, w)'
    BY <1>1, <2>3, <2>5 DEF Followed, Aimed
  <2>7. Received(q, w, same)'
    <3>1. same /\ At(q, "put", w) => ~Wide
      BY <2>4 DEF At, HalfRead
    <3> QED
      BY <1>1, <2>3, <2>5, <3>1, Fixed DEF Followed, Received
  <2>8. Stored(q, w, same)'
    <3>1. same => ~At(q, "second", w)
      BY <2>4 DEF At, HalfRead, Sound
    <3> QED
      BY <1>1, <2>3, <2>5, <3>1, Fixed DEF Followed, Stored
  <2>9. Both(q, w, same)'
    BY <1>1, <2>3, <2>5, Fixed DEF Followed, Both
  <2>10. Loaded(q, w, same)'
    BY <1>1, <2>3, <2>5, Fixed DEF Followed, Loaded
  <2>11. Ready(q, w, same)'
    BY <1>1, <2>3, <2>5, Fixed DEF Followed, Ready
  <2> QED
    BY <2>6, <2>7, <2>8, <2>9, <2>10, <2>11 DEF Followed
<1> QED
  BY <1>1, <1>2, Fixed DEF Kept

\* A value is written: who waits for the byte of another register is spoiled.
LEMMA KeptWrite ==
  ASSUME TypeOK, Sound, NEW same \in BOOLEAN, Kept(same),
         NEW p \in Programs, WriteRegister(p)
  PROVE  Kept(same)'
<1>1. /\ UNCHANGED <<drv, sample, at, asked, byte, load, data, since>>
      /\ drv.split /\ ~drv.alone /\ at[p] = Idle
  BY DEF WriteRegister
<1>2. PICK k \in drv.kinds : Readdress(p, k)
  BY DEF WriteRegister
<1>3. ASSUME NEW q \in Programs, NEW w \in 1..Size, Untouched(q, w, same)'
      PROVE  Followed(q, w, same)'
  <2>1. same
    BY <1>1, <1>3, Fixed DEF Untouched, Own
  <2>2. spoiled[q] \subseteq spoiled'[q]
    BY <1>2 DEF Readdress, Mix
  <2>3. Followed(q, w, same)
    BY <1>1, <1>3, <2>2, Spared DEF Kept
  <2>4. At(q, "first", w) => aim' = asked[q]
    <3>1. CASE q = p
      BY <1>1, <3>1 DEF At, Idle, Point
    <3>2. CASE q # p
      <4>1. spoiled'[q] =
              spoiled[q] \cup ((IF at[q].op = "first" /\ asked[q] # k
                                THEN {1} ELSE {}) \X {"mixed"})
        BY <1>2, <3>2 DEF Readdress, Mix
      <4>2. w = 1
        BY <1>1, Sizes, DriverFacts DEF TypeOK
      <4> QED
        BY <1>2, <1>3, <2>1, <4>1, <4>2 DEF At, Untouched, Readdress
    <3> QED
      BY <3>1, <3>2
  <2> QED
    BY <1>1, <2>3, <2>4, Frame
<1> QED
  BY <1>1, <1>3, Fixed DEF Kept

\* A step of p spoils the words of other calls that it disturbs.
LEMMA Others ==
  ASSUME TypeOK, Sound, Single, NEW same \in BOOLEAN, Kept(same),
         NEW p \in Programs, Going(p),
         NEW q \in Programs, q # p, NEW w \in 1..Size, Untouched(q, w, same)'
  PROVE  Followed(q, w, same)'
<1>1. /\ UNCHANGED <<drv, sample>> /\ at[p] # Idle
      /\ at'[q] = at[q] /\ asked'[q] = asked[q] /\ since'[q] = since[q]
  BY GoingFacts
<1> SUFFICES /\ byte'[q] = byte[q] /\ load'[q] = load[q]
             /\ spoiled[q] \subseteq spoiled'[q]
             /\ Unfinished(q, w) => data'[Buf(q)][w] = data[Buf(q)][w]
             /\ At(q, "first", w) /\ drv.split /\ aim = asked[q] => aim' = aim
  BY <1>1, Spared, Frame DEF Kept
<1>2. /\ byte'[q] = byte[q] /\ load'[q] = load[q]
  BY DEF Going, SendAddress, SendFails, Transfer, TransferFails, Assign,
         LoadWord, OrStore, CopyWord, TypeOK
<1>3. CASE SendAddress(p)
  <2>1. /\ aim' = asked[p] /\ UNCHANGED data /\ at[p].op = "aim"
        /\ spoiled'[q] =
             spoiled[q] \cup ((IF at[q].op = "first" /\ asked[q] # asked[p]
                               THEN {1} ELSE {}) \X {"mixed"})
    BY <1>3 DEF SendAddress, Readdress, Mix, Does
  <2>2. At(q, "first", w) => at[q] # Idle /\ w = 1
    BY <2>1, Sizes, DriverFacts DEF At, Idle, Point, Sound, TypeOK
  <2>3. At(q, "first", w) => same
    BY <1>1, <2>1, <2>2, Fixed DEF Untouched, Own, Single, Sound
  <2>4. At(q, "first", w) => asked[q] = asked[p]
    BY <2>1, <2>2, <2>3 DEF At, Untouched
  <2> QED
    BY <1>2, <2>1, <2>4
<1>4. CASE SendFails(p) \/ TransferFails(p)
  BY <1>2, <1>4 DEF SendFails, TransferFails, Fail, TypeOK
<1>5. CASE Transfer(p) \/ LoadWord(p) \/ CopyWord(p)
  BY <1>2, <1>5 DEF Transfer, LoadWord, CopyWord
<1>6. CASE Assign(p) \/ OrStore(p)
  <2>1. PICK word \in Word : Store(p, at[p].word, word) /\ UNCHANGED aim
    <3>1. byte[p] \in Word /\ load[p] \cup byte[p] \in Word
      BY DEF TypeOK, Word
    <3> QED
      BY <1>6, <3>1 DEF Assign, OrStore
  <2>2. at[p].word \in 1..Size /\ Buf(q) \in Buffers
    BY DEF TypeOK, Buf, Buffers
  <2>3. /\ \A b \in Buffers, v \in 1..Size :
             b # Buf(p) \/ v # at[p].word => data'[b][v] = data[b][v]
        /\ spoiled[q] \subseteq spoiled'[q]
        /\ Buf(q) = Buf(p) /\ Unfinished(q, at[p].word)
             => <<at[p].word, "mixed">> \in spoiled'[q]
    BY <2>1, <2>2, StoreTypes
  <2>4. Unfinished(q, w) => Buf(q) # Buf(p) \/ w # at[p].word
    BY <1>1, <2>3, Fixed DEF Untouched, Own, Buf
  <2> QED
    BY <1>2, <2>1, <2>2, <2>3, <2>4
<1> QED
  BY <1>3, <1>4, <1>5, <1>6 DEF Going

\* What a step of p leaves of p's own call.
LEMMA MineFacts ==
  ASSUME TypeOK, Sound, NEW same \in BOOLEAN, Kept(same),
         NEW p \in Programs, Going(p), NEW w \in 1..Size, Untouched(p, w, same)'
  PROVE  /\ Followed(p, w, same)
         /\ Span(p)' = Span(p) /\ sample \in Span(p)
         /\ \A h, s : Val(p, w, h, s)' = Val(p, w, h, s)
         /\ UNCHANGED <<drv, sample, asked>>
         /\ at[p].word \in 1..Size /\ Size \in Nat
         /\ at[p].op \in {"first", "put", "second", "fetch", "or"}
              => at[p].word <= LastWord(asked[p])
         /\ at'[p] = After(asked[p], at[p])
<1>1. spoiled[p] \subseteq spoiled'[p]
  BY DEF Going, SendAddress, Readdress, SendFails, Transfer,
         TransferFails, Assign, LoadWord, OrStore, CopyWord, Store, Mix, Fail, TypeOK
<1>2. UNCHANGED <<drv, sample, asked, since>> /\ at'[p] = After(asked[p], at[p])
  BY GoingFacts
<1>3. Untouched(p, w, same)
  BY <1>1, <1>2, Spared
<1>4. at[p].word \in 1..Size /\ Size \in Nat
  BY Sizes DEF TypeOK
<1>5. sample \in Span(p)
  BY DEF Span, TypeOK, Sound
<1> QED
  BY <1>2, <1>3, <1>4, <1>5 DEF Span, Val, Byte, Sound, Kept

\* When word at[p].word is complete, the next is begun or all are copied.
LEMMA Advance ==
  ASSUME TypeOK, Sound, NEW same \in BOOLEAN, Kept(same),
         NEW p \in Programs, Going(p), at[p].op \in {"put", "or"},
         at'[p] = Assembled(asked[p], at[p].word),
         NEW w \in 1..Size, Untouched(p, w, same)',
         w # at[p].word => data'[Buf(p)][w] = data[Buf(p)][w],
         w = at[p].word => \E s, t \in Span(p) :
           /\ data'[Buf(p)][w] = {Val(p, w, First, s)}
                          \cup (IF Wide THEN {Val(p, w, Second, t)} ELSE {})
           /\ same => s = t
  PROVE  Followed(p, w, same)'
<1>1. /\ Followed(p, w, same)
      /\ Span(p)' = Span(p)
      /\ \A h, s : Val(p, w, h, s)' = Val(p, w, h, s)
      /\ UNCHANGED <<drv, sample, asked>>
      /\ at[p].word \in 1..Size /\ Size \in Nat
      /\ at[p].word <= LastWord(asked[p])
      /\ LastWord(asked[p]) \in 1..Size
  BY MineFacts, Sizes
<1>2. /\ at'[p].op \in {"first", "copy"}
      /\ at'[p].op = "first" => /\ at'[p].word = at[p].word + 1
                                /\ at[p].word < LastWord(asked[p])
      /\ at'[p].op = "copy" => /\ at'[p].word = 1
                               /\ at[p].word = LastWord(asked[p])
  BY <1>1 DEF Assembled, Point
<1>3. Aimed(p, w)'
  <2>1. drv.split => Size = 1
    BY DriverFacts, Sizes DEF TypeOK
  <2> QED
    BY <1>1, <1>2, <2>1 DEF Aimed, At
<1>4. Complete(p, w)' => w = at[p].word \/ Complete(p, w)
  BY <1>1, <1>2, Fixed DEF Complete
<1>5. Ready(p, w, same)'
  <2> SUFFICES ASSUME Complete(p, w)'
               PROVE  \E s, t \in Span(p) :
                 /\ data'[Buf(p)][w] = {Val(p, w, First, s)}
                           \cup (IF Wide THEN {Val(p, w, Second, t)} ELSE {})
                 /\ same => s = t
    BY <1>1, Fixed DEF Ready
  <2>1. CASE w = at[p].word
    BY <2>1
  <2>2. CASE w # at[p].word
    BY <1>1, <1>4, <2>2 DEF Followed, Ready
  <2> QED
    BY <2>1, <2>2
<1> QED
  BY <1>2, <1>3, <1>5 DEF Followed, Received, Stored, Both, Loaded, At

\* A step of p moves the bytes of its own word, and no other.
LEMMA Mine ==
  ASSUME TypeOK, Sound, NEW same \in BOOLEAN, Kept(same),
         NEW p \in Programs, Going(p), NEW w \in 1..Size, Untouched(p, w, same)'
  PROVE  Followed(p, w, same)'
<1> DEFINE c == at[p].word
<1>1. /\ Followed(p, w, same)
      /\ Span(p)' = Span(p) /\ sample \in Span(p)
      /\ \A h, s : Val(p, w, h, s)' = Val(p, w, h, s)
      /\ UNCHANGED <<drv, sample, asked>>
      /\ c \in 1..Size /\ Size \in Nat
      /\ at[p].op \in {"first", "put", "second", "fetch", "or"}
           => c <= LastWord(asked[p])
      /\ at'[p] = After(asked[p], at[p])
  BY MineFacts
<1>2. /\ data \in [Buffers -> [1..Size -> Word]] /\ Buf(p) \in Buffers
      /\ byte \in [Programs -> Word] /\ load \in [Programs -> Word]
  BY DEF TypeOK, Buf, Buffers
\* The words before c keep being ready.
<1>3. ASSUME at[p].op \in {"first", "put", "second", "fetch", "or", "copy"},
             at'[p].op \in {"put", "second", "fetch", "or", "copy"},
             at'[p].op = "copy" => at[p].op = "copy" /\ at'[p].word = c + 1,
             at'[p].op # "copy" => at[p].op # "copy" /\ at'[p].word = c,
             UNCHANGED data
      PROVE  Ready(p, w, same)'
  <2>1. Complete(p, w)' => Complete(p, w)
    BY <1>1, <1>3, Fixed DEF Complete
  <2> QED
    BY <1>1, <1>3, <2>1, Fixed DEF Followed, Ready
<1>4. CASE SendAddress(p)
  <2>1. aim' = asked[p] /\ at'[p] = Point("first", 1)
    BY <1>1, <1>4 DEF SendAddress, Readdress, Does, After
  <2> QED
    BY <1>1, <2>1 DEF Point, Followed, Aimed, Received, Stored, Both, Loaded,
                      Ready, At, Complete
<1>5. CASE SendFails(p)
  <2>1. at'[p] = Point("first", 1) /\ c = 1
    BY <1>1, <1>5 DEF SendFails, Does, After, Sound
  <2>2. <<1, "failed">> \in spoiled'[p]
    BY <1>5, <2>1 DEF SendFails, Fail, TypeOK
  <2>3. w # 1
    BY <2>2 DEF Untouched
  <2> QED
    BY <1>1, <2>1, <2>3 DEF Point, Followed, Aimed, Received, Stored, Both,
                            Loaded, Ready, At, Complete
<1>6. CASE Transfer(p) /\ at[p].op = "first"
  <2>1. at'[p] = Point("put", c) /\ UNCHANGED data
    BY <1>1, <1>6 DEF Transfer, After
  <2>2. byte'[p] = {<<First, Byte(IF drv.split THEN aim ELSE asked[p],
                                  c, sample)>>}
    BY <1>2, <1>6 DEF Transfer, Half, First
  <2>3. w = c => byte'[p] = {Val(p, w, First, sample)}
    BY <1>1, <1>6, <2>2 DEF Followed, Aimed, At, Val
  <2>4. Received(p, w, same)'
    BY <1>1, <2>1, <2>3, Fixed DEF Received, At, Point
  <2>5. Ready(p, w, same)'
    BY <1>3, <1>6, <2>1 DEF Point
  <2> QED
    BY <2>1, <2>4, <2>5 DEF Followed, Aimed, Stored, Both, Loaded, At, Point
<1>7. CASE Transfer(p) /\ at[p].op = "second"
  <2>1. at'[p] = Point("fetch", c) /\ UNCHANGED data
    BY <1>1, <1>7 DEF Transfer, After
  <2>2. ~drv.split
    BY <1>7, DriverFacts DEF Sound, TypeOK
  <2>3. w = c => byte'[p] = {Val(p, w, Second, sample)}
    BY <1>2, <1>7, <2>2 DEF Transfer, Half, Second, Val
  <2>4. Both(p, w, same)'
    <3> SUFFICES ASSUME w = c
                 PROVE  \E s, t \in Span(p) :
                          /\ data[Buf(p)][w] = {Val(p, w, First, s)}
                          /\ byte'[p] = {Val(p, w, Second, t)}
                          /\ same => s = t
      BY <1>1, <2>1, Fixed DEF Both, At, Point
    <3>1. PICK s \in Span(p) : /\ data[Buf(p)][w] = {Val(p, w, First, s)}
                               /\ same => s = sample
      BY <1>1, <1>7 DEF Followed, Stored, At
    <3> QED
      BY <1>1, <2>3, <3>1
  <2>5. Ready(p, w, same)'
    BY <1>3, <1>7, <2>1 DEF Point
  <2> QED
    BY <2>1, <2>4, <2>5 DEF Followed, Aimed, Received, Stored, Loaded, At, Point
<1>8. CASE TransferFails(p)
  <2>1. /\ at[p].op \in {"first", "second"} /\ UNCHANGED data
        /\ at'[p] \in {Point("put", c), Point("fetch", c)}
    BY <1>1, <1>8 DEF TransferFails, Does, After
  <2>2. w # c
    BY <1>8 DEF TransferFails, Fail, Untouched, TypeOK
  <2>3. Ready(p, w, same)'
    BY <1>3, <2>1 DEF Point
  <2> QED
    BY <2>1, <2>2, <2>3 DEF Followed, Aimed, Received, Stored, Both, Loaded,
                            At, Point
<1>9. CASE Assign(p)
  <2>1. /\ at[p].op = "put" /\ Store(p, c, byte[p])
        /\ at'[p] = IF Wide THEN Point("second", c) ELSE Assembled(asked[p], c)
    BY <1>1, <1>9 DEF Assign, Does, After
  <2>2. /\ w # c => data'[Buf(p)][w] = data[Buf(p)][w]
        /\ data'[Buf(p)][c] = byte[p]
    <3>1. byte[p] \in Word
      BY <1>2
    <3>2. c \in 1..Size /\ Store(p, c, byte[p])
      BY <1>1, <2>1
    <3> HIDE DEF c
    <3>3. data'[Buf(p)][c] = byte[p]
      BY <3>1, <3>2, StoredWord
    <3>4. \A b \in Buffers, v \in 1..Size :
            b # Buf(p) \/ v # c => data'[b][v] = data[b][v]
      BY <3>1, <3>2, StoredElsewhere
    <3> QED
      BY <1>2, <3>3, <3>4
  <2>3. w = c => \E s \in Span(p) : /\ data'[Buf(p)][w] = {Val(p, w, First, s)}
                                    /\ same /\ Wide => s = sample
    BY <1>1, <2>1, <2>2 DEF Followed, Received, At
  <2>4. CASE Wide
    <3>1. Stored(p, w, same)'
      BY <1>1, <2>1, <2>3, <2>4, Fixed DEF Stored, At, Point
    <3>2. Complete(p, w)' => Complete(p, w) /\ w # c
      BY <1>1, <2>1, <2>4, Fixed DEF Complete, Point
    <3>3. Ready(p, w, same)'
      BY <1>1, <2>2, <3>2, Fixed DEF Followed, Ready
    <3> QED
      BY <2>1, <2>4, <3>1, <3>3 DEF Followed, Aimed, Received, Both, Loaded,
                                    At, Point
  <2>5. CASE ~Wide
    <3>1. w = c => \E s, t \in Span(p) :
            /\ data'[Buf(p)][w] = {Val(p, w, First, s)}
                          \cup (IF Wide THEN {Val(p, w, Second, t)} ELSE {})
            /\ same => s = t
      BY <2>3, <2>5
    <3> QED
      BY <2>1, <2>2, <2>5, <3>1, Advance
  <2> QED
    BY <2>4, <2>5
<1>10. CASE LoadWord(p)
  <2>1. /\ at[p].op = "fetch" /\ at'[p] = Point("or", c) /\ UNCHANGED data
        /\ load'[p] = data[Buf(p)][c] /\ byte'[p] = byte[p]
    BY <1>1, <1>2, <1>10 DEF LoadWord, Does, After
  <2>2. Loaded(p, w, same)'
    BY <1>1, <2>1, Fixed DEF Followed, Both, Loaded, At, Point
  <2>3. Ready(p, w, same)'
    BY <1>3, <2>1 DEF Point
  <2> QED
    BY <2>1, <2>2, <2>3 DEF Followed, Aimed, Received, Stored, Both, At, Point
<1>11. CASE OrStore(p)
  <2>1. /\ at[p].op = "or" /\ Store(p, c, load[p] \cup byte[p])
        /\ at'[p] = Assembled(asked[p], c) /\ Wide
    BY <1>1, <1>11 DEF OrStore, Does, After, Sound
  <2>2. load[p] \cup byte[p] \in Word
    BY <1>2 DEF Word
  <2>3. /\ w # c => data'[Buf(p)][w] = data[Buf(p)][w]
        /\ data'[Buf(p)][c] = load[p] \cup byte[p]
    <3>1. PICK word \in Word : word = load[p] \cup byte[p]
      BY <2>2
    <3>2. PICK v \in 1..Size : v = c
      BY <1>1
    <3>3. Store(p, v, word)
      BY <2>1, <3>1, <3>2
    <3>4. data'[Buf(p)][v] = word
      BY <3>3, StoredWord
    <3>5. \A b \in Buffers, u \in 1..Size :
            b # Buf(p) \/ u # v => data'[b][u] = data[b][u]
      BY <3>3, StoredElsewhere
    <3> QED
      BY <1>2, <3>1, <3>2, <3>4, <3>5
  <2>4. w = c => \E s, t \in Span(p) :
          /\ data'[Buf(p)][w] = {Val(p, w, First, s)}
                        \cup (IF Wide THEN {Val(p, w, Second, t)} ELSE {})
          /\ same => s = t
    BY <1>1, <2>1, <2>3 DEF Followed, Loaded, At
  <2> QED
    BY <2>1, <2>3, <2>4, Advance
<1>12. CASE CopyWord(p)
  <2>1. at[p].op = "copy" /\ at'[p] = Point("copy", c + 1) /\ UNCHANGED data
    BY <1>1, <1>12 DEF CopyWord, Does, After
  <2>2. Ready(p, w, same)'
    BY <1>3, <2>1 DEF Point
  <2> QED
    BY <2>1, <2>2 DEF Followed, Aimed, Received, Stored, Both, Loaded, At, Point
<1> QED
  BY <1>4, <1>5, <1>6, <1>7, <1>8, <1>9, <1>10, <1>11, <1>12
     DEF Going, Transfer, Does

\* Every step keeps what is known of the words.
LEMMA KeptStep ==
  ASSUME TypeOK, Sound, Single, NEW same \in BOOLEAN, Kept(same), [Next]_vars
  PROVE  Kept(same)'
<1>1. ASSUME NEW p \in Programs, Ioctl(p) PROVE Kept(same)'
  BY <1>1, KeptIoctl
<1>2. ASSUME NEW p \in Programs, Going(p) PROVE Kept(same)'
  <2>1. Size' = Size
    BY <1>2, GoingFacts, Fixed
  <2>2. ASSUME NEW q \in Programs, NEW w \in 1..Size, Untouched(q, w, same)'
        PROVE  Followed(q, w, same)'
    BY <1>2, <2>2, Mine, Others
  <2> QED
    BY <2>1, <2>2 DEF Kept
<1>3. ASSUME NEW p \in Programs, CopyEnds(p) PROVE Kept(same)'
  BY <1>3, KeptReturn
<1>4. CASE Sample
  BY <1>4, KeptSample
<1>5. ASSUME NEW p \in Programs, WriteRegister(p) PROVE Kept(same)'
  BY <1>5, KeptWrite
<1>6. CASE UNCHANGED vars
  <2>1. UNCHANGED <<drv, sample, aim, at, asked, byte, load, data, since,
                    spoiled>>
    BY <1>6 DEF vars
  <2>2. ASSUME NEW q \in Programs, NEW w \in 1..Size, Untouched(q, w, same)'
        PROVE  Followed(q, w, same)'
    BY <2>1, <2>2, Spared, Frame DEF Kept
  <2> QED
    BY <2>1, <2>2, Fixed DEF Kept
<1> QED
  BY <1>1, <1>2, <1>3, <1>4, <1>5, <1>6 DEF Next, Going

\* The inductive invariant of the reads.
THEOREM Invariance == Spec => []IInv
<1>1. ASSUME Init PROVE IInv
  <2>1. TypeOK
    <3>1. /\ at \in [Programs -> [op : Ops, word : 1..Size]]
          /\ 0 \in 0..MaxSample
      BY <1>1, Sizes, MaxSampleAssumption DEF Init, Idle, Point, Ops
    <3>2. /\ {} \in Word
          /\ data \in [Buffers -> [1..Size -> Word]]
      BY <1>1 DEF Init, Word
    <3> QED
      BY <1>1, <3>1, <3>2 DEF Init, TypeOK
  <2>2. \A p \in Programs : at[p] = Idle /\ since[p] <= sample
    BY <1>1 DEF Init
  <2>3. Sound /\ Single
    BY <2>2 DEF Sound, Single, Idle, Point
  <2>4. \A same \in BOOLEAN : Kept(same)
    BY <2>2 DEF Kept, Idle, Point, Followed, Aimed, Received, Stored, Both,
                Loaded, Ready, At, Complete
  <2> QED
    BY <2>1, <2>3, <2>4 DEF IInv
<1>2. IInv /\ [Next]_vars => IInv'
  BY TypeStep, SoundStep, SingleStep, KeptStep DEF IInv
<1> QED
  BY <1>1, <1>2, PTL DEF Spec

\* The types of the six drivers, for any number of words, samples and failures.
THEOREM TypeCorrect == Spec => []TypeOK
<1>1. IInv => TypeOK
  BY DEF IInv
<1> QED
  BY <1>1, Invariance, PTL

\* A word is of one sample, no older than the call, unless something came
\* between its own bytes.
THEOREM Samples == Spec => []OneFreshSample
<1>1. ASSUME IInv PROVE OneFreshSample
  <2> SUFFICES ASSUME NEW p \in Programs, NEW w \in 1..Size, Delivers(p, w),
                      Untouched(p, w, TRUE)
               PROVE  \E s \in since[p]..sample :
                 data[Buf(p)][w] =
                   {<<h, Byte(asked[p], w, s)>> : h \in ToSet(drv.halves)}
    BY DEF OneFreshSample, Untouched
  <2>1. Ready(p, w, TRUE) /\ Complete(p, w)
    <3>1. Complete(p, w)
      BY Sizes DEF Delivers, Complete, Point
    <3>2. Followed(p, w, TRUE)
      BY <1>1 DEF IInv, Kept
    <3> QED
      BY <3>1, <3>2 DEF Followed
  <2>2. PICK s \in Span(p) :
          data[Buf(p)][w] = {Val(p, w, First, s)}
                          \cup (IF Wide THEN {Val(p, w, Second, s)} ELSE {})
    BY <2>1 DEF Ready
  <2>3. ToSet(drv.halves) = IF Wide THEN {First, Second} ELSE {First}
    BY <1>1, DriverFacts DEF IInv, TypeOK
  <2> QED
    BY <2>2, <2>3 DEF Val, Span
<1> QED
  BY <1>1, Invariance, PTL

\* Calls with variables of their own never disturb each other.
THEOREM Separation == Spec => []CallsKeepApart
<1>1. ASSUME IInv PROVE CallsKeepApart
  <2> SUFFICES ASSUME NEW p \in Programs, NEW w \in 1..Size, Delivers(p, w),
                      Untouched(p, w, FALSE)
               PROVE  /\ {b[1] : b \in data[Buf(p)][w]} = ToSet(drv.halves)
                      /\ \A b \in data[Buf(p)][w] :
                           /\ b[2].kind = asked[p]
                           /\ b[2].word = w
                           /\ b[2].sample \in since[p]..sample
    BY DEF CallsKeepApart, Untouched, Own
  <2>1. Ready(p, w, FALSE) /\ Complete(p, w)
    <3>1. Complete(p, w)
      BY Sizes DEF Delivers, Complete, Point
    <3>2. Followed(p, w, FALSE)
      BY <1>1 DEF IInv, Kept
    <3> QED
      BY <3>1, <3>2 DEF Followed
  <2>2. PICK s, t \in Span(p) :
          data[Buf(p)][w] = {Val(p, w, First, s)}
                          \cup (IF Wide THEN {Val(p, w, Second, t)} ELSE {})
    BY <2>1 DEF Ready
  <2>3. ToSet(drv.halves) = IF Wide THEN {First, Second} ELSE {First}
    BY <1>1, DriverFacts DEF IInv, TypeOK
  <2> DEFINE S == data[Buf(p)][w]
  <2>4. {b[1] : b \in S} = ToSet(drv.halves)
    <3>1. CASE Wide
      <4>1. S = {Val(p, w, First, s), Val(p, w, Second, t)}
        BY <2>2, <3>1
      <4>2. {b[1] : b \in S} = {First, Second}
        BY <4>1 DEF Val
      <4> QED
        BY <2>3, <3>1, <4>2
    <3>2. CASE ~Wide
      <4>1. S = {Val(p, w, First, s)}
        BY <2>2, <3>2
      <4>2. {b[1] : b \in S} = {First}
        BY <4>1 DEF Val
      <4> QED
        BY <2>3, <3>2, <4>2
    <3> QED
      BY <3>1, <3>2
  <2>5. \A b \in S : /\ b[2].kind = asked[p]
                     /\ b[2].word = w
                     /\ b[2].sample \in since[p]..sample
    BY <2>2 DEF Val, Span, Byte
  <2> QED
    BY <2>4, <2>5
<1> QED
  BY <1>1, Invariance, PTL
=============================================================================
