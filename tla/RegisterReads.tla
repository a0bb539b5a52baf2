---------------------------- MODULE RegisterReads ----------------------------
(***************************************************************************)
(* Six drivers that read registers of a chip on an I2C or SPI bus: the     *)
(* MPU6050 sensor (050, 060, 061), whose words take two transfers each, a  *)
(* touch screen (31) and an RFID reader (32).  One transfer is one step of *)
(* the bus controller; between two steps of a call other programs call and *)
(* the chip takes new samples.  A byte is named by its register and by the *)
(* sample that it belongs to; a word is the set of the bytes ORed into it. *)
(***************************************************************************)
EXTENDS Integers, Sequences, FiniteSets, SequencesExt

CONSTANTS Programs,   \* the processes that call the driver
          Axes,       \* words of an acceleration or a rotation: 3
          Asked,      \* bound: the registers that programs ask for, of
                      \* "acc", "gyro" and "temp"
          MaxSample,  \* bound: the samples that the chip takes
          MaxFailures \* bound: the failures in the calls under way

ASSUME AxesAssumption == Axes \in Nat \ {0}
ASSUME MaxSampleAssumption == MaxSample \in Nat
ASSUME MaxFailuresAssumption == MaxFailures \in Nat

VARIABLES drv,      \* the driver; it stays
          sample,   \* the sample that the registers of the chip show
          aim,      \* 32: the register that the next SPI read returns
          at,       \* where each program is in its call
          asked,    \* what each program asked for
          byte,     \* what a transfer returned, until it is stored
          load,     \* the left operand of "|=", as it was loaded
          data,     \* the words under assembly, by buffer
          since,    \* history: the sample shown when the call began
          spoiled   \* history: the words that something happened to, and what

vars == <<drv, sample, aim, at, asked, byte, load, data, since, spoiled>>

\* A driver: the bytes of a word in the order they are read; the bytes that are
\* wrong when the transfer of a byte failed; what can be asked for; whether all
\* calls assemble in one global union (061); whether address and data are two
\* transfers (32), and whether there is one caller only, probe (32/4).
Driver(halves, wrong) ==
  [halves |-> halves, wrong |-> wrong, kinds |-> {"acc", "gyro", "temp"},
   shared |-> FALSE, split |-> FALSE, alone |-> FALSE]

\* The error is a negative int: read as the low byte it sets all 16 bits.
hq_050_mpu6050 ==
  Driver(<<"lo", "hi">>,
         [h \in {"lo", "hi"} |-> IF h = "lo" THEN {"lo", "hi"} ELSE {"hi"}])

\* The error is a char, which is unsigned on this processor.
hq_060_mpu6050 ==
  [Driver(<<"hi", "lo">>, [h \in {"lo", "hi"} |-> {h}])
     EXCEPT !.kinds = {"acc", "gyro"}]

\* The error is dropped: the byte is 0.
hq_061_mpu6050 ==
  [Driver(<<"hi", "lo">>, [h \in {"lo", "hi"} |-> {}]) EXCEPT !.shared = TRUE]

\* One byte; a failed transfer hands back the number of the register.
sc_31_i2c_char == Driver(<<"lo">>, [h \in {"lo"} |-> {"lo"}])

\* write() of the address, then read() of the byte into a local variable.
sc_32_my_rc522 == [sc_31_i2c_char EXCEPT !.split = TRUE]

\* The same two transfers in ReadRawRC().
sc_32_4_my_rc522 == [sc_32_my_rc522 EXCEPT !.alone = TRUE]

Drivers == {hq_050_mpu6050, hq_060_mpu6050, hq_061_mpu6050, sc_31_i2c_char,
            sc_32_my_rc522, sc_32_4_my_rc522}

Wide == Len(drv.halves) = 2
Size == IF Wide THEN Axes ELSE 1     \* words of the union: all are copied
LastWord(k) == IF k = "temp" THEN 1 ELSE Size

Union == "union"
Buffers == Programs \cup {Union}
Buf_AlwaysUnion(p) == Union       \* mutant: data is global in every driver
Buf(p) == IF drv.shared THEN Union ELSE p

Byte(k, w, s) == [kind |-> k, word |-> w, sample |-> s]
Wrong == Byte("none", 0, 0)
Bytes == {Wrong} \cup [kind : drv.kinds, word : 1..Size, sample : 0..MaxSample]
Word  == SUBSET ({"lo", "hi"} \X Bytes)
Garbage == {<<"lo", Wrong>>, <<"hi", Wrong>>}
-----------------------------------------------------------------------------
(***************************************************************************)
(* The order of a call: for each word                                      *)
(*   data.acc.x = read_reg(..) << 8;      "first", "put"                   *)
(*   data.acc.x |= read_reg(..);          "second", "fetch", "or"          *)
(* and copy_to_user(), word by word.                                       *)
(***************************************************************************)
Point(op, w) == [op |-> op, word |-> w]
Idle  == Point("idle", 1)
Begin == Point(IF drv.split THEN "aim" ELSE "first", 1)

\* Mutant: one word more than the union has.
Assembled_OffByOne(k, w) ==
  IF w <= LastWord(k) THEN Point("first", w + 1) ELSE Point("copy", 1)

\* What follows when word w of register k is complete.
Assembled(k, w) ==
  IF w < LastWord(k) THEN Point("first", w + 1) ELSE Point("copy", 1)

After(k, a) ==
  CASE a.op = "aim"    -> Point("first", 1)
    [] a.op = "first"  -> Point("put", a.word)
    [] a.op = "put"    -> IF Wide THEN Point("second", a.word)
                          ELSE Assembled(k, a.word)
    [] a.op = "second" -> Point("fetch", a.word)
    [] a.op = "fetch"  -> Point("or", a.word)
    [] a.op = "or"     -> Assembled(k, a.word)
    [] a.op = "copy"   -> Point("copy", a.word + 1)

Ops == {"idle", "aim", "first", "put", "second", "fetch", "or", "copy"}

TypeOK == /\ drv \in Drivers
          /\ sample \in 0..MaxSample
          /\ aim \in drv.kinds
          /\ at \in [Programs -> [op : Ops, word : 1..Size]]
          /\ asked \in [Programs -> drv.kinds \cup {"none"}]
          /\ byte \in [Programs -> Word]
          /\ load \in [Programs -> Word]
          /\ data \in [Buffers -> [1..Size -> Word]]
          /\ since \in [Programs -> 0..MaxSample]
          /\ spoiled \in [Programs -> SUBSET
                            ((1..Size) \X {"sampled", "failed", "mixed"})]

Init == /\ drv \in Drivers
        /\ sample = 0 /\ aim \in drv.kinds
        /\ at = [p \in Programs |-> Idle]
        /\ asked = [p \in Programs |-> "none"]
        /\ byte = [p \in Programs |-> {}]
        /\ load = [p \in Programs |-> {}]
        /\ data = [b \in Buffers |-> [w \in 1..Size |-> {}]]
        /\ since = [p \in Programs |-> 0]
        /\ spoiled = [p \in Programs |-> {}]
-----------------------------------------------------------------------------
\* Program p calls the driver; its local variables are not initialised.
Enter(p, k) ==
  /\ at[p] = Idle
  /\ drv.alone => \A q \in Programs : at[q] = Idle
  /\ at' = [at EXCEPT ![p] = Begin]
  /\ asked' = [asked EXCEPT ![p] = k]
  /\ data' = IF drv.shared THEN data
             ELSE [data EXCEPT ![p] = [w \in 1..Size |-> Garbage]]
  /\ since' = [since EXCEPT ![p] = sample]
  /\ UNCHANGED <<drv, sample, aim, byte, load, spoiled>>

\* ioctl() with a command it knows.  (With another one 050 refuses, 060 and 061
\* copy what is there, which nobody asked for.)  31 and 32: read().
Ioctl(p) == \E k \in drv.kinds \cap Asked : Enter(p, k)

\* p is at one of the operations ops, and goes on.
Does(p, ops) == /\ at[p].op \in ops
                /\ at' = [at EXCEPT ![p] = After(asked[p], at[p])]

\* The words of the calls under way that a failed transfer spoiled.
Failures ==
  {f \in Programs \X (1..Size) : <<f[2], "failed">> \in spoiled[f[1]]}

Fail(p) == /\ Cardinality(Failures) < MaxFailures
           /\ spoiled' = [spoiled EXCEPT
                            ![p] = @ \cup {<<at[p].word, "failed">>}]

\* What a step of p does to the calls of the others, by the words affected.
Mix(p, hit(_)) ==
  spoiled' = [q \in Programs |->
                IF q = p THEN spoiled[q]
                ELSE spoiled[q] \cup (hit(q) \X {"mixed"})]

\* 32: the chip is told a register; who waits for his byte gets that one's.
Readdress(p, k) ==
  /\ aim' = k
  /\ Mix(p, LAMBDA q : IF at[q].op = "first" /\ asked[q] # k THEN {1} ELSE {})

\* The address goes out.
SendAddress(p) ==
  /\ Does(p, {"aim"})
  /\ Readdress(p, asked[p])
  /\ UNCHANGED <<drv, sample, asked, byte, load, data, since>>

SendFails(p) ==
  /\ Does(p, {"aim"}) /\ Fail(p)
  /\ UNCHANGED <<drv, sample, aim, asked, byte, load, data, since>>

\* The byte of the word that p reads.
Half(p) == drv.halves[IF at[p].op = "first" THEN 1 ELSE 2]

\* i2c_transfer() of the address and one byte, or the SPI read.
Transfer(p) ==
  /\ Does(p, {"first", "second"})
  /\ LET b == Byte(IF drv.split THEN aim ELSE asked[p], at[p].word, sample)
     IN  byte' = [byte EXCEPT ![p] = {<<Half(p), b>>}]
  /\ UNCHANGED <<drv, sample, aim, asked, load, data, since, spoiled>>

TransferFails(p) ==
  /\ Does(p, {"first", "second"}) /\ Fail(p)
  /\ byte' = [byte EXCEPT
                ![p] = {<<h, Wrong>> : h \in drv.wrong[Half(p)]}]
  /\ UNCHANGED <<drv, sample, aim, asked, load, data, since>>
\* write() of a value: the address goes out with it, to a chip that others may
\* be about to read.  (In 31 it is one transfer, and changes nothing here.)
WriteRegister(p) ==
  /\ drv.split /\ ~drv.alone /\ at[p] = Idle
  /\ \E k \in drv.kinds : Readdress(p, k)
  /\ UNCHANGED <<drv, sample, at, asked, byte, load, data, since>>
-----------------------------------------------------------------------------
\* Word w of q's call is assembled, at least in part, and not copied yet.
Unfinished(q, w) ==
  \/ at[q].op = "copy" /\ at[q].word <= w
  \/ at[q].op \in {"second", "fetch", "or"} /\ w <= at[q].word
  \/ at[q].op \in {"first", "put"} /\ w < at[q].word

\* A store of p into word w of its buffer.
Store(p, w, word) ==
  /\ data' = [data EXCEPT ![Buf(p)][w] = word]
  /\ Mix(p, LAMBDA q : IF Buf(q) = Buf(p) /\ Unfinished(q, w)
                         THEN {w} ELSE {})

\* "="
Assign(p) == /\ Does(p, {"put"})
             /\ Store(p, at[p].word, byte[p])
             /\ byte' = [byte EXCEPT ![p] = {}]
             /\ UNCHANGED <<drv, sample, aim, asked, load, since>>

\* "|=": the load ...
LoadWord(p) ==
  /\ Does(p, {"fetch"})
  /\ load' = [load EXCEPT ![p] = data[Buf(p)][at[p].word]]
  /\ UNCHANGED <<drv, sample, aim, asked, byte, data, since, spoiled>>

\* Mutant: "=" where the code has "|=".
OrStore_Assigns(p) ==
  /\ Does(p, {"or"})
  /\ Store(p, at[p].word, byte[p])
  /\ byte' = [byte EXCEPT ![p] = {}]
  /\ load' = [load EXCEPT ![p] = {}]
  /\ UNCHANGED <<drv, sample, aim, asked, since>>

\* ... and the store.
OrStore(p) ==
  /\ Does(p, {"or"})
  /\ Store(p, at[p].word, load[p] \cup byte[p])
  /\ byte' = [byte EXCEPT ![p] = {}]
  /\ load' = [load EXCEPT ![p] = {}]
  /\ UNCHANGED <<drv, sample, aim, asked, since>>

\* The call returns, and its local variables are gone.  (What stays in the
\* union is dropped with the last call: the next one starts with "=".)
Return(p) ==
  /\ at' = [at EXCEPT ![p] = Idle]
  /\ asked' = [asked EXCEPT ![p] = "none"]
  /\ byte' = [byte EXCEPT ![p] = {}]
  /\ load' = [load EXCEPT ![p] = {}]
  /\ data' = IF drv.shared /\ \E q \in Programs \ {p} : at[q] # Idle
             THEN data
             ELSE [data EXCEPT ![Buf(p)] = [w \in 1..Size |-> {}]]
  /\ since' = [since EXCEPT ![p] = 0]
  /\ spoiled' = [spoiled EXCEPT ![p] = {}]
  /\ UNCHANGED <<drv, sample, aim>>

\* copy_to_user(), word by word; it stops at a page that is not there.
CopyWord(p) == /\ at[p].word < Size /\ Does(p, {"copy"})
               /\ UNCHANGED <<drv, sample, aim, asked, byte, load, data, since,
                              spoiled>>

CopyEnds(p) == at[p].op = "copy" /\ Return(p)

\* The word of q whose second byte is still to be read.
HalfRead(q) == IF Wide /\ at[q].op \in {"put", "second"} THEN {at[q].word}
               ELSE {}

\* The chip takes a sample and shows it in all its registers.
Sample ==
  /\ sample < MaxSample
  /\ sample' = sample + 1
  /\ spoiled' = [q \in Programs |->
                   spoiled[q] \cup (HalfRead(q) \X {"sampled"})]
  /\ UNCHANGED <<drv, aim, at, asked, byte, load, data, since>>
-----------------------------------------------------------------------------
Next == \/ \E p \in Programs : \/ Ioctl(p) \/ SendAddress(p) \/ SendFails(p)
                               \/ WriteRegister(p)
                               \/ Transfer(p) \/ TransferFails(p)
                               \/ Assign(p) \/ LoadWord(p) \/ OrStore(p)
                               \/ CopyWord(p) \/ CopyEnds(p)
        \/ Sample

Spec == Init /\ [][Next]_vars
-----------------------------------------------------------------------------
\* Word w of what p asked for is copied next.
Delivers(p, w) == at[p] = Point("copy", w) /\ w <= LastWord(asked[p])

(***************************************************************************)
(* Each word that a call delivers is from one sample, taken no earlier     *)
(* than the call and of the right register, unless the chip sampled        *)
(* between the two bytes of that very word, one of its transfers failed,   *)
(* or another call wrote the same word of the union (061) or another       *)
(* address or a value (32) in between.                                     *)
(***************************************************************************)
OneFreshSample ==
  \A p \in Programs, w \in 1..Size : Delivers(p, w) =>
    \/ \E s \in since[p]..sample :
         data[Buf(p)][w] =
           {<<h, Byte(asked[p], w, s)>> : h \in ToSet(drv.halves)}
    \/ \E why \in {"sampled", "failed", "mixed"} : <<w, why>> \in spoiled[p]

(***************************************************************************)
(* Where a call has variables of its own (050, 060, 31) or is alone (32/4) *)
(* no other call ever changes what it delivers: each byte is of the        *)
(* register that was asked for and no older than the call, whatever is     *)
(* called and sampled meanwhile, and both bytes are there, unless a        *)
(* transfer of that very word failed.                                      *)
(***************************************************************************)
CallsKeepApart ==
  \A p \in Programs, w \in 1..Size :
    Delivers(p, w) /\ ~drv.shared /\ (drv.split => drv.alone) =>
      \/ /\ {b[1] : b \in data[Buf(p)][w]} = ToSet(drv.halves)
         /\ \A b \in data[Buf(p)][w] : /\ b[2].kind = asked[p]
                                       /\ b[2].word = w
                                       /\ b[2].sample \in since[p]..sample
      \/ <<w, "failed">> \in spoiled[p]
=============================================================================
