--------------------------- MODULE BitBangI2CProofs ---------------------------
(***************************************************************************)
(* Proofs about BitBangI2C for every width of a byte, every length of a    *)
(* read, every number of polls and every slave address.  The invariant     *)
(* says, for each access of each function, what is on the pins, what the   *)
(* slave is doing and how much of the call it has: refused = 0, everything *)
(* up to here; after a timeout, nothing more, except that a slave that     *)
(* acknowledged too late may send one byte.                                *)
(***************************************************************************)
EXTENDS BitBangI2C, SequenceTheorems, TLAPS

\* A call writes three bytes or reads with an address that says so.
Calls ==
  \/ program = <<>> /\ call = <<>>
  \/ /\ Len(call) = 3 /\ call[1][Width] = 0
     /\ program = WriteOneByte(call[1], call[2], call[3])
  \/ /\ Len(call) = 1 /\ call[1][Width] = 1
     /\ \E n \in 1..MaxRead : program = ReadBytes(call[1], n)

\* The slave in one of its states, pulling where it answers.
SlaveOK(s) == /\ s \in [mode : Modes, bits : Seq(Bit), pull : BOOLEAN]
              /\ Len(s.bits) <= Width
              /\ s.pull => s.mode \in {"ack", "send"}
              /\ s.mode = "ack" => Len(s.bits) = Width
              /\ s.mode = "send" => /\ Len(s.bits) > 0
                                    /\ s.pull <=> s.bits[Len(s.bits)] = 0

High == scl = 1 /\ sda = 1 /\ dir = "out"
Is(mode) == slave.mode = mode

\* The slave has accepted the first k bytes of the call, has got the first k
\* bits of b.
Heard(k) == Len(heard) = k /\ \A i \in 1..k : heard[i] = call[i]
Has(b, k) == Len(slave.bits) = k /\ \A i \in 1..k : slave.bits[i] = b[i]

\* After a timeout, the bytes before the one refused, and perhaps that one.
Refused == refused \in 1..waits /\ (Heard(refused - 1) \/ Heard(refused))

Resting ==
  /\ High /\ Is("idle") /\ receive = <<>> /\ waits = Len(call)
  /\ refused = 0 => Heard(waits) /\ got = said
  /\ refused # 0 => Refused

InStart ==
  /\ pc = 1 /\ waits = 0 /\ refused = 0 /\ turn = 1 /\ receive = <<>> /\ got = <<>>
  /\ scl = 1 /\ dir = "out" /\ sda = (IF at = 5 THEN 0 ELSE 1)
  /\ IF at < 5 THEN Is("idle")
     ELSE Is("byte") /\ slave.bits = <<>> /\ heard = <<>> /\ said = <<>>

InSend ==
  /\ waits < Len(call) /\ pc = 2 * waits + 2 /\ receive = <<>>
  /\ IF at <= 2 THEN turn = 1 /\ (scl = 0 \/ (refused # 0 /\ High))
     ELSE scl = (IF at = 5 THEN 1 ELSE 0)
  /\ at >= 2 => dir = "out"
  /\ at >= 4 => sda = Current.byte[turn]
  /\ refused = 0 => /\ Is("byte") /\ Heard(waits) /\ got = <<>> /\ said = <<>>
                    /\ Has(Current.byte, IF at = 5 THEN turn ELSE turn - 1)
  /\ refused # 0 => Is("idle") /\ Refused

InWait ==
  /\ turn = 1 /\ receive = <<>>
  /\ IF at <= 4 THEN waits < Len(call) /\ pc = 2 * waits + 3
                ELSE waits \in 1..Len(call) /\ pc = 2 * waits + 1
  /\ scl = (IF at \in {1, 2, 3, 8, 9} THEN 0 ELSE 1)
  /\ at # 1 => dir = (IF at <= 6 THEN "in" ELSE "out")
  /\ at \in 3..7 => sda = 1
  /\ at \in 9..10 => sda = 0
  /\ refused = 0 => /\ Is("ack") /\ got = <<>> /\ said = <<>> /\ at <= 5
                    /\ IF at = 5
                         THEN slave.pull /\ Has(call[waits], Width) /\ Heard(waits - 1)
                         ELSE Has(call[waits + 1], Width) /\ Heard(waits)
  /\ refused # 0 => /\ Refused /\ at # 5
                    /\ Is("idle")
                       \/ /\ at \in 6..7 /\ Is("ack") /\ waits = refused
                          /\ Has(call[waits], Width) /\ Heard(refused - 1)
                       \/ /\ at >= 8
                          /\ Is("byte") \/ (Is("send") /\ Len(call) = 1 /\ Len(slave.bits) = 1)

\* Acknowledged too late, the slave sends while the master gives up: its first
\* byte is read all the same.
Stray ==
  /\ pc = 4
  /\ CASE at = 1 -> /\ Is("send") /\ Len(slave.bits) = 1 /\ slave.pull
                    /\ winner = "slave" /\ High
       [] at = 2 -> Is("send") /\ Len(slave.bits) = turn /\ scl = 1
       [] at = 3 -> (Is("send") /\ Len(slave.bits) = turn + 1) \/ (Is("sent") /\ turn = Width)
       [] at = 4 -> (Is("send") /\ Len(slave.bits) = turn + 1) \/ (Is("over") /\ turn = Width)
       [] at = 5 -> Is("over")
       [] OTHER  -> FALSE

ReadPins ==
  /\ waits = 1 /\ Len(call) = 1 /\ pc \in 4..Len(program) - 1
  /\ Len(receive) = (IF at <= 4 THEN turn - 1 ELSE 0)
  /\ at = 1 => turn = 1 /\ (scl = 0 \/ (refused # 0 /\ High))
  /\ at = 2 => scl = 1 \/ (turn = 1 /\ scl = 0)
  /\ at = 2 /\ turn = 1 => scl = 0 \/ refused # 0
  /\ at >= 3 => scl = (IF at \in {4, 5, 9} THEN 1 ELSE 0)
  /\ at \in 2..5 => dir = "in"
  /\ at >= 7 => dir = "out"
  /\ at >= 8 => sda = (IF Current.ack THEN 0 ELSE 1)

\* What has been read is what the slave has sent.
ReadWell ==
  /\ Heard(1)
  /\ at <= 5 => Is("send")
  /\ at = 1 => Len(slave.bits) = 1
  /\ at = 2 => Len(slave.bits) = (IF turn = 1 THEN 1 ELSE turn - 1)
  /\ at \in 3..4 => Len(slave.bits) = turn
  /\ at <= 4 => got = said /\ \A i \in 1..turn - 1 : receive[i] = slave.bits[i]
  /\ at = 5 => Len(slave.bits) = Width /\ got = Append(said, slave.bits)
  /\ at >= 6 => got = said
  /\ at \in 6..8 => Is("sent")
  /\ at = 9 => IF Current.ack THEN Is("more") ELSE Is("over")

InRead ==
  /\ ReadPins
  /\ refused = 0 => ReadWell
  /\ refused # 0 => Refused /\ (Is("idle") \/ Stray)

InStop ==
  /\ waits = Len(call) /\ pc = Len(program) /\ turn = 1 /\ receive = <<>>
  /\ at = 1 => scl = 0 \/ (refused # 0 /\ High)
  /\ at = 2 => scl = 0 \/ (refused # 0 /\ sda = 1)
  /\ at >= 3 => scl = (IF at = 5 THEN 1 ELSE 0)
  /\ at >= 2 => dir = "out"
  /\ at >= 4 => sda = 0
  /\ refused = 0 => Heard(waits) /\ got = said /\ (Is("byte") \/ Is("idle"))
  /\ refused # 0 => Is("idle") /\ Refused

Doing ==
  IF Idle THEN Resting
  ELSE /\ Current.fn = "start" => InStart
       /\ Current.fn = "send" => InSend
       /\ Current.fn = "wait" => InWait
       /\ Current.fn = "read" => InRead
       /\ Current.fn = "stop" => InStop

IInv == TypeOK /\ Calls /\ SlaveOK(slave) /\ Doing
-----------------------------------------------------------------------------
\* A byte is a sequence of bits.
LEMMA ByteBits ==
  ASSUME NEW b \in Byte
  PROVE  b \in Seq(Bit) /\ Len(b) = Width /\ \A i \in 1..Width : b[i] \in Bit
BY WidthAssumption DEF Byte

\* What the calls of functions are.
LEMMA Kinds ==
  ASSUME NEW f \in Functions
  PROVE  /\ f.fn \in {"start", "wait", "stop", "send", "read"}
         /\ f.fn = "send" => f.byte \in Byte
         /\ f.fn = "read" => f.ack \in BOOLEAN
BY DEF Functions, Plain, Send, Read

\* A byte is its bits.
LEMMA SameBits ==
  ASSUME NEW b \in Byte, NEW c \in Byte, \A i \in 1..Width : b[i] = c[i]
  PROVE  b = c
<1>1. b = [i \in 1..Width |-> b[i]] /\ c = [i \in 1..Width |-> c[i]]
  BY DEF Byte
<1>2. [i \in 1..Width |-> b[i]] = [i \in 1..Width |-> c[i]]
  OBVIOUS
<1> QED BY <1>1, <1>2, Zenon

\* Five accesses from the n-th on, one by one.
LEMMA FiveAfter ==
  ASSUME NEW s, NEW t, NEW n \in Nat, \A i \in 1..5 : s[n + i] = t[i]
  PROVE  /\ s[n + 1] = t[1] /\ s[n + 2] = t[2] /\ s[n + 3] = t[3]
         /\ s[n + 4] = t[4] /\ s[n + 5] = t[5]
<1>1. 1 \in 1..5 /\ 2 \in 1..5 /\ 3 \in 1..5 /\ 4 \in 1..5 /\ 5 \in 1..5
  OBVIOUS
<1> QED BY <1>1

\* Two sequences of which the first has n elements, the second m.
LEMMA Joined ==
  ASSUME NEW S, NEW s \in Seq(S), NEW t \in Seq(S)
  PROVE  /\ s \o t \in Seq(S) /\ Len(s \o t) = Len(s) + Len(t)
         /\ \A i \in 1..Len(s) : (s \o t)[i] = s[i]
         /\ \A i \in 1..Len(t) : (s \o t)[Len(s) + i] = t[i]
<1>1. Len(s) \in Nat /\ Len(t) \in Nat
  OBVIOUS
<1>2. /\ s \o t \in Seq(S) /\ Len(s \o t) = Len(s) + Len(t)
      /\ \A i \in 1..Len(s) + Len(t) :
            (s \o t)[i] = IF i <= Len(s) THEN s[i] ELSE t[i - Len(s)]
  BY ConcatProperties
<1>3. \A i \in 1..Len(s) : i \in 1..Len(s) + Len(t) /\ i <= Len(s)
  BY <1>1
<1>4. \A i \in 1..Len(t) : /\ Len(s) + i \in 1..Len(s) + Len(t)
                           /\ ~(Len(s) + i <= Len(s)) /\ Len(s) + i - Len(s) = i
  BY <1>1
<1> QED BY <1>2, <1>3, <1>4

\* The functions access by access.
LEMMA Scripts ==
  ASSUME NEW f, f.fn \in {"start", "wait", "stop", "send", "read"}
  PROVE
  /\ f.fn = "start" => Accesses(f) = <<Out, Sda(1), Scl(1), Edge(0), Scl(0)>>
  /\ f.fn = "stop"  => Accesses(f) = <<Out, Scl(0), Sda(0), Scl(1), Edge(1)>>
  /\ f.fn = "send"  => Accesses(f) = <<Out, Scl(0), Sda(f.byte[turn]), Scl(1), Scl(0)>>
  /\ f.fn = "wait"  =>
       /\ Len(Accesses(f)) = 10
       /\ Accesses(f)[1] = In     /\ Accesses(f)[2] = Sda(1) /\ Accesses(f)[3] = Scl(1)
       /\ Accesses(f)[4] = Poll   /\ Accesses(f)[5] = Scl(0) /\ Accesses(f)[6] = Out
       /\ Accesses(f)[7] = Scl(0) /\ Accesses(f)[8] = Sda(0) /\ Accesses(f)[9] = Scl(1)
       /\ Accesses(f)[10] = Edge(1)
  /\ f.fn = "read"  =>
       /\ Len(Accesses(f)) = 9
       /\ Accesses(f)[1] = In     /\ Accesses(f)[2] = Scl(0) /\ Accesses(f)[3] = Scl(1)
       /\ Accesses(f)[4] = Sample /\ Accesses(f)[5] = Scl(0) /\ Accesses(f)[6] = Out
       /\ Accesses(f)[7] = Sda(IF f.ack THEN 0 ELSE 1)
       /\ Accesses(f)[8] = Scl(1) /\ Accesses(f)[9] = Scl(0)
<1>1. CASE f.fn = "start"
  BY <1>1 DEF Accesses, Start
<1>2. CASE f.fn = "stop"
  BY <1>2 DEF Accesses, Stop
<1>3. CASE f.fn = "send"
  BY <1>3 DEF Accesses, SendByte
<1>4. CASE f.fn = "wait"
  <2> DEFINE S == {Out, In, Sda(0), Sda(1), Scl(0), Scl(1), Edge(1), Poll}
             one == <<In, Sda(1), Scl(1), Poll, Scl(0)>>
  <2>1. /\ one \in Seq(S) /\ Len(one) = 5 /\ one[1] = In /\ one[2] = Sda(1)
        /\ one[3] = Scl(1) /\ one[4] = Poll /\ one[5] = Scl(0)
    OBVIOUS
  <2>2. /\ Stop \in Seq(S) /\ Len(Stop) = 5 /\ Stop[1] = Out /\ Stop[2] = Scl(0)
        /\ Stop[3] = Sda(0) /\ Stop[4] = Scl(1) /\ Stop[5] = Edge(1)
    BY DEF Stop
  <2>3. Accesses(f) = one \o Stop
    BY <1>4 DEF Accesses, WaitAck
  <2> HIDE DEF one, S
  <2>4. /\ Len(Accesses(f)) = Len(one) + Len(Stop)
        /\ \A i \in 1..Len(one) : Accesses(f)[i] = one[i]
        /\ \A i \in 1..Len(Stop) : Accesses(f)[Len(one) + i] = Stop[i]
    <3>1. one \in Seq(S) /\ Stop \in Seq(S)
      BY <2>1, <2>2
    <3> QED BY <2>3, <3>1, Joined
  <2>5. /\ Accesses(f)[5 + 1] = Stop[1] /\ Accesses(f)[5 + 2] = Stop[2]
        /\ Accesses(f)[5 + 3] = Stop[3] /\ Accesses(f)[5 + 4] = Stop[4]
        /\ Accesses(f)[5 + 5] = Stop[5]
    <3>1. \A i \in 1..5 : Accesses(f)[5 + i] = Stop[i]
      BY <2>1, <2>2, <2>4
    <3> QED BY <3>1, FiveAfter
  <2>6. \A i \in 1..5 : Accesses(f)[i] = one[i]
    BY <2>1, <2>4
  <2>7. Len(Accesses(f)) = 10
    BY <2>1, <2>2, <2>4
  <2> QED BY <1>4, <2>1, <2>2, <2>5, <2>6, <2>7
<1>5. CASE f.fn = "read"
  <2> DEFINE v == IF f.ack THEN 0 ELSE 1
             S == {Out, In, Sda(v), Scl(0), Scl(1), Sample}
             one == <<In, Scl(0), Scl(1), Sample>>
             two == <<Scl(0), Out, Sda(v), Scl(1), Scl(0)>>
  <2>1. /\ one \in Seq(S) /\ Len(one) = 4 /\ one[1] = In /\ one[2] = Scl(0)
        /\ one[3] = Scl(1) /\ one[4] = Sample
    OBVIOUS
  <2>2. /\ two \in Seq(S) /\ Len(two) = 5 /\ two[1] = Scl(0) /\ two[2] = Out
        /\ two[3] = Sda(v) /\ two[4] = Scl(1) /\ two[5] = Scl(0)
    OBVIOUS
  <2>3. Accesses(f) = one \o two
    BY <1>5 DEF Accesses, ReadByte, Ack, NAck, Acknowledge
  <2> HIDE DEF one, two, S
  <2>4. /\ Len(Accesses(f)) = Len(one) + Len(two)
        /\ \A i \in 1..Len(one) : Accesses(f)[i] = one[i]
        /\ \A i \in 1..Len(two) : Accesses(f)[Len(one) + i] = two[i]
    <3>1. one \in Seq(S) /\ two \in Seq(S)
      BY <2>1, <2>2
    <3> QED BY <2>3, <3>1, Joined
  <2>5. /\ Accesses(f)[4 + 1] = two[1] /\ Accesses(f)[4 + 2] = two[2]
        /\ Accesses(f)[4 + 3] = two[3] /\ Accesses(f)[4 + 4] = two[4]
        /\ Accesses(f)[4 + 5] = two[5]
    <3>1. \A i \in 1..5 : Accesses(f)[4 + i] = two[i]
      BY <2>1, <2>2, <2>4
    <3> QED BY <3>1, FiveAfter
  <2>6. \A i \in 1..4 : Accesses(f)[i] = one[i]
    BY <2>1, <2>4
  <2>7. Len(Accesses(f)) = 9
    BY <2>1, <2>2, <2>4
  <2> QED BY <1>5, <2>1, <2>2, <2>5, <2>6, <2>7
<1> QED BY <1>1, <1>2, <1>3, <1>4, <1>5

\* The program of a call, function by function.
LEMMA Course ==
  ASSUME Calls, program # <<>>
  PROVE  /\ Len(call) \in {1, 3} /\ Len(program) \in Nat /\ Len(program) >= 5
         /\ program[1] = Plain("start")
         /\ \A w \in 0..Len(call) - 1 : /\ program[2 * w + 2] = Send(call[w + 1])
                                        /\ program[2 * w + 3] = Plain("wait")
         /\ program[Len(program)] = Plain("stop")
         /\ Len(call) = 3 => Len(program) = 8 /\ call[1][Width] = 0
         /\ Len(call) = 1 => /\ call[1][Width] = 1
                             /\ \A k \in 4..Len(program) - 1 :
                                  program[k] = Read(k < Len(program) - 1)
<1>1. CASE Len(call) = 3 /\ call[1][Width] = 0
           /\ program = WriteOneByte(call[1], call[2], call[3])
  <2>1. /\ Len(program) = 8 /\ program[1] = Plain("start")
        /\ program[2] = Send(call[1]) /\ program[3] = Plain("wait")
        /\ program[4] = Send(call[2]) /\ program[5] = Plain("wait")
        /\ program[6] = Send(call[3]) /\ program[7] = Plain("wait")
        /\ program[8] = Plain("stop")
    BY <1>1 DEF WriteOneByte
  <2>2. \A w \in 0..Len(call) - 1 : w = 0 \/ w = 1 \/ w = 2
    BY <1>1
  <2>3. \A w \in 0..Len(call) - 1 : /\ program[2 * w + 2] = Send(call[w + 1])
                                    /\ program[2 * w + 3] = Plain("wait")
    BY <2>1, <2>2
  <2> QED BY <1>1, <2>1, <2>3
<1>2. CASE Len(call) = 1 /\ call[1][Width] = 1
           /\ \E n \in 1..MaxRead : program = ReadBytes(call[1], n)
  <2>1. PICK n \in 1..MaxRead : program = ReadBytes(call[1], n)
    BY <1>2
  <2> DEFINE before == <<Plain("start"), Send(call[1]), Plain("wait")>>
             reads  == [i \in 1..n |-> Read(i < n)]
             after  == <<Plain("stop")>>
  <2>2. n \in Nat /\ n >= 1
    BY MaxReadAssumption
  <2>3. /\ Len(before) = 3 /\ before[1] = Plain("start") /\ before[2] = Send(call[1])
        /\ before[3] = Plain("wait") /\ Len(after) = 1 /\ after[1] = Plain("stop")
    OBVIOUS
  <2>4. /\ Len(reads) = n /\ \A i \in 1..n : reads[i] = Read(i < n)
    BY <2>2
  <2> DEFINE S == {Plain("start"), Send(call[1]), Plain("wait"), Plain("stop")}
                    \cup {Read(i < n) : i \in 1..n}
  <2>5. before \in Seq(S) /\ after \in Seq(S)
    OBVIOUS
  <2>6. reads \in Seq(S)
    <3>1. \A i \in 1..n : Read(i < n) \in S
      OBVIOUS
    <3>2. reads \in [1..n -> S]
      BY <3>1
    <3> HIDE DEF S, reads
    <3> QED BY <2>2, <3>2
  <2>7. program = before \o reads \o after
    BY <2>1 DEF ReadBytes
  <2> DEFINE most == before \o reads
  <2> HIDE DEF before, reads, after, S
  <2>11. /\ most \in Seq(S) /\ Len(most) = n + 3
         /\ \A i \in 1..3 : most[i] = before[i]
         /\ \A i \in 1..n : most[3 + i] = reads[i]
    <3>1. /\ most \in Seq(S) /\ Len(most) = Len(before) + Len(reads)
          /\ \A i \in 1..Len(before) : most[i] = before[i]
          /\ \A i \in 1..Len(reads) : most[Len(before) + i] = reads[i]
      BY <2>5, <2>6, Joined
    <3> HIDE DEF most
    <3> QED BY <2>2, <2>3, <2>4, <3>1
  <2>12. /\ Len(most \o after) = n + 4 /\ (most \o after)[n + 3 + 1] = after[1]
         /\ \A i \in 1..n + 3 : (most \o after)[i] = most[i]
    <3>1. 1 \in 1..Len(after)
      BY <2>3
    <3> HIDE DEF most
    <3>2. /\ Len(most \o after) = Len(most) + Len(after)
          /\ \A i \in 1..Len(most) : (most \o after)[i] = most[i]
          /\ \A i \in 1..Len(after) : (most \o after)[Len(most) + i] = after[i]
      <4>1. most \in Seq(S) /\ after \in Seq(S)
        BY <2>5, <2>11
      <4> QED BY <4>1, Joined
    <3> QED BY <2>2, <2>3, <2>11, <3>1, <3>2
  <2>13. /\ Len(program) = n + 4 /\ program[n + 4] = after[1]
         /\ \A i \in 1..n + 3 : program[i] = most[i]
    <3>1. n + 3 + 1 = n + 4
      BY <2>2
    <3> QED BY <2>7, <2>12, <3>1
  <2>14. /\ \A i \in 1..3 : program[i] = before[i]
         /\ \A i \in 1..n : program[i + 3] = reads[i]
    <3>1. /\ \A i \in 1..3 : i \in 1..n + 3
          /\ \A i \in 1..n : 3 + i \in 1..n + 3 /\ i + 3 = 3 + i
      BY <2>2
    <3> HIDE DEF most
    <3> QED BY <2>11, <2>13, <3>1
  <2>8. /\ program[1] = Plain("start") /\ program[2] = Send(call[1])
        /\ program[3] = Plain("wait")
    BY <2>3, <2>14
  <2>9. \A w \in 0..Len(call) - 1 : w = 0
    BY <1>2
  <2>10. \A k \in 4..Len(program) - 1 : program[k] = Read(k < Len(program) - 1)
    <3> TAKE k \in 4..Len(program) - 1
    <3>1. k - 3 \in 1..n /\ (k - 3) + 3 = k /\ ((k - 3 < n) <=> (k < Len(program) - 1))
      BY <2>2, <2>13
    <3>2. program[k] = Read(k - 3 < n)
      BY <2>4, <2>14, <3>1
    <3> QED BY <3>1, <3>2
  <2> QED BY <1>2, <2>2, <2>3, <2>8, <2>9, <2>10, <2>13
<1> QED BY <1>1, <1>2 DEF Calls

-----------------------------------------------------------------------------
\* The function that runs, and its place in the program.
LEMMA Place ==
  ASSUME TypeOK, ~Idle
  PROVE  /\ pc \in 1..Len(program) /\ program # <<>>
         /\ Current \in Functions /\ at \in 1..Len(Accesses(Current))
         /\ Current.fn \in {"start", "wait", "stop", "send", "read"}
         /\ Current.fn = "send" => Current.byte \in Byte
         /\ Current.fn = "read" => Current.ack \in BOOLEAN
<1>1. /\ program \in Seq(Functions) /\ pc \in 1..Len(program) + 1
      /\ ~(pc > Len(program)) /\ Len(program) \in Nat
  BY DEF TypeOK, Idle
<1>2. pc \in 1..Len(program)
  BY <1>1
<1>3. Current \in Functions
  BY <1>1, <1>2 DEF Current
<1>4. program # <<>>
  BY <1>1, <1>2
<1> QED BY <1>2, <1>3, <1>4, Kinds DEF TypeOK

\* The pins after an access.
Pins(v, d, c) == sda' = v /\ dir' = d /\ scl' = c

\* What an access that is neither a sample nor the poll leaves alone.
Apart == UNCHANGED <<receive, got, program, polls, winner, call, waits, refused>>

\* The access itself.
Move == CASE Access.op = "out" -> Drive(sda, "out", scl)
          [] Access.op = "in" -> Drive(sda, "in", scl)
          [] Access.op \in {"sda", "edge"} -> Drive(Access.v, dir, scl)
          [] Access.op = "scl" -> Drive(sda, dir, Access.v)
          [] OTHER -> UNCHANGED <<scl, sda, dir, slave, heard, said>>

\* On to the next access, or back to the first of the loop.
On(a, t) == at' = a /\ turn' = t /\ UNCHANGED pc

\* The steps of IIC_Start().
LEMMA StartMoves ==
  ASSUME TypeOK, ~Idle, Current.fn = "start", Touch
  PROVE  /\ Apart /\ at \in 1..5
         /\ at = 1 => Drive(sda, "out", scl) /\ On(2, turn)
         /\ at = 2 => Drive(1, dir, scl) /\ On(3, turn)
         /\ at = 3 => Drive(sda, dir, 1) /\ On(4, turn)
         /\ at = 4 => Drive(0, dir, scl) /\ On(5, turn) /\ Access.op = "edge"
         /\ at = 5 => Drive(sda, dir, 0) /\ Return
<1>1. Accesses(Current) = <<Out, Sda(1), Scl(1), Edge(0), Scl(0)>> /\ at \in 1..5
  <2>1. Accesses(Current) = <<Out, Sda(1), Scl(1), Edge(0), Scl(0)>>
    BY Scripts
  <2>2. at \in 1..Len(Accesses(Current))
    BY Place
  <2> QED BY <2>1, <2>2
<1>2. /\ at = 1 => Access.op = "out"
      /\ at = 2 => Access.op = "sda" /\ Access.v = 1
      /\ at = 3 => Access.op = "scl" /\ Access.v = 1
      /\ at = 4 => Access.op = "edge" /\ Access.v = 0
      /\ at = 5 => Access.op = "scl" /\ Access.v = 0
      /\ Access.op # "sample"
  BY <1>1 DEF Access, Out, Sda, Scl, Edge, Do
<1>3. Len(Accesses(Current)) = 5 /\ ~Again
  BY <1>1 DEF Again
<1>4. IF at = 5 THEN Return ELSE On(at + 1, turn)
  BY <1>3 DEF Touch, Advance, Returns, On
<1>5. Move /\ Apart
  BY <1>2 DEF Touch, Move, Apart
<1> QED BY <1>1, <1>2, <1>4, <1>5 DEF Move

\* The steps of IIC_Stop().
LEMMA StopMoves ==
  ASSUME TypeOK, ~Idle, Current.fn = "stop", Touch
  PROVE  /\ Apart /\ at \in 1..5
         /\ at = 1 => Drive(sda, "out", scl) /\ On(2, turn)
         /\ at = 2 => Drive(sda, dir, 0) /\ On(3, turn)
         /\ at = 3 => Drive(0, dir, scl) /\ On(4, turn)
         /\ at = 4 => Drive(sda, dir, 1) /\ On(5, turn)
         /\ at = 5 => Drive(1, dir, scl) /\ Return /\ Access.op = "edge"
<1>1. Accesses(Current) = <<Out, Scl(0), Sda(0), Scl(1), Edge(1)>> /\ at \in 1..5
  <2>1. Accesses(Current) = <<Out, Scl(0), Sda(0), Scl(1), Edge(1)>>
    BY Scripts
  <2>2. at \in 1..Len(Accesses(Current))
    BY Place
  <2> QED BY <2>1, <2>2
<1>2. /\ at = 1 => Access.op = "out"
      /\ at = 2 => Access.op = "scl" /\ Access.v = 0
      /\ at = 3 => Access.op = "sda" /\ Access.v = 0
      /\ at = 4 => Access.op = "scl" /\ Access.v = 1
      /\ at = 5 => Access.op = "edge" /\ Access.v = 1
      /\ Access.op # "sample"
  BY <1>1 DEF Access, Out, Sda, Scl, Edge, Do
<1>3. Len(Accesses(Current)) = 5 /\ ~Again
  BY <1>1 DEF Again
<1>4. IF at = 5 THEN Return ELSE On(at + 1, turn)
  BY <1>3 DEF Touch, Advance, Returns, On
<1>5. Move /\ Apart
  BY <1>2 DEF Touch, Move, Apart
<1> QED BY <1>1, <1>2, <1>4, <1>5 DEF Move

\* The steps of IIC_Send_Byte().
LEMMA SendMoves ==
  ASSUME TypeOK, ~Idle, Current.fn = "send", Touch
  PROVE  /\ Apart /\ at \in 1..5 /\ turn \in 1..Width
         /\ at = 1 => Drive(sda, "out", scl) /\ On(2, turn)
         /\ at = 2 => Drive(sda, dir, 0) /\ On(3, turn)
         /\ at = 3 => Drive(Current.byte[turn], dir, scl) /\ On(4, turn)
         /\ at = 4 => Drive(sda, dir, 1) /\ On(5, turn)
         /\ at = 5 => /\ Drive(sda, dir, 0)
                      /\ IF turn < Width THEN On(3, turn + 1) ELSE Return
<1>1. /\ Accesses(Current) = <<Out, Scl(0), Sda(Current.byte[turn]), Scl(1), Scl(0)>>
      /\ at \in 1..5
  <2>1. Accesses(Current) = <<Out, Scl(0), Sda(Current.byte[turn]), Scl(1), Scl(0)>>
    BY Scripts
  <2>2. at \in 1..Len(Accesses(Current))
    BY Place
  <2> QED BY <2>1, <2>2
<1>2. /\ at = 1 => Access.op = "out"
      /\ at = 2 => Access.op = "scl" /\ Access.v = 0
      /\ at = 3 => Access.op = "sda" /\ Access.v = Current.byte[turn]
      /\ at = 4 => Access.op = "scl" /\ Access.v = 1
      /\ at = 5 => Access.op = "scl" /\ Access.v = 0
      /\ Access.op # "sample"
  BY <1>1 DEF Access, Out, Sda, Scl, Edge, Do
<1>3. Len(Accesses(Current)) = 5 /\ (Again <=> at = 5 /\ turn < Width)
  BY <1>1 DEF Again
<1>4. IF at = 5 THEN IF turn < Width THEN On(3, turn + 1) ELSE Return
      ELSE On(at + 1, turn)
  BY <1>3 DEF Touch, Advance, Returns, On
<1>5. Move /\ Apart
  BY <1>2 DEF Touch, Move, Apart
<1> QED BY <1>1, <1>2, <1>4, <1>5 DEF Move, TypeOK

\* The steps of IIC_Wait_Ack() that set a pin.
LEMMA WaitMoves ==
  ASSUME TypeOK, ~Idle, Current.fn = "wait", Touch
  PROVE  /\ Apart /\ at \in 1..10 /\ at # 4
         /\ at = 1 => Drive(sda, "in", scl) /\ On(2, turn)
         /\ at = 2 => Drive(1, dir, scl) /\ On(3, turn)
         /\ at = 3 => Drive(sda, dir, 1) /\ On(4, turn)
         /\ at = 5 => Drive(sda, dir, 0) /\ Return
         /\ at = 6 => Drive(sda, "out", scl) /\ On(7, turn)
         /\ at = 7 => Drive(sda, dir, 0) /\ On(8, turn)
         /\ at = 8 => Drive(0, dir, scl) /\ On(9, turn)
         /\ at = 9 => Drive(sda, dir, 1) /\ On(10, turn)
         /\ at = 10 => Drive(1, dir, scl) /\ Return /\ Access.op = "edge"
<1>1. /\ Len(Accesses(Current)) = 10 /\ at \in 1..10
      /\ at = 1 => Access = In
      /\ at = 2 => Access = Sda(1)
      /\ at = 3 => Access = Scl(1)
      /\ at = 4 => Access = Poll
      /\ at = 5 => Access = Scl(0)
      /\ at = 6 => Access = Out
      /\ at = 7 => Access = Scl(0)
      /\ at = 8 => Access = Sda(0)
      /\ at = 9 => Access = Scl(1)
      /\ at = 10 => Access = Edge(1)
  <2>1. Len(Accesses(Current)) = 10
    BY Scripts
  <2>2. at \in 1..Len(Accesses(Current))
    BY Place
  <2> QED BY <2>1, <2>2, Scripts DEF Access
<1>2. /\ at = 1 => Access.op = "in"
      /\ at = 2 => Access.op = "sda" /\ Access.v = 1
      /\ at = 3 => Access.op = "scl" /\ Access.v = 1
      /\ at = 4 => Access.op = "poll"
      /\ at = 5 => Access.op = "scl" /\ Access.v = 0
      /\ at = 6 => Access.op = "out"
      /\ at = 7 => Access.op = "scl" /\ Access.v = 0
      /\ at = 8 => Access.op = "sda" /\ Access.v = 0
      /\ at = 9 => Access.op = "scl" /\ Access.v = 1
      /\ at = 10 => Access.op = "edge" /\ Access.v = 1
      /\ Access.op # "sample"
  BY <1>1 DEF Out, In, Sda, Scl, Edge, Poll, Do
<1>3. at # 4 /\ ~Again
  BY <1>2 DEF Touch, Again
<1>4. IF at \in {5, 10} THEN Return ELSE On(at + 1, turn)
  BY <1>1, <1>3 DEF Touch, Advance, Returns, On
<1>5. Move /\ Apart
  BY <1>2 DEF Touch, Move, Apart
<1> QED BY <1>1, <1>2, <1>3, <1>4, <1>5 DEF Move

\* The steps of IIC_Read_Byte().
LEMMA ReadMoves ==
  ASSUME TypeOK, ~Idle, Current.fn = "read", Touch
  PROVE  /\ at \in 1..9 /\ turn \in 1..Width
         /\ at # 4 => Apart
         /\ at = 1 => Drive(sda, "in", scl) /\ On(2, turn)
         /\ at = 2 => Drive(sda, dir, 0) /\ On(3, turn)
         /\ at = 3 => Drive(sda, dir, 1) /\ On(4, turn)
         /\ at = 4 => /\ UNCHANGED <<scl, sda, dir, slave, heard, said, program,
                                     polls, winner, call, waits, refused>>
                      /\ IF turn < Width
                           THEN /\ On(2, turn + 1) /\ got' = got
                                /\ receive' = Append(receive, Sees)
                           ELSE /\ On(5, turn) /\ receive' = <<>>
                                /\ got' = Append(got, Append(receive, Sees))
         /\ at = 5 => Drive(sda, dir, 0) /\ On(6, turn)
         /\ at = 6 => Drive(sda, "out", scl) /\ On(7, turn)
         /\ at = 7 => Drive(IF Current.ack THEN 0 ELSE 1, dir, scl) /\ On(8, turn)
         /\ at = 8 => Drive(sda, dir, 1) /\ On(9, turn)
         /\ at = 9 => Drive(sda, dir, 0) /\ Return
<1> DEFINE v == IF Current.ack THEN 0 ELSE 1
<1>1. /\ Len(Accesses(Current)) = 9 /\ at \in 1..9
      /\ at = 1 => Access = In
      /\ at = 2 => Access = Scl(0)
      /\ at = 3 => Access = Scl(1)
      /\ at = 4 => Access = Sample
      /\ at = 5 => Access = Scl(0)
      /\ at = 6 => Access = Out
      /\ at = 7 => Access = Sda(v)
      /\ at = 8 => Access = Scl(1)
      /\ at = 9 => Access = Scl(0)
  <2>1. Len(Accesses(Current)) = 9
    BY Scripts
  <2>2. at \in 1..Len(Accesses(Current))
    BY Place
  <2> QED BY <2>1, <2>2, Scripts DEF Access
<1>2. /\ at = 1 => Access.op = "in"
      /\ at = 2 => Access.op = "scl" /\ Access.v = 0
      /\ at = 3 => Access.op = "scl" /\ Access.v = 1
      /\ at = 4 <=> Access.op = "sample"
      /\ at = 5 => Access.op = "scl" /\ Access.v = 0
      /\ at = 6 => Access.op = "out"
      /\ at = 7 => Access.op = "sda" /\ Access.v = v
      /\ at = 8 => Access.op = "scl" /\ Access.v = 1
      /\ at = 9 => Access.op = "scl" /\ Access.v = 0
  BY <1>1 DEF Out, In, Sda, Scl, Edge, Sample, Do
<1> HIDE DEF v
<1>3. (Again <=> at = 4 /\ turn < Width) /\ turn \in 1..Width
  BY <1>1 DEF Again, TypeOK
<1>4. IF at = 4 /\ turn < Width THEN On(2, turn + 1)
      ELSE IF at = 9 THEN Return ELSE On(at + 1, turn)
  BY <1>1, <1>3 DEF Touch, Advance, Returns, On
<1>5. Move /\ (at # 4 => Apart)
  BY <1>2 DEF Touch, Move, Apart
<1>6. at = 4 => /\ UNCHANGED <<program, polls, winner, call, waits, refused>>
                /\ IF turn = Width
                     THEN got' = Append(got, Append(receive, Sees)) /\ receive' = <<>>
                     ELSE receive' = Append(receive, Sees) /\ got' = got
  BY <1>2 DEF Touch
<1>7. turn < Width <=> turn # Width
  BY <1>3, WidthAssumption
<1>8. at # 4 => /\ at = 1 => Drive(sda, "in", scl)
                /\ at = 2 => Drive(sda, dir, 0)
                /\ at = 3 => Drive(sda, dir, 1)
                /\ at = 5 => Drive(sda, dir, 0)
                /\ at = 6 => Drive(sda, "out", scl)
                /\ at = 7 => Drive(v, dir, scl)
                /\ at = 8 => Drive(sda, dir, 1)
                /\ at = 9 => Drive(sda, dir, 0)
  BY <1>2, <1>5 DEF Move
<1>9. at = 4 => UNCHANGED <<scl, sda, dir, slave, heard, said>>
  BY <1>2, <1>5 DEF Move
<1> QED BY <1>1, <1>3, <1>4, <1>5, <1>6, <1>7, <1>8, <1>9 DEF v

-----------------------------------------------------------------------------
\* What an access to the pins does to the slave.
LEMMA Drives ==
  ASSUME TypeOK, NEW v \in Bit, NEW d \in {"out", "in"}, NEW c \in Bit, Drive(v, d, c)
  PROVE  /\ Pins(v, d, c)
         /\ scl = 0 /\ c = 1 => Rise(Line(v, d, slave.pull))
         /\ scl = 1 /\ c = 0 => Fall
         /\ scl = 0 /\ c = 0 => UNCHANGED <<slave, heard, said>>
         /\ scl = 1 /\ c = 1 => IF Line(v, d, slave.pull) # Sees
                                  THEN Condition(Line(v, d, slave.pull))
                                  ELSE UNCHANGED <<slave, heard, said>>
BY DEF Drive, Pins, Bit

\* The level of the line.
LEMMA Levels ==
  ASSUME NEW v \in Bit, NEW d \in {"out", "in"}, NEW pull \in BOOLEAN
  PROVE  /\ Line(v, d, pull) \in Bit
         /\ ~pull => Line(v, d, pull) = (IF d = "in" THEN 1 ELSE v)
         /\ pull => Line(0, d, pull) = 0
         /\ pull /\ d = "in" => Line(v, d, pull) = 0
         /\ pull /\ d = "out" => Line(v, d, pull) = (IF winner = "slave" THEN 0 ELSE v)
BY DEF Line, Bit

\* Putting a bit after the others.
LEMMA Longer ==
  ASSUME NEW S, NEW s \in Seq(S), NEW x \in S
  PROVE  /\ Append(s, x) \in Seq(S) /\ Len(Append(s, x)) = Len(s) + 1
         /\ \A i \in 1..Len(s) : Append(s, x)[i] = s[i]
         /\ Append(s, x)[Len(s) + 1] = x
BY AppendProperties

\* As many bits as there are in a byte are a byte.
LEMMA BitsByte ==
  ASSUME NEW s \in Seq(Bit), Len(s) = Width
  PROVE  s \in Byte
BY DEF Byte

\* The slave's answers keep its states in order.
LEMMA SayOK ==
  ASSUME NEW bits \in Seq(Bit), Len(bits) < Width, Say(bits)
  PROVE  /\ SlaveOK(slave') /\ slave'.mode = "send"
         /\ Len(slave'.bits) = Len(bits) + 1
         /\ \A i \in 1..Len(bits) : slave'.bits[i] = bits[i]
<1>1. PICK b \in Bit : Becomes("send", Append(bits, b), b = 0)
  BY DEF Say
<1>2. /\ Append(bits, b) \in Seq(Bit) /\ Len(Append(bits, b)) = Len(bits) + 1
      /\ \A i \in 1..Len(bits) : Append(bits, b)[i] = bits[i]
      /\ Append(bits, b)[Len(bits) + 1] = b
  BY Longer
<1>3. Len(bits) \in Nat /\ Len(bits) + 1 <= Width
  BY WidthAssumption
<1>4. /\ slave' = [mode |-> "send", bits |-> Append(bits, b), pull |-> b = 0]
  BY <1>1 DEF Becomes
<1> DEFINE s == Append(bits, b)
<1>5. (b = 0) \in BOOLEAN /\ "send" \in Modes
  BY DEF Modes
<1> HIDE DEF s
<1>6. /\ slave' \in [mode : Modes, bits : Seq(Bit), pull : BOOLEAN]
      /\ slave'.mode = "send" /\ slave'.bits = s /\ (slave'.pull <=> b = 0)
  BY <1>2, <1>4, <1>5 DEF s
<1>7. s \in Seq(Bit) /\ Len(s) = Len(bits) + 1 /\ s[Len(bits) + 1] = b
      /\ \A i \in 1..Len(bits) : s[i] = bits[i]
  BY <1>2 DEF s
<1> QED BY <1>3, <1>6, <1>7 DEF SlaveOK

LEMMA BecomesOK ==
  ASSUME NEW mode \in Modes \ {"send"}, NEW bits \in Seq(Bit), NEW pull \in BOOLEAN,
         Len(bits) <= Width, pull => mode = "ack", mode = "ack" => Len(bits) = Width,
         Becomes(mode, bits, pull)
  PROVE  SlaveOK(slave')
BY DEF Becomes, SlaveOK

LEMMA RiseOK ==
  ASSUME TypeOK, SlaveOK(slave), NEW level \in Bit, Rise(level)
  PROVE  SlaveOK(slave') /\ heard' = heard /\ said' = said
<1>1. heard' = heard /\ said' = said
  BY DEF Rise
<1>2. CASE slave.mode = "byte"
  <2>1. slave.bits \in Seq(Bit) /\ Len(slave.bits) \in Nat /\ Len(slave.bits) <= Width
    BY DEF SlaveOK
  <2>2. CASE Len(slave.bits) < Width
    <3>1. Becomes("byte", Append(slave.bits, level), FALSE)
      BY <1>2, <2>2 DEF Rise
    <3>2. /\ Append(slave.bits, level) \in Seq(Bit)
          /\ Len(Append(slave.bits, level)) = Len(slave.bits) + 1
      BY <2>1, Longer
    <3>3. Len(slave.bits) + 1 <= Width
      BY <2>1, <2>2, WidthAssumption
    <3> QED BY <1>1, <3>1, <3>2, <3>3, BecomesOK DEF Modes
  <2>3. CASE ~(Len(slave.bits) < Width)
    <3>1. Becomes("byte", slave.bits, FALSE)
      BY <1>2, <2>3 DEF Rise
    <3> QED BY <1>1, <2>1, <3>1, BecomesOK DEF Modes
  <2> QED BY <2>2, <2>3
<1>3. CASE slave.mode = "sent"
  <2>1. Becomes(IF level = 0 THEN "more" ELSE "over", <<>>, FALSE)
    BY <1>3 DEF Rise
  <2>2. <<>> \in Seq(Bit) /\ Len(<<>>) <= Width
    BY WidthAssumption
  <2> QED BY <1>1, <2>1, <2>2, BecomesOK DEF Modes
<1>4. CASE slave.mode \notin {"byte", "sent"}
  BY <1>1, <1>4 DEF Rise
<1> QED BY <1>2, <1>3, <1>4

LEMMA FallOK ==
  ASSUME TypeOK, SlaveOK(slave), Fall
  PROVE  SlaveOK(slave') /\ heard' \in Seq(Byte) /\ said' \in Seq(Byte)
<1>1. /\ slave.bits \in Seq(Bit) /\ Len(slave.bits) \in Nat /\ Len(slave.bits) <= Width
      /\ heard \in Seq(Byte) /\ said \in Seq(Byte) /\ slave.pull \in BOOLEAN
      /\ slave.mode \in Modes
  BY DEF SlaveOK, TypeOK
<1>2. <<>> \in Seq(Bit) /\ Len(<<>>) < Width /\ Len(<<>>) <= Width
  BY WidthAssumption
<1>3. CASE slave.mode = "byte"
  <2>1. CASE Len(slave.bits) = Width
    <3>1. PICK now \in BOOLEAN : Becomes("ack", slave.bits, now)
      BY <1>3, <2>1 DEF Fall
    <3>2. UNCHANGED <<heard, said>>
      BY <1>3, <2>1 DEF Fall
    <3> QED BY <1>1, <2>1, <3>1, <3>2, BecomesOK DEF Modes
  <2>2. CASE Len(slave.bits) # Width
    BY <1>1, <1>3, <2>2 DEF Fall
  <2> QED BY <2>1, <2>2
<1>4. CASE slave.mode = "ack"
  <2>1. slave.bits \in Byte
    BY <1>1, <1>4, BitsByte DEF SlaveOK
  <2>2. /\ heard' = (IF slave.pull THEN Append(heard, slave.bits) ELSE heard)
        /\ said' = said
    BY <1>4 DEF Fall
  <2>3. heard' \in Seq(Byte)
    BY <1>1, <2>1, <2>2
  <2>4. SlaveOK(slave')
    <3>1. CASE ~slave.pull
      <4>1. Becomes("idle", <<>>, FALSE)
        BY <1>4, <3>1 DEF Fall
      <4> QED BY <1>2, <4>1, BecomesOK DEF Modes
    <3>2. CASE slave.pull /\ Reads(slave.bits)
      <4>1. Say(<<>>)
        BY <1>4, <3>2 DEF Fall
      <4> QED BY <1>2, <4>1, SayOK
    <3>3. CASE slave.pull /\ ~Reads(slave.bits)
      <4>1. Becomes("byte", <<>>, FALSE)
        BY <1>4, <3>3 DEF Fall
      <4> QED BY <1>2, <4>1, BecomesOK DEF Modes
    <3> QED BY <3>1, <3>2, <3>3
  <2> QED BY <1>1, <2>2, <2>3, <2>4
<1>5. CASE slave.mode = "send"
  <2>1. CASE Len(slave.bits) < Width
    <3>0. Len(slave.bits) # Width
      BY <2>1, <1>1, WidthAssumption
    <3>1. Say(slave.bits) /\ UNCHANGED <<heard, said>>
      BY <1>5, <2>1, <3>0 DEF Fall
    <3> QED BY <1>1, <2>1, <3>1, SayOK
  <2>2. CASE Len(slave.bits) = Width
    <3>0. ~(Len(slave.bits) < Width)
      BY <2>2, <1>1, WidthAssumption
    <3>1. Becomes("sent", <<>>, FALSE) /\ said' = Append(said, slave.bits) /\ heard' = heard
      BY <1>5, <2>2, <3>0 DEF Fall
    <3>2. slave.bits \in Byte
      BY <1>1, <2>2, BitsByte
    <3>3. SlaveOK(slave')
      BY <1>2, <3>1, BecomesOK DEF Modes
    <3>4. said' \in Seq(Byte)
      BY <1>1, <3>1, <3>2
    <3> QED BY <1>1, <3>1, <3>3, <3>4
  <2> QED BY <1>1, <2>1, <2>2, WidthAssumption
<1>6. CASE slave.mode = "more"
  <2>1. Say(<<>>) /\ UNCHANGED <<heard, said>>
    BY <1>6 DEF Fall
  <2> QED BY <1>1, <1>2, <2>1, SayOK
<1>7. CASE slave.mode = "over"
  <2>1. Becomes("idle", <<>>, FALSE) /\ UNCHANGED <<heard, said>>
    BY <1>7 DEF Fall
  <2> QED BY <1>1, <1>2, <2>1, BecomesOK DEF Modes
<1>8. CASE slave.mode \in {"idle", "sent"}
  BY <1>1, <1>8 DEF Fall
<1> QED BY <1>1, <1>3, <1>4, <1>5, <1>6, <1>7, <1>8 DEF Modes

\* Every access keeps the slave and the histories in order.
LEMMA DriveOK ==
  ASSUME TypeOK, SlaveOK(slave),
         NEW v \in Bit, NEW d \in {"out", "in"}, NEW c \in Bit, Drive(v, d, c)
  PROVE  /\ SlaveOK(slave') /\ heard' \in Seq(Byte) /\ said' \in Seq(Byte)
         /\ sda' \in Bit /\ dir' \in {"out", "in"} /\ scl' \in Bit
<1>1. /\ Pins(v, d, c)
      /\ scl = 0 /\ c = 1 => Rise(Line(v, d, slave.pull))
      /\ scl = 1 /\ c = 0 => Fall
      /\ scl = 0 /\ c = 0 => UNCHANGED <<slave, heard, said>>
      /\ scl = 1 /\ c = 1 => IF Line(v, d, slave.pull) # Sees
                               THEN Condition(Line(v, d, slave.pull))
                               ELSE UNCHANGED <<slave, heard, said>>
  BY Drives
<1>2. Line(v, d, slave.pull) \in Bit /\ heard \in Seq(Byte) /\ said \in Seq(Byte)
  BY Levels DEF TypeOK
<1>3. CASE scl = 0 /\ c = 1
  BY <1>1, <1>2, <1>3, RiseOK DEF Pins
<1>4. CASE scl = 1 /\ c = 0
  BY <1>1, <1>4, FallOK DEF Pins
<1>5. CASE UNCHANGED <<slave, heard, said>>
  BY <1>1, <1>2, <1>5 DEF Pins
<1>6. CASE scl = 1 /\ c = 1 /\ Condition(Line(v, d, slave.pull))
  <2>1. <<>> \in Seq(Bit) /\ Len(<<>>) <= Width /\ <<>> \in Seq(Byte)
    BY WidthAssumption
  <2>2. \/ Becomes("byte", <<>>, FALSE) /\ heard' = <<>> /\ said' = <<>>
        \/ Becomes("idle", <<>>, FALSE) /\ UNCHANGED <<heard, said>>
    BY <1>6 DEF Condition
  <2>3. SlaveOK(slave')
    BY <2>1, <2>2, BecomesOK DEF Modes
  <2> QED BY <1>1, <1>2, <2>1, <2>2, <2>3 DEF Pins
<1>7. scl \in {0, 1} /\ c \in {0, 1}
  BY DEF TypeOK, Bit
<1> QED BY <1>1, <1>3, <1>4, <1>5, <1>6, <1>7

-----------------------------------------------------------------------------
\* The number of accesses does not depend on the turn.
LEMMA Lengths ==
  /\ Len(Start) = 5 /\ Len(Stop) = 5 /\ Len(WaitAck) = 10
  /\ \A v : Len(SendByte(v)) = 5
  /\ \A ack : Len(ReadByte(ack)) = 9
<1>1. Len(Start) = 5 /\ Len(Stop) = 5 /\ \A v : Len(SendByte(v)) = 5
  BY DEF Start, Stop, SendByte
<1>2. Len(WaitAck) = 10
  <2>1. Plain("wait").fn = "wait"
    BY DEF Plain
  <2> QED BY <2>1, Scripts DEF Accesses
<1>3. \A ack : Len(ReadByte(ack)) = 9
  <2> TAKE ack
  <2>1. Read(ack).fn = "read" /\ Read(ack).ack = ack
    BY DEF Read
  <2> QED BY <2>1, Scripts DEF Accesses
<1> QED BY <1>1, <1>2, <1>3

\* A step within a function stays in it; after its last one comes the next of
\* the program.
LEMMA Stays ==
  ASSUME TypeOK, ~Idle, program' = program, NEW a, NEW t, On(a, t)
  PROVE  Idle' = FALSE /\ Current' = Current /\ at' = a /\ turn' = t /\ pc' = pc
BY DEF Idle, Current, On

LEMMA Ends ==
  ASSUME TypeOK, ~Idle, program' = program, Return
  PROVE  /\ pc' = pc + 1 /\ at' = 1 /\ turn' = 1
         /\ Idle' <=> pc = Len(program)
         /\ Current' = program[pc + 1]
<1>1. pc \in 1..Len(program) /\ Len(program) \in Nat
  BY Place DEF TypeOK
<1> QED BY <1>1 DEF Idle, Current, Return

\* The place stays within the program, the access within the function.
Placed == /\ pc \in 1..Len(program) + 1 /\ turn \in 1..Width
          /\ at \in IF Idle THEN {1} ELSE 1..Len(Accesses(Current))

LEMMA AdvanceOK ==
  ASSUME TypeOK, ~Idle, program' = program, Advance
  PROVE  Placed'
<1>1. /\ pc \in 1..Len(program) /\ Len(program) \in Nat
      /\ Current.fn \in {"start", "wait", "stop", "send", "read"}
      /\ at \in 1..Len(Accesses(Current)) /\ turn \in 1..Width
  BY Place DEF TypeOK
<1> DEFINE n == Len(Accesses(Current))
<1>2. n = (CASE Current.fn = "wait" -> 10 [] Current.fn = "read" -> 9 [] OTHER -> 5)
  BY <1>1, Lengths DEF Accesses
<1>3. CASE UNCHANGED pc
  <2>1. Idle' = FALSE /\ Current' = Current
    BY <1>3 DEF Idle, Current
  <2>2. n \in Nat
    BY <1>1, <1>2
  <2>3. Len(Accesses(Current))' = n
    BY <1>1, <2>1, Lengths DEF Accesses
  <2>4. at' \in 1..n /\ turn' \in 1..Width
    <3>1. CASE Again /\ turn' = turn + 1 /\ at' = at - 2
      BY <1>1, <1>2, <3>1, WidthAssumption DEF Again
    <3>2. CASE ~Again /\ ~Returns /\ at' = at + 1 /\ turn' = turn
      BY <1>1, <1>2, <3>2 DEF Returns
    <3> QED BY <1>1, <1>3, <3>1, <3>2 DEF Advance, Return
  <2> QED BY <1>1, <1>3, <2>1, <2>2, <2>3, <2>4 DEF Placed
<1>4. CASE Return
  <2>1. /\ pc' = pc + 1 /\ at' = 1 /\ turn' = 1 /\ (Idle' <=> pc = Len(program))
        /\ Current' = program[pc + 1]
    BY <1>4, Ends
  <2>2. pc' \in 1..Len(program) + 1 /\ 1 \in 1..Width
    BY <1>1, <2>1, WidthAssumption
  <2>3. ~Idle' => 1 \in 1..Len(Accesses(Current))'
    <3>1. SUFFICES ASSUME ~Idle' PROVE 1 \in 1..Len(Accesses(Current))'
      OBVIOUS
    <3>2. Current' \in Functions
      BY <1>1, <2>1, <3>1 DEF TypeOK
    <3>3. Current'.fn \in {"start", "wait", "stop", "send", "read"}
      BY <3>2, Kinds
    <3>4. Len(Accesses(Current))' \in {5, 9, 10}
      BY <3>3, Lengths DEF Accesses
    <3> QED BY <3>4
  <2> QED BY <2>1, <2>2, <2>3 DEF Placed
<1> QED BY <1>3, <1>4 DEF Advance

\* The levels that an access sets are levels.
LEMMA Driven ==
  ASSUME TypeOK, ~Idle, Touch, ~(Current.fn = "read" /\ at = 4)
  PROVE  Apart /\ \E v \in Bit, d \in {"out", "in"}, c \in Bit : Drive(v, d, c)
<1>1. /\ 0 \in Bit /\ 1 \in Bit /\ sda \in Bit /\ scl \in Bit /\ dir \in {"out", "in"}
  BY DEF TypeOK, Bit
<1>2. CASE Current.fn = "start"
  BY <1>1, <1>2, StartMoves
<1>3. CASE Current.fn = "stop"
  BY <1>1, <1>3, StopMoves
<1>4. CASE Current.fn = "send"
  <2>1. Current.byte \in Byte /\ turn \in 1..Width
    BY <1>4, Place DEF TypeOK
  <2>2. Current.byte[turn] \in Bit
    BY <2>1, ByteBits
  <2> QED BY <1>1, <1>4, <2>2, SendMoves
<1>5. CASE Current.fn = "wait"
  BY <1>1, <1>5, WaitMoves
<1>6. CASE Current.fn = "read"
  BY <1>1, <1>6, ReadMoves
<1> QED BY <1>2, <1>3, <1>4, <1>5, <1>6, Place

\* Every access keeps the types.
LEMMA TouchOK ==
  ASSUME TypeOK, SlaveOK(slave), Doing, ~Idle, Touch
  PROVE  TypeOK' /\ SlaveOK(slave)'
<1>1. program' = program /\ polls' = polls /\ winner' = winner /\ call' = call
      /\ waits' = waits /\ refused' = refused /\ Advance
  BY DEF Touch
<1>2. Placed'
  BY <1>1, AdvanceOK
<1>3. CASE ~(Current.fn = "read" /\ at = 4)
  <2>1. PICK v \in Bit, d \in {"out", "in"}, c \in Bit : Drive(v, d, c)
    BY <1>3, Driven
  <2>2. /\ SlaveOK(slave') /\ heard' \in Seq(Byte) /\ said' \in Seq(Byte)
        /\ sda' \in Bit /\ dir' \in {"out", "in"} /\ scl' \in Bit
    BY <2>1, DriveOK
  <2>3. receive' = receive /\ got' = got
    BY <1>3, Driven DEF Apart
  <2> QED BY <1>1, <1>2, <2>2, <2>3 DEF TypeOK, Placed, SlaveOK
<1>4. CASE Current.fn = "read" /\ at = 4
  <2>1. /\ UNCHANGED <<scl, sda, dir, slave, heard, said>>
        /\ IF turn < Width
             THEN got' = got /\ receive' = Append(receive, Sees)
             ELSE receive' = <<>> /\ got' = Append(got, Append(receive, Sees))
    BY <1>4, ReadMoves
  <2>2. Len(receive) = turn - 1 /\ receive \in Seq(Bit) /\ got \in Seq(Byte)
        /\ turn \in 1..Width
    BY <1>4 DEF Doing, InRead, ReadPins, TypeOK
  <2>3. Sees \in Bit
    BY Levels DEF Sees, TypeOK
  <2>4. Append(receive, Sees) \in Seq(Bit) /\ Len(Append(receive, Sees)) = turn
    BY <2>2, <2>3, Longer
  <2>5. receive' \in Seq(Bit) /\ Len(receive') < Width /\ got' \in Seq(Byte)
    <3>1. CASE turn < Width
      BY <2>1, <2>2, <2>4, <3>1
    <3>2. CASE ~(turn < Width)
      <4>1. turn = Width
        BY <2>2, <3>2, WidthAssumption
      <4>2. Append(receive, Sees) \in Byte
        BY <2>4, <4>1, BitsByte
      <4>3. got' = Append(got, Append(receive, Sees))
        BY <2>1, <3>2
      <4>5. got' \in Seq(Byte)
        BY <2>2, <4>2, <4>3, Longer
      <4>4. receive' = <<>> /\ Len(<<>>) < Width
        BY <2>1, <3>2, WidthAssumption
      <4> QED BY <4>4, <4>5
    <3> QED BY <3>1, <3>2
  <2> QED BY <1>1, <1>2, <2>1, <2>5 DEF TypeOK, Placed, SlaveOK
<1> QED BY <1>3, <1>4

-----------------------------------------------------------------------------
\* With the clock high, the line moves only at START and STOP, or against a
\* slave that acknowledged after the timeout.
Steady == scl = 1 /\ scl' = 1 /\ Sees' # Sees
            => Access.op = "edge" \/ (slave.pull /\ refused # 0)

\* An access that the slave does not notice.
LEMMA Unnoticed ==
  ASSUME TypeOK, NEW v \in Bit, NEW d \in {"out", "in"}, NEW c \in Bit, Drive(v, d, c),
         winner' = winner,
         \/ scl = 0 /\ c = 0
         \/ scl = 1 /\ c = 1 /\ Line(v, d, slave.pull) = Sees
  PROVE  Pins(v, d, c) /\ UNCHANGED <<slave, heard, said>> /\ Steady
<1>1. Pins(v, d, c) /\ UNCHANGED <<slave, heard, said>>
  BY Drives
<1>2. Sees' = Line(v, d, slave.pull)
  BY <1>1 DEF Sees, Line, Pins
<1> QED BY <1>1, <1>2 DEF Steady, Pins

\* The levels and directions are among those that Drive expects.
LEMMA Settings ==
  ASSUME TypeOK
  PROVE  /\ 0 \in Bit /\ 1 \in Bit /\ sda \in Bit /\ scl \in Bit /\ dir \in {"out", "in"}
         /\ slave.pull \in BOOLEAN /\ slave.mode \in Modes /\ slave.bits \in Seq(Bit)
         /\ Len(slave.bits) \in Nat /\ Len(slave.bits) <= Width
         /\ scl = 0 \/ scl = 1
BY DEF TypeOK, Bit

\* IIC_Start() finds an idle slave and leaves it waiting for the address.
LEMMA StartStep ==
  ASSUME IInv, ~Idle, Current.fn = "start", Touch
  PROVE  Doing' /\ Steady
<1>1. /\ TypeOK /\ Calls /\ SlaveOK(slave) /\ InStart
  BY DEF IInv, Doing
<1>2. /\ Apart /\ at \in 1..5
      /\ at = 1 => Drive(sda, "out", scl) /\ On(2, turn)
      /\ at = 2 => Drive(1, dir, scl) /\ On(3, turn)
      /\ at = 3 => Drive(sda, dir, 1) /\ On(4, turn)
      /\ at = 4 => Drive(0, dir, scl) /\ On(5, turn) /\ Access.op = "edge"
      /\ at = 5 => Drive(sda, dir, 0) /\ Return
  BY <1>1, StartMoves
<1>3. UNCHANGED <<receive, got, program, winner, call, waits, refused>>
  BY <1>2 DEF Apart
<1>4. CASE at \in 1..3
  <2>1. ~slave.pull /\ Is("idle") /\ sda = 1 /\ scl = 1 /\ dir = "out"
    BY <1>1, <1>4 DEF InStart, SlaveOK, Is
  <2>2. Sees = 1 /\ Line(1, "out", slave.pull) = 1
    BY <1>1, <2>1, Levels, Settings DEF Sees
  <2>3. Drive(1, "out", 1) /\ On(at + 1, turn)
    BY <1>2, <1>4, <2>1
  <2>4. Pins(1, "out", 1) /\ UNCHANGED <<slave, heard, said>> /\ Steady
    BY <1>1, <1>3, <2>1, <2>2, <2>3, Unnoticed, Settings
  <2>5. Idle' = FALSE /\ Current' = Current /\ at' = at + 1 /\ turn' = turn /\ pc' = pc
    BY <1>1, <1>3, <2>3, Stays
  <2>6. InStart'
    BY <1>1, <1>3, <1>4, <2>1, <2>4, <2>5 DEF InStart, Pins, Is
  <2> QED BY <2>4, <2>5, <2>6 DEF Doing
<1>5. CASE at = 4
  <2>1. ~slave.pull /\ Is("idle") /\ sda = 1 /\ scl = 1 /\ dir = "out"
    BY <1>1, <1>5 DEF InStart, SlaveOK, Is
  <2>2. Sees = 1 /\ Line(0, "out", slave.pull) = 0
    BY <1>1, <2>1, Levels, Settings DEF Sees
  <2>3. Drive(0, "out", 1) /\ On(5, turn) /\ Access.op = "edge"
    BY <1>2, <1>5, <2>1
  <2>4. Pins(0, "out", 1) /\ Condition(0)
    BY <1>1, <2>1, <2>2, <2>3, Drives, Settings
  <2>5. Idle' = FALSE /\ Current' = Current /\ at' = 5 /\ turn' = turn /\ pc' = pc
    BY <1>1, <1>3, <2>3, Stays
  <2>6. InStart'
    BY <1>1, <1>3, <1>5, <2>4, <2>5 DEF InStart, Pins, Is, Condition, Becomes
  <2> QED BY <2>3, <2>5, <2>6 DEF Doing, Steady
<1>6. CASE at = 5
  <2>1. Is("byte") /\ slave.bits = <<>> /\ scl = 1 /\ dir = "out" /\ pc = 1 /\ heard = <<>>
    BY <1>1, <1>6 DEF InStart
  <2>2. Drive(sda, "out", 0) /\ Return
    BY <1>2, <1>6, <2>1
  <2>3. Pins(sda, "out", 0) /\ Fall
    BY <1>1, <2>1, <2>2, Drives, Settings
  <2>4. UNCHANGED <<slave, heard, said>>
    BY <2>1, <2>3, WidthAssumption DEF Fall, Is
  <2>5. /\ program # <<>> /\ Len(call) \in {1, 3} /\ Len(program) >= 5
        /\ program[2] = Send(call[1])
    BY <1>1, Course, Place
  <2>6. Idle' = FALSE /\ pc' = 2 /\ at' = 1 /\ turn' = 1 /\ Current' = Send(call[1])
    BY <1>1, <1>3, <2>1, <2>2, <2>5, Ends
  <2>7. InSend'
    BY <1>1, <1>3, <1>6, <2>1, <2>3, <2>4, <2>5, <2>6
       DEF InStart, InSend, Pins, Is, Heard, Has
  <2> QED BY <2>3, <2>6, <2>7 DEF Doing, Steady, Send, Pins
<1> QED BY <1>2, <1>4, <1>5, <1>6

\* IIC_Send_Byte() hands the slave one bit after the other, unless it has gone.
LEMMA SendStep ==
  ASSUME IInv, ~Idle, Current.fn = "send", Touch
  PROVE  Doing' /\ Steady
<1>1. TypeOK /\ Calls /\ SlaveOK(slave) /\ InSend
  BY DEF IInv, Doing
<1>2. /\ Apart /\ at \in 1..5 /\ turn \in 1..Width
      /\ at = 1 => Drive(sda, "out", scl) /\ On(2, turn)
      /\ at = 2 => Drive(sda, dir, 0) /\ On(3, turn)
      /\ at = 3 => Drive(Current.byte[turn], dir, scl) /\ On(4, turn)
      /\ at = 4 => Drive(sda, dir, 1) /\ On(5, turn)
      /\ at = 5 => /\ Drive(sda, dir, 0)
                   /\ IF turn < Width THEN On(3, turn + 1) ELSE Return
  BY <1>1, SendMoves
<1>3. UNCHANGED <<receive, got, program, winner, call, waits, refused>>
  BY <1>2 DEF Apart
<1>4. /\ Current.byte \in Byte /\ Len(Current.byte) = Width
      /\ Current.byte[turn] \in Bit
  BY <1>1, <1>2, Place, ByteBits
<1>5. Width \in Nat /\ Width > 1
  BY WidthAssumption
<1>6. CASE at = 1
  <2>1. Drive(sda, "out", scl) /\ On(2, turn)
    BY <1>2, <1>6
  <2>2. scl = 0 \/ (scl = 1 /\ Line(sda, "out", slave.pull) = Sees)
    BY <1>1, <1>6 DEF InSend, High, Sees
  <2>3. Pins(sda, "out", scl) /\ UNCHANGED <<slave, heard, said>> /\ Steady
    BY <1>1, <1>3, <2>1, <2>2, Unnoticed, Settings
  <2>4. Idle' = FALSE /\ Current' = Current /\ at' = 2 /\ turn' = turn /\ pc' = pc
    BY <1>1, <1>3, <2>1, Stays
  <2>5. InSend'
    BY <1>1, <1>3, <1>6, <2>3, <2>4
       DEF InSend, Pins, Is, Heard, Has, High, Refused
  <2> QED BY <2>3, <2>4, <2>5 DEF Doing
<1>7. CASE at = 2
  <2>1. Drive(sda, "out", 0) /\ On(3, turn) /\ turn = 1
    BY <1>1, <1>2, <1>7 DEF InSend
  <2>2. Pins(sda, "out", 0) /\ (scl = 1 => Fall) /\ (scl = 0 => UNCHANGED <<slave, heard, said>>)
    BY <1>1, <2>1, Drives, Settings
  <2>3. scl = 1 => Is("idle")
    BY <1>1, <1>7 DEF InSend
  <2>4. UNCHANGED <<slave, heard, said>>
    BY <1>1, <2>2, <2>3, Settings DEF Fall, Is
  <2>5. Idle' = FALSE /\ Current' = Current /\ at' = 3 /\ turn' = turn /\ pc' = pc
    BY <1>1, <1>3, <2>1, Stays
  <2>6. InSend'
    BY <1>1, <1>3, <1>7, <2>2, <2>4, <2>5
       DEF InSend, Pins, Is, Heard, Has, High, Refused
  <2> QED BY <2>2, <2>5, <2>6 DEF Doing, Steady, Pins
<1>8. CASE at = 3
  <2>1. Drive(Current.byte[turn], "out", 0) /\ On(4, turn) /\ scl = 0
    BY <1>1, <1>2, <1>8 DEF InSend
  <2>2. Pins(Current.byte[turn], "out", 0) /\ UNCHANGED <<slave, heard, said>> /\ Steady
    BY <1>1, <1>3, <1>4, <2>1, Unnoticed, Settings
  <2>3. Idle' = FALSE /\ Current' = Current /\ at' = 4 /\ turn' = turn /\ pc' = pc
    BY <1>1, <1>3, <2>1, Stays
  <2>4. InSend'
    BY <1>1, <1>3, <1>8, <2>1, <2>2, <2>3
       DEF InSend, Pins, Is, Heard, Has, High, Refused
  <2> QED BY <2>2, <2>3, <2>4 DEF Doing
<1>9. CASE at = 4
  <2>1. /\ Drive(sda, "out", 1) /\ On(5, turn) /\ scl = 0 /\ sda = Current.byte[turn]
        /\ dir = "out"
    BY <1>1, <1>2, <1>9 DEF InSend
  <2>2. Pins(sda, "out", 1) /\ Rise(Line(sda, "out", slave.pull))
    BY <1>1, <2>1, Drives, Settings
  <2>3. Idle' = FALSE /\ Current' = Current /\ at' = 5 /\ turn' = turn /\ pc' = pc
    BY <1>1, <1>3, <2>1, Stays
  <2>4. heard' = heard /\ said' = said
    BY <2>2 DEF Rise
  <2>5. refused = 0 => Is("byte")' /\ Has(Current.byte, turn)'
    <3> SUFFICES ASSUME refused = 0 PROVE Is("byte")' /\ Has(Current.byte, turn)'
      OBVIOUS
    <3>1. Is("byte") /\ ~slave.pull /\ Has(Current.byte, turn - 1)
      BY <1>1, <1>9 DEF InSend, SlaveOK, Is
    <3>2. Line(sda, "out", slave.pull) = Current.byte[turn]
      BY <1>1, <2>1, <3>1, Levels, Settings
    <3>3. Len(slave.bits) = turn - 1 /\ Len(slave.bits) < Width
      BY <1>2, <1>5, <3>1 DEF Has
    <3>4. slave' = [mode |-> "byte", bits |-> Append(slave.bits, Current.byte[turn]),
                    pull |-> FALSE]
      BY <2>2, <3>1, <3>2, <3>3 DEF Rise, Becomes, Is
    <3> DEFINE s == Append(slave.bits, Current.byte[turn])
    <3>5. /\ Len(s) = Len(slave.bits) + 1 /\ s[Len(slave.bits) + 1] = Current.byte[turn]
          /\ \A i \in 1..Len(slave.bits) : s[i] = slave.bits[i]
      BY <1>1, <1>4, Longer, Settings
    <3> HIDE DEF s
    <3>6. Len(s) = turn /\ s[turn] = Current.byte[turn]
          /\ \A i \in 1..turn - 1 : s[i] = Current.byte[i]
      BY <1>2, <3>1, <3>3, <3>5 DEF Has
    <3>7. \A i \in 1..turn : s[i] = Current.byte[i]
      BY <1>2, <3>6
    <3>8. slave'.mode = "byte" /\ slave'.bits = s
      BY <3>4 DEF s
    <3> QED BY <2>3, <3>6, <3>7, <3>8 DEF Is, Has
  <2>6. refused # 0 => slave' = slave
    BY <1>1, <2>2 DEF InSend, Rise, Is
  <2>7. InSend'
    BY <1>1, <1>3, <1>9, <2>1, <2>2, <2>3, <2>4, <2>5, <2>6
       DEF InSend, Pins, Is, Heard, High, Refused
  <2> QED BY <2>1, <2>3, <2>7 DEF Doing, Steady
<1>10. CASE at = 5
  <2>1. Drive(sda, "out", 0) /\ scl = 1 /\ dir = "out"
    BY <1>1, <1>2, <1>10 DEF InSend
  <2>2. Pins(sda, "out", 0) /\ Fall
    BY <1>1, <2>1, Drives, Settings
  <2>3. refused = 0 => Is("byte") /\ Len(slave.bits) = turn
    BY <1>1, <1>10 DEF InSend, Has
  <2>4. refused # 0 => UNCHANGED <<slave, heard, said>>
    BY <1>1, <2>2 DEF InSend, Fall, Is
  <2>5. CASE turn < Width
    <3>1. On(3, turn + 1)
      BY <1>2, <1>10, <2>5
    <3>2. Idle' = FALSE /\ Current' = Current /\ at' = 3 /\ turn' = turn + 1 /\ pc' = pc
      BY <1>1, <1>3, <3>1, Stays
    <3>3. refused = 0 => UNCHANGED <<slave, heard, said>>
      <4>1. turn # Width
        BY <1>2, <1>5, <2>5
      <4>2. refused = 0 => slave.mode = "byte" /\ Len(slave.bits) # Width
        BY <2>3, <4>1 DEF Is
      <4>3. CASE slave.mode = "byte" /\ Len(slave.bits) # Width
        BY <2>2, <4>3 DEF Fall
      <4> QED BY <4>2, <4>3
    <3>4. turn + 1 - 1 = turn
      BY <1>2, <1>5
    <3>5. InSend'
      BY <1>1, <1>3, <1>10, <2>2, <2>4, <3>2, <3>3, <3>4
         DEF InSend, Pins, Is, Heard, Has, High, Refused
    <3> QED BY <2>2, <3>2, <3>5 DEF Doing, Steady, Pins
  <2>6. CASE turn = Width
    <3>1. Return /\ waits < Len(call) /\ pc = 2 * waits + 2
      BY <1>1, <1>2, <1>5, <1>10, <2>6 DEF InSend
    <3>2. /\ program # <<>> /\ waits \in 0..Len(call) - 1 /\ Len(program) \in Nat
          /\ pc \in 1..Len(program)
      BY <1>1, <3>1, Course, Place DEF TypeOK
    <3>3. /\ program[2 * waits + 2] = Send(call[waits + 1])
          /\ program[2 * waits + 3] = Plain("wait")
          /\ program[Len(program)] = Plain("stop")
      BY <1>1, <3>2, Course
    <3>4. pc + 1 = 2 * waits + 3 /\ Current = Send(call[waits + 1])
      BY <3>1, <3>2, <3>3 DEF Current
    <3>5. pc # Len(program)
      BY <3>1, <3>3 DEF Send, Plain
    <3>6. /\ Idle' = FALSE /\ pc' = 2 * waits + 3 /\ at' = 1 /\ turn' = 1
          /\ Current' = Plain("wait")
      BY <1>1, <1>3, <3>1, <3>3, <3>4, <3>5, Ends
    <3>7. refused = 0 => /\ UNCHANGED <<heard, said>> /\ slave'.mode = "ack"
                         /\ slave'.bits = slave.bits
      BY <2>2, <2>3, <2>6 DEF Fall, Is, Becomes
    <3>8. refused = 0 => Has(call[waits + 1], Width)'
      BY <1>1, <1>3, <1>10, <2>6, <3>4, <3>7 DEF InSend, Has, Send
    <3>9. InWait'
      BY <1>1, <1>3, <1>10, <2>2, <2>4, <3>1, <3>6, <3>7, <3>8
         DEF InSend, InWait, Pins, Is, Heard, Refused
    <3> QED BY <2>2, <3>6, <3>9 DEF Doing, Steady, Pins, Plain
  <2> QED BY <1>2, <1>5, <2>5, <2>6
<1> QED BY <1>2, <1>6, <1>7, <1>8, <1>9, <1>10

\* After IIC_Wait_Ack() comes the next byte, the first byte read, or the STOP.
AfterWait ==
  \/ waits < Len(call) /\ Current.fn = "send"
  \/ waits = 3 /\ Len(call) = 3 /\ pc = Len(program) /\ Current.fn = "stop"
  \/ waits = 1 /\ Len(call) = 1 /\ pc = 4 /\ 4 \in 4..Len(program) - 1 /\ Current.fn = "read"

LEMMA Continues ==
  ASSUME TypeOK, Calls, ~Idle, UNCHANGED <<program, call, waits>>, Return,
         waits \in 1..Len(call), pc = 2 * waits + 1
  PROVE  Idle' = FALSE /\ pc' = 2 * waits + 2 /\ at' = 1 /\ turn' = 1 /\ AfterWait'
<1>1. /\ program # <<>> /\ Len(program) \in Nat /\ pc \in 1..Len(program)
      /\ Len(call) \in {1, 3} /\ Len(program) >= 5
      /\ \A w \in 0..Len(call) - 1 : program[2 * w + 2] = Send(call[w + 1])
      /\ program[Len(program)] = Plain("stop")
      /\ Len(call) = 3 => Len(program) = 8
      /\ Len(call) = 1 => \A k \in 4..Len(program) - 1 :
                            program[k] = Read(k < Len(program) - 1)
  BY Course, Place
<1>2. pc < Len(program) /\ waits \in Nat
  <2>1. CASE Len(call) = 3
    <3>1. waits \in 1..3 /\ Len(program) = 8 /\ pc = 2 * waits + 1
      BY <1>1, <2>1
    <3> QED BY <3>1
  <2>2. CASE Len(call) = 1
    BY <1>1, <2>2
  <2> QED BY <1>1, <2>1, <2>2
<1>3. /\ pc' = pc + 1 /\ at' = 1 /\ turn' = 1 /\ (Idle' <=> pc = Len(program))
      /\ Current' = program[pc + 1]
  BY Ends
<1>4. pc' = 2 * waits + 2 /\ ~Idle' /\ Idle' = FALSE
  BY <1>2, <1>3 DEF Idle
<1>5. CASE waits < Len(call)
  <2>1. waits \in 0..Len(call) - 1 /\ pc + 1 = 2 * waits + 2
    BY <1>1, <1>2, <1>5
  <2>2. program[2 * waits + 2] = Send(call[waits + 1])
    BY <1>1, <2>1
  <2>3. Current' = Send(call[waits + 1])
    BY <1>3, <2>1, <2>2
  <2>4. Current'.fn = "send"
    BY <2>3 DEF Send
  <2> QED BY <1>3, <1>4, <1>5, <2>4 DEF AfterWait
<1>6. CASE waits = 3 /\ Len(call) = 3
  <2>1. pc + 1 = 8 /\ Len(program) = 8
    BY <1>1, <1>6
  <2>2. Current'.fn = "stop"
    BY <1>1, <1>3, <2>1 DEF Plain
  <2> QED BY <1>3, <1>4, <1>6, <2>1, <2>2 DEF AfterWait
<1>7. CASE waits = 1 /\ Len(call) = 1
  <2>1. pc + 1 = 4 /\ 4 \in 4..Len(program) - 1
    BY <1>1, <1>7
  <2>2. program[4] = Read(4 < Len(program) - 1)
    BY <1>1, <1>7, <2>1
  <2>3. Current' = Read(4 < Len(program) - 1)
    BY <1>3, <2>1, <2>2
  <2>4. Current'.fn = "read"
    BY <2>3 DEF Read
  <2>5. waits' = 1 /\ call' = call /\ program' = program /\ pc' = 4
    BY <1>3, <1>7, <2>1
  <2>6. (4 \in 4..Len(program) - 1)' /\ (Len(call) = 1)' /\ (Current.fn = "read")'
    BY <1>7, <2>1, <2>4, <2>5
  <2> QED BY <1>3, <1>4, <1>7, <2>5, <2>6 DEF AfterWait
<1>8. waits < Len(call) \/ (waits = 3 /\ Len(call) = 3) \/ (waits = 1 /\ Len(call) = 1)
  <2>1. CASE Len(call) = 1
    <3>1. waits \in 1..1
      BY <2>1
    <3> QED BY <2>1, <3>1
  <2>2. CASE Len(call) = 3
    <3>1. waits \in 1..3
      BY <2>2
    <3> QED BY <2>2, <3>1
  <2> QED BY <1>1, <2>1, <2>2
<1> QED BY <1>5, <1>6, <1>7, <1>8

\* A slave that has the byte of the call has accepted one byte more.
LEMMA Accepts ==
  ASSUME TypeOK, NEW k \in Nat, k < Len(call), Heard(k), Has(call[k + 1], Width),
         heard' = Append(heard, slave.bits)
  PROVE  /\ Len(heard') = k + 1 /\ \A i \in 1..k + 1 : heard'[i] = call[i]
         /\ slave.bits = call[k + 1]
<1>1. /\ call \in Seq(Byte) /\ heard \in Seq(Byte) /\ slave.bits \in Seq(Bit)
      /\ Len(call) \in Nat /\ Width \in Nat
  BY WidthAssumption DEF TypeOK
<1>2. call[k + 1] \in Byte /\ slave.bits \in Byte
  <2>1. k + 1 \in 1..Len(call)
    BY <1>1
  <2> QED BY <1>1, <2>1, BitsByte DEF Has
<1>3. slave.bits = call[k + 1]
  <2>1. \A i \in 1..Width : slave.bits[i] = call[k + 1][i]
    BY DEF Has
  <2> QED BY <1>2, <2>1, SameBits
<1>4. /\ Len(heard') = k + 1 /\ heard'[k + 1] = slave.bits
      /\ \A i \in 1..k : heard'[i] = heard[i]
  <2>1. /\ Len(Append(heard, slave.bits)) = Len(heard) + 1
        /\ \A i \in 1..Len(heard) : Append(heard, slave.bits)[i] = heard[i]
        /\ Append(heard, slave.bits)[Len(heard) + 1] = slave.bits
    BY <1>1, <1>2, Longer
  <2> QED BY <2>1 DEF Heard
<1>5. \A i \in 1..k + 1 : i \in 1..k \/ i = k + 1
  OBVIOUS
<1>6. \A i \in 1..k + 1 : heard'[i] = call[i]
  BY <1>3, <1>4, <1>5 DEF Heard
<1> QED BY <1>3, <1>4, <1>6

\* IIC_Wait_Ack() hands over to the next function of the call or gives up; the
\* slave that acknowledges in time has accepted the byte, the late one may have.
LEMMA WaitStep ==
  ASSUME IInv, ~Idle, Current.fn = "wait", Touch
  PROVE  Doing' /\ Steady
<1>1. TypeOK /\ Calls /\ SlaveOK(slave) /\ InWait
  BY DEF IInv, Doing
<1>2. /\ Apart /\ at \in 1..10 /\ at # 4
      /\ at = 1 => Drive(sda, "in", scl) /\ On(2, turn)
      /\ at = 2 => Drive(1, dir, scl) /\ On(3, turn)
      /\ at = 3 => Drive(sda, dir, 1) /\ On(4, turn)
      /\ at = 5 => Drive(sda, dir, 0) /\ Return
      /\ at = 6 => Drive(sda, "out", scl) /\ On(7, turn)
      /\ at = 7 => Drive(sda, dir, 0) /\ On(8, turn)
      /\ at = 8 => Drive(0, dir, scl) /\ On(9, turn)
      /\ at = 9 => Drive(sda, dir, 1) /\ On(10, turn)
      /\ at = 10 => Drive(1, dir, scl) /\ Return /\ Access.op = "edge"
  BY <1>1, WaitMoves
<1>3. UNCHANGED <<receive, got, program, winner, call, waits, refused>>
  BY <1>2 DEF Apart
<1>4. /\ program # <<>> /\ Len(call) \in {1, 3}
      /\ Len(call) = 3 => call[1][Width] = 0
      /\ Len(call) = 1 => call[1][Width] = 1
  BY <1>1, Course, Place
<1>5. Width \in Nat /\ Width > 1
  BY WidthAssumption
<1>6. CASE at = 1
  <2>1. Drive(sda, "in", 0) /\ On(2, turn) /\ scl = 0
    BY <1>1, <1>2, <1>6 DEF InWait
  <2>2. Pins(sda, "in", 0) /\ UNCHANGED <<slave, heard, said>> /\ Steady
    BY <1>1, <1>3, <2>1, Unnoticed, Settings
  <2>3. Idle' = FALSE /\ Current' = Current /\ at' = 2 /\ turn' = turn /\ pc' = pc
    BY <1>1, <1>3, <2>1, Stays
  <2>4. InWait'
    BY <1>1, <1>3, <1>6, <2>2, <2>3 DEF InWait, Pins, Is, Heard, Has, Refused
  <2> QED BY <2>2, <2>3, <2>4 DEF Doing
<1>7. CASE at = 2
  <2>1. Drive(1, "in", 0) /\ On(3, turn) /\ scl = 0
    BY <1>1, <1>2, <1>7 DEF InWait
  <2>2. Pins(1, "in", 0) /\ UNCHANGED <<slave, heard, said>> /\ Steady
    BY <1>1, <1>3, <2>1, Unnoticed, Settings
  <2>3. Idle' = FALSE /\ Current' = Current /\ at' = 3 /\ turn' = turn /\ pc' = pc
    BY <1>1, <1>3, <2>1, Stays
  <2>4. InWait'
    BY <1>1, <1>3, <1>7, <2>2, <2>3 DEF InWait, Pins, Is, Heard, Has, Refused
  <2> QED BY <2>2, <2>3, <2>4 DEF Doing
<1>8. CASE at = 3
  <2>1. Drive(1, "in", 1) /\ On(4, turn) /\ scl = 0 /\ (Is("ack") \/ Is("idle"))
    BY <1>1, <1>2, <1>8 DEF InWait
  <2>2. Pins(1, "in", 1) /\ Rise(Line(1, "in", slave.pull))
    BY <1>1, <2>1, Drives, Settings
  <2>3. UNCHANGED <<slave, heard, said>>
    BY <2>1, <2>2 DEF Rise, Is
  <2>4. Idle' = FALSE /\ Current' = Current /\ at' = 4 /\ turn' = turn /\ pc' = pc
    BY <1>1, <1>3, <2>1, Stays
  <2>5. InWait'
    BY <1>1, <1>3, <1>8, <2>2, <2>3, <2>4 DEF InWait, Pins, Is, Heard, Has, Refused
  <2> QED BY <2>1, <2>4, <2>5 DEF Doing, Steady
<1>9. CASE at = 5
  <2>1. /\ Drive(sda, "in", 0) /\ Return /\ scl = 1 /\ refused = 0
        /\ waits \in 1..Len(call) /\ pc = 2 * waits + 1
        /\ Is("ack") /\ slave.pull /\ Has(call[waits], Width) /\ Heard(waits - 1)
        /\ got = <<>> /\ said = <<>> /\ receive = <<>>
    BY <1>1, <1>2, <1>9 DEF InWait
  <2>2. Pins(sda, "in", 0) /\ Fall
    BY <1>1, <2>1, Drives, Settings
  <2>3. /\ IF Reads(slave.bits) THEN Say(<<>>) ELSE Becomes("byte", <<>>, FALSE)
        /\ heard' = Append(heard, slave.bits) /\ said' = said
    BY <2>1, <2>2 DEF Fall, Is
  <2>4. Heard(waits)' /\ slave.bits = call[waits]
    <3> DEFINE k == waits - 1
    <3>1. k \in Nat /\ k < Len(call) /\ k + 1 = waits
      BY <1>4, <2>1
    <3> HIDE DEF k
    <3>2. Heard(k) /\ Has(call[k + 1], Width)
      BY <2>1, <3>1 DEF k
    <3>3. /\ Len(heard') = k + 1 /\ \A i \in 1..k + 1 : heard'[i] = call[i]
          /\ slave.bits = call[k + 1]
      BY <1>1, <2>3, <3>1, <3>2, Accepts
    <3> QED BY <1>3, <3>1, <3>3 DEF Heard
  <2>5. Reads(slave.bits) <=> Len(call) = 1
    <3>1. CASE waits = 1
      <4>1. heard = <<>>
        BY <1>1, <2>1, <3>1 DEF Heard, TypeOK
      <4> QED BY <1>4, <2>4, <3>1, <4>1 DEF Reads
    <3>2. CASE waits # 1
      <4>1. Len(heard) # 0 /\ Len(call) # 1
        BY <1>4, <2>1, <3>2 DEF Heard
      <4> QED BY <4>1 DEF Reads
    <3> QED BY <3>1, <3>2
  <2>6. /\ Idle' = FALSE /\ pc' = 2 * waits + 2 /\ at' = 1 /\ turn' = 1 /\ AfterWait'
    BY <1>1, <1>3, <2>1, Continues
  <2>7. CASE (waits < Len(call) /\ Current.fn = "send")'
    <3>0. waits < Len(call) /\ Len(call) # 1
      <4>1. waits < Len(call)
        BY <1>3, <2>7
      <4>2. waits \in 1..Len(call)
        BY <2>1
      <4>3. ASSUME Len(call) = 1 PROVE FALSE
        BY <4>1, <4>2, <4>3
      <4> QED BY <4>1, <4>3
    <3>1. Becomes("byte", <<>>, FALSE)
      BY <2>3, <2>5, <3>0
    <3>2. InSend'
      BY <1>3, <2>1, <2>2, <2>3, <2>4, <2>6, <3>0, <3>1
         DEF InSend, Pins, Is, Has, Becomes
    <3> QED BY <2>2, <2>6, <2>7, <3>2 DEF Doing, Steady, Pins
  <2>8. CASE (waits = 3 /\ Len(call) = 3 /\ pc = Len(program) /\ Current.fn = "stop")'
    <3>0. waits = Len(call) /\ Len(call) # 1
      BY <1>3, <2>8
    <3>1. Becomes("byte", <<>>, FALSE)
      BY <2>3, <2>5, <3>0
    <3>2. InStop'
      BY <1>3, <2>1, <2>2, <2>3, <2>4, <2>6, <2>8, <3>0, <3>1
         DEF InStop, Pins, Is, Becomes
    <3> QED BY <2>2, <2>6, <2>8, <3>2 DEF Doing, Steady, Pins
  <2>9. CASE (waits = 1 /\ Len(call) = 1 /\ pc = 4 /\ 4 \in 4..Len(program) - 1
              /\ Current.fn = "read")'
    <3>1. Say(<<>>) /\ waits = 1
      BY <1>3, <2>3, <2>5, <2>9
    <3>2. slave'.mode = "send" /\ Len(slave'.bits) = 1
      <4>1. <<>> \in Seq(Bit) /\ Len(<<>>) < Width /\ Len(<<>>) = 0
        BY <1>5
      <4>2. Say(<<>>)
        BY <3>1
      <4>3. slave'.mode = "send" /\ Len(slave'.bits) = Len(<<>>) + 1
        BY <1>1, <4>1, <4>2, SayOK
      <4> QED BY <4>1, <4>3
    <3>3. InRead'
      BY <1>3, <2>1, <2>2, <2>3, <2>4, <2>6, <2>9, <3>1, <3>2
         DEF InRead, ReadPins, ReadWell, Pins, Is
    <3> QED BY <2>2, <2>6, <2>9, <3>3 DEF Doing, Steady, Pins
  <2> QED BY <2>6, <2>7, <2>8, <2>9 DEF AfterWait
<1>10. CASE at = 6
  <2>1. /\ Drive(1, "out", 1) /\ On(7, turn) /\ scl = 1 /\ sda = 1 /\ dir = "in"
        /\ refused # 0 /\ waits \in 1..Len(call) /\ pc = 2 * waits + 1
    BY <1>1, <1>2, <1>10 DEF InWait
  <2>2. /\ Pins(1, "out", 1)
        /\ IF Line(1, "out", slave.pull) # Sees THEN Condition(Line(1, "out", slave.pull))
           ELSE UNCHANGED <<slave, heard, said>>
    BY <1>1, <2>1, Drives, Settings
  <2>3. /\ ~slave.pull => Line(1, "out", slave.pull) = Sees
        /\ slave.pull => Sees = 0 /\ Line(1, "out", slave.pull) \in {0, 1}
    BY <1>1, <2>1, Levels, Settings DEF Sees
  <2>4. \/ UNCHANGED <<slave, heard, said>>
        \/ slave.pull /\ slave'.mode = "idle" /\ UNCHANGED <<heard, said>>
    BY <2>2, <2>3 DEF Condition, Becomes
  <2>5. Idle' = FALSE /\ Current' = Current /\ at' = 7 /\ turn' = turn /\ pc' = pc
    BY <1>1, <1>3, <2>1, Stays
  <2>6. InWait'
    BY <1>1, <1>3, <1>10, <2>1, <2>2, <2>4, <2>5 DEF InWait, Pins, Is, Heard, Has, Refused
  <2>7. Steady
    <3>1. CASE slave.pull
      BY <2>1, <3>1 DEF Steady
    <3>2. CASE ~slave.pull
      <4>1. Sees' = Line(1, "out", slave.pull)
        BY <1>3, <2>2, <2>4, <3>2 DEF Sees, Line, Pins
      <4> QED BY <2>3, <3>2, <4>1 DEF Steady
    <3> QED BY <3>1, <3>2
  <2> QED BY <2>5, <2>6, <2>7 DEF Doing
<1>11. CASE at = 7
  <2>1. /\ Drive(1, "out", 0) /\ On(8, turn) /\ scl = 1
        /\ refused # 0 /\ waits \in 1..Len(call) /\ pc = 2 * waits + 1
        /\ refused \in 1..waits /\ (Heard(refused - 1) \/ Heard(refused))
        /\ \/ Is("idle")
           \/ Is("ack") /\ waits = refused /\ Has(call[refused], Width) /\ Heard(refused - 1)
    BY <1>1, <1>2, <1>11 DEF InWait, Refused
  <2>2. Pins(1, "out", 0) /\ Fall
    BY <1>1, <2>1, Drives, Settings
  <2>3. Idle' = FALSE /\ Current' = Current /\ at' = 8 /\ turn' = turn /\ pc' = pc
    BY <1>1, <1>3, <2>1, Stays
  <2>4. CASE Is("idle") \/ (Is("ack") /\ ~slave.pull)
    <3>1. heard' = heard /\ slave'.mode = "idle"
      BY <2>2, <2>4 DEF Fall, Is, Becomes
    <3>2. InWait'
      BY <1>1, <1>3, <1>11, <2>1, <2>2, <2>3, <3>1 DEF InWait, Pins, Is, Heard, Refused
    <3> QED BY <2>2, <2>3, <3>2 DEF Doing, Steady, Pins
  <2>5. CASE Is("ack") /\ slave.pull
    <3>1. /\ IF Reads(slave.bits) THEN Say(<<>>) ELSE Becomes("byte", <<>>, FALSE)
          /\ heard' = Append(heard, slave.bits)
      BY <2>2, <2>5 DEF Fall, Is
    <3>2. Heard(refused)' /\ slave.bits = call[refused]
      <4> DEFINE k == refused - 1
      <4>1. k \in Nat /\ k < Len(call) /\ k + 1 = refused
        BY <1>4, <2>1
      <4> HIDE DEF k
      <4>2. Heard(k) /\ Has(call[k + 1], Width)
        BY <2>1, <2>5, <4>1 DEF k, Is
      <4>3. /\ Len(heard') = k + 1 /\ \A i \in 1..k + 1 : heard'[i] = call[i]
            /\ slave.bits = call[k + 1]
        BY <1>1, <3>1, <4>1, <4>2, Accepts
      <4> QED BY <1>3, <4>1, <4>3 DEF Heard
    <3>3. Reads(slave.bits) => Len(call) = 1
      <4>1. CASE refused = 1
        BY <1>4, <3>2, <4>1 DEF Reads
      <4>2. CASE refused # 1
        <5>1. Len(heard) # 0
          BY <2>1, <2>5, <4>2 DEF Heard, Is
        <5> QED BY <5>1 DEF Reads
      <4> QED BY <4>1, <4>2
    <3>4. slave'.mode = "byte" \/ (slave'.mode = "send" /\ Len(call) = 1 /\ Len(slave'.bits) = 1)
      <4>1. CASE Reads(slave.bits)
        <5>1. <<>> \in Seq(Bit) /\ Len(<<>>) < Width /\ Len(<<>>) = 0
          BY <1>5
        <5>2. Say(<<>>)
          BY <3>1, <4>1
        <5>3. slave'.mode = "send" /\ Len(slave'.bits) = Len(<<>>) + 1
          BY <1>1, <5>1, <5>2, SayOK
        <5> QED BY <3>3, <4>1, <5>1, <5>3
      <4>2. CASE ~Reads(slave.bits)
        BY <3>1, <4>2 DEF Becomes
      <4> QED BY <4>1, <4>2
    <3>5. Refused'
      BY <1>3, <2>1, <3>2 DEF Refused
    <3>6. InWait'
      BY <1>1, <1>3, <1>11, <2>1, <2>2, <2>3, <3>4, <3>5 DEF InWait, Pins, Is
    <3> QED BY <2>2, <2>3, <3>6 DEF Doing, Steady, Pins
  <2> QED BY <2>1, <2>4, <2>5
<1>12. CASE at = 8
  <2>1. Drive(0, "out", 0) /\ On(9, turn) /\ scl = 0
    BY <1>1, <1>2, <1>12 DEF InWait
  <2>2. Pins(0, "out", 0) /\ UNCHANGED <<slave, heard, said>> /\ Steady
    BY <1>1, <1>3, <2>1, Unnoticed, Settings
  <2>3. Idle' = FALSE /\ Current' = Current /\ at' = 9 /\ turn' = turn /\ pc' = pc
    BY <1>1, <1>3, <2>1, Stays
  <2>4. InWait'
    BY <1>1, <1>3, <1>12, <2>2, <2>3 DEF InWait, Pins, Is, Heard, Has, Refused
  <2> QED BY <2>2, <2>3, <2>4 DEF Doing
<1>13. CASE at = 9
  <2>1. /\ Drive(0, "out", 1) /\ On(10, turn) /\ scl = 0 /\ refused # 0 /\ Refused
        /\ Is("idle") \/ Is("byte") \/ (Is("send") /\ Len(call) = 1 /\ Len(slave.bits) = 1)
    BY <1>1, <1>2, <1>13 DEF InWait
  <2>2. Pins(0, "out", 1) /\ Rise(Line(0, "out", slave.pull))
    BY <1>1, <2>1, Drives, Settings
  <2>3. /\ heard' = heard
        /\ Is("byte") => slave'.mode = "byte"
        /\ ~Is("byte") => slave' = slave
    BY <2>1, <2>2 DEF Rise, Is, Becomes
  <2>4. Idle' = FALSE /\ Current' = Current /\ at' = 10 /\ turn' = turn /\ pc' = pc
    BY <1>1, <1>3, <2>1, Stays
  <2>5. InWait'
    BY <1>1, <1>3, <1>13, <2>1, <2>2, <2>3, <2>4 DEF InWait, Pins, Is, Heard, Refused
  <2> QED BY <2>1, <2>4, <2>5 DEF Doing, Steady
<1>14. CASE at = 10
  <2>1. /\ Drive(1, "out", 1) /\ Return /\ scl = 1 /\ sda = 0 /\ dir = "out"
        /\ refused # 0 /\ Refused /\ waits \in 1..Len(call) /\ pc = 2 * waits + 1
        /\ Is("idle") \/ Is("byte") \/ (Is("send") /\ Len(call) = 1 /\ Len(slave.bits) = 1)
        /\ receive = <<>>
    BY <1>1, <1>2, <1>14 DEF InWait
  <2>2. /\ Pins(1, "out", 1)
        /\ IF Line(1, "out", slave.pull) # Sees THEN Condition(Line(1, "out", slave.pull))
           ELSE UNCHANGED <<slave, heard, said>>
    BY <1>1, <2>1, Drives, Settings
  <2>3. /\ Sees = 0 /\ Line(1, "out", slave.pull) \in {0, 1}
        /\ ~slave.pull => Line(1, "out", slave.pull) = 1
        /\ slave.pull => Line(1, "out", slave.pull) = (IF winner = "slave" THEN 0 ELSE 1)
    BY <1>1, <2>1, Levels, Settings DEF Sees, Bit
  <2>4. /\ heard' = heard
        /\ \/ slave'.mode = "idle"
           \/ /\ slave' = slave /\ slave.pull /\ winner = "slave"
              /\ Is("send") /\ Len(call) = 1 /\ Len(slave.bits) = 1
    <3>1. CASE Line(1, "out", slave.pull) = 1
      BY <2>2, <2>3, <3>1 DEF Condition, Becomes
    <3>2. CASE Line(1, "out", slave.pull) = 0
      <4>1. slave.pull /\ winner = "slave" /\ UNCHANGED <<slave, heard>>
        BY <2>2, <2>3, <3>2
      <4>2. Is("send")
        BY <1>1, <2>1, <4>1 DEF SlaveOK, Is
      <4> QED BY <2>1, <4>1, <4>2 DEF Is
    <3> QED BY <2>3, <3>1, <3>2
  <2>5. Idle' = FALSE /\ pc' = 2 * waits + 2 /\ at' = 1 /\ turn' = 1 /\ AfterWait'
    BY <1>1, <1>3, <2>1, Continues
  <2>6. Refused' /\ High'
    BY <1>3, <2>1, <2>2, <2>4 DEF Refused, Heard, High, Pins
  <2>7. CASE (waits < Len(call) /\ Current.fn = "send")'
    <3>0. waits < Len(call) /\ Len(call) # 1
      <4>1. waits < Len(call)
        BY <1>3, <2>7
      <4>2. waits \in 1..Len(call)
        BY <2>1
      <4>3. ASSUME Len(call) = 1 PROVE FALSE
        BY <4>1, <4>2, <4>3
      <4> QED BY <4>1, <4>3
    <3>1. slave'.mode = "idle"
      BY <2>4, <3>0
    <3>2. InSend'
      BY <1>3, <2>1, <2>2, <2>5, <2>6, <3>0, <3>1 DEF InSend, Is
    <3> QED BY <1>2, <1>14, <2>5, <2>7, <3>2 DEF Doing, Steady
  <2>8. CASE (waits = 3 /\ Len(call) = 3 /\ pc = Len(program) /\ Current.fn = "stop")'
    <3>1. slave'.mode = "idle" /\ waits = Len(call)
      BY <1>3, <2>4, <2>8
    <3>2. InStop'
      BY <1>3, <2>1, <2>2, <2>5, <2>6, <2>8, <3>1 DEF InStop, Is
    <3> QED BY <1>2, <1>14, <2>5, <2>8, <3>2 DEF Doing, Steady
  <2>9. CASE (waits = 1 /\ Len(call) = 1 /\ pc = 4 /\ 4 \in 4..Len(program) - 1
              /\ Current.fn = "read")'
    <3>1. (Is("idle") \/ Stray)'
      BY <1>3, <2>4, <2>5, <2>6, <2>9 DEF Is, Stray
    <3>2. InRead'
      BY <1>3, <2>1, <2>2, <2>5, <2>6, <2>9, <3>1 DEF InRead, ReadPins
    <3> QED BY <1>2, <1>14, <2>5, <2>9, <3>2 DEF Doing, Steady
  <2> QED BY <1>2, <1>14, <2>5, <2>7, <2>8, <2>9 DEF AfterWait
<1> QED BY <1>2, <1>6, <1>7, <1>8, <1>9, <1>10, <1>11, <1>12, <1>13, <1>14

\* After IIC_Read_Byte() comes the next byte if this one was acknowledged, the
\* STOP if it was not.
LEMMA ReadOn ==
  ASSUME TypeOK, Calls, ~Idle, UNCHANGED <<program, call>>, Return,
         Len(call) = 1, pc \in 4..Len(program) - 1
  PROVE  /\ Idle' = FALSE /\ pc' = pc + 1 /\ at' = 1 /\ turn' = 1
         /\ Current.ack \in BOOLEAN
         /\ IF Current.ack THEN pc + 1 \in 4..Len(program) - 1 /\ Current'.fn = "read"
                           ELSE pc + 1 = Len(program) /\ Current'.fn = "stop"
<1>1. /\ program # <<>> /\ Len(program) \in Nat
      /\ program[Len(program)] = Plain("stop")
      /\ \A k \in 4..Len(program) - 1 : program[k] = Read(k < Len(program) - 1)
  BY Course, Place
<1>2. /\ pc' = pc + 1 /\ at' = 1 /\ turn' = 1 /\ (Idle' <=> pc = Len(program))
      /\ Current' = program[pc + 1]
  BY Ends
<1>3. ~Idle' /\ Idle' = FALSE
  <2>1. pc # Len(program)
    BY <1>1
  <2> QED BY <1>2, <2>1 DEF Idle
<1>4. Current = Read(pc < Len(program) - 1)
  BY <1>1 DEF Current
<1>5. Current.ack = (pc < Len(program) - 1)
  BY <1>4 DEF Read
<1>6. CASE pc < Len(program) - 1
  <2>1. pc + 1 \in 4..Len(program) - 1
    BY <1>1, <1>6
  <2>2. Current' = Read(pc + 1 < Len(program) - 1)
    BY <1>1, <1>2, <2>1
  <2>3. Current'.fn = "read"
    BY <2>2 DEF Read
  <2> QED BY <1>2, <1>3, <1>5, <1>6, <2>1, <2>3
<1>7. CASE ~(pc < Len(program) - 1)
  <2>1. pc + 1 = Len(program)
    BY <1>1, <1>7
  <2>2. Current'.fn = "stop"
    BY <1>1, <1>2, <2>1 DEF Plain
  <2>3. Current.ack \in BOOLEAN /\ ~Current.ack
    <3>1. (pc < Len(program) - 1) = FALSE
      BY <1>7
    <3>2. Current.ack = FALSE
      BY <1>5, <3>1, Zenon
    <3> QED BY <3>2
  <2> QED BY <1>2, <1>3, <2>1, <2>2, <2>3
<1> QED BY <1>6, <1>7

\* The pins within IIC_Read_Byte(), whatever the slave does.
LEMMA ReadPinsStep ==
  ASSUME TypeOK, ReadPins, ~Idle, Current.fn = "read", Touch, at # 9
  PROVE  Idle' = FALSE /\ Current' = Current /\ ReadPins'
<1>1. /\ at \in 1..9 /\ turn \in 1..Width
      /\ at # 4 => Apart
      /\ at = 1 => Drive(sda, "in", scl) /\ On(2, turn)
      /\ at = 2 => Drive(sda, dir, 0) /\ On(3, turn)
      /\ at = 3 => Drive(sda, dir, 1) /\ On(4, turn)
      /\ at = 4 => /\ UNCHANGED <<scl, sda, dir, slave, heard, said, program,
                                  polls, winner, call, waits, refused>>
                   /\ IF turn < Width
                        THEN /\ On(2, turn + 1) /\ got' = got
                             /\ receive' = Append(receive, Sees)
                        ELSE /\ On(5, turn) /\ receive' = <<>>
                             /\ got' = Append(got, Append(receive, Sees))
      /\ at = 5 => Drive(sda, dir, 0) /\ On(6, turn)
      /\ at = 6 => Drive(sda, "out", scl) /\ On(7, turn)
      /\ at = 7 => Drive(IF Current.ack THEN 0 ELSE 1, dir, scl) /\ On(8, turn)
      /\ at = 8 => Drive(sda, dir, 1) /\ On(9, turn)
  BY ReadMoves
<1>2. UNCHANGED <<program, call, waits, refused>>
  BY <1>1 DEF Apart
<1>3. CASE at = 1
  <2>1. Pins(sda, "in", scl) /\ On(2, turn) /\ receive' = receive
    BY <1>1, <1>3 DEF Drive, Pins, Apart
  <2>2. Idle' = FALSE /\ Current' = Current /\ at' = 2 /\ turn' = turn /\ pc' = pc
    BY <1>2, <2>1, Stays
  <2> QED BY <1>2, <1>3, <2>1, <2>2 DEF ReadPins, Pins, High
<1>4. CASE at = 2
  <2>1. Pins(sda, "in", 0) /\ On(3, turn) /\ receive' = receive
    BY <1>1, <1>4 DEF Drive, Pins, Apart, ReadPins
  <2>2. Idle' = FALSE /\ Current' = Current /\ at' = 3 /\ turn' = turn /\ pc' = pc
    BY <1>2, <2>1, Stays
  <2> QED BY <1>2, <1>4, <2>1, <2>2 DEF ReadPins, Pins
<1>5. CASE at = 3
  <2>1. Pins(sda, "in", 1) /\ On(4, turn) /\ receive' = receive
    BY <1>1, <1>5 DEF Drive, Pins, Apart, ReadPins
  <2>2. Idle' = FALSE /\ Current' = Current /\ at' = 4 /\ turn' = turn /\ pc' = pc
    BY <1>2, <2>1, Stays
  <2> QED BY <1>2, <1>5, <2>1, <2>2 DEF ReadPins, Pins
<1>6. CASE at = 4 /\ turn < Width
  <2>1. /\ UNCHANGED <<scl, sda, dir>> /\ On(2, turn + 1)
        /\ receive' = Append(receive, Sees)
    BY <1>1, <1>6
  <2>2. Idle' = FALSE /\ Current' = Current /\ at' = 2 /\ turn' = turn + 1 /\ pc' = pc
    BY <1>2, <2>1, Stays
  <2>3. Sees \in Bit
    BY Levels DEF Sees, TypeOK
  <2>4. Len(receive)' = turn' - 1 /\ turn' # 1 /\ (scl = 1)' /\ (dir = "in")'
    <3>1. receive \in Seq(Bit) /\ Len(receive) = turn - 1
      BY <1>6 DEF ReadPins, TypeOK
    <3>2. Len(Append(receive, Sees)) = Len(receive) + 1
      BY <2>3, <3>1, Longer
    <3>3. turn' = turn + 1 /\ turn \in Nat /\ turn # 0
      BY <1>1, <2>2, WidthAssumption
    <3>4. scl = 1 /\ dir = "in"
      BY <1>6 DEF ReadPins
    <3> QED BY <2>1, <3>1, <3>2, <3>3, <3>4
  <2> QED BY <1>2, <1>6, <2>1, <2>2, <2>4 DEF ReadPins
<1>7. CASE at = 4 /\ ~(turn < Width)
  <2>1. UNCHANGED <<scl, sda, dir>> /\ On(5, turn) /\ receive' = <<>>
    BY <1>1, <1>7
  <2>2. Idle' = FALSE /\ Current' = Current /\ at' = 5 /\ turn' = turn /\ pc' = pc
    BY <1>2, <2>1, Stays
  <2> QED BY <1>2, <1>7, <2>1, <2>2 DEF ReadPins
<1>8. CASE at = 5
  <2>1. Pins(sda, "in", 0) /\ On(6, turn) /\ receive' = receive
    BY <1>1, <1>8 DEF Drive, Pins, Apart, ReadPins
  <2>2. Idle' = FALSE /\ Current' = Current /\ at' = 6 /\ turn' = turn /\ pc' = pc
    BY <1>2, <2>1, Stays
  <2> QED BY <1>2, <1>8, <2>1, <2>2 DEF ReadPins, Pins
<1>9. CASE at = 6
  <2>1. Pins(sda, "out", 0) /\ On(7, turn) /\ receive' = receive
    BY <1>1, <1>9 DEF Drive, Pins, Apart, ReadPins
  <2>2. Idle' = FALSE /\ Current' = Current /\ at' = 7 /\ turn' = turn /\ pc' = pc
    BY <1>2, <2>1, Stays
  <2> QED BY <1>2, <1>9, <2>1, <2>2 DEF ReadPins, Pins
<1>10. CASE at = 7
  <2>1. Pins(IF Current.ack THEN 0 ELSE 1, "out", 0) /\ On(8, turn) /\ receive' = receive
    BY <1>1, <1>10 DEF Drive, Pins, Apart, ReadPins
  <2>2. Idle' = FALSE /\ Current' = Current /\ at' = 8 /\ turn' = turn /\ pc' = pc
    BY <1>2, <2>1, Stays
  <2> QED BY <1>2, <1>10, <2>1, <2>2 DEF ReadPins, Pins
<1>11. CASE at = 8
  <2>1. Pins(sda, "out", 1) /\ On(9, turn) /\ receive' = receive
    BY <1>1, <1>11 DEF Drive, Pins, Apart, ReadPins
  <2>2. Idle' = FALSE /\ Current' = Current /\ at' = 9 /\ turn' = turn /\ pc' = pc
    BY <1>2, <2>1, Stays
  <2> QED BY <1>2, <1>11, <2>1, <2>2 DEF ReadPins, Pins
<1>12. at = 1 \/ at = 2 \/ at = 3 \/ at = 4 \/ at = 5 \/ at = 6 \/ at = 7 \/ at = 8
  <2>1. at \in 1..9 /\ at # 9
    BY <1>1
  <2> QED BY <2>1
<1> QED BY <1>12, <1>3, <1>4, <1>5, <1>6, <1>7, <1>8, <1>9, <1>10, <1>11

\* Where the pins of IIC_Read_Byte() are when it moves them, and what follows.
LEMMA ReadTouches ==
  ASSUME TypeOK, ReadPins, ~Idle, Current.fn = "read", Touch
  PROVE  /\ at \in 1..9 /\ turn \in 1..Width
         /\ UNCHANGED <<program, polls, winner, call, waits, refused>>
         /\ at # 4 => UNCHANGED <<receive, got>>
         /\ at = 1 => Drive(sda, "in", scl) /\ (scl = 1 => High) /\ On(2, turn) /\ turn = 1
         /\ at = 2 => Drive(sda, "in", 0) /\ On(3, turn)
         /\ at = 3 => Drive(sda, "in", 1) /\ On(4, turn) /\ scl = 0
         /\ at = 4 => /\ UNCHANGED <<scl, sda, dir, slave, heard, said>> /\ dir = "in"
                      /\ IF turn < Width
                           THEN /\ On(2, turn + 1) /\ got' = got
                                /\ receive' = Append(receive, Sees)
                           ELSE /\ On(5, turn) /\ receive' = <<>>
                                /\ got' = Append(got, Append(receive, Sees))
         /\ at = 5 => Drive(sda, "in", 0) /\ On(6, turn) /\ scl = 1
         /\ at = 6 => Drive(sda, "out", 0) /\ On(7, turn) /\ scl = 0
         /\ at = 7 => Drive(IF Current.ack THEN 0 ELSE 1, "out", 0) /\ On(8, turn) /\ scl = 0
         /\ at = 8 => /\ Drive(sda, "out", 1) /\ On(9, turn) /\ scl = 0
                      /\ sda = (IF Current.ack THEN 0 ELSE 1)
         /\ at = 9 => Drive(sda, "out", 0) /\ Return /\ scl = 1
<1>1. /\ at \in 1..9 /\ turn \in 1..Width
      /\ at # 4 => Apart
      /\ at = 1 => Drive(sda, "in", scl) /\ On(2, turn)
      /\ at = 2 => Drive(sda, dir, 0) /\ On(3, turn)
      /\ at = 3 => Drive(sda, dir, 1) /\ On(4, turn)
      /\ at = 4 => /\ UNCHANGED <<scl, sda, dir, slave, heard, said, program,
                                  polls, winner, call, waits, refused>>
                   /\ IF turn < Width
                        THEN /\ On(2, turn + 1) /\ got' = got
                             /\ receive' = Append(receive, Sees)
                        ELSE /\ On(5, turn) /\ receive' = <<>>
                             /\ got' = Append(got, Append(receive, Sees))
      /\ at = 5 => Drive(sda, dir, 0) /\ On(6, turn)
      /\ at = 6 => Drive(sda, "out", scl) /\ On(7, turn)
      /\ at = 7 => Drive(IF Current.ack THEN 0 ELSE 1, dir, scl) /\ On(8, turn)
      /\ at = 8 => Drive(sda, dir, 1) /\ On(9, turn)
      /\ at = 9 => Drive(sda, dir, 0) /\ Return
  BY ReadMoves
<1>2. /\ at = 1 => (scl = 1 => High) /\ turn = 1
      /\ at \in {2, 3, 4, 5} => dir = "in"
      /\ at \in {7, 8, 9} => dir = "out"
      /\ at \in {3, 6, 7, 8} => scl = 0
      /\ at \in {5, 9} => scl = 1
      /\ at = 8 => sda = (IF Current.ack THEN 0 ELSE 1)
  BY <1>1 DEF ReadPins
<1> QED BY <1>1, <1>2 DEF Apart

\* IIC_Read_Byte() samples what the slave has put on the line, and tells it
\* whether to go on.
LEMMA ReadStep ==
  ASSUME IInv, ~Idle, Current.fn = "read", Touch, refused = 0
  PROVE  Doing' /\ Steady
<1>1. TypeOK /\ Calls /\ SlaveOK(slave) /\ ReadPins /\ ReadWell
  BY DEF IInv, Doing, InRead
<1>2. /\ at \in 1..9 /\ turn \in 1..Width
      /\ UNCHANGED <<program, polls, winner, call, waits, refused>>
      /\ at # 4 => UNCHANGED <<receive, got>>
      /\ at = 1 => Drive(sda, "in", scl) /\ (scl = 1 => High) /\ On(2, turn) /\ turn = 1
      /\ at = 2 => Drive(sda, "in", 0) /\ On(3, turn)
      /\ at = 3 => Drive(sda, "in", 1) /\ On(4, turn) /\ scl = 0
      /\ at = 4 => /\ UNCHANGED <<scl, sda, dir, slave, heard, said>> /\ dir = "in"
                   /\ IF turn < Width
                        THEN /\ On(2, turn + 1) /\ got' = got
                             /\ receive' = Append(receive, Sees)
                        ELSE /\ On(5, turn) /\ receive' = <<>>
                             /\ got' = Append(got, Append(receive, Sees))
      /\ at = 5 => Drive(sda, "in", 0) /\ On(6, turn) /\ scl = 1
      /\ at = 6 => Drive(sda, "out", 0) /\ On(7, turn) /\ scl = 0
      /\ at = 7 => Drive(IF Current.ack THEN 0 ELSE 1, "out", 0) /\ On(8, turn) /\ scl = 0
      /\ at = 8 => /\ Drive(sda, "out", 1) /\ On(9, turn) /\ scl = 0
                   /\ sda = (IF Current.ack THEN 0 ELSE 1)
      /\ at = 9 => Drive(sda, "out", 0) /\ Return /\ scl = 1
  BY <1>1, ReadTouches
<1>3. UNCHANGED <<program, call, waits, refused>> /\ winner' = winner
  BY <1>2
<1>4. at # 9 => Idle' = FALSE /\ Current' = Current /\ ReadPins'
  BY <1>1, ReadPinsStep
<1>5. ReadWell' /\ at # 9 => Doing'
  BY <1>3, <1>4 DEF Doing, InRead
<1>6. Width \in Nat /\ Width > 1
  BY WidthAssumption
<1>7. CASE at = 1
  <2>1. Drive(sda, "in", 0) /\ On(2, turn) /\ turn = 1 /\ scl = 0
    BY <1>1, <1>2, <1>7 DEF ReadPins, TypeOK, Bit
  <2>2. Pins(sda, "in", 0) /\ UNCHANGED <<slave, heard, said>> /\ Steady
    BY <1>1, <1>3, <2>1, Unnoticed, Settings
  <2>3. ReadWell'
    BY <1>1, <1>2, <1>7, <2>1, <2>2 DEF ReadWell, On, Is, Heard
  <2> QED BY <1>5, <1>7, <2>2, <2>3
<1>8. CASE at = 2
  <2>1. Drive(sda, "in", 0) /\ On(3, turn)
    BY <1>2, <1>8
  <2>2. /\ Pins(sda, "in", 0)
        /\ scl = 1 => Fall
        /\ scl = 0 => UNCHANGED <<slave, heard, said>>
    BY <1>1, <2>1, Drives, Settings
  <2>3. CASE scl = 0
    <3>1. turn = 1 /\ UNCHANGED <<slave, heard, said>>
      BY <1>1, <1>8, <2>2, <2>3 DEF ReadPins
    <3>2. ReadWell'
      BY <1>1, <1>2, <1>8, <2>1, <3>1 DEF ReadWell, On, Is, Heard
    <3> QED BY <1>5, <1>8, <2>2, <3>2 DEF Steady, Pins
  <2>4. CASE scl = 1
    <3>1. turn # 1 /\ Is("send") /\ Len(slave.bits) = turn - 1
      BY <1>1, <1>8, <2>4 DEF ReadPins, ReadWell
    <3>2. Len(slave.bits) < Width /\ Len(slave.bits) # Width
      BY <1>2, <1>6, <3>1
    <3>3. Say(slave.bits) /\ UNCHANGED <<heard, said>>
      BY <2>2, <2>4, <3>1, <3>2 DEF Fall, Is
    <3>4. /\ slave'.mode = "send" /\ Len(slave'.bits) = Len(slave.bits) + 1
          /\ \A i \in 1..Len(slave.bits) : slave'.bits[i] = slave.bits[i]
      BY <1>1, <3>2, <3>3, SayOK, Settings
    <3>5. Len(slave'.bits) = turn /\ \A i \in 1..turn - 1 : slave'.bits[i] = slave.bits[i]
      BY <1>2, <1>6, <3>1, <3>4
    <3>6. ReadWell'
      BY <1>1, <1>2, <1>8, <2>1, <3>3, <3>4, <3>5 DEF ReadWell, On, Is, Heard
    <3> QED BY <1>5, <1>8, <2>2, <3>6 DEF Steady, Pins
  <2> QED BY <1>1, <2>3, <2>4, Settings
<1>9. CASE at = 3
  <2>1. Drive(sda, "in", 1) /\ On(4, turn) /\ scl = 0 /\ Is("send")
    BY <1>1, <1>2, <1>9 DEF ReadWell
  <2>2. Pins(sda, "in", 1) /\ Rise(Line(sda, "in", slave.pull))
    BY <1>1, <2>1, Drives, Settings
  <2>3. UNCHANGED <<slave, heard, said>>
    BY <2>1, <2>2 DEF Rise, Is
  <2>4. ReadWell'
    BY <1>1, <1>2, <1>9, <2>1, <2>3 DEF ReadWell, On, Is, Heard
  <2> QED BY <1>5, <1>9, <2>1, <2>4 DEF Steady
<1>10. CASE at = 4
  <2>1. /\ UNCHANGED <<scl, sda, dir, slave, heard, said>> /\ dir = "in" /\ Is("send")
        /\ Len(slave.bits) = turn /\ got = said /\ Len(receive) = turn - 1
        /\ \A i \in 1..turn - 1 : receive[i] = slave.bits[i]
        /\ receive \in Seq(Bit) /\ slave.bits \in Seq(Bit) /\ turn \in Nat
    BY <1>1, <1>2, <1>6, <1>10 DEF ReadWell, ReadPins, TypeOK
  <2>2. Steady
    BY <1>3, <2>1 DEF Steady, Sees, Line
  <2>3. Sees = slave.bits[turn] /\ Sees \in Bit
    <3>1. slave.pull <=> slave.bits[turn] = 0
      BY <1>1, <2>1 DEF SlaveOK, Is
    <3>2. slave.bits[turn] \in {0, 1}
      BY <1>2, <2>1 DEF Bit
    <3>3. Sees = (IF slave.pull THEN 0 ELSE 1)
      BY <2>1 DEF Sees, Line
    <3> QED BY <3>1, <3>2, <3>3 DEF Bit
  <2> DEFINE s == Append(receive, Sees)
  <2>4. /\ s \in Seq(Bit) /\ Len(s) = turn
        /\ \A i \in 1..turn : s[i] = slave.bits[i]
    <3>1. /\ s \in Seq(Bit) /\ Len(s) = Len(receive) + 1
          /\ \A i \in 1..Len(receive) : s[i] = receive[i]
          /\ s[Len(receive) + 1] = Sees
      BY <2>1, <2>3, Longer
    <3> HIDE DEF s
    <3>2. Len(s) = turn /\ s[turn] = Sees /\ \A i \in 1..turn - 1 : s[i] = receive[i]
      BY <2>1, <3>1
    <3> QED BY <2>1, <2>3, <3>1, <3>2
  <2> HIDE DEF s
  <2>5. CASE turn < Width
    <3>1. On(2, turn + 1) /\ got' = got /\ receive' = s
      BY <1>2, <1>10, <2>5 DEF s
    <3>2. turn' = turn + 1 /\ turn' - 1 = turn /\ turn' # 1
      BY <1>2, <1>6, <3>1 DEF On
    <3>3. \A i \in 1..turn' - 1 : receive'[i] = slave'.bits[i]
      BY <2>1, <2>4, <3>1, <3>2
    <3>4. ReadWell'
      BY <1>1, <2>1, <3>1, <3>2, <3>3, <1>3 DEF ReadWell, On, Is, Heard
    <3> QED BY <1>5, <1>10, <2>2, <3>4
  <2>6. CASE ~(turn < Width)
    <3>1. On(5, turn) /\ got' = Append(got, s) /\ turn = Width
      BY <1>2, <1>6, <1>10, <2>6 DEF s
    <3>2. s = slave.bits
      <4>1. s \in Byte /\ slave.bits \in Byte
        BY <2>1, <2>4, <3>1, BitsByte
      <4> QED BY <2>4, <3>1, <4>1 DEF Byte
    <3>3. ReadWell'
      BY <1>1, <2>1, <3>1, <3>2, <1>3 DEF ReadWell, On, Is, Heard
    <3> QED BY <1>5, <1>10, <2>2, <3>3
  <2> QED BY <2>5, <2>6
<1>11. CASE at = 5
  <2>1. /\ Drive(sda, "in", 0) /\ On(6, turn) /\ scl = 1 /\ Is("send")
        /\ Len(slave.bits) = Width /\ got = Append(said, slave.bits)
    BY <1>1, <1>2, <1>11 DEF ReadWell
  <2>2. Pins(sda, "in", 0) /\ Fall
    BY <1>1, <2>1, Drives, Settings
  <2>3. ~(Len(slave.bits) < Width)
    BY <1>6, <2>1
  <2>4. slave'.mode = "sent" /\ said' = Append(said, slave.bits) /\ heard' = heard
    BY <2>1, <2>2, <2>3 DEF Fall, Is, Becomes
  <2>5. ReadWell'
    BY <1>1, <1>2, <1>11, <2>1, <2>4 DEF ReadWell, On, Is, Heard
  <2> QED BY <1>5, <1>11, <2>2, <2>5 DEF Steady, Pins
<1>12. CASE at = 6
  <2>1. Drive(sda, "out", 0) /\ On(7, turn) /\ scl = 0
    BY <1>2, <1>12
  <2>2. Pins(sda, "out", 0) /\ UNCHANGED <<slave, heard, said>> /\ Steady
    BY <1>1, <1>3, <2>1, Unnoticed, Settings
  <2>3. ReadWell'
    BY <1>1, <1>2, <1>12, <2>1, <2>2 DEF ReadWell, On, Is, Heard
  <2> QED BY <1>5, <1>12, <2>2, <2>3
<1>13. CASE at = 7
  <2>1. Drive(IF Current.ack THEN 0 ELSE 1, "out", 0) /\ On(8, turn) /\ scl = 0
    BY <1>2, <1>13
  <2>2. UNCHANGED <<slave, heard, said>> /\ Steady
    BY <1>1, <1>3, <2>1, Unnoticed, Settings
  <2>3. ReadWell'
    BY <1>1, <1>2, <1>13, <2>1, <2>2 DEF ReadWell, On, Is, Heard
  <2> QED BY <1>5, <1>13, <2>2, <2>3
<1>14. CASE at = 8
  <2>1. /\ Drive(sda, "out", 1) /\ On(9, turn) /\ scl = 0 /\ Is("sent")
        /\ sda = (IF Current.ack THEN 0 ELSE 1)
    BY <1>1, <1>2, <1>14 DEF ReadWell
  <2>2. Rise(Line(sda, "out", slave.pull))
    BY <1>1, <2>1, Drives, Settings
  <2>3. Line(sda, "out", slave.pull) = sda
    BY <1>1, <2>1, Levels, Settings DEF SlaveOK, Is
  <2>4. /\ slave'.mode = (IF Current.ack THEN "more" ELSE "over")
        /\ UNCHANGED <<heard, said>>
    BY <2>1, <2>2, <2>3 DEF Rise, Is, Becomes
  <2>5. ReadWell'
    BY <1>1, <1>2, <1>4, <1>14, <2>1, <2>4 DEF ReadWell, On, Is, Heard
  <2> QED BY <1>5, <1>14, <2>1, <2>5 DEF Steady
<1>15. CASE at = 9
  <2>1. /\ Drive(sda, "out", 0) /\ Return /\ scl = 1 /\ got = said /\ Heard(1)
        /\ IF Current.ack THEN Is("more") ELSE Is("over")
        /\ UNCHANGED <<receive, got>> /\ Len(receive) = 0 /\ receive \in Seq(Bit)
        /\ waits = 1 /\ Len(call) = 1 /\ pc \in 4..Len(program) - 1
    BY <1>1, <1>2, <1>15 DEF ReadWell, ReadPins, TypeOK
  <2>2. Pins(sda, "out", 0) /\ Fall
    BY <1>1, <2>1, Drives, Settings
  <2>3. /\ Idle' = FALSE /\ pc' = pc + 1 /\ at' = 1 /\ turn' = 1
        /\ IF Current.ack THEN pc + 1 \in 4..Len(program) - 1 /\ Current'.fn = "read"
                          ELSE pc + 1 = Len(program) /\ Current'.fn = "stop"
    BY <1>1, <1>3, <2>1, ReadOn
  <2>4. Steady
    BY <2>2 DEF Steady, Pins
  <2>5. CASE Current.ack
    <3>1. Say(<<>>) /\ UNCHANGED <<heard, said>>
      BY <2>1, <2>2, <2>5 DEF Fall, Is
    <3>2. <<>> \in Seq(Bit) /\ Len(<<>>) < Width /\ Len(<<>>) = 0
      BY <1>6
    <3>3. slave'.mode = "send" /\ Len(slave'.bits) = Len(<<>>) + 1
      BY <1>1, <3>1, <3>2, SayOK
    <3>4. ReadPins'
      BY <1>3, <2>1, <2>2, <2>3, <2>5 DEF ReadPins, Pins
    <3>5. ReadWell'
      BY <1>3, <2>1, <2>3, <3>1, <3>2, <3>3 DEF ReadWell, Is, Heard
    <3>6. InRead'
      BY <1>3, <3>4, <3>5 DEF InRead
    <3> QED BY <2>3, <2>4, <2>5, <3>6 DEF Doing
  <2>6. CASE ~Current.ack
    <3>1. slave'.mode = "idle" /\ UNCHANGED <<heard, said>>
      BY <2>1, <2>2, <2>6 DEF Fall, Is, Becomes
    <3>2. InStop'
      BY <1>3, <2>1, <2>2, <2>3, <2>6, <3>1 DEF InStop, Pins, Is, Heard
    <3> QED BY <2>3, <2>4, <2>6, <3>2 DEF Doing
  <2> QED BY <2>5, <2>6
<1> QED BY <1>2, <1>7, <1>8, <1>9, <1>10, <1>11, <1>12, <1>13, <1>14, <1>15

\* After a timeout IIC_Read_Byte() reads from a slave that is idle, or from one
\* that acknowledged too late: it sends one byte, is not told to go on, and
\* becomes idle.
LEMMA ReadLate ==
  ASSUME IInv, ~Idle, Current.fn = "read", Touch, refused # 0
  PROVE  Doing' /\ Steady
<1>1. /\ TypeOK /\ Calls /\ SlaveOK(slave) /\ ReadPins /\ Refused
      /\ Is("idle") \/ Stray
  BY DEF IInv, Doing, InRead
<1>2. /\ at \in 1..9 /\ turn \in 1..Width
      /\ UNCHANGED <<program, polls, winner, call, waits, refused>>
      /\ at # 4 => UNCHANGED <<receive, got>>
      /\ at = 1 => Drive(sda, "in", scl) /\ (scl = 1 => High) /\ On(2, turn) /\ turn = 1
      /\ at = 2 => Drive(sda, "in", 0) /\ On(3, turn)
      /\ at = 3 => Drive(sda, "in", 1) /\ On(4, turn) /\ scl = 0
      /\ at = 4 => /\ UNCHANGED <<scl, sda, dir, slave, heard, said>> /\ dir = "in"
                   /\ IF turn < Width
                        THEN /\ On(2, turn + 1) /\ got' = got
                             /\ receive' = Append(receive, Sees)
                        ELSE /\ On(5, turn) /\ receive' = <<>>
                             /\ got' = Append(got, Append(receive, Sees))
      /\ at = 5 => Drive(sda, "in", 0) /\ On(6, turn) /\ scl = 1
      /\ at = 6 => Drive(sda, "out", 0) /\ On(7, turn) /\ scl = 0
      /\ at = 7 => Drive(IF Current.ack THEN 0 ELSE 1, "out", 0) /\ On(8, turn) /\ scl = 0
      /\ at = 8 => /\ Drive(sda, "out", 1) /\ On(9, turn) /\ scl = 0
                   /\ sda = (IF Current.ack THEN 0 ELSE 1)
      /\ at = 9 => Drive(sda, "out", 0) /\ Return /\ scl = 1
  BY <1>1, ReadTouches
<1>3. UNCHANGED <<program, call, waits, refused>> /\ winner' = winner
  BY <1>2
<1>4. at # 9 => Idle' = FALSE /\ Current' = Current /\ ReadPins'
  BY <1>1, ReadPinsStep
<1>5. Width \in Nat /\ Width > 1
  BY WidthAssumption
<1>6. heard' = heard => Refused'
  BY <1>1, <1>3 DEF Refused, Heard
<1>7. heard' = heard /\ (slave'.mode = "idle" \/ Stray') /\ at # 9 => Doing'
  BY <1>3, <1>4, <1>6 DEF Doing, InRead, Is
<1>8. CASE at = 1
  <2>1. /\ Drive(sda, "in", scl) /\ On(2, turn) /\ turn = 1
        /\ Is("idle") \/ (/\ Is("send") /\ Len(slave.bits) = 1 /\ slave.pull
                          /\ winner = "slave" /\ High /\ pc = 4)
        /\ scl = 1 => High
    BY <1>1, <1>2, <1>8 DEF Stray
  <2>2. scl = 0 \/ (scl = 1 /\ Line(sda, "in", slave.pull) = Sees)
    <3>1. CASE scl = 1 /\ ~slave.pull
      <4>1. Sees = 1
        BY <1>1, <2>1, <3>1, Levels, Settings DEF Sees, High
      <4> QED BY <1>1, <3>1, <4>1, Levels, Settings
    <3>2. CASE scl = 1 /\ slave.pull
      <4>1. winner = "slave" /\ dir = "out"
        BY <1>1, <2>1, <3>2 DEF SlaveOK, Is, High
      <4>2. Sees = 0
        BY <1>1, <3>2, <4>1, Levels, Settings DEF Sees
      <4> QED BY <1>1, <3>2, <4>2, Levels, Settings
    <3> QED BY <1>1, <3>1, <3>2, Settings DEF SlaveOK
  <2>3. Pins(sda, "in", scl) /\ UNCHANGED <<slave, heard, said>> /\ Steady
    BY <1>1, <1>3, <2>1, <2>2, Unnoticed, Settings
  <2>4. slave'.mode = "idle" \/ Stray'
    BY <2>1, <2>3 DEF Stray, Is, On, High, Pins
  <2> QED BY <1>7, <1>8, <2>3, <2>4
<1>9. CASE at = 2
  <2>1. /\ Drive(sda, "in", 0) /\ On(3, turn)
        /\ Is("idle") \/ (Is("send") /\ Len(slave.bits) = turn /\ scl = 1 /\ pc = 4)
    BY <1>1, <1>2, <1>9 DEF Stray
  <2>2. /\ Pins(sda, "in", 0)
        /\ scl = 1 => Fall
        /\ scl = 0 => UNCHANGED <<slave, heard, said>>
    BY <1>1, <2>1, Drives, Settings
  <2>3. CASE Is("idle")
    <3>1. UNCHANGED <<slave, heard>>
      BY <1>1, <2>2, <2>3, Settings DEF Fall, Is
    <3> QED BY <1>7, <1>9, <2>2, <2>3, <3>1 DEF Steady, Pins, Is
  <2>4. CASE Is("send") /\ Len(slave.bits) = turn /\ scl = 1 /\ pc = 4 /\ turn < Width
    <3>1. Len(slave.bits) # Width /\ Len(slave.bits) < Width
      BY <1>2, <1>5, <2>4
    <3>2. Say(slave.bits) /\ heard' = heard
      BY <2>2, <2>4, <3>1 DEF Fall, Is
    <3>3. slave'.mode = "send" /\ Len(slave'.bits) = Len(slave.bits) + 1
      BY <1>1, <3>1, <3>2, SayOK, Settings
    <3>4. Stray'
      BY <2>1, <2>4, <3>3 DEF Stray, Is, On
    <3> QED BY <1>7, <1>9, <2>2, <3>2, <3>4 DEF Steady, Pins
  <2>5. CASE Is("send") /\ Len(slave.bits) = turn /\ scl = 1 /\ pc = 4 /\ turn = Width
    <3>1. ~(Len(slave.bits) < Width)
      BY <1>5, <2>5
    <3>2. slave'.mode = "sent" /\ heard' = heard
      BY <2>2, <2>5, <3>1 DEF Fall, Is, Becomes
    <3>3. Stray'
      BY <2>1, <2>5, <3>2 DEF Stray, Is, On
    <3> QED BY <1>7, <1>9, <2>2, <3>2, <3>3 DEF Steady, Pins
  <2> QED BY <1>2, <1>5, <2>1, <2>3, <2>4, <2>5
<1>10. CASE at = 3
  <2>1. /\ Drive(sda, "in", 1) /\ On(4, turn) /\ scl = 0
        /\ \/ Is("idle")
           \/ Is("send") /\ Len(slave.bits) = turn + 1 /\ pc = 4
           \/ Is("sent") /\ turn = Width /\ pc = 4
    BY <1>1, <1>2, <1>10 DEF Stray
  <2>2. Pins(sda, "in", 1) /\ Rise(Line(sda, "in", slave.pull))
    BY <1>1, <2>1, Drives, Settings
  <2>3. heard' = heard
    BY <2>2 DEF Rise
  <2>4. CASE Is("idle") \/ Is("send")
    <3>1. slave' = slave
      BY <2>2, <2>4 DEF Rise, Is
    <3>2. slave'.mode = "idle" \/ Stray'
      BY <2>1, <2>4, <3>1 DEF Stray, Is, On
    <3> QED BY <1>7, <1>10, <2>1, <2>3, <3>2 DEF Steady
  <2>5. CASE Is("sent")
    <3>1. Line(sda, "in", slave.pull) = 1
      BY <1>1, <2>5, Levels, Settings DEF SlaveOK, Is
    <3>2. slave'.mode = "over"
      BY <2>2, <2>5, <3>1 DEF Rise, Is, Becomes
    <3>3. Stray'
      BY <2>1, <2>5, <3>2 DEF Stray, Is, On
    <3> QED BY <1>7, <1>10, <2>1, <2>3, <3>3 DEF Steady
  <2> QED BY <2>1, <2>4, <2>5
<1>11. CASE at = 4
  <2>1. /\ UNCHANGED <<scl, sda, dir, slave, heard, said>>
        /\ IF turn < Width THEN On(2, turn + 1) ELSE On(5, turn)
        /\ scl = 1
        /\ \/ Is("idle")
           \/ Is("send") /\ Len(slave.bits) = turn + 1 /\ pc = 4
           \/ Is("over") /\ turn = Width /\ pc = 4
    BY <1>1, <1>2, <1>11 DEF Stray, ReadPins
  <2>2. Steady
    BY <1>3, <2>1 DEF Steady, Sees, Line
  <2>3. Len(slave.bits) \in Nat /\ Len(slave.bits) <= Width
    BY <1>1 DEF SlaveOK
  <2>4. slave'.mode = "idle" \/ Stray'
    <3>1. CASE Is("idle")
      BY <2>1, <3>1 DEF Is
    <3>2. CASE Is("send") /\ Len(slave.bits) = turn + 1 /\ pc = 4
      <4>1. turn < Width
        BY <1>2, <1>5, <2>3, <3>2
      <4> QED BY <2>1, <3>2, <4>1 DEF Stray, Is, On
    <3>3. CASE Is("over") /\ turn = Width /\ pc = 4
      <4>1. ~(turn < Width)
        BY <1>5, <3>3
      <4> QED BY <2>1, <3>3, <4>1 DEF Stray, Is, On
    <3> QED BY <2>1, <3>1, <3>2, <3>3
  <2> QED BY <1>7, <1>11, <2>1, <2>2, <2>4
<1>12. CASE at = 5
  <2>1. Drive(sda, "in", 0) /\ On(6, turn) /\ scl = 1 /\ (Is("idle") \/ Is("over"))
    BY <1>1, <1>2, <1>12 DEF Stray
  <2>2. Pins(sda, "in", 0) /\ Fall
    BY <1>1, <2>1, Drives, Settings
  <2>3. slave'.mode = "idle" /\ heard' = heard
    BY <2>1, <2>2 DEF Fall, Is, Becomes
  <2> QED BY <1>7, <1>12, <2>2, <2>3 DEF Steady, Pins
<1>13. CASE at \in {6, 7}
  <2>1. /\ Drive(IF at = 6 THEN sda ELSE IF Current.ack THEN 0 ELSE 1, "out", 0)
        /\ scl = 0 /\ Is("idle")
    BY <1>1, <1>2, <1>13 DEF Stray
  <2>2. UNCHANGED <<slave, heard, said>> /\ Steady
    BY <1>1, <1>3, <2>1, Unnoticed, Settings
  <2> QED BY <1>7, <1>13, <2>1, <2>2 DEF Is
<1>14. CASE at = 8
  <2>1. Drive(sda, "out", 1) /\ scl = 0 /\ Is("idle")
    BY <1>1, <1>2, <1>14 DEF Stray
  <2>2. Rise(Line(sda, "out", slave.pull))
    BY <1>1, <2>1, Drives, Settings
  <2>3. UNCHANGED <<slave, heard>>
    BY <2>1, <2>2 DEF Rise, Is
  <2> QED BY <1>7, <1>14, <2>1, <2>3 DEF Steady, Is
<1>15. CASE at = 9
  <2>1. /\ Drive(sda, "out", 0) /\ Return /\ scl = 1 /\ Is("idle")
        /\ receive' = receive /\ Len(receive) = 0 /\ receive \in Seq(Bit)
        /\ waits = 1 /\ Len(call) = 1 /\ pc \in 4..Len(program) - 1
    BY <1>1, <1>2, <1>15 DEF Stray, ReadPins, TypeOK
  <2>2. Pins(sda, "out", 0) /\ Fall
    BY <1>1, <2>1, Drives, Settings
  <2>3. UNCHANGED <<slave, heard, said>>
    BY <2>1, <2>2 DEF Fall, Is
  <2>4. /\ Idle' = FALSE /\ pc' = pc + 1 /\ at' = 1 /\ turn' = 1
        /\ IF Current.ack THEN pc + 1 \in 4..Len(program) - 1 /\ Current'.fn = "read"
                          ELSE pc + 1 = Len(program) /\ Current'.fn = "stop"
    BY <1>1, <1>3, <2>1, ReadOn
  <2>5. Steady
    BY <2>2 DEF Steady, Pins
  <2>6. CASE Current.ack
    <3>1. ReadPins'
      BY <1>3, <2>1, <2>2, <2>4, <2>6 DEF ReadPins, Pins
    <3>2. InRead'
      BY <1>3, <1>6, <2>1, <2>3, <3>1 DEF InRead, Is
    <3> QED BY <2>4, <2>5, <2>6, <3>2 DEF Doing
  <2>7. CASE ~Current.ack
    <3>1. InStop'
      BY <1>3, <1>6, <2>1, <2>2, <2>3, <2>4, <2>7 DEF InStop, Pins, Is
    <3> QED BY <2>4, <2>5, <2>7, <3>1 DEF Doing
  <2> QED BY <2>6, <2>7
<1> QED BY <1>2, <1>8, <1>9, <1>10, <1>11, <1>12, <1>13, <1>14, <1>15

\* IIC_Stop() finds a slave that has been told to stop, or one that waits for
\* the next byte, and leaves it idle with both lines high.
LEMMA StopStep ==
  ASSUME IInv, ~Idle, Current.fn = "stop", Touch
  PROVE  Doing' /\ Steady
<1>1. TypeOK /\ Calls /\ SlaveOK(slave) /\ InStop
  BY DEF IInv, Doing
<1>2. /\ Apart /\ at \in 1..5
      /\ at = 1 => Drive(sda, "out", scl) /\ On(2, turn)
      /\ at = 2 => Drive(sda, dir, 0) /\ On(3, turn)
      /\ at = 3 => Drive(0, dir, scl) /\ On(4, turn)
      /\ at = 4 => Drive(sda, dir, 1) /\ On(5, turn)
      /\ at = 5 => Drive(1, dir, scl) /\ Return /\ Access.op = "edge"
  BY <1>1, StopMoves
<1>3. UNCHANGED <<receive, got, program, winner, call, waits, refused>>
  BY <1>2 DEF Apart
<1>4. CASE at = 1
  <2>1. Drive(sda, "out", scl) /\ On(2, turn)
    BY <1>2, <1>4
  <2>2. scl = 0 \/ (scl = 1 /\ Line(sda, "out", slave.pull) = Sees)
    BY <1>1, <1>4 DEF InStop, High, Sees
  <2>3. Pins(sda, "out", scl) /\ UNCHANGED <<slave, heard, said>> /\ Steady
    BY <1>1, <1>3, <2>1, <2>2, Unnoticed, Settings
  <2>4. Idle' = FALSE /\ Current' = Current /\ at' = 2 /\ turn' = turn /\ pc' = pc
    BY <1>1, <1>3, <2>1, Stays
  <2>5. InStop'
    BY <1>1, <1>3, <1>4, <2>3, <2>4 DEF InStop, Pins, Is, Heard, High, Refused
  <2> QED BY <2>3, <2>4, <2>5 DEF Doing
<1>5. CASE at = 2
  <2>1. /\ Drive(sda, "out", 0) /\ On(3, turn)
        /\ scl = 1 => Is("idle")
    BY <1>1, <1>2, <1>5 DEF InStop
  <2>2. /\ Pins(sda, "out", 0)
        /\ scl = 1 => Fall
        /\ scl = 0 => UNCHANGED <<slave, heard, said>>
    BY <1>1, <2>1, Drives, Settings
  <2>3. UNCHANGED <<slave, heard, said>>
    BY <1>1, <2>1, <2>2, Settings DEF Fall, Is
  <2>4. Idle' = FALSE /\ Current' = Current /\ at' = 3 /\ turn' = turn /\ pc' = pc
    BY <1>1, <1>3, <2>1, Stays
  <2>5. InStop'
    BY <1>1, <1>3, <1>5, <2>2, <2>3, <2>4 DEF InStop, Pins, Is, Heard, Refused
  <2> QED BY <2>2, <2>4, <2>5 DEF Doing, Steady, Pins
<1>6. CASE at = 3
  <2>1. Drive(0, "out", 0) /\ On(4, turn) /\ scl = 0
    BY <1>1, <1>2, <1>6 DEF InStop
  <2>2. Pins(0, "out", 0) /\ UNCHANGED <<slave, heard, said>> /\ Steady
    BY <1>1, <1>3, <2>1, Unnoticed, Settings
  <2>3. Idle' = FALSE /\ Current' = Current /\ at' = 4 /\ turn' = turn /\ pc' = pc
    BY <1>1, <1>3, <2>1, Stays
  <2>4. InStop'
    BY <1>1, <1>3, <1>6, <2>2, <2>3 DEF InStop, Pins, Is, Heard, Refused
  <2> QED BY <2>2, <2>3, <2>4 DEF Doing
<1>7. CASE at = 4
  <2>1. Drive(0, "out", 1) /\ On(5, turn) /\ scl = 0 /\ (Is("byte") \/ Is("idle"))
    BY <1>1, <1>2, <1>7 DEF InStop
  <2>2. Pins(0, "out", 1) /\ Rise(Line(0, "out", slave.pull))
    BY <1>1, <2>1, Drives, Settings
  <2>3. slave'.mode = slave.mode /\ UNCHANGED <<heard, said>>
    BY <2>1, <2>2 DEF Rise, Is, Becomes
  <2>4. Idle' = FALSE /\ Current' = Current /\ at' = 5 /\ turn' = turn /\ pc' = pc
    BY <1>1, <1>3, <2>1, Stays
  <2>5. InStop'
    BY <1>1, <1>3, <1>7, <2>2, <2>3, <2>4 DEF InStop, Pins, Is, Heard, Refused
  <2> QED BY <2>1, <2>4, <2>5 DEF Doing, Steady
<1>8. CASE at = 5
  <2>1. /\ Drive(1, "out", 1) /\ Return /\ scl = 1 /\ sda = 0 /\ dir = "out"
        /\ Is("byte") \/ Is("idle")
        /\ pc = Len(program) /\ Access.op = "edge"
    BY <1>1, <1>2, <1>8 DEF InStop
  <2>2. ~slave.pull
    BY <1>1, <2>1 DEF SlaveOK, Is
  <2>3. Sees = 0 /\ Line(1, "out", slave.pull) = 1
    BY <1>1, <2>1, <2>2, Levels, Settings DEF Sees
  <2>4. Pins(1, "out", 1) /\ Condition(1)
    BY <1>1, <2>1, <2>3, Drives, Settings
  <2>5. slave'.mode = "idle" /\ UNCHANGED <<heard, said>>
    BY <2>4 DEF Condition, Becomes
  <2>6. Idle'
    BY <1>1, <1>3, <2>1, Ends
  <2>7. Resting'
    BY <1>1, <1>3, <2>4, <2>5 DEF InStop, Resting, Pins, High, Is, Heard, Refused
  <2> QED BY <2>1, <2>6, <2>7 DEF Doing, Steady
<1> QED BY <1>2, <1>4, <1>5, <1>6, <1>7, <1>8

-----------------------------------------------------------------------------
\* Every access to the pins keeps the invariant.
LEMMA TouchStep ==
  ASSUME IInv, Touch
  PROVE  IInv' /\ Steady
<1>1. ~Idle /\ TypeOK /\ Calls /\ SlaveOK(slave) /\ Doing
  BY DEF IInv, Touch
<1>2. Doing' /\ Steady
  <2>1. Current.fn \in {"start", "wait", "stop", "send", "read"}
    BY <1>1, Place
  <2> QED BY <1>1, <2>1, StartStep, SendStep, WaitStep, ReadStep, ReadLate, StopStep
<1>3. Calls'
  BY <1>1 DEF Touch, Calls
<1>4. TypeOK' /\ SlaveOK(slave)'
  BY <1>1, TouchOK
<1> QED BY <1>2, <1>3, <1>4 DEF IInv

\* IIC_Wait_Ack() polls at its fourth access, with the clock high.
LEMMA PollingAt ==
  ASSUME IInv, Polling
  PROVE  /\ TypeOK /\ Calls /\ SlaveOK(slave) /\ InWait /\ ~Idle
         /\ Current.fn = "wait" /\ at = 4 /\ Len(Accesses(Current)) = 10
         /\ scl = 1 /\ dir = "in" /\ sda = 1
         /\ waits \in 0..Len(call) - 1 /\ Len(call) \in {1, 3}
         /\ Sees = (IF slave.pull THEN 0 ELSE 1)
<1>1. TypeOK /\ Calls /\ SlaveOK(slave) /\ Doing /\ ~Idle /\ Access.op = "poll"
  BY DEF IInv, Polling
<1>2. /\ Current.fn \in {"start", "wait", "stop", "send", "read"}
      /\ at \in 1..Len(Accesses(Current))
  BY <1>1, Place
<1>3. CASE Current.fn = "start"
  <2>1. Accesses(Current) = <<Out, Sda(1), Scl(1), Edge(0), Scl(0)>>
    BY <1>3, Scripts
  <2> QED BY <1>1, <1>2, <2>1 DEF Access, Out, Sda, Scl, Edge, Do
<1>4. CASE Current.fn = "stop"
  <2>1. Accesses(Current) = <<Out, Scl(0), Sda(0), Scl(1), Edge(1)>>
    BY <1>4, Scripts
  <2> QED BY <1>1, <1>2, <2>1 DEF Access, Out, Sda, Scl, Edge, Do
<1>5. CASE Current.fn = "send"
  <2>1. Accesses(Current) = <<Out, Scl(0), Sda(Current.byte[turn]), Scl(1), Scl(0)>>
    BY <1>5, Scripts
  <2> QED BY <1>1, <1>2, <2>1 DEF Access, Out, Sda, Scl, Do
<1>6. CASE Current.fn = "read"
  <2> DEFINE v == IF Current.ack THEN 0 ELSE 1
  <2>1. /\ Len(Accesses(Current)) = 9
        /\ at = 1 => Access = In
        /\ at = 2 => Access = Scl(0)
        /\ at = 3 => Access = Scl(1)
        /\ at = 4 => Access = Sample
        /\ at = 5 => Access = Scl(0)
        /\ at = 6 => Access = Out
        /\ at = 7 => Access = Sda(v)
        /\ at = 8 => Access = Scl(1)
        /\ at = 9 => Access = Scl(0)
    BY <1>6, Scripts DEF Access
  <2>2. at \in 1..9
    BY <1>2, <2>1
  <2> HIDE DEF v
  <2> QED BY <1>1, <2>1, <2>2 DEF Out, In, Sda, Scl, Sample, Do
<1>7. CASE Current.fn = "wait"
  <2>1. /\ Len(Accesses(Current)) = 10
        /\ at = 1 => Access = In
        /\ at = 2 => Access = Sda(1)
        /\ at = 3 => Access = Scl(1)
        /\ at = 5 => Access = Scl(0)
        /\ at = 6 => Access = Out
        /\ at = 7 => Access = Scl(0)
        /\ at = 8 => Access = Sda(0)
        /\ at = 9 => Access = Scl(1)
        /\ at = 10 => Access = Edge(1)
    BY <1>7, Scripts DEF Access
  <2>2. at \in 1..10
    BY <1>2, <2>1
  <2>3. at = 4
    BY <1>1, <2>1, <2>2 DEF Out, In, Sda, Scl, Edge, Do
  <2>4. InWait
    BY <1>1, <1>7 DEF Doing
  <2>5. scl = 1 /\ dir = "in" /\ sda = 1 /\ waits < Len(call) /\ waits \in Nat
    BY <1>1, <2>3, <2>4 DEF InWait, TypeOK
  <2>6. program # <<>> /\ Len(call) \in {1, 3}
    BY <1>1, Course, Place
  <2>7. Sees = (IF slave.pull THEN 0 ELSE 1)
    BY <2>5 DEF Sees, Line
  <2> QED BY <1>1, <1>7, <2>1, <2>3, <2>4, <2>5, <2>6, <2>7
<1> QED BY <1>2, <1>3, <1>4, <1>5, <1>6, <1>7

\* An acknowledgement in time is one of the byte that was sent.
LEMMA AcknowledgedStep ==
  ASSUME IInv, Acknowledged
  PROVE  IInv' /\ Steady
<1>1. /\ TypeOK /\ Calls /\ SlaveOK(slave) /\ InWait /\ ~Idle
      /\ Current.fn = "wait" /\ at = 4 /\ Len(Accesses(Current)) = 10
      /\ scl = 1 /\ dir = "in" /\ sda = 1
      /\ waits \in 0..Len(call) - 1 /\ Len(call) \in {1, 3}
      /\ Sees = (IF slave.pull THEN 0 ELSE 1)
  BY PollingAt DEF Acknowledged
<1>2. /\ Sees = 0 /\ Advance /\ polls' = 0 /\ waits' = waits + 1
      /\ UNCHANGED <<program, scl, sda, dir, slave, winner, heard, said, receive,
                     call, refused, got>>
  BY DEF Acknowledged, pins, line
<1>3. ~Again /\ ~Returns
  BY <1>1 DEF Again, Returns
<1>4. On(5, turn)
  BY <1>1, <1>2, <1>3 DEF Advance, On
<1>5. Idle' = FALSE /\ Current' = Current /\ at' = 5 /\ turn' = turn /\ pc' = pc
  BY <1>1, <1>2, <1>4, Stays
<1>6. slave.pull
  BY <1>1, <1>2
<1>7. /\ refused = 0 /\ Is("ack") /\ got = <<>> /\ said = <<>>
      /\ Has(call[waits + 1], Width) /\ Heard(waits) /\ pc = 2 * waits + 3
      /\ turn = 1 /\ receive = <<>>
  BY <1>1, <1>6 DEF InWait, SlaveOK, Is
<1>8. /\ waits' \in 1..Len(call) /\ pc = 2 * waits' + 1 /\ waits' - 1 = waits
      /\ waits' \in 0..3
  BY <1>1, <1>2, <1>7
<1>9. InWait'
  BY <1>1, <1>2, <1>5, <1>6, <1>7, <1>8 DEF InWait, Is, Has, Heard
<1>10. Doing'
  BY <1>1, <1>5, <1>9 DEF Doing
<1>11. Placed'
  BY <1>1, <1>2, AdvanceOK
<1>12. TypeOK' /\ SlaveOK(slave)'
  BY <1>1, <1>2, <1>8, <1>11, MaxPollAssumption DEF TypeOK, Placed, SlaveOK
<1>13. Calls'
  BY <1>1, <1>2 DEF Calls
<1>14. Steady
  BY <1>1, <1>2 DEF Steady, Sees, Line
<1> QED BY <1>10, <1>12, <1>13, <1>14 DEF IInv

\* Polling again changes nothing but the count.
LEMMA PollAgainStep ==
  ASSUME IInv, PollAgain
  PROVE  IInv' /\ Steady
<1>1. /\ UNCHANGED <<program, pc, at, turn, scl, sda, dir, slave, winner, heard, said,
                     receive, call, waits, refused, got>>
      /\ polls < MaxPoll /\ polls' = polls + 1 /\ Polling
  BY DEF PollAgain, place, pins, line
<1>2. TypeOK /\ Calls /\ SlaveOK(slave) /\ InWait /\ ~Idle /\ Current.fn = "wait"
  BY <1>1, PollingAt
<1>3. Idle' = FALSE /\ Current' = Current
  BY <1>1, <1>2 DEF Idle, Current
<1>4. Doing'
  <2>1. InWait'
    BY <1>1, <1>2, <1>3 DEF InWait, Is, Has, Heard, Refused
  <2> QED BY <1>2, <1>3, <2>1 DEF Doing
<1>5. Placed'
  <2>1. Placed
    BY <1>2 DEF TypeOK, Placed
  <2>2. Accesses(Current)' = Accesses(Current)
    BY <1>1, <1>2, <1>3 DEF Accesses
  <2> QED BY <1>1, <1>2, <1>3, <2>1, <2>2 DEF Placed
<1>6. TypeOK' /\ SlaveOK(slave)'
  BY <1>1, <1>2, <1>5, MaxPollAssumption DEF TypeOK, Placed, SlaveOK
<1>7. Calls'
  BY <1>1, <1>2 DEF Calls
<1>8. Steady
  BY <1>1 DEF Steady, Sees, Line
<1> QED BY <1>4, <1>6, <1>7, <1>8 DEF IInv

\* The timeout is the refusal of the byte that was sent, or comes after one.
LEMMA TimedOutStep ==
  ASSUME IInv, TimedOut
  PROVE  IInv' /\ Steady
<1>1. /\ TypeOK /\ Calls /\ SlaveOK(slave) /\ InWait /\ ~Idle
      /\ Current.fn = "wait" /\ at = 4 /\ Len(Accesses(Current)) = 10
      /\ scl = 1 /\ dir = "in" /\ sda = 1
      /\ waits \in 0..Len(call) - 1 /\ Len(call) \in {1, 3}
      /\ Sees = (IF slave.pull THEN 0 ELSE 1)
  BY PollingAt DEF TimedOut
<1>2. /\ Sees = 1 /\ at' = 6 /\ pc' = pc /\ turn' = turn /\ polls' = 0 /\ waits' = waits + 1
      /\ refused' = (IF refused = 0 THEN waits + 1 ELSE refused)
      /\ UNCHANGED <<program, scl, sda, dir, slave, winner, heard, said, receive,
                     call, got>>
  BY <1>1 DEF TimedOut, pins, line
<1>3. Idle' = FALSE /\ Current' = Current
  BY <1>1, <1>2 DEF Idle, Current
<1>4. /\ pc = 2 * waits + 3 /\ turn = 1 /\ receive = <<>>
      /\ refused = 0 => Is("ack") /\ Has(call[waits + 1], Width) /\ Heard(waits)
      /\ refused # 0 => Refused /\ Is("idle")
      /\ refused \in 0..3 /\ waits \in Nat
  BY <1>1 DEF InWait, TypeOK
<1>5. /\ waits' \in 1..Len(call) /\ pc = 2 * waits' + 1 /\ waits' - 1 = waits
      /\ waits' \in 0..3 /\ waits' \in Nat
  BY <1>1, <1>2, <1>4
<1>6. refused' \in 1..waits' /\ refused' # 0 /\ refused' \in 0..3
  BY <1>2, <1>4, <1>5 DEF Refused
<1>7. refused = 0 => /\ Refused' /\ waits' = refused' /\ (Is("ack"))'
                     /\ Has(call[waits], Width)' /\ Heard(refused - 1)'
  BY <1>2, <1>4, <1>5, <1>6 DEF Refused, Is, Has, Heard
<1>8. refused # 0 => Refused' /\ Is("idle")'
  BY <1>2, <1>4, <1>5, <1>6 DEF Refused, Is, Heard
<1>9. InWait'
  BY <1>1, <1>2, <1>4, <1>5, <1>6, <1>7, <1>8 DEF InWait
<1>10. Doing'
  BY <1>1, <1>3, <1>9 DEF Doing
<1>11. Placed'
  <2>1. Len(Accesses(Current))' = 10
    BY <1>1, <1>3, Lengths DEF Accesses
  <2> QED BY <1>1, <1>2, <1>3, <2>1 DEF Placed, TypeOK
<1>12. TypeOK' /\ SlaveOK(slave)'
  BY <1>1, <1>2, <1>5, <1>6, <1>11, MaxPollAssumption DEF TypeOK, Placed, SlaveOK
<1>13. Calls'
  BY <1>1, <1>2 DEF Calls
<1>14. Steady
  BY <1>1, <1>2 DEF Steady, Sees, Line
<1> QED BY <1>10, <1>12, <1>13, <1>14 DEF IInv

\* A late acknowledgement comes while the master waits for one, or gives up.
LEMMA AckLateStep ==
  ASSUME IInv, AckLate
  PROVE  IInv'
<1>1. TypeOK /\ Calls /\ SlaveOK(slave) /\ Doing /\ Is("ack") /\ ~slave.pull
  BY DEF IInv, AckLate, Is
<1>2. /\ UNCHANGED <<program, pc, at, turn, scl, sda, dir, polls, receive, call, waits,
                     refused, got, winner, heard, said>>
      /\ slave' = [slave EXCEPT !.pull = TRUE]
  BY DEF AckLate, master, place, pins
<1>3. slave'.mode = "ack" /\ slave'.bits = slave.bits /\ slave'.pull = TRUE
  BY <1>1, <1>2 DEF SlaveOK, Is
<1>4. ~Idle /\ Current.fn = "wait" /\ InWait
  <2>1. ~Idle
    BY <1>1 DEF Doing, Resting, Is
  <2>2. Current.fn \in {"start", "wait", "stop", "send", "read"}
    BY <1>1, <2>1, Place
  <2>3. Current.fn # "start"
    BY <1>1, <2>1 DEF Doing, InStart, Is
  <2>4. Current.fn # "send"
    BY <1>1, <2>1 DEF Doing, InSend, Is
  <2>5. Current.fn # "stop"
    BY <1>1, <2>1 DEF Doing, InStop, Is
  <2>6. Current.fn # "read"
    <3> SUFFICES ASSUME Current.fn = "read" PROVE FALSE
      OBVIOUS
    <3>1. InRead /\ at \in 1..Len(Accesses(Current)) /\ Len(Accesses(Current)) = 9
      BY <1>1, <2>1, Place, Scripts DEF Doing
    <3>2. CASE refused = 0
      BY <1>1, <3>1, <3>2 DEF InRead, ReadWell, Is
    <3>3. CASE refused # 0
      BY <1>1, <3>1, <3>3 DEF InRead, Stray, Is
    <3> QED BY <3>2, <3>3
  <2> QED BY <1>1, <2>1, <2>2, <2>3, <2>4, <2>5, <2>6 DEF Doing
<1>5. Idle' = FALSE /\ Current' = Current
  BY <1>2, <1>4 DEF Idle, Current
<1>6. InWait'
  BY <1>1, <1>2, <1>3, <1>4 DEF InWait, Is, Has, Heard, Refused
<1>7. Doing'
  BY <1>4, <1>5, <1>6 DEF Doing
<1>8. Placed'
  <2>1. Placed
    BY <1>1 DEF TypeOK, Placed
  <2>2. Accesses(Current)' = Accesses(Current)
    BY <1>2, <1>4, <1>5 DEF Accesses
  <2> QED BY <1>2, <1>4, <1>5, <2>1, <2>2 DEF Placed
<1>9. SlaveOK(slave)' /\ slave' \in [mode : Modes, bits : Seq(Bit), pull : BOOLEAN]
  BY <1>1, <1>2, <1>3 DEF SlaveOK, Is
<1>10. TypeOK'
  BY <1>1, <1>2, <1>3, <1>8, <1>9 DEF TypeOK, Placed
<1>11. Calls'
  BY <1>1, <1>2 DEF Calls
<1> QED BY <1>7, <1>9, <1>10, <1>11 DEF IInv

-----------------------------------------------------------------------------
\* What the calls go through are functions of iic.c.
LEMMA Programs ==
  /\ \A a, r, d \in Byte : /\ WriteOneByte(a, r, d) \in Seq(Functions)
                           /\ Len(WriteOneByte(a, r, d)) = 8
                           /\ WriteOneByte(a, r, d)[1] = Plain("start")
  /\ \A a \in Byte, n \in 1..MaxRead : /\ ReadBytes(a, n) \in Seq(Functions)
                                       /\ Len(ReadBytes(a, n)) = n + 4
                                       /\ ReadBytes(a, n)[1] = Plain("start")
<1>1. /\ \A f \in {"start", "wait", "stop"} : Plain(f) \in Functions
      /\ \A b \in Byte : Send(b) \in Functions
      /\ \A ack \in BOOLEAN : Read(ack) \in Functions
  BY DEF Functions
<1>2. ASSUME NEW a \in Byte, NEW r \in Byte, NEW d \in Byte
      PROVE  /\ WriteOneByte(a, r, d) \in Seq(Functions)
             /\ Len(WriteOneByte(a, r, d)) = 8
             /\ WriteOneByte(a, r, d)[1] = Plain("start")
  <2>1. /\ Plain("start") \in Functions /\ Plain("wait") \in Functions
        /\ Plain("stop") \in Functions
        /\ Send(a) \in Functions /\ Send(r) \in Functions /\ Send(d) \in Functions
    BY <1>1
  <2> QED BY <2>1 DEF WriteOneByte
<1>3. ASSUME NEW a \in Byte, NEW n \in 1..MaxRead
      PROVE  /\ ReadBytes(a, n) \in Seq(Functions)
             /\ Len(ReadBytes(a, n)) = n + 4
             /\ ReadBytes(a, n)[1] = Plain("start")
  <2> DEFINE before == <<Plain("start"), Send(a), Plain("wait")>>
             reads  == [i \in 1..n |-> Read(i < n)]
             after  == <<Plain("stop")>>
  <2>1. n \in Nat /\ n >= 1
    BY MaxReadAssumption
  <2>2. /\ Plain("start") \in Functions /\ Plain("wait") \in Functions
        /\ Plain("stop") \in Functions /\ Send(a) \in Functions
    BY <1>1
  <2>3. /\ before \in Seq(Functions) /\ after \in Seq(Functions)
        /\ Len(before) = 3 /\ Len(after) = 1 /\ before[1] = Plain("start")
    BY <2>2
  <2>4. reads \in Seq(Functions) /\ Len(reads) = n
    <3>1. \A i \in 1..n : Read(i < n) \in Functions
      <4> TAKE i \in 1..n
      <4>1. (i < n) \in BOOLEAN
        OBVIOUS
      <4> QED BY <1>1, <4>1
    <3>2. reads \in [1..n -> Functions]
      BY <3>1
    <3> HIDE DEF reads
    <3> QED BY <2>1, <3>2
  <2>5. ReadBytes(a, n) = before \o reads \o after
    BY DEF ReadBytes
  <2> HIDE DEF before, reads, after
  <2> DEFINE most == before \o reads
  <2>6. /\ most \in Seq(Functions) /\ Len(most) = Len(before) + Len(reads)
        /\ \A i \in 1..Len(before) : most[i] = before[i]
    <3>1. before \in Seq(Functions) /\ reads \in Seq(Functions)
      BY <2>3, <2>4
    <3> QED BY <3>1, Joined
  <2> HIDE DEF most
  <2>7. /\ most \o after \in Seq(Functions)
        /\ Len(most \o after) = Len(most) + Len(after)
        /\ \A i \in 1..Len(most) : (most \o after)[i] = most[i]
    <3>1. most \in Seq(Functions) /\ after \in Seq(Functions)
      BY <2>3, <2>6
    <3> QED BY <3>1, Joined
  <2>8. Len(most) = n + 3 /\ Len(most \o after) = n + 4
    BY <2>1, <2>3, <2>4, <2>6, <2>7
  <2>9. 1 \in 1..Len(before) /\ 1 \in 1..Len(most)
    BY <2>1, <2>3, <2>8
  <2>10. (most \o after)[1] = Plain("start")
    BY <2>3, <2>6, <2>7, <2>9
  <2>11. ReadBytes(a, n) = most \o after
    BY <2>5 DEF most
  <2> QED BY <2>7, <2>8, <2>10, <2>11
<1> QED BY <1>2, <1>3

\* A call begins where the last one has left the bus.
LEMMA CallStep ==
  ASSUME IInv, NEW bytes \in Seq(Byte), NEW functions \in Seq(Functions),
         Len(bytes) <= 3, Len(functions) \in Nat, Len(functions) >= 1,
         functions[1] = Plain("start"), Call(bytes, functions)
  PROVE  TypeOK' /\ SlaveOK(slave)' /\ Doing' /\ Sees' = Sees
<1>1. TypeOK /\ Calls /\ SlaveOK(slave) /\ Resting /\ Idle
  BY DEF IInv, Doing, Call
<1>2. /\ program' = functions /\ pc' = 1 /\ at' = 1 /\ turn' = 1 /\ call' = bytes
      /\ waits' = 0 /\ refused' = 0 /\ got' = <<>>
      /\ UNCHANGED <<scl, sda, dir, polls, receive, slave, winner, heard, said>>
  BY DEF Call, pins, line
<1>3. Idle' = FALSE /\ Current' = Plain("start")
  BY <1>2 DEF Idle, Current
<1>4. InStart'
  BY <1>1, <1>2 DEF Resting, InStart, High, Is
<1>5. Doing'
  BY <1>3, <1>4 DEF Doing, Plain
<1>6. Placed'
  <2>1. Len(Accesses(Current))' = 5
    BY <1>3, Lengths DEF Accesses, Plain
  <2>2. 1 \in 1..Len(functions) + 1 /\ 1 \in 1..Width /\ 1 \in 1..5
    BY WidthAssumption
  <2> QED BY <1>2, <1>3, <2>1, <2>2 DEF Placed
<1>7. Len(call)' <= 3 /\ waits' \in 0..3 /\ refused' \in 0..3 /\ got' \in Seq(Byte)
  <2>1. <<>> \in Seq(Byte)
    OBVIOUS
  <2> QED BY <1>2, <2>1
<1>8. TypeOK' /\ SlaveOK(slave)'
  BY <1>1, <1>2, <1>6, <1>7 DEF TypeOK, Placed, SlaveOK
<1>9. Sees' = Sees
  BY <1>2 DEF Sees, Line
<1> QED BY <1>5, <1>8, <1>9

LEMMA WriteStep ==
  ASSUME IInv, Write
  PROVE  IInv' /\ Steady
<1>1. PICK addr \in Byte, reg \in Byte, data \in Byte :
         addr[Width] = 0 /\ Call(<<addr, reg, data>>, WriteOneByte(addr, reg, data))
  BY DEF Write
<1> DEFINE bytes == <<addr, reg, data>>
           functions == WriteOneByte(addr, reg, data)
<1>2. /\ bytes \in Seq(Byte) /\ Len(bytes) = 3 /\ 3 <= 3
      /\ bytes[1] = addr /\ bytes[2] = reg /\ bytes[3] = data
  OBVIOUS
<1>3. /\ functions \in Seq(Functions) /\ Len(functions) = 8 /\ 8 \in Nat /\ 8 >= 1
      /\ functions[1] = Plain("start")
  BY Programs
<1>4. functions = WriteOneByte(bytes[1], bytes[2], bytes[3]) /\ bytes[1][Width] = 0
  BY <1>1
<1>5. Call(bytes, functions)
  BY <1>1
<1> HIDE DEF bytes, functions
<1>6. TypeOK' /\ SlaveOK(slave)' /\ Doing' /\ Sees' = Sees
  BY <1>2, <1>3, <1>5, CallStep
<1>7. Calls'
  BY <1>2, <1>4, <1>5 DEF Call, Calls
<1> QED BY <1>6, <1>7 DEF IInv, Steady

LEMMA ReadCallStep ==
  ASSUME IInv, ReadCall
  PROVE  IInv' /\ Steady
<1>1. PICK addr \in Byte, n \in 1..MaxRead :
         addr[Width] = 1 /\ Call(<<addr>>, ReadBytes(addr, n))
  BY DEF ReadCall
<1> DEFINE bytes == <<addr>>
           functions == ReadBytes(addr, n)
<1>2. bytes \in Seq(Byte) /\ Len(bytes) = 1 /\ Len(bytes) <= 3 /\ bytes[1] = addr
  OBVIOUS
<1>3. /\ functions \in Seq(Functions) /\ Len(functions) \in Nat /\ Len(functions) >= 1
      /\ functions[1] = Plain("start")
  <2>1. /\ functions \in Seq(Functions) /\ Len(functions) = n + 4
        /\ functions[1] = Plain("start")
    BY Programs
  <2> QED BY <2>1, MaxReadAssumption
<1>4. functions = ReadBytes(bytes[1], n) /\ bytes[1][Width] = 1
  BY <1>1
<1>5. Call(bytes, functions)
  BY <1>1
<1> HIDE DEF bytes, functions
<1>6. TypeOK' /\ SlaveOK(slave)' /\ Doing' /\ Sees' = Sees
  BY <1>2, <1>3, <1>5, CallStep
<1>7. Calls'
  BY <1>2, <1>4, <1>5 DEF Call, Calls
<1> QED BY <1>6, <1>7 DEF IInv, Steady

LEMMA InitOK == Init => IInv
<1> SUFFICES ASSUME Init PROVE IInv
  OBVIOUS
<1>1. Idle
  BY DEF Init, Idle
<1>2. TypeOK
  <2> DEFINE rest == [mode |-> "idle", bits |-> <<>>, pull |-> FALSE]
  <2>1. /\ rest \in [mode : Modes, bits : Seq(Bit), pull : BOOLEAN]
        /\ Len(rest.bits) <= Width
    BY WidthAssumption DEF Modes
  <2>2. slave = rest
    BY DEF Init
  <2> HIDE DEF rest
  <2>3. /\ slave \in [mode : Modes, bits : Seq(Bit), pull : BOOLEAN]
        /\ Len(slave.bits) <= Width
    BY <2>1, <2>2
  <2>4. /\ program = <<>> /\ pc = 1 /\ at = 1 /\ turn = 1
        /\ scl = 1 /\ sda = 1 /\ dir = "out" /\ polls = 0
        /\ winner \in {"master", "slave"} /\ waits = 0 /\ refused = 0
    BY DEF Init
  <2>5. /\ receive \in Seq(Bit) /\ Len(receive) < Width
        /\ call \in Seq(Byte) /\ Len(call) <= 3
        /\ heard \in Seq(Byte) /\ said \in Seq(Byte) /\ got \in Seq(Byte)
    BY WidthAssumption DEF Init
  <2>6. /\ program \in Seq(Functions) /\ pc \in 1..Len(program) + 1
        /\ turn \in 1..Width /\ polls \in 0..MaxPoll
    BY <2>4, WidthAssumption, MaxPollAssumption
  <2>7. at \in IF Idle THEN {1} ELSE 1..Len(Accesses(Current))
    BY <1>1, <2>4
  <2>8. scl \in Bit /\ sda \in Bit /\ waits \in 0..3 /\ refused \in 0..3
    BY <2>4 DEF Bit
  <2> QED BY <2>3, <2>4, <2>5, <2>6, <2>7, <2>8 DEF TypeOK
<1>3. SlaveOK(slave)
  BY WidthAssumption DEF Init, SlaveOK, Modes
<1>4. Doing
  BY <1>1 DEF Init, Doing, Resting, High, Is, Heard
<1> QED BY <1>2, <1>3, <1>4 DEF IInv, Init, Calls

\* Every step keeps the invariant.
LEMMA NextOK == IInv /\ [Next]_vars => IInv'
<1> SUFFICES ASSUME IInv, [Next]_vars PROVE IInv'
  OBVIOUS
<1>1. CASE Write
  BY <1>1, WriteStep
<1>2. CASE ReadCall
  BY <1>2, ReadCallStep
<1>3. CASE Touch
  BY <1>3, TouchStep
<1>4. CASE Acknowledged
  BY <1>4, AcknowledgedStep
<1>5. CASE PollAgain
  BY <1>5, PollAgainStep
<1>6. CASE TimedOut
  BY <1>6, TimedOutStep
<1>7. CASE AckLate
  BY <1>7, AckLateStep
<1>8. CASE UNCHANGED vars
  <2>1. /\ program' = program /\ pc' = pc /\ at' = at /\ turn' = turn
        /\ scl' = scl /\ sda' = sda /\ dir' = dir /\ polls' = polls
        /\ receive' = receive /\ slave' = slave /\ winner' = winner
        /\ call' = call /\ waits' = waits /\ refused' = refused
        /\ heard' = heard /\ said' = said /\ got' = got
    BY <1>8 DEF vars, master, place, pins, line
  <2>2. /\ Idle' = Idle /\ Current' = Current
        /\ Accesses(Current)' = Accesses(Current)
    BY <2>1 DEF Idle, Current, Accesses, SendByte
  <2>3. TypeOK' = TypeOK
    BY <2>1, <2>2 DEF TypeOK
  <2>4. Calls' = Calls /\ SlaveOK(slave)' = SlaveOK(slave)
    BY <2>1 DEF Calls, SlaveOK
  <2>5. Refused' = Refused /\ Stray' = Stray
    BY <2>1 DEF Refused, Stray, Heard, Is, High
  <2>6. Resting' = Resting /\ InStart' = InStart /\ InStop' = InStop
    BY <2>1, <2>5 DEF Resting, InStart, InStop, Heard, Is, High
  <2>7. InSend' = InSend
    BY <2>1, <2>2, <2>5 DEF InSend, Heard, Has, Is, High
  <2>8. InWait' = InWait
    BY <2>1, <2>5 DEF InWait, Heard, Has, Is
  <2>9. ReadPins' = ReadPins /\ ReadWell' = ReadWell
    BY <2>1, <2>2 DEF ReadPins, ReadWell, Heard, Is, High
  <2>10. InRead' = InRead
    BY <2>1, <2>5, <2>9 DEF InRead, Is
  <2>11. Doing' = Doing
    BY <2>2, <2>6, <2>7, <2>8, <2>10 DEF Doing
  <2> QED BY <2>3, <2>4, <2>11 DEF IInv
<1> QED BY <1>1, <1>2, <1>3, <1>4, <1>5, <1>6, <1>7, <1>8 DEF Next, Step

\* The invariant is what BytesArrive, OneDriver and BusFree come from.
LEMMA ArriveOK == ASSUME IInv PROVE BytesArrive
<1>1. TypeOK /\ Calls /\ (Idle => Resting)
  BY DEF IInv, Doing
<1>2. /\ heard \in Seq(Byte) /\ call \in Seq(Byte) /\ Len(heard) \in Nat /\ Len(call) \in Nat
      /\ refused \in 0..3
  BY <1>1 DEF TypeOK
<1>3. HeardAsSent
  <2> SUFFICES ASSUME Idle, call # <<>>
               PROVE  /\ IsPrefix(heard, call)
                      /\ IF refused = 0 THEN heard = call
                         ELSE Len(heard) \in {refused - 1, refused}
    BY DEF HeardAsSent
  <2>1. /\ waits = Len(call) /\ (refused = 0 => Heard(waits)) /\ (refused # 0 => Refused)
    BY <1>1 DEF Resting
  <2>2. /\ Len(heard) <= Len(call) /\ \A i \in 1..Len(heard) : heard[i] = call[i]
        /\ refused = 0 => Len(heard) = Len(call)
        /\ refused # 0 => Len(heard) \in {refused - 1, refused}
    <3>1. CASE refused = 0
      BY <1>2, <2>1, <3>1 DEF Heard
    <3>2. CASE refused # 0
      <4>1. refused \in 1..Len(call) /\ (Heard(refused - 1) \/ Heard(refused))
        BY <2>1, <3>2 DEF Refused
      <4>2. CASE Heard(refused - 1)
        BY <1>2, <3>2, <4>1, <4>2 DEF Heard
      <4>3. CASE Heard(refused)
        BY <1>2, <3>2, <4>1, <4>3 DEF Heard
      <4> QED BY <4>1, <4>2, <4>3
    <3> QED BY <3>1, <3>2
  <2>3. IsPrefix(heard, call)
    <3> DEFINE s == SubSeq(heard, 1, Len(heard))
               t == SubSeq(call, 1, Len(heard))
    <3>1. \A i \in 1..Len(heard) : heard[i] \in Byte /\ call[i] \in Byte
      BY <1>2, <2>2
    <3>2. s = [i \in 1..Len(heard) |-> heard[i]] /\ t = [i \in 1..Len(heard) |-> call[i]]
      BY <1>2, <2>2
    <3>3. s = t
      BY <2>2, <3>2
    <3> QED BY <1>2, <2>2, <3>3 DEF IsPrefix
  <2>4. refused = 0 => heard = call
    BY <1>2, <2>2
  <2> QED BY <2>2, <2>3, <2>4
<1>4. ReadAsSaid
  BY <1>1 DEF ReadAsSaid, Resting
<1> QED BY <1>3, <1>4 DEF BytesArrive

LEMMA DriverOK == ASSUME IInv PROVE OneDriver
<1>1. TypeOK /\ Calls /\ SlaveOK(slave) /\ Doing
  BY DEF IInv
<1>2. SUFFICES ASSUME scl = 1, dir = "out", slave.pull, refused = 0 PROVE FALSE
  BY DEF OneDriver
<1>3. Is("ack") \/ Is("send")
  BY <1>1, <1>2 DEF SlaveOK, Is
<1>4. ~Idle
  BY <1>1, <1>3 DEF Doing, Resting, Is
<1>5. /\ Current.fn \in {"start", "wait", "stop", "send", "read"}
      /\ at \in 1..Len(Accesses(Current))
  BY <1>1, <1>4, Place
<1>6. CASE Current.fn = "start"
  BY <1>1, <1>3, <1>4, <1>6 DEF Doing, InStart, Is
<1>7. CASE Current.fn = "send"
  BY <1>1, <1>2, <1>3, <1>4, <1>7 DEF Doing, InSend, Is
<1>8. CASE Current.fn = "stop"
  BY <1>1, <1>2, <1>3, <1>4, <1>8 DEF Doing, InStop, Is
<1>9. CASE Current.fn = "wait"
  <2>1. InWait
    BY <1>1, <1>4, <1>9 DEF Doing
  <2>2. at \in 1..10
    <3>1. Len(Accesses(Current)) = 10
      BY <1>9, Scripts
    <3> QED BY <1>5, <3>1
  <2> QED BY <1>2, <2>1, <2>2 DEF InWait
<1>10. CASE Current.fn = "read"
  <2>1. InRead
    BY <1>1, <1>4, <1>10 DEF Doing
  <2>2. at \in 1..9
    <3>1. Len(Accesses(Current)) = 9
      BY <1>10, Scripts
    <3> QED BY <1>5, <3>1
  <2> QED BY <1>2, <1>3, <2>1, <2>2 DEF InRead, ReadPins, ReadWell, Is
<1> QED BY <1>5, <1>6, <1>7, <1>8, <1>9, <1>10

LEMMA FreeOK == ASSUME IInv PROVE BusFree
<1> SUFFICES ASSUME Idle PROVE scl = 1 /\ Sees = 1 /\ slave.mode = "idle"
  BY DEF BusFree
<1>1. TypeOK /\ SlaveOK(slave) /\ Resting
  BY DEF IInv, Doing
<1>2. ~slave.pull /\ slave.mode = "idle" /\ scl = 1 /\ sda = 1 /\ dir = "out"
  BY <1>1 DEF Resting, SlaveOK, Is, High
<1> QED BY <1>2 DEF Sees, Line

\* What DataStable allows a step.
Quiet == scl = 1 /\ scl' = 1 /\ Sees' # Sees
           => \/ AckLate
              \/ ~Idle /\ Access.op = "edge"
              \/ slave.pull /\ refused # 0

LEMMA QuietOK == ASSUME IInv, Next PROVE Quiet
<1>1. CASE Write
  <2>1. UNCHANGED <<sda, dir, slave, winner>>
    BY <1>1 DEF Write, Call, pins, line
  <2> QED BY <2>1 DEF Quiet, Sees, Line
<1>2. CASE ReadCall
  <2>1. UNCHANGED <<sda, dir, slave, winner>>
    BY <1>2 DEF ReadCall, Call, pins, line
  <2> QED BY <2>1 DEF Quiet, Sees, Line
<1>3. CASE Touch
  <2>1. Steady /\ ~Idle
    BY <1>3, TouchStep DEF Touch
  <2> QED BY <2>1 DEF Quiet, Steady
<1>4. CASE Acknowledged \/ PollAgain \/ TimedOut
  <2>1. Steady /\ ~Idle
    BY <1>4, AcknowledgedStep, PollAgainStep, TimedOutStep
       DEF Acknowledged, PollAgain, TimedOut, Polling
  <2> QED BY <2>1 DEF Quiet, Steady
<1>5. CASE AckLate
  BY <1>5 DEF Quiet
<1> QED BY <1>1, <1>2, <1>3, <1>4, <1>5 DEF Next, Step
-----------------------------------------------------------------------------
(***************************************************************************)
(* What the pins, the slave and the call look like at each access: in      *)
(* every reachable state.                                                  *)
(***************************************************************************)
THEOREM Invariance == Spec => []IInv
<1> QED BY InitOK, NextOK, PTL DEF Spec

(***************************************************************************)
(* The functions never leave the program, the counters their ranges: the   *)
(* poll counter of IIC_Wait_Ack() does not pass its limit, a byte is not   *)
(* longer than its bits.                                                   *)
(***************************************************************************)
THEOREM TypeCorrect == Spec => []TypeOK
<1>1. IInv => TypeOK
  BY DEF IInv
<1> QED BY <1>1, Invariance, PTL

(***************************************************************************)
(* The slave accepts the bytes of a call in order and nothing after the    *)
(* one that timed out; what a program reads is what the slave has sent.    *)
(***************************************************************************)
THEOREM Arrival == Spec => []BytesArrive
<1>1. IInv => BytesArrive
  BY ArriveOK
<1> QED BY <1>1, Invariance, PTL

(***************************************************************************)
(* With the clock high, the push-pull pin of the master meets a slave that *)
(* pulls only after a timeout.                                             *)
(***************************************************************************)
THEOREM Drivers == Spec => []OneDriver
<1>1. IInv => OneDriver
  BY DriverOK
<1> QED BY <1>1, Invariance, PTL

(***************************************************************************)
(* Every call, refused or not, ends with both lines high and the slave     *)
(* waiting for a START.                                                    *)
(***************************************************************************)
THEOREM Freedom == Spec => []BusFree
<1>1. IInv => BusFree
  BY FreeOK
<1> QED BY <1>1, Invariance, PTL

(***************************************************************************)
(* No access but START and STOP moves the data line while the clock is     *)
(* high, unless a slave acknowledged after the timeout.                    *)
(***************************************************************************)
THEOREM Stable == Spec => DataStable
<1>1. IInv /\ [Next]_vars => [Quiet]_vars
  BY QuietOK
<1> QED BY <1>1, Invariance, PTL DEF Spec, DataStable, Quiet
=============================================================================
