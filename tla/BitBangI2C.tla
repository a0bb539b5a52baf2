------------------------------ MODULE BitBangI2C ------------------------------
(***************************************************************************)
(* The I2C master that iic.c makes out of two pins, and a slave on the     *)
(* bus.  A call is a sequence of functions, a function the sequence of its *)
(* accesses to the pins, one step each, with a loop over the bits; the     *)
(* slave answers to the edges that it sees, and acknowledges at once,      *)
(* while the master polls, or never.  The slave and the programs that read *)
(* are not in the source.                                                  *)
(***************************************************************************)
EXTENDS Integers, Sequences, SequencesExt

CONSTANTS Width,      \* bits of a byte: 8
          MaxPoll,    \* the acknowledgement is polled this often: 250
          Me,         \* the address bits that the slave answers to
          MaxRead     \* bound: the bytes that a program reads

Bit == {0, 1}
Byte == [1..Width -> Bit]

ASSUME WidthAssumption == Width \in Nat /\ Width > 1
ASSUME MaxPollAssumption == MaxPoll \in 0..254      \* ucErrTime is a u8
ASSUME MeAssumption == Me \in [1..Width - 1 -> Bit]
ASSUME MaxReadAssumption == MaxRead \in Nat

VARIABLES program,  \* the functions of iic.c that the call goes through
          pc,       \* the one that runs
          at,       \* its next access to the pins
          turn,     \* which bit it sends or reads: its t or i
          scl,      \* the clock line
          sda,      \* the level in the output register of the data pin
          dir,      \* the data pin drives the line or listens: "out", "in"
          polls,    \* ucErrTime
          receive,  \* the bits of the byte that is being read
          slave,    \* what the slave does, its bits, whether it pulls SDA low
          winner,   \* whose level is on the line when both drive it; it stays
          call,     \* the bytes that the call sends
          waits,    \* history: the acknowledgements waited for
          refused,  \* history: the first one that timed out; 0 if none did
          heard,    \* history: the bytes that the slave has accepted
          said,     \* history: the bytes that the slave has sent
          got       \* history: the bytes that the call has read

pins   == <<scl, sda, dir>>
place  == <<pc, at, turn>>
line   == <<slave, winner, heard, said>>
master == <<program, place, pins, polls, receive, call, waits, refused, got>>
vars   == <<master, line>>
-----------------------------------------------------------------------------
(***************************************************************************)
(* The functions of iic.c, as accesses to the pins                         *)
(***************************************************************************)
Do(op, v) == [op |-> op, v |-> v]
Out     == Do("out", 0)
In      == Do("in", 0)
Sda(v)  == Do("sda", v)
Edge(v) == Do("edge", v)      \* the SDA access that is START or STOP
Scl(v)  == Do("scl", v)
Sample  == Do("sample", 0)    \* if (READ_SDA) receive++
Poll    == Do("poll", 0)      \* while (READ_SDA)

Start == <<Out, Sda(1), Scl(1), Edge(0), Scl(0)>>

Stop  == <<Out, Scl(0), Sda(0), Scl(1), Edge(1)>>

\* The timeout continues with the second half.
WaitAck == <<In, Sda(1), Scl(1), Poll, Scl(0)>> \o Stop

\* Mutant: the pin is turned around before the clock falls.
Acknowledge_DataFirst(v) == <<Out, Sda(v), Scl(0), Scl(1), Scl(0)>>

Acknowledge(v) == <<Scl(0), Out, Sda(v), Scl(1), Scl(0)>>
Ack  == Acknowledge(0)
NAck_Acks == Acknowledge(0)                      \* mutant: SDA stays low
NAck == Acknowledge(1)

\* Mutant: the bit is put on the line after the clock has risen.
SendByte_ClockFirst(v) == <<Out, Scl(0), Scl(1), Sda(v), Scl(0)>>

\* v is the bit of this turn; the last three accesses are the loop.
SendByte(v) == <<Out, Scl(0), Sda(v), Scl(1), Scl(0)>>

\* The second to the fourth are the loop.
ReadByte(ack) == <<In, Scl(0), Scl(1), Sample>> \o (IF ack THEN Ack ELSE NAck)

\* The calls of these functions.
Plain(f)  == [fn |-> f]
Send(b)   == [fn |-> "send", byte |-> b]
Read(ack) == [fn |-> "read", ack |-> ack]
Functions == {Plain(f) : f \in {"start", "wait", "stop"}}
             \cup {Send(b) : b \in Byte} \cup {Read(ack) : ack \in BOOLEAN}

Accesses(f) == CASE f.fn = "start" -> Start
                 [] f.fn = "wait"  -> WaitAck
                 [] f.fn = "stop"  -> Stop
                 [] f.fn = "send"  -> SendByte(f.byte[turn])
                 [] f.fn = "read"  -> ReadByte(f.ack)

\* The acknowledgements are waited for; what Wait_Ack() returns is not used.
\* The addresses are u16, and are here what IIC_Send_Byte() makes of them: the
\* lower byte.
WriteOneByte(addr, reg, data) ==
  <<Plain("start"), Send(addr), Plain("wait"), Send(reg), Plain("wait"),
    Send(data), Plain("wait"), Plain("stop")>>

\* A program reads n bytes: the last one is not acknowledged.
ReadBytes(addr, n) ==
  <<Plain("start"), Send(addr), Plain("wait")>>
  \o [i \in 1..n |-> Read(i < n)] \o <<Plain("stop")>>

Idle    == pc > Len(program)
Current == program[pc]
Access  == Accesses(Current)[at]

\* The loop over the bits goes on; the function returns, Wait_Ack() with 0
\* after its fifth access.
Again   == /\ turn < Width
           /\ \/ Current.fn = "send" /\ at = 5
              \/ Current.fn = "read" /\ at = 4
Returns == /\ at = Len(Accesses(Current)) \/ (Current.fn = "wait" /\ at = 5)
           /\ ~Again

Return == pc' = pc + 1 /\ at' = 1 /\ turn' = 1

Advance == \/ Again /\ turn' = turn + 1 /\ at' = at - 2 /\ UNCHANGED pc
           \/ Returns /\ Return
           \/ ~Again /\ ~Returns /\ at' = at + 1 /\ UNCHANGED <<pc, turn>>

Modes == {"idle", "byte", "ack", "send", "sent", "more", "over"}

TypeOK == /\ program \in Seq(Functions)
          /\ pc \in 1..Len(program) + 1 /\ turn \in 1..Width
          /\ at \in IF Idle THEN {1} ELSE 1..Len(Accesses(Current))
          /\ scl \in Bit /\ sda \in Bit /\ dir \in {"out", "in"}
          /\ polls \in 0..MaxPoll
          /\ receive \in Seq(Bit) /\ Len(receive) < Width
          /\ slave \in [mode : Modes, bits : Seq(Bit), pull : BOOLEAN]
          /\ Len(slave.bits) <= Width
          /\ winner \in {"master", "slave"}
          /\ call \in Seq(Byte) /\ Len(call) <= 3
          /\ waits \in 0..3 /\ refused \in 0..3
          /\ heard \in Seq(Byte) /\ said \in Seq(Byte) /\ got \in Seq(Byte)

\* IIC_Init(): both lines are high.
Init == /\ program = <<>> /\ pc = 1 /\ at = 1 /\ turn = 1
        /\ scl = 1 /\ sda = 1 /\ dir = "out"
        /\ polls = 0 /\ receive = <<>>
        /\ slave = [mode |-> "idle", bits |-> <<>>, pull |-> FALSE]
        /\ winner \in {"master", "slave"}
        /\ call = <<>> /\ waits = 0 /\ refused = 0
        /\ heard = <<>> /\ said = <<>> /\ got = <<>>
-----------------------------------------------------------------------------
(***************************************************************************)
(* The slave                                                               *)
(***************************************************************************)
\* The pin of the master is push-pull, that of the slave pulls down only.
Line(v, d, pull) ==
  CASE d = "in"  -> IF pull THEN 0 ELSE 1
    [] d = "out" -> IF pull /\ winner = "slave" THEN 0 ELSE v
Sees == Line(sda, dir, slave.pull)

Becomes(mode, bits, pull) ==
  slave' = [mode |-> mode, bits |-> bits, pull |-> pull]

\* It puts the next bit of what it sends on the line.
Say(bits) == \E b \in Bit : Becomes("send", Append(bits, b), b = 0)

\* The first byte is the address and the direction; the rest is taken as it is.
Willing(bits) == heard # <<>> \/ SubSeq(bits, 1, Width - 1) = Me
Reads(bits) == heard = <<>> /\ bits[Width] = 1

Rise(level) ==
  /\ CASE slave.mode = "byte" ->
            Becomes("byte", IF Len(slave.bits) < Width
                            THEN Append(slave.bits, level) ELSE slave.bits,
                    FALSE)
       [] slave.mode = "sent" ->
            Becomes(IF level = 0 THEN "more" ELSE "over", <<>>, FALSE)
       [] OTHER -> UNCHANGED slave
  /\ UNCHANGED <<heard, said>>

Fall ==
  LET bits == slave.bits
  IN  CASE slave.mode = "byte" /\ Len(bits) = Width ->
             /\ \E now \in BOOLEAN : /\ now => Willing(bits)
                                     /\ Becomes("ack", bits, now)
             /\ UNCHANGED <<heard, said>>
        [] slave.mode = "ack" ->
             /\ IF ~slave.pull THEN Becomes("idle", <<>>, FALSE)
                ELSE IF Reads(bits) THEN Say(<<>>)
                ELSE Becomes("byte", <<>>, FALSE)
             /\ heard' = IF slave.pull THEN Append(heard, bits) ELSE heard
             /\ UNCHANGED said
        [] slave.mode = "send" /\ Len(bits) < Width ->
             Say(bits) /\ UNCHANGED <<heard, said>>
        [] slave.mode = "send" /\ Len(bits) = Width ->
             /\ Becomes("sent", <<>>, FALSE)
             /\ said' = Append(said, bits) /\ UNCHANGED heard
        [] slave.mode = "more" -> Say(<<>>) /\ UNCHANGED <<heard, said>>
        [] slave.mode = "over" ->
             Becomes("idle", <<>>, FALSE) /\ UNCHANGED <<heard, said>>
        [] OTHER -> UNCHANGED <<slave, heard, said>>

\* The data line moves while the clock is high: START or STOP.
Condition(level) ==
  IF level = 0 THEN /\ Becomes("byte", <<>>, FALSE)
                    /\ heard' = <<>> /\ said' = <<>>
  ELSE Becomes("idle", <<>>, FALSE) /\ UNCHANGED <<heard, said>>

\* The master sets its pins, and the slave reacts before the next access.  The
\* source delays after most edges; where it does not, above all between
\* "IIC_SCL=1" and "IIC_SDA=1" in IIC_Stop(), that is an assumption.
Drive(v, d, c) ==
  LET level == Line(v, d, slave.pull)
  IN  /\ sda' = v /\ dir' = d /\ scl' = c
      /\ IF scl = 0 /\ c = 1 THEN Rise(level)
         ELSE IF scl = 1 /\ c = 0 THEN Fall
         ELSE IF scl = 1 /\ c = 1 /\ level # Sees THEN Condition(level)
         ELSE UNCHANGED <<slave, heard, said>>

\* A late acknowledgement.
AckLate == /\ slave.mode = "ack" /\ ~slave.pull /\ Willing(slave.bits)
           /\ slave' = [slave EXCEPT !.pull = TRUE]
           /\ UNCHANGED <<master, winner, heard, said>>
-----------------------------------------------------------------------------
(***************************************************************************)
(* The master                                                              *)
(***************************************************************************)
Call(bytes, functions) ==
  /\ Idle
  /\ program' = functions /\ pc' = 1 /\ at' = 1 /\ turn' = 1
  /\ call' = bytes
  /\ waits' = 0 /\ refused' = 0 /\ got' = <<>>
  /\ UNCHANGED <<pins, polls, receive, line>>

Write == \E addr, reg, data \in Byte :
           /\ addr[Width] = 0
           /\ Call(<<addr, reg, data>>, WriteOneByte(addr, reg, data))

ReadCall == \E addr \in Byte, n \in 1..MaxRead :
              addr[Width] = 1 /\ Call(<<addr>>, ReadBytes(addr, n))

\* Access to a pin, or a read of the data line.
Touch ==
  /\ ~Idle /\ Access.op # "poll" /\ Advance
  /\ LET v == Access.v
     IN  CASE Access.op = "out" -> Drive(sda, "out", scl)
           [] Access.op = "in" -> Drive(sda, "in", scl)
           [] Access.op \in {"sda", "edge"} -> Drive(v, dir, scl)
           [] Access.op = "scl" -> Drive(sda, dir, v)
           [] OTHER -> UNCHANGED <<scl, sda, dir, slave, heard, said>>
  /\ IF Access.op = "sample"
       THEN IF turn = Width
              THEN got' = Append(got, Append(receive, Sees)) /\ receive' = <<>>
              ELSE receive' = Append(receive, Sees) /\ UNCHANGED got
       ELSE UNCHANGED <<receive, got>>
  /\ UNCHANGED <<program, polls, winner, call, waits, refused>>

Polling == ~Idle /\ Access.op = "poll"

Acknowledged == /\ Polling /\ Sees = 0
                /\ Advance
                /\ polls' = 0 /\ waits' = waits + 1
                /\ UNCHANGED <<program, pins, line, receive, call, refused, got>>

\* Mutant: the loop without "if(ucErrTime>250)".
PollAgain_NoLimit == /\ Polling /\ Sees = 1
                     /\ polls' = polls + 1
                     /\ UNCHANGED <<program, place, pins, line, receive, call,
                                    waits, refused, got>>

PollAgain_Uncounted ==         \* mutant: ucErrTime is not incremented
  /\ Polling /\ Sees = 1
  /\ UNCHANGED vars

\* ucErrTime++, and the line is read again; ucErrTime > 250 ends it with a STOP.
PollAgain == /\ Polling /\ Sees = 1 /\ polls < MaxPoll
             /\ polls' = polls + 1
             /\ UNCHANGED <<program, place, pins, line, receive, call, waits,
                            refused, got>>

TimedOut_NoStop ==             \* mutant: no IIC_Stop() at the timeout
  /\ Polling /\ Sees = 1 /\ polls = MaxPoll
  /\ Return
  /\ polls' = 0 /\ waits' = waits + 1
  /\ refused' = IF refused = 0 THEN waits + 1 ELSE refused
  /\ UNCHANGED <<program, pins, line, receive, call, got>>

TimedOut == /\ Polling /\ Sees = 1 /\ polls = MaxPoll
            /\ at' = at + 2 /\ UNCHANGED <<pc, turn>>
            /\ polls' = 0 /\ waits' = waits + 1
            /\ refused' = IF refused = 0 THEN waits + 1 ELSE refused
            /\ UNCHANGED <<program, pins, line, receive, call, got>>

Step == Touch \/ Acknowledged \/ PollAgain \/ TimedOut

Next == Write \/ ReadCall \/ Step \/ AckLate

Spec == Init /\ [][Next]_vars /\ WF_vars(Step)
-----------------------------------------------------------------------------
(***************************************************************************)
(* The slave never accepts a byte that was not sent to it, or out of       *)
(* order, whenever it acknowledges; and a call whose first refusal is byte *)
(* k has had k - 1 bytes accepted, or k if the acknowledgement came too    *)
(* late: nothing after the STOP of the timeout gets through, although the  *)
(* caller sends on.  Without a refusal every byte has been accepted.       *)
(***************************************************************************)
HeardAsSent ==
  Idle /\ call # <<>> =>
    /\ IsPrefix(heard, call)
    /\ IF refused = 0 THEN heard = call
       ELSE Len(heard) \in {refused - 1, refused}

(***************************************************************************)
(* ... and what a program reads is what the slave sent, byte by byte,      *)
(* unless the address was not acknowledged in time.                        *)
(***************************************************************************)
ReadAsSaid == Idle /\ refused = 0 => got = said

BytesArrive == HeardAsSent /\ ReadAsSaid

(***************************************************************************)
(* The push-pull pin of the master drives the line high against a slave    *)
(* that pulls it low only while the clock is low, where nobody looks: when *)
(* a last bit 1 is acknowledged at once.  With the clock high it happens   *)
(* only after an acknowledgement that came later than the timeout.         *)
(***************************************************************************)
OneDriver == scl = 1 /\ dir = "out" /\ sda = 1 /\ slave.pull => refused # 0

(***************************************************************************)
(* After every call, refused or not, both lines are high and the slave     *)
(* waits for a START: no call leaves the bus held or the slave mid-byte.   *)
(***************************************************************************)
BusFree == Idle => scl = 1 /\ Sees = 1 /\ slave.mode = "idle"

(***************************************************************************)
(* While the clock is high the data line moves only where START and STOP   *)
(* move it, when a late acknowledgement comes, or when the pin is turned   *)
(* around against one that came after the timeout.                         *)
(***************************************************************************)
DataStable ==
  [][scl = 1 /\ scl' = 1 /\ Sees' # Sees
       => \/ AckLate
          \/ ~Idle /\ Access.op = "edge"
          \/ slave.pull /\ refused # 0]_vars

(***************************************************************************)
(* A slave that is absent or slow never hangs the master: each call ends.  *)
(* Fairness: the processor goes on.                                        *)
(***************************************************************************)
CallEnds == ~Idle ~> Idle
=============================================================================
