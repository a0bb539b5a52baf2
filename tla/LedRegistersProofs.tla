------------------------- MODULE LedRegistersProofs --------------------------
(***************************************************************************)
(* Proofs about LedRegisters for every set of files and every length of    *)
(* the array of leds.c.  A pin shows what it owes only because the copies  *)
(* that other calls are about to write back show it as well: whoever       *)
(* changes a pin of which a copy is held makes it owe nothing.  That a     *)
(* device is dark when idle needs an account of the calls under way: who   *)
(* turns on has the file open, and the last access of a call turns off.    *)
(***************************************************************************)
EXTENDS LedRegisters, SequenceTheorems, TLAPS

\* The registers of 028, and accesses to any set of pins.
LedRegs == {{-2, 1}, {-1, 2}, {0, 3, 4}}

AccessOf(P) == [pin : P, on : BOOLEAN, stray : BOOLEAN]

\* The drivers that light at open() or when they are loaded: one pin, no array.
LEMMA OpenDrivers ==
  ASSUME NEW d \in {hq_023_module_led, hq_043_platform_led, hq_046_dts_led,
                    sc_28_pwm_ioremap, hq_012_led_demo, hq_054_platform_led,
                    sc_009_beep_test, sc_010_my_leds, sc_022_dri_ioremap,
                    hq_052_platform_led}
  PROVE  /\ d.door \in {"open", "load"}
         /\ d.how \in {"rmw", "write"}
         /\ d.setup \in Seq({Set(1, TRUE)})
         /\ d.after = <<>>
         /\ d.registers = Alone
         /\ ~d.array
<1>1. <<>> \in Seq({Set(1, TRUE)})
  OBVIOUS
<1>2. <<Set(1, TRUE)>> \in Seq({Set(1, TRUE)})
  OBVIOUS
<1>3. <<Set(1, TRUE), Set(1, TRUE)>> \in Seq({Set(1, TRUE)})
  OBVIOUS
<1>4. CASE d = hq_023_module_led
  BY <1>4, <1>1, <1>2, <1>3 DEF Driver, hq_023_module_led
<1>5. CASE d = hq_043_platform_led
  BY <1>5, <1>1, <1>2, <1>3 DEF Driver, hq_043_platform_led
<1>6. CASE d = hq_046_dts_led
  BY <1>6, <1>1, <1>2, <1>3 DEF Driver, hq_046_dts_led
<1>7. CASE d = sc_28_pwm_ioremap
  BY <1>7, <1>1, <1>2, <1>3 DEF Driver, sc_28_pwm_ioremap
<1>8. CASE d = hq_012_led_demo
  BY <1>8, <1>1, <1>2, <1>3 DEF Driver, hq_012_led_demo
<1>9. CASE d = hq_054_platform_led
  BY <1>9, <1>1, <1>2, <1>3 DEF Driver, hq_054_platform_led
<1>10. CASE d = sc_009_beep_test
  BY <1>10, <1>1, <1>2, <1>3 DEF Driver, sc_009_beep_test
<1>11. CASE d = sc_010_my_leds
  BY <1>11, <1>1, <1>2, <1>3 DEF Driver, sc_010_my_leds
<1>12. CASE d = sc_022_dri_ioremap
  BY <1>12, <1>1, <1>2, <1>3 DEF Driver, sc_022_dri_ioremap
<1>13. CASE d = hq_052_platform_led
  BY <1>13, <1>1, <1>2, <1>3 DEF Driver, hq_052_platform_led
<1>14. QED
  BY <1>4, <1>5, <1>6, <1>7, <1>8, <1>9, <1>10, <1>11, <1>12, <1>13

\* 044: a PWM timer, behind an ioctl().
LEMMA Pwm044 ==
  /\ hq_044_fs4412_pwm.door = "ioctl"
  /\ hq_044_fs4412_pwm.how = "rmw"
  /\ hq_044_fs4412_pwm.setup = <<Set(1, FALSE)>>
  /\ hq_044_fs4412_pwm.after = <<>>
  /\ hq_044_fs4412_pwm.registers = Alone
  /\ ~hq_044_fs4412_pwm.array
BY DEF Early, Driver, hq_044_fs4412_pwm

\* 028: four LEDs in three registers.
LEMMA Led028 ==
  /\ hq_028_fs4412_led.door = "ioctl"
  /\ hq_028_fs4412_led.how = "rmw"
  /\ hq_028_fs4412_led.setup = [i \in 1..4 |-> Set(i, FALSE)]
  /\ hq_028_fs4412_led.after = <<>>
  /\ hq_028_fs4412_led.registers = LedRegs
  /\ ~hq_028_fs4412_led.array
BY DEF Early, Driver, hq_028_fs4412_led, LedRegs

\* 005: an array with the beeper at its end, silenced by every call.
LEMMA Leds005 ==
  /\ sc_005_leds.door = "ioctl"
  /\ sc_005_leds.how = "pin"
  /\ sc_005_leds.setup = AllOn \o Silence
  /\ sc_005_leds.after = Silence
  /\ sc_005_leds.registers = Array
  /\ sc_005_leds.array
BY DEF Driver, sc_005_leds

\* 014: the same array, nothing added.
LEMMA Leds014 ==
  /\ sc_014_char_driver_leds.door = "ioctl"
  /\ sc_014_char_driver_leds.how = "pin"
  /\ sc_014_char_driver_leds.setup = AllOn
  /\ sc_014_char_driver_leds.after = <<>>
  /\ sc_014_char_driver_leds.registers = Array
  /\ sc_014_char_driver_leds.array
BY DEF Early, Driver, sc_014_char_driver_leds

\* 004: one LED through gpiolib.
LEMMA Led004 ==
  /\ sc_004_one_led.door = "ioctl"
  /\ sc_004_one_led.how = "pin"
  /\ sc_004_one_led.setup = <<Set(1, FALSE)>>
  /\ sc_004_one_led.after = <<>>
  /\ sc_004_one_led.registers = Alone
  /\ ~sc_004_one_led.array
BY DEF Driver, sc_004_one_led

\* What their init or probe asks is well-formed.
LEMMA Setups ==
  /\ AllOn \in Seq(AccessOf(1..LedNum))
  /\ Silence \in Seq(AccessOf(1..LedNum))
  /\ AllOn \o Silence \in Seq(AccessOf(1..LedNum))
  /\ [i \in 1..4 |-> Set(i, FALSE)] \in Seq(AccessOf(1..4))
<1>1. AllOn \in Seq(AccessOf(1..LedNum))
  BY LedNumAssumption DEF AllOn, AccessOf, Set
<1>2. Silence \in Seq(AccessOf(1..LedNum))
  BY LedNumAssumption DEF Silence, AccessOf, Set
<1>3. [i \in 1..4 |-> Set(i, FALSE)] \in Seq(AccessOf(1..4))
  BY DEF AccessOf, Set
<1>4. AllOn \o Silence \in Seq(AccessOf(1..LedNum))
  BY <1>1, <1>2, ConcatProperties
<1>5. QED
  BY <1>1, <1>2, <1>3, <1>4

\* What every driver has, whichever it is.
LEMMA DriverFacts ==
  ASSUME drv \in Drivers
  PROVE  /\ drv.door \in {"open", "load", "ioctl"}
         /\ drv.how \in {"rmw", "write", "pin"}
         /\ drv.registers \in {Alone, Array, LedRegs}
         /\ drv.setup \in Seq(Access)
         /\ drv.after \in Seq(Access)
         /\ drv.array => drv.how = "pin" /\ drv.door = "ioctl"
         /\ drv.door # "ioctl" => /\ drv.registers = Alone
                                  /\ drv.setup \in Seq({Set(1, TRUE)})
                                  /\ drv.after = <<>>
         /\ drv.after # <<>> => drv = sc_005_leds
<1>1. /\ Pins = UNION drv.registers
      /\ Access = AccessOf(Pins)
  BY DEF Pins, Access, AccessOf
<1>2. <<>> \in Seq(Access)
  OBVIOUS
<1>3. CASE drv \in {hq_023_module_led, hq_043_platform_led, hq_046_dts_led,
                    sc_28_pwm_ioremap, hq_012_led_demo, hq_054_platform_led,
                    sc_009_beep_test, sc_010_my_leds, sc_022_dri_ioremap,
                    hq_052_platform_led}
  <2>1. /\ drv.door \in {"open", "load"}
        /\ drv.how \in {"rmw", "write"}
        /\ drv.setup \in Seq({Set(1, TRUE)})
        /\ drv.after = <<>>
        /\ drv.registers = Alone
        /\ ~drv.array
    BY <1>3, OpenDrivers
  <2>2. {Set(1, TRUE)} \subseteq Access
    BY <1>1, <2>1 DEF Alone, AccessOf, Set
  <2>3. drv.setup \in Seq(Access)
    BY <2>1, <2>2, SeqMonotonic
  <2>4. QED
    BY <2>1, <2>3, <1>2
<1>4. CASE drv \in {hq_044_fs4412_pwm, sc_004_one_led}
  <2>1. /\ drv.door = "ioctl" /\ drv.how \in {"rmw", "pin"}
        /\ drv.setup = <<Set(1, FALSE)>> /\ drv.after = <<>>
        /\ drv.registers = Alone /\ ~drv.array
    BY <1>4, Pwm044, Led004
  <2>2. Set(1, FALSE) \in Access
    BY <1>1, <2>1 DEF Alone, AccessOf, Set
  <2>3. drv.setup \in Seq(Access)
    <3>1. \A a \in Access : <<a>> \in Seq(Access)
      OBVIOUS
    <3>2. QED
      BY <2>1, <2>2, <3>1
  <2>4. QED
    BY <2>1, <2>3, <1>2
<1>5. CASE drv = hq_028_fs4412_led
  <2>1. AccessOf(1..4) \subseteq Access
    BY <1>1, <1>5, Led028 DEF LedRegs, AccessOf
  <2>2. drv.setup \in Seq(Access)
    BY <1>5, <2>1, Led028, Setups, SeqMonotonic
  <2>3. QED
    BY <1>5, <2>2, <1>2, Led028
<1>6. CASE drv \in {sc_005_leds, sc_014_char_driver_leds}
  <2>0. drv.registers = Array
    BY <1>6, Leds005, Leds014
  <2>1. AccessOf(1..LedNum) \subseteq Access
    <3>1. 1..LedNum \subseteq Pins
      BY <1>1, <2>0 DEF Array
    <3>2. QED
      BY <1>1, <3>1 DEF AccessOf
  <2>2. drv.setup \in Seq(AccessOf(1..LedNum))
    BY <1>6, Leds005, Leds014, Setups
  <2>3. drv.after \in Seq(AccessOf(1..LedNum))
    <3>1. drv.after = Silence \/ drv.after = <<>>
      BY <1>6, Leds005, Leds014
    <3>2. <<>> \in Seq(AccessOf(1..LedNum))
      OBVIOUS
    <3>3. QED
      BY <3>1, <3>2, Setups
  <2>4. drv.setup \in Seq(Access) /\ drv.after \in Seq(Access)
    BY <2>1, <2>2, <2>3, SeqMonotonic
  <2>5. QED
    BY <1>6, <2>4, Leds005, Leds014
<1>7. QED
  BY <1>3, <1>4, <1>5, <1>6 DEF Drivers

\* The registers partition the pins.
LEMMA Partition ==
  ASSUME drv \in Drivers, NEW b \in Pins
  PROVE  /\ b \in SameRegister(b)
         /\ SameRegister(b) \subseteq Pins
         /\ \A c \in SameRegister(b) : SameRegister(c) = SameRegister(b)
<1>1. drv.registers \in {Alone, Array, LedRegs}
  BY DriverFacts
<1>2. \A R, S \in drv.registers : R \cap S # {} => R = S
  <2>1. CASE drv.registers \in {Alone, Array}
    <3>1. \A R, S \in drv.registers : R = S
      BY <2>1 DEF Alone, Array
    <3>2. QED
      BY <3>1
  <2>2. CASE drv.registers = LedRegs
    <3>1. \A R, S \in LedRegs, c \in -2..4 : c \in R /\ c \in S => R = S
      BY DEF LedRegs
    <3>2. \A R \in LedRegs : R \subseteq -2..4
      BY DEF LedRegs
    <3>3. ASSUME NEW R \in LedRegs, NEW S \in LedRegs, NEW c \in R \cap S
          PROVE  R = S
      BY <3>1, <3>2, <3>3
    <3>4. QED
      BY <2>2, <3>3
  <2>3. QED
    BY <1>1, <2>1, <2>2
<1>3. QED
  BY <1>2 DEF Pins, SameRegister

-----------------------------------------------------------------------------
\* A pin shows the level it owes.
Honest == \A b \in Pins : /\ owed[b] = "on" => b \in lit
                          /\ owed[b] = "off" => b \notin lit

\* So does the copy of its register that a call between its readl() and its
\* writel() holds, but for the pin that this call is about to change.
CopiesHonest ==
  \A q \in loaded :
    /\ copy[q] \subseteq SameRegister(Head(todo[q]).pin)
    /\ \A b \in SameRegister(Head(todo[q]).pin) :
         b # Head(todo[q]).pin => /\ owed[b] = "on" => b \in copy[q]
                                  /\ owed[b] = "off" => b \notin copy[q]

\* A driver that lights at open() sets pin 1 only, and turns it on for open
\* files only; a pin that is on has an open file or a call under way.
Accounted ==
  OnWhileOpen =>
    /\ \A p \in Callers : \A i \in 1..Len(todo[p]) :
         todo[p][i].pin = 1 /\ (todo[p][i].on => p \in opened)
    /\ owed[1] = "on" => opened # {} \/ \E p \in Callers : todo[p] # <<>>

\* Every call of 005 ends by silencing the beeper.
Silenced ==
  drv = sc_005_leds =>
    /\ \A p \in Callers : todo[p] # <<>>
         => todo[p][Len(todo[p])] = Set(LedNum, FALSE)
    /\ owed[LedNum] = "on" => \E p \in Callers : todo[p] # <<>>

\* The driver of the neighbouring pins asks for those only.
Aside == \A i \in 1..Len(todo[Other]) : todo[Other][i].pin \in Neighbours

\* A call that starts: of a file, or of the neighbour.
Starts(p, s) ==
  /\ Begin(p, s)
  /\ s \in Seq(Access)
  /\ opened' \subseteq Files
  /\ drv.door = "ioctl" => opened' = opened
  /\ p = Other => /\ opened' = opened
                  /\ \A i \in 1..Len(s) : s[i].pin \in Neighbours
  /\ p # Other /\ OnWhileOpen =>
       /\ s # <<>> \/ opened' # {}
       /\ \A q \in Files \ {p} : q \in opened' <=> q \in opened
       /\ \A i \in 1..Len(s) : s[i].pin = 1 /\ (s[i].on => p \in opened')
  /\ p # Other /\ drv = sc_005_leds =>
       s # <<>> /\ s[Len(s)] = Set(LedNum, FALSE)

\* Some access of its own, then what the driver adds.
LEMMA Appended ==
  ASSUME drv \in Drivers, drv.door = "ioctl", NEW s \in Seq(Access)
  PROVE  LET t == s \o drv.after
         IN  /\ t \in Seq(Access)
             /\ drv = sc_005_leds =>
                  t # <<>> /\ t[Len(t)] = Set(LedNum, FALSE)
<1> DEFINE t == s \o drv.after
<1>1. drv.after \in Seq(Access)
  BY DriverFacts
<1>2. t \in Seq(Access)
  BY <1>1, ConcatProperties
<1>4. ASSUME drv = sc_005_leds
      PROVE  t # <<>> /\ t[Len(t)] = Set(LedNum, FALSE)
  <2>1. drv.after = <<Set(LedNum, FALSE)>>
    BY <1>4, Leds005 DEF Silence
  <2>2. Len(drv.after) = 1 /\ drv.after[1] = Set(LedNum, FALSE)
    BY <2>1
  <2>3. /\ Len(t) = Len(s) + 1
        /\ \A i \in 1..Len(s) + 1 : t[i] = IF i <= Len(s) THEN s[i]
                                           ELSE drv.after[i - Len(s)]
    <3>1. /\ Len(t) = Len(s) + Len(drv.after)
          /\ \A i \in 1..Len(s) + Len(drv.after) :
               t[i] = IF i <= Len(s) THEN s[i] ELSE drv.after[i - Len(s)]
      BY <1>1, ConcatProperties
    <3>2. QED
      BY <2>2, <3>1
  <2>4. Len(s) \in Nat
    BY LenProperties
  <2>5. t[Len(s) + 1] = drv.after[1]
    BY <2>3, <2>4
  <2>6. QED
    BY <2>2, <2>3, <2>4, <2>5, <1>2, EmptySeq
<1>5. QED
  BY <1>2, <1>4

\* A sequence of one element.
LEMMA Single ==
  ASSUME NEW S, NEW a \in S
  PROVE  <<a>> \in Seq(S) /\ Len(<<a>>) = 1 /\ <<a>>[1] = a
OBVIOUS

\* Each of the five ways to begin a call is a start: open(), and a load;
LEMMA OpenStarts ==
  ASSUME TypeOK, NEW p \in Files, Open(p)
  PROVE  \E s : Starts(p, s)
<1>1. drv \in Drivers /\ OnWhileOpen /\ opened' = opened \cup {p}
  BY DriverFacts DEF TypeOK, Open, OnWhileOpen
<1>2. /\ drv.setup \in Seq({Set(1, TRUE)}) /\ drv.registers = Alone
      /\ drv # sc_005_leds
  BY <1>1, DriverFacts, Leds005 DEF OnWhileOpen
<1>3. PICK s \in Seq({Set(1, TRUE)}) : Begin(p, s)
  <2>1. <<Set(1, TRUE)>> \in Seq({Set(1, TRUE)})
    OBVIOUS
  <2>2. QED
    BY <1>1, <1>2, <2>1 DEF Open, Enter
<1>4. s \in Seq(Access)
  <2>1. Set(1, TRUE) \in Access
    BY <1>2 DEF Access, Set, Pins, Alone
  <2>2. QED
    BY <2>1, SeqMonotonic
<1>5. \A i \in 1..Len(s) : s[i] = Set(1, TRUE)
  <2>1. \A i \in 1..Len(s) : s[i] \in {Set(1, TRUE)}
    BY <1>3, ElementOfSeq
  <2>2. QED
    BY <2>1
<1>6. Set(1, TRUE).pin = 1
  BY DEF Set
<1>7. /\ opened' \subseteq Files /\ p \in opened'
      /\ \A q \in Files \ {p} : q \in opened' <=> q \in opened
  BY <1>1 DEF TypeOK
<1>8. \A i \in 1..Len(s) : s[i].pin = 1
  BY <1>5, <1>6
<1>9. Starts(p, s)
  BY ProcessAssumption, <1>1, <1>2, <1>3, <1>4, <1>7, <1>8 DEF Starts, OnWhileOpen
<1>10. QED
  BY <1>9

\* release(), and the unload of 046 and 28.
LEMMA ReleaseStarts ==
  ASSUME TypeOK, NEW p \in Files, Release(p)
  PROVE  \E s : Starts(p, s)
<1> DEFINE s == <<Set(1, FALSE)>>
<1>1. /\ drv \in Drivers /\ OnWhileOpen /\ opened' = opened \ {p}
      /\ Begin(p, s)
  BY DEF TypeOK, Release, Enter
<1>2. drv.registers = Alone /\ drv # sc_005_leds
  BY <1>1, DriverFacts, Leds005 DEF OnWhileOpen
<1>3. s \in Seq(Access)
  <2>1. Set(1, FALSE) \in Access
    BY <1>2 DEF Access, Set, Pins, Alone
  <2>2. QED
    BY <2>1, Single
<1>4. Len(s) = 1 /\ s[1] = Set(1, FALSE)
  BY Single
<1> HIDE DEF s
<1>5. s # <<>> /\ \A i \in 1..Len(s) : s[i] = Set(1, FALSE)
  <2>1. s # <<>>
    BY <1>4
  <2>2. ASSUME NEW i \in 1..Len(s) PROVE s[i] = Set(1, FALSE)
    <3>1. i = 1
      BY <1>4
    <3>2. QED
      BY <1>4, <3>1
  <2>3. QED
    BY <2>1, <2>2
<1>6. Set(1, FALSE).pin = 1 /\ ~Set(1, FALSE).on
  BY DEF Set
<1>7. /\ opened' \subseteq Files
      /\ \A q \in Files : q # p => (q \in opened' <=> q \in opened)
  BY <1>1 DEF TypeOK
<1>8. QED
  BY ProcessAssumption, <1>1, <1>2, <1>3, <1>5, <1>6, <1>7
     DEF Starts, OnWhileOpen

\* ioctl() with a pin of the driver.
LEMMA IoctlStarts ==
  ASSUME TypeOK, NEW p \in Files, Ioctl(p)
  PROVE  \E s : Starts(p, s)
<1>1. PICK b \in Own, on \in BOOLEAN : Begin(p, <<Set(b, on)>> \o drv.after)
  BY DEF Ioctl, Enter
<1> DEFINE one == <<Set(b, on)>>
           s   == one \o drv.after
<1>2. drv \in Drivers /\ drv.door = "ioctl" /\ opened' = opened
  BY DEF TypeOK, Ioctl
<1>3. one \in Seq(Access)
  BY DEF Own, Access, Set
<1>4. /\ s \in Seq(Access)
      /\ drv = sc_005_leds => s # <<>> /\ s[Len(s)] = Set(LedNum, FALSE)
  BY <1>2, <1>3, Appended
<1>5. Begin(p, s)
  BY <1>1
<1>6. opened' \subseteq Files /\ ~OnWhileOpen
  BY <1>2 DEF TypeOK, OnWhileOpen
<1> HIDE DEF s
<1>7. QED
  BY ProcessAssumption, <1>2, <1>4, <1>5, <1>6 DEF Starts

\* ioctl() with the index one past the array.
LEMMA IoctlStrayStarts ==
  ASSUME TypeOK, NEW p \in Files, IoctlStray(p)
  PROVE  \E s : Starts(p, s)
<1>0. PICK on \in BOOLEAN : \E r \in Stray(on) : Begin(p, r \o drv.after)
  BY DEF IoctlStray, Enter
<1>1. PICK r \in Stray(on) : Begin(p, r \o drv.after)
  BY <1>0
<1> DEFINE s == r \o drv.after
<1>2. drv \in Drivers /\ drv.door = "ioctl" /\ opened' = opened
  BY DriverFacts DEF TypeOK, IoctlStray
<1>3. r \in Seq(Access)
  <2>1. \A b \in Pins : [Set(b, on) EXCEPT !.stray = TRUE] \in Access
    BY DEF Access, Set
  <2>2. \A a \in Access : <<a>> \in Seq(Access)
    OBVIOUS
  <2>3. <<>> \in Seq(Access)
    OBVIOUS
  <2>4. QED
    BY <2>1, <2>2, <2>3 DEF Stray
<1>4. /\ s \in Seq(Access)
      /\ drv = sc_005_leds => s # <<>> /\ s[Len(s)] = Set(LedNum, FALSE)
  BY <1>2, <1>3, Appended
<1>5. Begin(p, s)
  BY <1>1
<1>6. opened' \subseteq Files /\ ~OnWhileOpen
  BY <1>2 DEF TypeOK, OnWhileOpen
<1> HIDE DEF s
<1>7. QED
  BY ProcessAssumption, <1>2, <1>4, <1>5, <1>6 DEF Starts

\* A call of the neighbour.
LEMMA NeighbourStarts ==
  ASSUME TypeOK, NeighbourCall
  PROVE  \E s : Starts(Other, s)
<1>1. PICK b \in Pins \cap Neighbours, on \in BOOLEAN :
        Begin(Other, <<Set(b, on)>>)
  BY DEF NeighbourCall
<1> DEFINE s == <<Set(b, on)>>
<1>2. opened' = opened /\ opened \subseteq Files
  BY DEF NeighbourCall, TypeOK
<1>3. Set(b, on) \in Access /\ Set(b, on).pin = b
  BY DEF Access, Set
<1>4. s \in Seq(Access) /\ Len(s) = 1 /\ s[1] = Set(b, on)
  BY <1>3, Single
<1> HIDE DEF s
<1>5. \A i \in 1..Len(s) : s[i].pin \in Neighbours
  BY <1>3, <1>4
<1>6. Begin(Other, s)
  BY <1>1 DEF s
<1>7. QED
  BY <1>2, <1>4, <1>5, <1>6 DEF Starts

\* Every step starts a call, makes half an access, or is not a caller's.
LEMMA Steps ==
  ASSUME TypeOK, Next
  PROVE  \/ \E p \in Procs \ {Loader} : \E s : Starts(p, s)
         \/ \E p \in Procs : Load(p) \/ Store(p)
         \/ RequestFails
<1>1. CASE \E p \in Files : Open(p) \/ Release(p) \/ Ioctl(p) \/ IoctlStray(p)
  <2>1. Files \subseteq Procs \ {Loader}
    BY ProcessAssumption DEF Procs, Callers
  <2>2. QED
    BY <1>1, <2>1, OpenStarts, ReleaseStarts, IoctlStarts, IoctlStrayStarts
<1>2. CASE NeighbourCall
  <2>1. Other \in Procs \ {Loader}
    BY ProcessAssumption DEF Procs
  <2>2. QED
    BY <1>2, <2>1, NeighbourStarts
<1>3. QED
  BY <1>1, <1>2 DEF Next

\* The access that process p makes next, and what is left of its call.
LEMMA HeadOfCall ==
  ASSUME TypeOK, NEW p \in Procs, todo[p] # <<>>
  PROVE  /\ Head(todo[p]) \in Access
         /\ Head(todo[p]).pin \in Pins
         /\ Head(todo[p]).on \in BOOLEAN
         /\ Head(todo[p]) = todo[p][1]
         /\ Tail(todo[p]) \in Seq(Access)
         /\ Len(todo[p]) \in Nat \ {0}
         /\ Len(Tail(todo[p])) = Len(todo[p]) - 1
         /\ \A i \in 1..Len(todo[p]) - 1 : Tail(todo[p])[i] = todo[p][i + 1]
<1>1. todo[p] \in Seq(Access)
  BY DEF TypeOK
<1>2. /\ Head(todo[p]) \in Access /\ Tail(todo[p]) \in Seq(Access)
      /\ Len(Tail(todo[p])) = Len(todo[p]) - 1
      /\ \A i \in 1..Len(Tail(todo[p])) : Tail(todo[p])[i] = todo[p][i + 1]
  BY <1>1, HeadTailProperties
<1>3. Len(todo[p]) \in Nat \ {0}
  BY <1>1, EmptySeq
<1>4. Head(todo[p]) = todo[p][1]
  BY <1>1
<1>5. QED
  BY <1>2, <1>3, <1>4 DEF Access

\* The driver and its neighbour stay what they are.
LEMMA Stays ==
  ASSUME Next
  PROVE  /\ drv' = drv /\ way' = way /\ Pins' = Pins /\ OnWhileOpen' = OnWhileOpen
         /\ \A b : SameRegister(b)' = SameRegister(b)
         /\ \A p : How(p)' = How(p)
<1>1. drv' = drv /\ way' = way
  BY DEF Next, Open, Release, Ioctl, IoctlStray, Enter, Begin, NeighbourCall,
     RequestFails, Load, Store
<1>2. QED
  BY <1>1 DEF Pins, OnWhileOpen, SameRegister, How

\* A register is accessed in one of the three ways, by whomever.
LEMMA Accesses ==
  ASSUME TypeOK, NEW p
  PROVE  How(p) \in {"rmw", "write", "pin"}
BY DriverFacts, WaysAssumption DEF TypeOK, How

\* Only the drivers with an array can fail to get a pin: their init holds no
\* copy.
LEMMA RequestFailsAlone ==
  ASSUME TypeOK, RequestFails
  PROVE  /\ Loader \notin loaded /\ drv.door = "ioctl" /\ Loader \in Procs
         /\ \A q \in Procs \ {Loader} : todo'[q] = todo[q]
<1>1. drv.how = "pin" /\ drv.door = "ioctl" /\ How(Loader) = drv.how
  BY DriverFacts, ProcessAssumption DEF TypeOK, RequestFails, How
<1>2. \A q \in Procs \ {Loader} : todo'[q] = todo[q]
  BY DEF TypeOK, RequestFails
<1>3. QED
  BY <1>1, <1>2 DEF TypeOK, Procs, Callers

\* The types hold when a driver has been registered.
LEMMA TypeInit == Init => TypeOK
<1> SUFFICES ASSUME Init PROVE TypeOK
  OBVIOUS
<1>1. drv \in Drivers /\ drv.setup \in Seq(Access) /\ <<>> \in Seq(Access)
  BY DriverFacts DEF Init
<1>2. todo \in [Procs -> Seq(Access)]
  BY <1>1 DEF Init
<1>3. QED
  BY <1>1, <1>2 DEF Init, TypeOK

\* A step keeps the types.
LEMMA TypeStep == TypeOK /\ [Next]_vars => TypeOK'
<1> SUFFICES ASSUME TypeOK, [Next]_vars PROVE TypeOK'
  OBVIOUS
<1>1. CASE UNCHANGED vars
  BY <1>1 DEF TypeOK, vars, Pins, Access, OnWhileOpen, How
<1>2. CASE \E p \in Procs \ {Loader} : \E s : Starts(p, s)
  <2>0. PICK p \in Procs \ {Loader} : \E s : Starts(p, s)
    BY <1>2
  <2>1. PICK s : Starts(p, s)
    BY <2>0
  <2>2. todo[p] = <<>> /\ p \in Procs
    BY <2>1 DEF Starts, Begin
  <2>3. todo' \in [Procs -> Seq(Access)]
    BY <2>1 DEF TypeOK, Starts, Begin
  <2>4. \A q \in loaded : todo'[q] = todo[q]
    BY <2>1, <2>2 DEF TypeOK, Starts, Begin
  <2>5. ~OnWhileOpen => opened' = {}
    BY <2>1 DEF TypeOK, Starts, OnWhileOpen
  <2>6. QED
    BY <2>1, <2>3, <2>4, <2>5
    DEF TypeOK, Starts, Begin, Pins, Access, OnWhileOpen, How
<1>3. CASE \E p \in Procs : Load(p)
  <2>1. PICK p \in Procs : Load(p)
    BY <1>3
  <2>2. copy' \in [Procs -> SUBSET Pins]
    BY <2>1 DEF TypeOK, Load
  <2>3. QED
    BY <2>1, <2>2 DEF TypeOK, Load, Pins, Access, OnWhileOpen, How
<1>4. CASE \E p \in Procs : Store(p)
  <2>1. PICK p \in Procs : Store(p)
    BY <1>4
  <2>2. todo' \in [Procs -> Seq(Access)]
    BY <2>1, HeadOfCall DEF TypeOK, Store
  <2>3. Written(p, Head(todo[p])) \subseteq Pins
    <3>1. Head(todo[p]).pin \in Pins
      BY <2>1, HeadOfCall DEF Store
    <3>2. SameRegister(Head(todo[p]).pin) \subseteq Pins
      BY <3>1, Partition DEF TypeOK
    <3>3. lit \subseteq Pins /\ copy[p] \subseteq Pins
          /\ How(p) \in {"rmw", "write", "pin"}
      BY Accesses DEF TypeOK
    <3>4. \A S, b, on : S \subseteq Pins /\ b \in Pins
                          => Change(S, b, on) \subseteq Pins
      BY DEF Change
    <3>5. QED
      BY <3>1, <3>2, <3>3, <3>4 DEF Written
  <2>4. \A q \in loaded' : q \in loaded /\ todo'[q] = todo[q]
    BY <2>1 DEF TypeOK, Store
  <2>5. owed' \in [Pins -> {"any", "on", "off"}]
    BY <2>1 DEF TypeOK, Store, Level
  <2>6. copy' \in [Procs -> SUBSET Pins]
    BY <2>1 DEF TypeOK, Store
  <2>7. QED
    BY <2>1, <2>2, <2>3, <2>4, <2>5, <2>6
    DEF TypeOK, Store, Pins, Access, OnWhileOpen, How
<1>5. CASE RequestFails
  <2>1. todo' \in [Procs -> Seq(Access)]
    <3>1. Loader \in Procs /\ todo[Loader] # <<>> /\ <<>> \in Seq(Access)
      BY <1>5 DEF Procs, Callers, RequestFails
    <3>2. Tail(todo[Loader]) \in Seq(Access)
      BY <3>1, HeadOfCall
    <3>3. QED
      BY <1>5, <3>1, <3>2 DEF TypeOK, RequestFails
  <2>2. QED
    BY <1>5, <2>1, RequestFailsAlone
    DEF TypeOK, RequestFails, Pins, Access, OnWhileOpen, How
<1>6. QED
  BY <1>1, <1>2, <1>3, <1>4, <1>5, Steps

\* Every access that is pending names a pin of the driver, and a call between
\* its readl() and its writel() has one pending, for any number of processes.
THEOREM TypeCorrect == Spec => []TypeOK
BY TypeInit, TypeStep, PTL DEF Spec
-----------------------------------------------------------------------------
\* The one access that happens: what is lit and owed afterwards.
LEMMA Stored ==
  ASSUME TypeOK, CopiesHonest, NEW p \in Procs, Store(p)
  PROVE  LET b == Head(todo[p]).pin
             R == SameRegister(b)
         IN  /\ b \in Pins
             /\ b \in lit' <=> Head(todo[p]).on
             /\ \A c \in Pins \ {b} :
                  \/ owed'[c] = "any"
                  \/ /\ owed'[c] = owed[c]
                     /\ p \in loaded /\ c \in R
                          => (c \in lit' <=> c \in copy[p])
                     /\ p \notin loaded \/ c \notin R
                          => (c \in lit' <=> c \in lit)
             /\ owed'[b] \in {"any", Level(Head(todo[p]).on)}
             /\ Held(b) => owed'[b] = "any"
             /\ ~Held(b) /\ ~Head(todo[p]).stray => owed'[b] # "any"
<1> DEFINE b == Head(todo[p]).pin
           on == Head(todo[p]).on
           R == SameRegister(b)
<1>1. /\ drv \in Drivers /\ todo[p] # <<>> /\ b \in Pins /\ on \in BOOLEAN
      /\ Head(todo[p]).stray \in BOOLEAN
  BY HeadOfCall DEF TypeOK, Store, Access
<1>2. b \in R /\ \A c \in R : SameRegister(c) = R
  BY <1>1, Partition
<1>3. How(p) \in {"rmw", "write", "pin"}
  BY Accesses
<1>4. lit' = Written(p, Head(todo[p])) /\ (How(p) = "rmw" => p \in loaded)
      /\ (p \in loaded => How(p) = "rmw")
  BY DEF TypeOK, Store
<1>5. \A c \in Pins :
        owed'[c] = IF c = b THEN IF Head(todo[p]).stray \/ Held(b) THEN "any"
                                 ELSE Level(on)
                   ELSE IF How(p) = "write" /\ c \in R THEN "any" ELSE owed[c]
  BY DEF Store
<1>6. b \in lit' <=> on
  BY <1>1, <1>2, <1>3, <1>4 DEF Written, Change
<1>7. ASSUME NEW c \in Pins \ {b}
      PROVE  \/ owed'[c] = "any"
             \/ /\ owed'[c] = owed[c]
                /\ p \in loaded /\ c \in R => (c \in lit' <=> c \in copy[p])
                /\ p \notin loaded \/ c \notin R => (c \in lit' <=> c \in lit)
  <2>1. CASE How(p) = "rmw"
    <3>1. owed'[c] = owed[c]
      BY <1>5, <2>1
    <3>2. lit' = (lit \ R) \cup Change(copy[p], b, on) /\ p \in loaded
      BY <1>4, <2>1 DEF Written
    <3>3. copy[p] \subseteq R
      BY <3>2 DEF CopiesHonest
    <3>4. c \in R => (c \in lit' <=> c \in copy[p])
      BY <3>2 DEF Change
    <3>5. c \notin R => (c \in lit' <=> c \in lit)
      BY <3>2, <3>3 DEF Change
    <3>6. QED
      BY <3>1, <3>2, <3>4, <3>5
  <2>2. CASE How(p) = "write"
    <3>1. c \in R => owed'[c] = "any"
      BY <1>5, <2>2
    <3>2. c \notin R => owed'[c] = owed[c]
      BY <1>5, <2>2
    <3>3. c \notin R => (c \in lit' <=> c \in lit)
      BY <1>2, <1>4, <2>2 DEF Written, Change
    <3>4. QED
      BY <3>1, <3>2, <3>3
  <2>3. CASE How(p) = "pin"
    <3>1. owed'[c] = owed[c] /\ p \notin loaded
      BY <1>4, <1>5, <2>3
    <3>2. c \in lit' <=> c \in lit
      BY <1>4, <2>3 DEF Written, Change
    <3>3. QED
      BY <3>1, <3>2
  <2>4. QED
    BY <1>3, <2>1, <2>2, <2>3
<1>8. /\ owed'[b] \in {"any", Level(on)}
      /\ Held(b) => owed'[b] = "any"
      /\ ~Held(b) /\ ~Head(todo[p]).stray => owed'[b] # "any"
  <2>1. owed'[b] = IF Head(todo[p]).stray \/ Held(b) THEN "any"
                   ELSE Level(on)
    BY <1>1, <1>5
  <2>2. CASE Head(todo[p]).stray \/ Held(b)
    BY <2>1, <2>2
  <2>3. CASE ~(Head(todo[p]).stray \/ Held(b))
    BY <1>1, <2>1, <2>3 DEF Level
  <2>4. QED
    BY <2>2, <2>3
<1>9. QED
  BY <1>1, <1>6, <1>7, <1>8

\* A call that starts changes nothing but what its process has to do.
LEMMA StartsKeeps ==
  ASSUME TypeOK, NEW p \in Procs \ {Loader}, NEW s, Starts(p, s)
  PROVE  /\ UNCHANGED <<lit, copy, loaded, owed>>
         /\ todo[p] = <<>> /\ todo'[p] = s
         /\ \A q \in Procs \ {p} : todo'[q] = todo[q]
         /\ \A q \in loaded : todo'[q] = todo[q]
         /\ todo'[Loader] = todo[Loader]
         /\ p \in Procs /\ Loader \in Procs
BY DEF TypeOK, Starts, Begin, Procs, Callers

\* A step leaves every pin at the level it owes.
LEMMA HonestStep ==
  ASSUME TypeOK, Honest, CopiesHonest, Next
  PROVE  Honest'
<1>1. Pins' = Pins
  BY Stays
<1>2. CASE \E p \in Procs \ {Loader} : \E s : Starts(p, s)
  BY <1>1, <1>2, StartsKeeps DEF Honest
<1>3. CASE \E p \in Procs : Load(p)
  BY <1>1, <1>3 DEF Honest, Load
<1>4. CASE \E p \in Procs : Store(p)
  <2>1. PICK p \in Procs : Store(p)
    BY <1>4
  <2> DEFINE b == Head(todo[p]).pin
             R == SameRegister(b)
  <2>2. /\ b \in lit' <=> Head(todo[p]).on
        /\ owed'[b] \in {"any", Level(Head(todo[p]).on)}
    BY <2>1, Stored
  <2>3. ASSUME NEW c \in Pins
        PROVE  /\ owed'[c] = "on" => c \in lit'
               /\ owed'[c] = "off" => c \notin lit'
    <3>1. CASE c = b
      BY <2>2, <3>1 DEF Level
    <3>2. CASE c # b
      <4>1. \/ owed'[c] = "any"
            \/ /\ owed'[c] = owed[c]
               /\ p \in loaded /\ c \in R => (c \in lit' <=> c \in copy[p])
               /\ p \notin loaded \/ c \notin R => (c \in lit' <=> c \in lit)
        BY <2>1, <3>2, Stored
      <4>2. p \in loaded /\ c \in R => /\ owed[c] = "on" => c \in copy[p]
                                       /\ owed[c] = "off" => c \notin copy[p]
        BY <3>2 DEF CopiesHonest
      <4>3. QED
        BY <4>1, <4>2 DEF Honest
    <3>3. QED
      BY <3>1, <3>2
  <2>4. QED
    BY <1>1, <2>3 DEF Honest
<1>5. CASE RequestFails
  BY <1>1, <1>5 DEF Honest, RequestFails
<1>6. QED
  BY <1>2, <1>3, <1>4, <1>5, Steps

\* A step leaves every copy at the levels its pins owe.
LEMMA CopiesHonestStep ==
  ASSUME TypeOK, Honest, CopiesHonest, Next
  PROVE  CopiesHonest'
<1>1. \A b : SameRegister(b)' = SameRegister(b)
  BY Stays
<1> SUFFICES ASSUME NEW q \in loaded'
             PROVE  /\ copy'[q] \subseteq SameRegister(Head(todo'[q]).pin)
                    /\ \A c \in SameRegister(Head(todo'[q]).pin) :
                         c # Head(todo'[q]).pin =>
                           /\ owed'[c] = "on" => c \in copy'[q]
                           /\ owed'[c] = "off" => c \notin copy'[q]
  BY <1>1 DEF CopiesHonest
<1>2. CASE \E p \in Procs \ {Loader} : \E s : Starts(p, s)
  BY <1>1, <1>2, StartsKeeps DEF CopiesHonest
<1>3. CASE \E p \in Procs : Load(p)
  <2>1. PICK p \in Procs : Load(p)
    BY <1>3
  <2>2. UNCHANGED <<todo, owed>> /\ loaded' = loaded \cup {p}
    BY <2>1 DEF Load
  <2>3. CASE q = p
    <3>1. copy'[q] = lit \cap SameRegister(Head(todo[q]).pin)
      BY <2>1, <2>3 DEF Load, TypeOK
    <3>2. Head(todo[q]).pin \in Pins
      BY <2>1, <2>3, HeadOfCall DEF Load
    <3>3. SameRegister(Head(todo[q]).pin) \subseteq Pins
      BY <3>2, Partition DEF TypeOK
    <3>4. QED
      BY <2>2, <3>1, <3>3 DEF Honest
  <2>4. CASE q # p
    <3>1. q \in loaded /\ copy'[q] = copy[q]
      BY <2>1, <2>2, <2>4 DEF Load, TypeOK
    <3>2. QED
      BY <2>2, <3>1 DEF CopiesHonest
  <2>5. QED
    BY <2>3, <2>4
<1>4. CASE \E p \in Procs : Store(p)
  <2>1. PICK p \in Procs : Store(p)
    BY <1>4
  <2>2. q \in loaded /\ q # p /\ copy'[q] = copy[q] /\ todo'[q] = todo[q]
    BY <2>1 DEF Store, TypeOK
  <2> DEFINE b == Head(todo[p]).pin
             d == Head(todo[q]).pin
  <2>3. d \in Pins /\ SameRegister(d) \subseteq Pins
    <3>1. q \in Procs /\ todo[q] # <<>>
      BY <2>2 DEF TypeOK
    <3>2. QED
      BY <3>1, HeadOfCall, Partition DEF TypeOK
  <2>4. ASSUME NEW c \in SameRegister(d), c # d
        PROVE  owed'[c] = owed[c] \/ owed'[c] = "any"
    <3>1. CASE c = b
      <4>1. Held(b)
        BY <2>2, <2>4, <3>1 DEF Held
      <4>2. QED
        BY <2>1, <3>1, <4>1, Stored
    <3>2. CASE c # b
      BY <2>1, <2>3, <3>2, Stored
    <3>3. QED
      BY <3>1, <3>2
  <2>5. QED
    BY <2>2, <2>4 DEF CopiesHonest
<1>5. CASE RequestFails
  <2>1. q \in loaded /\ q # Loader /\ todo'[q] = todo[q]
    BY <1>5, RequestFailsAlone DEF TypeOK, RequestFails
  <2>2. QED
    BY <1>5, <2>1 DEF RequestFails, CopiesHonest
<1>6. QED
  BY <1>2, <1>3, <1>4, <1>5, Steps

\* A step leaves the neighbour with its own pins.
LEMMA AsideStep ==
  ASSUME TypeOK, Aside, Next
  PROVE  Aside'
<1>1. Other \in Procs /\ Other # Loader
  BY ProcessAssumption DEF Procs
<1>2. CASE \E p \in Procs \ {Loader} : \E s : Starts(p, s)
  <2>1. PICK p \in Procs \ {Loader} : \E s : Starts(p, s)
    BY <1>2
  <2>2. PICK s : Starts(p, s)
    BY <2>1
  <2>3. CASE p = Other
    <3>1. todo'[Other] = s /\ \A i \in 1..Len(s) : s[i].pin \in Neighbours
      BY <2>2, <2>3, StartsKeeps DEF Starts
    <3>2. QED
      BY <3>1 DEF Aside
  <2>4. CASE p # Other
    BY <1>1, <2>2, <2>4, StartsKeeps DEF Aside
  <2>5. QED
    BY <2>3, <2>4
<1>3. CASE \E p \in Procs : Load(p)
  BY <1>3 DEF Load, Aside
<1>4. CASE \E p \in Procs : Store(p)
  <2>1. PICK p \in Procs : Store(p)
    BY <1>4
  <2>2. CASE p = Other
    <3>1. todo[p] # <<>> /\ todo'[p] = Tail(todo[p])
      BY <2>1 DEF Store, TypeOK
    <3>2. \A i \in 1..Len(todo'[p]) : todo'[p][i].pin \in Neighbours
      BY <2>2, <3>1, HeadOfCall DEF Aside
    <3>3. QED
      BY <2>2, <3>2 DEF Aside
  <2>3. CASE p # Other
    BY <1>1, <2>1, <2>3 DEF Store, TypeOK, Aside
  <2>4. QED
    BY <2>2, <2>3
<1>5. CASE RequestFails
  BY <1>1, <1>5, RequestFailsAlone DEF Aside
<1>6. QED
  BY <1>2, <1>3, <1>4, <1>5, Steps

\* The pins of the driver itself.
LEMMA OwnPins ==
  /\ 1 \notin Neighbours /\ LedNum \notin Neighbours
  /\ Callers \subseteq Procs /\ Other \notin Callers /\ Loader \in Callers
BY LedNumAssumption, ProcessAssumption DEF Neighbours, Procs, Callers

\* What the neighbour stores leaves a pin of the driver alone, or excuses it.
LEMMA OtherStores ==
  ASSUME TypeOK, CopiesHonest, Aside, Store(Other),
         NEW c \in Pins, c \notin Neighbours
  PROVE  /\ owed'[c] \in {"any", owed[c]}
         /\ \A q \in Callers : todo'[q] = todo[q]
         /\ opened' = opened
<1>1. Other \in Procs /\ todo[Other] # <<>>
  BY DEF Procs, Store
<1>2. Head(todo[Other]).pin # c
  BY <1>1, HeadOfCall DEF Aside
<1>3. \A q \in Callers : todo'[q] = todo[q]
  BY OwnPins DEF TypeOK, Store
<1>4. QED
  BY <1>1, <1>2, <1>3, Stored DEF Store

\* A step leaves a pin that is on with an open file or a call.
LEMMA AccountedStep ==
  ASSUME TypeOK, CopiesHonest, Aside, Accounted, Next
  PROVE  Accounted'
<1> SUFFICES ASSUME OnWhileOpen
             PROVE  /\ \A p \in Callers : \A i \in 1..Len(todo'[p]) :
                         /\ todo'[p][i].pin = 1
                         /\ todo'[p][i].on => p \in opened'
                    /\ owed'[1] = "on" => \/ opened' # {}
                                          \/ \E p \in Callers : todo'[p] # <<>>
  BY Stays DEF Accounted
<1>1. Callers \subseteq Procs /\ Other \notin Callers /\ 1 \notin Neighbours
  BY OwnPins
<1>2. drv.registers = Alone /\ drv.door # "ioctl" /\ 1 \in Pins
  BY DriverFacts DEF OnWhileOpen, TypeOK, Pins, Alone
<1>3. CASE \E p \in Procs \ {Loader} : \E s : Starts(p, s)
  <2>1. PICK p \in Procs \ {Loader} : \E s : Starts(p, s)
    BY <1>3
  <2>2. PICK s : Starts(p, s)
    BY <2>1
  <2>3. CASE p = Other
    <3>1. opened' = opened /\ \A q \in Callers : todo'[q] = todo[q]
      BY <1>1, <2>2, <2>3, StartsKeeps DEF Starts
    <3>2. QED
      BY <2>2, <3>1, StartsKeeps DEF Accounted
  <2>4. CASE p # Other
    <3>1. /\ s # <<>> \/ opened' # {}
          /\ \A q \in Files \ {p} : q \in opened' <=> q \in opened
          /\ \A i \in 1..Len(s) : s[i].pin = 1 /\ (s[i].on => p \in opened')
          /\ opened' \subseteq Files /\ opened \subseteq Files
      BY <2>2, <2>4 DEF Starts, TypeOK
    <3>2. \A q \in Callers \ {p} : q \in opened' <=> q \in opened
      BY <3>1 DEF Callers
    <3>3. p \in Callers
      BY <2>4 DEF Procs
    <3>4. QED
      BY <1>1, <2>2, <3>1, <3>2, <3>3, StartsKeeps DEF Accounted
  <2>5. QED
    BY <2>3, <2>4
<1>4. CASE \E p \in Procs : Load(p)
  BY <1>4 DEF Load, Accounted
<1>5. CASE Store(Other)
  <2>1. /\ owed'[1] \in {"any", owed[1]} /\ opened' = opened
        /\ \A q \in Callers : todo'[q] = todo[q]
    BY <1>1, <1>2, <1>5, OtherStores
  <2>2. QED
    BY <2>1 DEF Accounted
<1>6. CASE \E p \in Callers : Store(p)
  <2>1. PICK p \in Callers : Store(p)
    BY <1>6
  <2>2. /\ todo[p] # <<>> /\ todo'[p] = Tail(todo[p]) /\ opened' = opened
        /\ \A q \in Callers \ {p} : todo'[q] = todo[q]
    BY <1>1, <2>1 DEF Store, TypeOK
  <2>3. \A i \in 1..Len(todo'[p]) : /\ todo'[p][i].pin = 1
                                    /\ todo'[p][i].on => p \in opened'
    BY <1>1, <2>2, HeadOfCall DEF Accounted
  <2>4. Head(todo[p]).pin = 1 /\ (Head(todo[p]).on => p \in opened)
    BY <1>1, <2>2, HeadOfCall DEF Accounted
  <2>5. owed'[1] \in {"any", Level(Head(todo[p]).on)}
    BY <1>1, <2>1, <2>4, Stored
  <2>6. owed'[1] = "on" => opened' # {}
    BY <2>2, <2>4, <2>5 DEF Level
  <2>7. ASSUME NEW q \in Callers
        PROVE  \A i \in 1..Len(todo'[q]) : /\ todo'[q][i].pin = 1
                                           /\ todo'[q][i].on => q \in opened'
    <3>1. CASE q = p
      BY <2>3, <3>1
    <3>2. CASE q # p
      BY <2>2, <3>2 DEF Accounted
    <3>3. QED
      BY <3>1, <3>2
  <2>8. QED
    BY <2>6, <2>7
<1>7. CASE RequestFails
  BY <1>2, <1>7, RequestFailsAlone
<1>8. QED
  BY <1>3, <1>4, <1>5, <1>6, <1>7, Steps DEF Procs

\* The last element of a sequence is that of its tail, if it has one.
LEMMA LastOfTail ==
  ASSUME NEW S, NEW s \in Seq(S), s # <<>>
  PROVE  /\ Tail(s) # <<>> => Tail(s)[Len(Tail(s))] = s[Len(s)]
         /\ Tail(s) = <<>> => Head(s) = s[Len(s)]
<1>1. PICK n \in Nat : n = Len(s)
  BY LenProperties
<1>2. n # 0
  BY <1>1, EmptySeq
<1>3. PICK t \in Seq(S) : t = Tail(s)
  BY HeadTailProperties
<1>4. Len(t) = n - 1 /\ \A i \in 1..Len(t) : t[i] = s[i + 1]
  BY <1>1, <1>3, HeadTailProperties
<1>5. CASE t = <<>>
  <2>1. n = 1
    BY <1>2, <1>4, <1>5
  <2>2. Head(s) = s[1]
    OBVIOUS
  <2>3. QED
    BY <1>1, <1>3, <1>5, <2>1, <2>2
<1>6. CASE t # <<>>
  <2>1. n - 1 \in 1..Len(t) /\ (n - 1) + 1 = n
    BY <1>2, <1>4, <1>6, EmptySeq
  <2>2. t[n - 1] = s[(n - 1) + 1]
    BY <1>4, <2>1
  <2>3. QED
    BY <1>1, <1>3, <1>4, <1>6, <2>1, <2>2
<1>7. QED
  BY <1>5, <1>6

\* A step leaves every call of 005 ending with silence.
LEMMA SilencedStep ==
  ASSUME TypeOK, CopiesHonest, Aside, Silenced, Next
  PROVE  Silenced'
<1> SUFFICES ASSUME drv = sc_005_leds
             PROVE  /\ \A p \in Callers : todo'[p] # <<>>
                         => todo'[p][Len(todo'[p])] = Set(LedNum, FALSE)
                    /\ owed'[LedNum] = "on" => \E p \in Callers : todo'[p] # <<>>
  BY Stays DEF Silenced
<1>1. /\ Callers \subseteq Procs /\ Other \notin Callers /\ Loader \in Callers
      /\ LedNum \notin Neighbours
  BY OwnPins
<1>2. LedNum \in Pins
  BY LedNumAssumption, Leds005 DEF Pins, Array
<1>3. Set(LedNum, FALSE).pin = LedNum /\ ~Set(LedNum, FALSE).on
  BY DEF Set
<1>4. ASSUME NEW p \in Callers, todo[p] # <<>>
      PROVE  /\ Tail(todo[p]) # <<>> =>
                  Tail(todo[p])[Len(Tail(todo[p]))] = Set(LedNum, FALSE)
             /\ Tail(todo[p]) = <<>> => Head(todo[p]) = Set(LedNum, FALSE)
  <2>1. todo[p] \in Seq(Access) /\ todo[p][Len(todo[p])] = Set(LedNum, FALSE)
    BY <1>1, <1>4 DEF Silenced, TypeOK
  <2>2. QED
    BY <1>4, <2>1, LastOfTail
<1>5. CASE \E p \in Procs \ {Loader} : \E s : Starts(p, s)
  <2>1. PICK p \in Procs \ {Loader} : \E s : Starts(p, s)
    BY <1>5
  <2>2. PICK s : Starts(p, s)
    BY <2>1
  <2>3. CASE p = Other
    <3>1. owed' = owed /\ \A q \in Callers : todo'[q] = todo[q]
      BY <1>1, <2>2, <2>3, StartsKeeps
    <3>2. QED
      BY <3>1 DEF Silenced
  <2>4. CASE p # Other
    <3>1. s # <<>> /\ s[Len(s)] = Set(LedNum, FALSE) /\ p \in Callers
      BY <2>2, <2>4 DEF Starts, Procs
    <3>2. QED
      BY <1>1, <2>2, <3>1, StartsKeeps DEF Silenced
  <2>5. QED
    BY <2>3, <2>4
<1>6. CASE \E p \in Procs : Load(p)
  BY <1>6 DEF Load, Silenced
<1>7. CASE Store(Other)
  <2>1. /\ owed'[LedNum] \in {"any", owed[LedNum]}
        /\ \A q \in Callers : todo'[q] = todo[q]
    BY <1>1, <1>2, <1>7, OtherStores
  <2>2. QED
    BY <2>1 DEF Silenced
<1>8. CASE \E p \in Callers : Store(p)
  <2>1. PICK p \in Callers : Store(p)
    BY <1>8
  <2>2. /\ todo[p] # <<>> /\ todo'[p] = Tail(todo[p])
        /\ \A q \in Callers \ {p} : todo'[q] = todo[q]
    BY <1>1, <2>1 DEF Store, TypeOK
  <2>3. \A q \in Callers : todo'[q] # <<>>
          => todo'[q][Len(todo'[q])] = Set(LedNum, FALSE)
    BY <1>4, <2>2 DEF Silenced
  <2>4. CASE Tail(todo[p]) = <<>>
    <3>1. Head(todo[p]) = Set(LedNum, FALSE)
      BY <1>4, <2>2, <2>4
    <3>2. /\ p \in Procs /\ Head(todo[p]).pin = LedNum
          /\ ~Head(todo[p]).on
      BY <1>1, <1>3, <3>1
    <3>3. owed'[LedNum] \in {"any", Level(Head(todo[p]).on)}
      BY <1>2, <2>1, <3>2, Stored
    <3>4. owed'[LedNum] \in {"any", "off"}
      BY <3>2, <3>3 DEF Level
    <3>5. QED
      BY <2>3, <3>4
  <2>5. CASE Tail(todo[p]) # <<>>
    BY <2>2, <2>3, <2>5
  <2>6. QED
    BY <2>4, <2>5
<1>9. CASE RequestFails
  <2>1. /\ todo[Loader] # <<>> /\ Head(todo[Loader]).on /\ owed' = owed
        /\ todo'[Loader] = Tail(todo[Loader])
        /\ \A q \in Callers \ {Loader} : todo'[q] = todo[q]
    BY <1>1, <1>9 DEF RequestFails, TypeOK
  <2>2. Tail(todo[Loader]) # <<>>
    BY <1>1, <1>3, <1>4, <2>1
  <2>3. QED
    BY <1>1, <1>4, <2>1, <2>2 DEF Silenced
<1>10. QED
  BY <1>5, <1>6, <1>7, <1>8, <1>9, Steps DEF Procs
-----------------------------------------------------------------------------
\* The inductive invariant.
IInv == /\ TypeOK
        /\ Honest
        /\ CopiesHonest
        /\ Aside
        /\ Accounted
        /\ Silenced

\* What each driver finds when it is loaded.
LEMMA Initially ==
  ASSUME Init
  PROVE  IInv
<1>1. TypeOK
  BY TypeInit
<1>2. Honest /\ CopiesHonest
  BY DEF Init, Honest, CopiesHonest
<1>3. /\ drv \in Drivers /\ Loader \in Procs
      /\ todo[Loader] = IF drv.door = "ioctl" THEN drv.setup ELSE <<>>
      /\ \A p \in Procs : p # Loader => todo[p] = <<>>
  <2>1. \A p \in Procs : todo[p] = IF p = Loader /\ drv.door = "ioctl"
                                   THEN drv.setup ELSE <<>>
    BY DEF Init
  <2>2. drv \in Drivers /\ Loader \in Procs
    BY DEF Init, Procs, Callers
  <2>3. todo[Loader] = IF drv.door = "ioctl" THEN drv.setup ELSE <<>>
    BY <2>1, <2>2
  <2>4. ASSUME NEW p \in Procs, p # Loader PROVE todo[p] = <<>>
    BY <2>1, <2>4
  <2>5. QED
    BY <2>2, <2>3, <2>4
<1>4. Aside
  <2>1. todo[Other] = <<>> /\ 1..Len(<<>>) = {}
    BY <1>3, ProcessAssumption DEF Procs
  <2>2. QED
    BY <2>1 DEF Aside
<1>5. Accounted
  <2>1. ASSUME OnWhileOpen, NEW p \in Callers PROVE todo[p] = <<>>
    <3>1. CASE p = Loader
      BY <1>3, <2>1, <3>1 DEF OnWhileOpen
    <3>2. CASE p # Loader
      BY <1>3, <3>2 DEF Procs
    <3>3. QED
      BY <3>1, <3>2
  <2>2. OnWhileOpen => owed[1] # "on"
    BY DriverFacts DEF Init, OnWhileOpen, Pins, Alone
  <2>3. QED
    BY <2>1, <2>2 DEF Accounted
<1>6. Silenced
  <2> SUFFICES ASSUME drv = sc_005_leds PROVE Silenced
    BY DEF Silenced
  <2>1. AllOn \in Seq(Access) /\ drv.door = "ioctl"
        /\ todo[Loader] = AllOn \o drv.after
    <3>1. 1..LedNum \subseteq Pins
      BY Leds005 DEF Pins, Array
    <3>2. AccessOf(1..LedNum) \subseteq Access
      BY <3>1 DEF Access, AccessOf
    <3>3. QED
      BY <1>3, <3>2, Leds005, Setups, SeqMonotonic
  <2>2. todo[Loader] # <<>>
        /\ todo[Loader][Len(todo[Loader])] = Set(LedNum, FALSE)
    BY <1>3, <2>1, Appended
  <2>3. owed[LedNum] # "on"
    <3>1. LedNum \in Pins
      BY LedNumAssumption, Leds005 DEF Pins, Array
    <3>2. QED
      BY <3>1 DEF Init
  <2>4. QED
    BY <1>3, <2>2, <2>3 DEF Silenced, Procs
<1>7. QED
  BY <1>1, <1>2, <1>4, <1>5, <1>6 DEF IInv

\* The invariant is inductive.
LEMMA Inductive == IInv /\ [Next]_vars => IInv'
<1> SUFFICES ASSUME IInv, [Next]_vars PROVE IInv'
  OBVIOUS
<1>1. CASE Next
  BY <1>1, TypeStep, HonestStep, CopiesHonestStep, AsideStep,
     AccountedStep, SilencedStep DEF IInv
<1>2. CASE UNCHANGED vars
  BY <1>2, TypeStep DEF IInv, vars, Honest, CopiesHonest, Aside,
     Accounted, Silenced, Pins, SameRegister, OnWhileOpen
<1>3. QED
  BY <1>1, <1>2

\* It holds in every reachable state.
THEOREM Invariance == Spec => []IInv
BY Initially, Inductive, PTL DEF Spec

\* Every pin of the fifteen drivers, and of the drivers next to them, shows the
\* level last asked of it, unless a copy of its register was held when it was
\* set, the whole register was stored, or the stray index hit it.
THEOREM PinsTold == Spec => []PinsTellLastAsked
<1>1. IInv => PinsTellLastAsked
  BY DEF IInv, Honest, PinsTellLastAsked
<1>2. QED
  BY <1>1, Invariance, PTL

\* When all files are closed and all calls have returned, the pin that open()
\* lights is off, and the beeper of 005 is silent, whatever overlapped before,
\* unless an old copy or a whole register came over the pin.
THEOREM Dark == Spec => []DarkWhenIdle
<1>1. IInv => DarkWhenIdle
  <2> SUFFICES ASSUME IInv, Idle PROVE DarkWhenIdle
    BY DEF DarkWhenIdle
  <2>1. opened = {} /\ \A p \in Callers : todo[p] = <<>>
    BY DEF Idle
  <2>2. ASSUME OnWhileOpen PROVE 1 \notin lit \/ owed[1] = "any"
    <3>1. 1 \in Pins
      BY <2>2, DriverFacts DEF IInv, TypeOK, OnWhileOpen, Pins, Alone
    <3>2. owed[1] \in {"any", "on", "off"} /\ owed[1] # "on"
      BY <2>1, <2>2, <3>1 DEF IInv, TypeOK, Accounted
    <3>3. QED
      BY <3>1, <3>2 DEF IInv, Honest
  <2>3. ASSUME drv.after # <<>>
        PROVE  LedNum \notin lit \/ owed[LedNum] = "any"
    <3>1. drv = sc_005_leds
      BY <2>3, DriverFacts DEF IInv, TypeOK
    <3>2. LedNum \in Pins
      BY <3>1, LedNumAssumption, Leds005 DEF Pins, Array
    <3>3. owed[LedNum] \in {"any", "on", "off"} /\ owed[LedNum] # "on"
      BY <2>1, <3>1, <3>2 DEF IInv, TypeOK, Silenced
    <3>4. QED
      BY <3>2, <3>3 DEF IInv, Honest
  <2>4. QED
    BY <2>2, <2>3 DEF DarkWhenIdle
<1>2. QED
  BY <1>1, Invariance, PTL
==============================================================================
