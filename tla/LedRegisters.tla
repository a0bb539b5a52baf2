----------------------------- MODULE LedRegisters -----------------------------
(***************************************************************************)
(* Fifteen drivers of LEDs, beepers and a PWM timer.  The level of a pin   *)
(* is a bit of a data register of eight pins, those of the same driver and *)
(* those of other drivers, of which one per register is modelled.  A call  *)
(* makes one or more accesses, each in one of three ways:                  *)
(*   "rmw"    readl(), change one bit, writel(): two steps, no lock        *)
(*   "write"  writel(1 << n) or writel(~(1 << n)): the whole register      *)
(*   "pin"    gpio_set_value(): the bit alone, under the lock of gpiolib   *)
(* Calls of other processes run in between, and so do those of the driver  *)
(* of the neighbouring pins, which may hold a copy of the register, too.   *)
(***************************************************************************)
EXTENDS Integers, Sequences

CONSTANTS Files,    \* the processes that have the device open
          Loader,   \* the process that runs init or probe
          Other,    \* the process in the driver of the neighbouring pins
          Ways,     \* the ways in which that driver may access a register
          LedNum,   \* LED_NUM of leds.c: 32; pins 1 .. LedNum, the last is
                    \* the beeper (led_gpios[2] in the source)
          UsedPins  \* the pins around 028 that somebody asks for

ASSUME LedNumAssumption == LedNum \in Nat \ {0}
ASSUME UsedPinsAssumption == UsedPins \subseteq -2..4
ASSUME ProcessAssumption == Loader \notin Files /\ Other \notin Files \cup {Loader}
ASSUME WaysAssumption == Ways \subseteq {"rmw", "write", "pin"}

VARIABLES drv,        \* the driver; it stays
          way,        \* how the neighbour accesses a register; it stays
          lit,        \* the pins whose bit is 1
          todo,       \* the accesses each process still has to make
          copy,       \* what readl() returned: the lit pins of the register
          loaded,     \* the processes between their readl() and their writel()
          opened,     \* the open files of the drivers that light at open()
          owed        \* history: the level that each pin owes to the access
                      \* that last named it; "any" if it owes none

vars == <<drv, way, lit, todo, copy, loaded, opened, owed>>

Callers == Files \cup {Loader}
Procs   == Callers \cup {Other}

\* Pins of other drivers: one per register.
Neighbours == {0, -1, -2}

\* An access sets one pin; stray is the index one past the array.
Set(b, on) == [pin |-> b, on |-> on, stray |-> FALSE]

\* A driver: what makes its calls ("open" and release, "load" and unload, or
\* "ioctl"), how they access a register, what init or probe asks, what ioctl()
\* adds to each call, and its pins, register by register.
Driver(door, how, setup, registers) ==
  [door |-> door, how |-> how, setup |-> setup, after |-> <<>>,
   registers |-> registers, early |-> FALSE, array |-> FALSE]

\* The node is there before init has set up the pins.
Early(d) == [d EXCEPT !.early = TRUE]

Alone  == {{0, 1}}                         \* one pin beside the neighbour's
Array  == {0..LedNum}

hq_023_module_led     == Driver("open", "rmw", <<>>, Alone)
hq_043_platform_led   == Driver("open", "rmw", <<>>, Alone)
hq_046_dts_led        == Driver("load", "rmw", <<Set(1, TRUE)>>, Alone)
sc_28_pwm_ioremap     ==
  Driver("load", "rmw", <<Set(1, TRUE), Set(1, TRUE)>>, Alone)
sc_022_dri_ioremap    == Driver("load", "rmw", <<Set(1, TRUE)>>, Alone)
hq_052_platform_led   == Driver("load", "write", <<Set(1, TRUE)>>, Alone)
hq_012_led_demo       == Driver("open", "write", <<>>, Alone)
hq_054_platform_led   == Driver("open", "write", <<>>, Alone)
sc_009_beep_test      == Driver("open", "write", <<>>, Alone)
sc_010_my_leds        == Driver("open", "write", <<>>, Alone)
hq_044_fs4412_pwm     ==
  Early(Driver("ioctl", "rmw", <<Set(1, FALSE)>>, Alone))
sc_004_one_led        == Driver("ioctl", "pin", <<Set(1, FALSE)>>, Alone)

\* LED1 is in GPX2DAT, LED2 in GPX1DAT, LED3 and LED4 in GPF3DAT.
hq_028_fs4412_led ==
  Early(Driver("ioctl", "rmw", [i \in 1..4 |-> Set(i, FALSE)],
               {{-2, 1}, {-1, 2}, {0, 3, 4}}))

\* Mutant: the loop over the pins runs to i <= LED_NUM.
AllOn_OffByOne == [i \in 1..LedNum + 1 |-> Set(i, TRUE)]

AllOn == [i \in 1..LedNum |-> Set(i, TRUE)]

\* The beeper is in the array, and probe() and every call turn it off.
Silence == <<Set(LedNum, FALSE)>>
sc_005_leds ==
  [Driver("ioctl", "pin", AllOn \o Silence, Array)
     EXCEPT !.after = Silence, !.array = TRUE]
sc_014_char_driver_leds ==
  [Early(Driver("ioctl", "pin", AllOn, Array)) EXCEPT !.array = TRUE]

Drivers ==
  {hq_023_module_led, hq_043_platform_led, hq_046_dts_led, sc_28_pwm_ioremap,
   hq_012_led_demo, hq_054_platform_led, sc_009_beep_test, sc_010_my_leds,
   hq_044_fs4412_pwm, sc_004_one_led, hq_028_fs4412_led, sc_005_leds,
   sc_014_char_driver_leds, sc_022_dri_ioremap, hq_052_platform_led}

Pins == UNION drv.registers
Own  == Pins \ Neighbours
Asked(b) == drv = hq_028_fs4412_led => b \in UsedPins
SameRegister(b) == UNION {R \in drv.registers : b \in R}

Access == [pin : Pins, on : BOOLEAN, stray : BOOLEAN]
OnWhileOpen == drv.door # "ioctl"
How(p) == IF p = Other THEN way ELSE drv.how

TypeOK == /\ drv \in Drivers
          /\ way \in Ways
          /\ lit \subseteq Pins
          /\ todo \in [Procs -> Seq(Access)]
          /\ loaded \subseteq Procs
          /\ \A p \in loaded : How(p) = "rmw" /\ todo[p] # <<>>
          /\ copy \in [Procs -> SUBSET Pins]
          /\ opened \subseteq Files
          /\ ~OnWhileOpen => opened = {}
          /\ owed \in [Pins -> {"any", "on", "off"}]

Init == /\ drv \in Drivers
        /\ way \in Ways
        /\ lit \in SUBSET {b \in Pins : b \in Neighbours => Asked(b)}
        /\ todo = [p \in Procs |-> IF p = Loader /\ drv.door = "ioctl"
                                THEN drv.setup ELSE <<>>]
        /\ copy = [p \in Procs |-> {}]
        /\ loaded = {}
        /\ opened = {}
        /\ owed = [b \in Pins |-> "any"]
-----------------------------------------------------------------------------
Visible == drv.early \/ todo[Loader] = <<>>

\* A call of process p that makes the accesses s begins,
Begin(p, s) == /\ todo[p] = <<>>
               /\ todo' = [todo EXCEPT ![p] = s]
               /\ UNCHANGED <<drv, way, lit, copy, loaded, owed>>

\* ... in the driver, once it has its node,
Enter(p, s) == Visible /\ Begin(p, s)

\* ... or in the driver of a neighbouring pin.
NeighbourCall == /\ \E b \in Pins \cap Neighbours, on \in BOOLEAN :
                      Asked(b) /\ Begin(Other, <<Set(b, on)>>)
                 /\ UNCHANGED opened

\* open(), or the load of 022, 046, 052 and 28: one at a time.
Open(p) ==
  /\ p \notin opened
  /\ \/ drv.door = "open" /\ Enter(p, <<Set(1, TRUE)>>)
     \/ /\ drv.door = "load" /\ opened = {}
        /\ \A q \in Files : todo[q] = <<>>
        /\ Enter(p, drv.setup)
  /\ opened' = opened \cup {p}

\* release(), or the unload.
Release(p) == /\ p \in opened
              /\ Enter(p, <<Set(1, FALSE)>>)
              /\ opened' = opened \ {p}

\* Mutant: ioctl() of 005 without the line that silences the beeper.
Ioctl_NotSilenced(p) ==
  /\ drv.door = "ioctl"
  /\ \E b \in Own, on \in BOOLEAN :
       /\ Asked(b)
       /\ Enter(p, <<Set(b, on)>>)
  /\ UNCHANGED opened

\* ioctl() with a number and a command it knows.  (What it rejects changes
\* nothing.)
Ioctl(p) ==
  /\ drv.door = "ioctl"
  /\ \E b \in Own, on \in BOOLEAN :
       /\ Asked(b)
       /\ Enter(p, <<Set(b, on)>> \o drv.after)
  /\ UNCHANGED opened

\* "arg > LED_NUM" lets LED_NUM pass: what lies behind the array is the number
\* of any pin, or of none.
Stray(on) == {<<>>} \cup {<<[Set(b, on) EXCEPT !.stray = TRUE]>> : b \in Pins}

IoctlStray(p) ==
  /\ drv.array
  /\ \E on \in BOOLEAN : \E s \in Stray(on) : Enter(p, s \o drv.after)
  /\ UNCHANGED opened

\* gpio_request() fails: 005 goes on with the next pin, 014 gives up.
RequestFails == /\ drv.array
                /\ todo[Loader] # <<>> /\ Head(todo[Loader]).on
                /\ todo' = [todo EXCEPT ![Loader] =
                              IF drv = sc_005_leds THEN Tail(@) ELSE <<>>]
                /\ UNCHANGED <<drv, way, lit, copy, loaded, opened, owed>>
-----------------------------------------------------------------------------
\* dat = readl(gpf3dat).
Load(p) == /\ How(p) = "rmw" /\ todo[p] # <<>> /\ p \notin loaded
           /\ copy' = [copy EXCEPT
                         ![p] = lit \cap SameRegister(Head(todo[p]).pin)]
           /\ loaded' = loaded \cup {p}
           /\ UNCHANGED <<drv, way, lit, todo, opened, owed>>

\* Pin b changes to level on in a set of lit pins.
Change(S, b, on) == IF on THEN S \cup {b} ELSE S \ {b}

\* Mutant: 028 and the others write the register without having read it.
Written_Alone(p, a) ==
  IF How(p) = "pin" THEN Change(lit, a.pin, a.on)
  ELSE (lit \ SameRegister(a.pin))
       \cup Change(IF a.on THEN {} ELSE SameRegister(a.pin), a.pin, a.on)

\* The lit pins after access a of process p.
Written(p, a) ==
  CASE How(p) = "pin" -> Change(lit, a.pin, a.on)
    [] How(p) = "rmw" -> (lit \ SameRegister(a.pin))
                      \cup Change(copy[p], a.pin, a.on)
    [] How(p) = "write" ->
         (lit \ SameRegister(a.pin))
         \cup Change(IF a.on THEN {} ELSE SameRegister(a.pin), a.pin, a.on)

Level(on) == IF on THEN "on" ELSE "off"

\* Some process holds a copy of pin b that it will write back as it is.
Held(b) == \E q \in loaded : LET c == Head(todo[q]).pin
                             IN  c # b /\ b \in SameRegister(c)

\* writel(dat, gpf3dat) or gpio_set_value(): the access happens.
Store(p) ==
  /\ todo[p] # <<>> /\ (How(p) = "rmw" => p \in loaded)
  /\ LET a == Head(todo[p])
         b == a.pin
     IN  /\ lit' = Written(p, a)
         /\ owed' = [c \in Pins |->
              IF c = b THEN IF a.stray \/ Held(b) THEN "any" ELSE Level(a.on)
              ELSE IF How(p) = "write" /\ c \in SameRegister(b) THEN "any"
              ELSE owed[c]]
  /\ todo' = [todo EXCEPT ![p] = Tail(@)]
  /\ loaded' = loaded \ {p}
  /\ copy' = [copy EXCEPT ![p] = {}]
  /\ UNCHANGED <<drv, way, opened>>
-----------------------------------------------------------------------------
Next == \/ \E p \in Files : \/ Open(p) \/ Release(p)
                            \/ Ioctl(p) \/ IoctlStray(p)
        \/ \E p \in Procs : Load(p) \/ Store(p)
        \/ RequestFails \/ NeighbourCall

Spec == Init /\ [][Next]_vars
-----------------------------------------------------------------------------
(***************************************************************************)
(* Every pin shows the level last asked of it, the neighbours' included,   *)
(* unless somebody held an old copy of its register when it was set, a     *)
(* whole register was written over it, or the stray index hit it.          *)
(***************************************************************************)
PinsTellLastAsked ==
  \A b \in Pins : /\ owed[b] = "on" => b \in lit
                  /\ owed[b] = "off" => b \notin lit

(***************************************************************************)
(* With every file closed and every call returned the LED, the beeper or   *)
(* the timer is off, in whatever order the loads and stores of the opens   *)
(* and closes came, and the beeper of 005 is silent between calls: unless  *)
(* an old copy, or a whole register, was written over the pin after that.  *)
(***************************************************************************)
Idle == opened = {} /\ \A p \in Callers : todo[p] = <<>>

DarkWhenIdle ==
  Idle => /\ OnWhileOpen => 1 \notin lit \/ owed[1] = "any"
          /\ drv.after # <<>> => LedNum \notin lit \/ owed[LedNum] = "any"
=============================================================================
