--------------------------- MODULE ModuleLifecycle ---------------------------
(***************************************************************************)
(* What every driver of the repository does when it is loaded and          *)
(* unloaded: its init (or probe) acquires resources one after the other,   *)
(* rolls back when one of them fails, and its exit (or remove) releases    *)
(* them; the file operations become callable as soon as the character      *)
(* device is registered, in the middle of all that.  A driver is a table   *)
(* (module DriverTables) that this module executes.                        *)
(***************************************************************************)
EXTENDS Integers, Sequences, Functions

CONSTANTS Drivers,    \* the drivers
          Table,      \* the table of each driver, see below
          Resources,  \* everything that an init acquires
          Soft,       \* the resources that need no release (a lock that was
                      \* initialised, a number that was looked up)
          MaxOpens    \* bound: open files of the driver

(***************************************************************************)
(* A table has                                                             *)
(*   init   the steps of init: [acq, mode, undo, result] where acq is the  *)
(*          resource acquired; mode says what happens when that fails:     *)
(*          "sure" it cannot fail, "checked" init releases undo, in that   *)
(*          order, and returns result ("error" or "zero"), "loose" init    *)
(*          goes on as if it had not failed, "blind" the next line uses    *)
(*          the missing resource and the kernel oopses, "falls" nothing is *)
(*          acquired: init runs into its own error path, and returns the   *)
(*          status of acq;                                                 *)
(*   exit   what exit releases, in order;                                  *)
(*   files, irqs   what the file operations, the interrupt handler use;    *)
(*   pins   an open file keeps the module loaded (.owner = THIS_MODULE; it *)
(*          does not keep a device bound, so FALSE for probe and remove);  *)
(*   text   the code goes away with exit (FALSE for probe and remove).     *)
(***************************************************************************)
Steps == [acq : Resources, mode : {"sure", "checked", "loose", "blind", "falls"},
          undo : Seq(Resources), result : {"error", "zero"}]

ASSUME TableAssumption ==
  \A d \in Drivers :
     /\ Table[d].init \in Seq(Steps)
     /\ Table[d].exit \in Seq(Resources)
     /\ Table[d].files \subseteq Resources /\ Table[d].irqs \subseteq Resources
     /\ Table[d].pins \in BOOLEAN /\ Table[d].text \in BOOLEAN

ASSUME BoundAssumption == MaxOpens \in Nat

\* Registered, these let processes, and the interrupt controller, call in.
FileDoors == {"cdev", "cdev0", "cdev1", "chrdev", "misc"}
IrqDoors  == {"irq", "irq0", "irq1"}

ASSUME DoorAssumption == Soft \cap (FileDoors \cup IrqDoors) = {}

VARIABLES
  drv,      \* the driver under consideration
  phase,    \* "loading", "unwinding" (init's error path), "failed" (init
            \* returned an error), "loaded", "exiting", "gone", "crashed"
  step,     \* the next step of init
  held,     \* the resources acquired and not released
  todo,     \* what the error path, or exit, has still to release
  result,   \* what init will return once it has unwound
  opens,    \* number of open files of the driver
  stray,    \* history: resources released while the driver did not hold them
  careless  \* history: a handler ran without something it uses

vars == <<drv, phase, step, held, todo, result, opens, stray, careless>>

T == Table[drv]

Init == /\ drv \in Drivers
        /\ phase = "loading" /\ step = 1
        /\ held = {} /\ todo = <<>> /\ result = "zero"
        /\ opens = 0 /\ stray = {} /\ careless = FALSE
-----------------------------------------------------------------------------
(***************************************************************************)
(* init, probe                                                             *)
(***************************************************************************)
Running == phase = "loading" /\ step <= Len(T.init)

Current == T.init[step]

\* Mutant: one step is left out.
Acquire_SkipsOne ==
  /\ Running /\ Current.mode # "falls"
  /\ held' = held \cup {Current.acq}
  /\ step' = step + 2
  /\ UNCHANGED <<drv, phase, todo, result, opens, stray, careless>>

Acquire == /\ Running /\ Current.mode # "falls"
           /\ held' = held \cup {Current.acq}
           /\ step' = step + 1
           /\ UNCHANGED <<drv, phase, todo, result, opens, stray, careless>>

\* Mutants: the error path is entered one label too far down, or too far up.
Fail_TooFarDown ==
  /\ Running /\ Current.mode = "checked"
  /\ phase' = "unwinding"
  /\ todo' = IF Current.undo = <<>> THEN <<>> ELSE Tail(Current.undo)
  /\ result' = Current.result
  /\ UNCHANGED <<drv, step, held, opens, stray, careless>>

Fail_TooFarUp ==
  /\ Running /\ Current.mode = "checked"
  /\ phase' = "unwinding"
  /\ todo' = <<Current.acq>> \o Current.undo
  /\ result' = Current.result
  /\ UNCHANGED <<drv, step, held, opens, stray, careless>>

\* The failure of a checked step.
Fail == /\ Running /\ Current.mode = "checked"
        /\ phase' = "unwinding"
        /\ todo' = Current.undo
        /\ result' = Current.result
        /\ UNCHANGED <<drv, step, held, opens, stray, careless>>

\* The success that runs into the error path.
FallThrough == /\ Running /\ Current.mode = "falls"
               /\ phase' = "unwinding"
               /\ todo' = Current.undo
               /\ result' = IF Current.acq \in held THEN "zero" ELSE "error"
               /\ UNCHANGED <<drv, step, held, opens, stray, careless>>

\* The failure that nobody looks at.
Miss == /\ Running /\ Current.mode = "loose"
        /\ step' = step + 1
        /\ UNCHANGED <<drv, phase, held, todo, result, opens, stray, careless>>

\* The failure that is used at once.
Oops == /\ Running /\ Current.mode = "blind"
        /\ phase' = "crashed"
        /\ careless' = TRUE
        /\ UNCHANGED <<drv, step, held, todo, result, opens, stray>>

Loaded == /\ phase = "loading" /\ step > Len(T.init)
          /\ phase' = "loaded"
          /\ UNCHANGED <<drv, step, held, todo, result, opens, stray, careless>>
-----------------------------------------------------------------------------
(***************************************************************************)
(* Releasing: the error path of init, and exit or remove                   *)
(***************************************************************************)

\* Mutant: the first resource on the list is skipped.
Release_SkipsOne ==
  /\ phase \in {"unwinding", "exiting"} /\ todo # <<>>
  /\ held' = IF Len(todo) > 1 THEN held \ {todo[2]} ELSE held
  /\ todo' = Tail(todo)
  /\ UNCHANGED <<drv, phase, step, result, opens, stray, careless>>

Release ==
  /\ phase \in {"unwinding", "exiting"} /\ todo # <<>>
  /\ held' = held \ {Head(todo)}
  /\ stray' = IF Head(todo) \in held THEN stray ELSE stray \cup {Head(todo)}
  /\ todo' = Tail(todo)
  /\ UNCHANGED <<drv, phase, step, result, opens, careless>>

\* init returns: an error, and the module is not loaded; 0, and it is.
Unwound ==
  /\ phase = "unwinding" /\ todo = <<>>
  /\ phase' = IF result = "error" THEN "failed" ELSE "loaded"
  /\ UNCHANGED <<drv, step, held, todo, result, opens, stray, careless>>

\* Mutant: the module can be removed under an open file.
Unload_Unpinned ==
  /\ phase = "loaded"
  /\ phase' = "exiting"
  /\ todo' = T.exit
  /\ UNCHANGED <<drv, step, held, result, opens, stray, careless>>

\* rmmod, or the device goes away.
Unload == /\ phase = "loaded"
          /\ T.pins => opens = 0
          /\ phase' = "exiting"
          /\ todo' = T.exit
          /\ UNCHANGED <<drv, step, held, result, opens, stray, careless>>

Gone == /\ phase = "exiting" /\ todo = <<>>
        /\ phase' = "gone"
        /\ UNCHANGED <<drv, step, held, todo, result, opens, stray, careless>>
-----------------------------------------------------------------------------
(***************************************************************************)
(* The callers                                                             *)
(***************************************************************************)
TextGone == T.text /\ phase \in {"failed", "gone"}

\* A handler that uses these resources runs.
Handle(uses) == careless' = (careless \/ TextGone \/ ~(uses \subseteq held))

\* open(): the character device is registered, and a module on its way out is
\* not opened any more.
Open == /\ held \cap FileDoors # {} /\ opens < MaxOpens
        /\ T.text => phase # "exiting"
        /\ opens' = opens + 1
        /\ Handle(T.files)
        /\ UNCHANGED <<drv, phase, step, held, todo, result, stray>>

\* read(), write(), ioctl(), ... through an open file.
Call == /\ opens > 0
        /\ Handle(T.files)
        /\ UNCHANGED <<drv, phase, step, held, todo, result, opens, stray>>

Close == /\ opens > 0
         /\ opens' = opens - 1
         /\ Handle(T.files)
         /\ UNCHANGED <<drv, phase, step, held, todo, result, stray>>

\* The interrupt fires.
Interrupt == /\ held \cap IrqDoors # {}
             /\ Handle(T.irqs)
             /\ UNCHANGED <<drv, phase, step, held, todo, result, opens, stray>>

Next == \/ Acquire \/ Fail \/ FallThrough \/ Miss \/ Oops \/ Loaded
        \/ Release \/ Unwound \/ Unload \/ Gone
        \/ Open \/ Call \/ Close \/ Interrupt

Spec == Init /\ [][Next]_vars
-----------------------------------------------------------------------------
TypeOK == /\ drv \in Drivers
          /\ phase \in {"loading", "unwinding", "failed", "loaded", "exiting",
                        "gone", "crashed"}
          /\ step \in 1..Len(T.init) + 1
          /\ held \subseteq Resources
          /\ todo \in Seq(Resources)
          /\ result \in {"error", "zero"}
          /\ opens \in 0..MaxOpens
          /\ stray \subseteq Resources
          /\ careless \in BOOLEAN

\* The hard resources of the first n steps of t.
Acquired(t, n) == {t.init[i].acq : i \in 1..n} \ Soft

\* s releases exactly what the first n steps acquired, and nothing twice.
Undoes(s, t, n) == IsInjective(s) /\ Range(s) = Acquired(t, n)

(***************************************************************************)
(* The discipline that the drivers follow, more or less: a step cannot     *)
(* fail, or its failure is checked, undone exactly and reported; exit      *)
(* releases what init acquired.                                            *)
(***************************************************************************)
WellFormed(t) ==
  /\ \A i \in 1..Len(t.init) :
       \/ t.init[i].mode = "sure"
       \/ /\ t.init[i].mode = "checked" /\ t.init[i].result = "error"
          /\ Undoes(t.init[i].undo, t, i - 1)
  /\ Undoes(t.exit, t, Len(t.init))

(***************************************************************************)
(* The character device comes last: what its operations use is there       *)
(* before it, nothing after it can fail, and open files pin the module.    *)
(***************************************************************************)
DoorLast(t) ==
  /\ t.pins /\ t.text /\ t.irqs = {}
  /\ \A i \in 1..Len(t.init) : t.init[i].acq \in FileDoors =>
       /\ t.files \subseteq {t.init[j].acq : j \in 1..i - 1}
       /\ \A j \in i + 1..Len(t.init) : t.init[j].mode = "sure"

(***************************************************************************)
(* What the discipline buys: whatever fails, a well-formed driver never    *)
(* releases what it does not hold, it holds nothing once it has failed or  *)
(* is gone, and it holds everything when it is loaded; with the character  *)
(* device last, no handler ever misses anything.                           *)
(***************************************************************************)
DisciplinePays ==
  WellFormed(T) =>
    /\ stray = {}
    /\ phase \in {"failed", "gone"} => held \subseteq Soft
    /\ phase = "loaded" => Acquired(T, Len(T.init)) \subseteq held
    /\ DoorLast(T) => ~careless
=============================================================================
