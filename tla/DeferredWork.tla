---------------------------- MODULE DeferredWork ----------------------------
(***************************************************************************)
(* What a driver lets the kernel run later, against its own removal:       *)
(*   work       048: INIT_WORK(), then request_irq(); a key schedules it   *)
(*   late_work  057, 058: request_irq() first, INIT_WORK() after it        *)
(*   tasklet    059: the same with a statically initialised tasklet        *)
(*   timer      049, 055, 056, 33: a timer whose function arms it again    *)
(* None of them cancels what is scheduled or waits for what is running.    *)
(* The proofs stand next to those about ModuleLifecycle; hence the DW.     *)
(***************************************************************************)
CONSTANT Kinds   \* the kinds of driver to look at

ASSUME KindsAssumption == Kinds \subseteq {"work", "late_work", "tasklet", "timer"}

VARIABLES
  kind,      \* the driver; chosen at the start
  stage,     \* "loading", "loaded", "removed" (exit has done its part), "gone"
  ready,     \* is the work, tasklet or timer initialised?
  irq,       \* may the key interrupt come?
  handler,   \* is the interrupt handler running?
  pending,   \* is the work queued, the tasklet scheduled, the timer armed?
  running,   \* its function: "no", "body", or (timer) "tail" after mod_timer()
  unserved,  \* a key was pressed and no run of the function began since
  early,     \* history: a key came before INIT_WORK()
  caught,    \* history: removal met a scheduled or running function
  oops       \* code ran that is gone, or a work that was not initialised

dwVars == <<kind, stage, ready, irq, handler, pending, running, unserved,
            early, caught, oops>>

DWTypeOK == /\ kind \in Kinds
            /\ stage \in {"loading", "loaded", "removed", "gone"}
            /\ running \in {"no", "body", "tail"}
            /\ ready \in BOOLEAN /\ irq \in BOOLEAN /\ handler \in BOOLEAN
            /\ pending \in BOOLEAN /\ unserved \in BOOLEAN
            /\ early \in BOOLEAN /\ caught \in BOOLEAN /\ oops \in BOOLEAN
            /\ running = "tail" => kind = "timer"
            /\ handler => irq

DWInit == /\ kind \in Kinds
          /\ stage = "loading"
          /\ ready = (kind = "tasklet")
          /\ irq = FALSE /\ handler = FALSE
          /\ pending = FALSE /\ running = "no"
          /\ unserved = FALSE
          /\ early = FALSE /\ caught = FALSE /\ oops = FALSE
-----------------------------------------------------------------------------
(***************************************************************************)
(* init or probe                                                           *)
(***************************************************************************)

\* INIT_WORK(): in 048 the first step, in 057 and 058 the last.  A work that is
\* already on a list is torn off it.
InitWork == /\ kind \in {"work", "late_work"}
            /\ stage = "loading" /\ ~ready
            /\ kind = "late_work" => irq
            /\ ready' = TRUE
            /\ oops' = pending
            /\ UNCHANGED <<kind, stage, irq, handler, pending, running, unserved,
                           early, caught>>

RequestIrq == /\ kind # "timer"
              /\ stage = "loading" /\ ~irq
              /\ kind = "work" => ready
              /\ irq' = TRUE
              /\ UNCHANGED <<kind, stage, ready, handler, pending, running,
                             unserved, early, caught, oops>>

RequestFails == /\ kind # "timer"
                /\ stage = "loading" /\ ~irq
                /\ kind = "work" => ready
                /\ stage' = "gone"
                /\ UNCHANGED <<kind, ready, irq, handler, pending, running,
                               unserved, early, caught, oops>>

\* init_timer() and add_timer(): nobody else knows the timer before that.
AddTimer == /\ kind = "timer"
            /\ stage = "loading" /\ ~ready
            /\ ready' = TRUE /\ pending' = TRUE
            /\ UNCHANGED <<kind, stage, irq, handler, running, unserved, early,
                           caught, oops>>

LoadEnds == /\ stage = "loading" /\ ready
            /\ kind # "timer" => irq
            /\ stage' = "loaded"
            /\ UNCHANGED <<kind, ready, irq, handler, pending, running, unserved,
                           early, caught, oops>>
-----------------------------------------------------------------------------
(***************************************************************************)
(* The interrupt of the key.                                               *)
(***************************************************************************)
KeyPress == /\ irq /\ ~handler
            /\ handler' = TRUE
            /\ UNCHANGED <<kind, stage, ready, irq, pending, running, unserved,
                           early, caught, oops>>

\* Mutant: only schedule a function that is not running.
Schedule_IfIdle == /\ handler
                   /\ handler' = FALSE
                   /\ pending' = (pending \/ running = "no")
                   /\ unserved' = ready
                   /\ early' = (early \/ ~ready)
                   /\ oops' = (stage = "gone")
                   /\ UNCHANGED <<kind, stage, ready, irq, running, caught>>

\* schedule_work() or tasklet_schedule(): one that is pending already is
\* scheduled once.  An uninitialised work is queued or not, as it happens.
Schedule == /\ handler
            /\ handler' = FALSE
            /\ IF ready THEN /\ pending' = TRUE
                             /\ unserved' = TRUE
                        ELSE /\ pending' \in {pending, TRUE}
                             /\ UNCHANGED unserved
            /\ early' = (early \/ ~ready)
            /\ oops' = (stage = "gone")
            /\ UNCHANGED <<kind, stage, ready, irq, running, caught>>
-----------------------------------------------------------------------------
(***************************************************************************)
(* exit or remove                                                          *)
(***************************************************************************)

\* Mutant: the interrupt is taken away under a running handler.
FreeIrq_NoWait == /\ kind # "timer" /\ stage = "loaded"
                  /\ stage' = "removed" /\ irq' = FALSE
                  /\ caught' = (pending \/ running # "no")
                  /\ UNCHANGED <<kind, ready, handler, pending, running, unserved,
                                 early, oops>>

\* free_irq() waits for the handler, and for nothing else.
FreeIrq == /\ kind # "timer" /\ stage = "loaded"
           /\ ~handler
           /\ stage' = "removed" /\ irq' = FALSE
           /\ caught' = (pending \/ running # "no")
           /\ UNCHANGED <<kind, ready, handler, pending, running, unserved, early,
                          oops>>

\* Mutant: exit without del_timer().
DelTimer_Missing == /\ kind = "timer" /\ stage = "loaded"
                    /\ stage' = "removed"
                    /\ caught' = (running # "no")
                    /\ UNCHANGED <<kind, ready, irq, handler, pending, running,
                                   unserved, early, oops>>

\* del_timer() takes the timer off, and does not wait for its function.
DelTimer == /\ kind = "timer" /\ stage = "loaded"
            /\ stage' = "removed" /\ pending' = FALSE
            /\ caught' = (running # "no")
            /\ UNCHANGED <<kind, ready, irq, handler, running, unserved, early,
                           oops>>

\* The text and the data of the module are given back.
GiveBack == /\ stage = "removed"
            /\ stage' = "gone"
            /\ UNCHANGED <<kind, ready, irq, handler, pending, running, unserved,
                           early, caught, oops>>
-----------------------------------------------------------------------------
(***************************************************************************)
(* The deferred function.  It is no longer pending when it begins, so a    *)
(* key that comes while it runs schedules it once more.                    *)
(***************************************************************************)
Start == /\ pending /\ running = "no"
         /\ pending' = FALSE /\ running' = "body"
         /\ unserved' = FALSE
         /\ oops' = (stage = "gone" \/ ~ready)
         /\ UNCHANGED <<kind, stage, ready, irq, handler, early, caught>>

\* Mutant: the timer's function does not arm it again.
Rearm_Forgets == /\ kind = "timer" /\ running = "body"
                 /\ running' = "tail"
                 /\ oops' = (stage = "gone")
                 /\ UNCHANGED <<kind, stage, ready, irq, handler, pending, unserved,
                                early, caught>>

\* mod_timer() arms the timer, also one that del_timer() has taken off.
Rearm == /\ kind = "timer" /\ running = "body"
         /\ running' = "tail" /\ pending' = TRUE
         /\ oops' = (stage = "gone")
         /\ UNCHANGED <<kind, stage, ready, irq, handler, unserved, early, caught>>

Finish == /\ running = IF kind = "timer" THEN "tail" ELSE "body"
          /\ running' = "no"
          /\ oops' = (stage = "gone")
          /\ UNCHANGED <<kind, stage, ready, irq, handler, pending, unserved, early,
                         caught>>
-----------------------------------------------------------------------------
Load     == InitWork \/ RequestIrq \/ RequestFails \/ AddTimer \/ LoadEnds
Removal  == FreeIrq \/ DelTimer \/ GiveBack
Deferred == Start \/ Rearm \/ Finish

\* After an oops nothing is said any more.
DWNext == /\ ~oops
          /\ Load \/ KeyPress \/ Schedule \/ Removal \/ Deferred

DWSpec == DWInit /\ [][DWNext]_dwVars

\* Interrupt handlers run to their end, and the kernel runs what is scheduled
\* and lets timers expire.  Nobody has to press a key or to unload the module.
DWFairSpec == DWSpec
              /\ WF_dwVars(~oops /\ Schedule)
              /\ WF_dwVars(~oops /\ Deferred)
-----------------------------------------------------------------------------
(***************************************************************************)
(* After exit nothing of the driver is left to run, and nothing goes wrong *)
(* at any time, except by what exit found scheduled or running (a timer:   *)
(* running), or by a key that came before INIT_WORK().  So an exit that    *)
(* waited for what it finds (cancel_work_sync(), del_timer_sync()) and an  *)
(* init in the order of 048 would leave nothing to go wrong.               *)
(***************************************************************************)
OnlyTheCaughtSurvive ==
  \/ stage \in {"removed", "gone"} /\ (pending \/ running # "no" \/ handler)
  \/ oops
  => caught \/ early

(***************************************************************************)
(* Keys may be merged into one run, but after each of them a run begins.   *)
(***************************************************************************)
EveryPressServed == unserved ~> ~unserved \/ oops

(***************************************************************************)
(* The self re-arming timer never loses itself while the module is loaded. *)
(***************************************************************************)
ChainUnbroken == kind = "timer" /\ stage = "loaded" => pending \/ running = "body"
=============================================================================
