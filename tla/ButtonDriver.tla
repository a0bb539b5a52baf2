---------------------------- MODULE ButtonDriver ----------------------------
(***************************************************************************)
(* 062_hi_btn_driver: ten keys with an interrupt each.  Every open()       *)
(* allocates key_val, the last level of each key, and requests the         *)
(* interrupts; every close() frees both.  key_val and ev_press are global, *)
(* so the files share what each of them sets up and takes down.            *)
(*                                                                         *)
(* Waiting is a guard here; its race with wake_up is in WaitqueueIO.       *)
(***************************************************************************)
EXTENDS Naturals, FiniteSets

CONSTANTS Files,       \* open files, each used by one process
          NKeys,       \* length of keys_desc
          Buffers,     \* what kmalloc() may return; addresses are used again
          Null,        \* the NULL pointer
          MaxFailures  \* bound: how many opens fail

ASSUME FilesAssumption == IsFiniteSet(Files)
ASSUME ParameterAssumption ==
  NKeys \in Nat \ {0} /\ Null \notin Buffers /\ MaxFailures \in Nat

Keys == 1..NKeys

VARIABLES
  pc,        \* where the process of each file is
  i,         \* its loop counter in open() and close()
  actions,   \* how many times each interrupt is requested
  key_val,   \* the pointer; Null before the first open
  live,      \* buffers allocated and not freed
  val,       \* the levels in the buffer that key_val points to
  ev_press,
  pin,       \* the level at each key's pin
  latch,     \* GPIO_MIS: an edge of the key asks for its interrupt
  isr,       \* where buttons_irq() is, for each key
  pinval,    \* its local variable (FALSE when dead)
  fresh,     \* history: the last copy to a user has all that was saved
  erased,    \* history: a reset of ev_press hid a value nobody has seen
  shared,    \* history: open() ran while another file was not closed
  failures,  \* number of opens that failed (bounded by MaxFailures)
  badUse     \* history: key_val was used and did not point to a live buffer

device == <<actions, key_val, live, val, ev_press>>
gpio   == <<pin, latch, isr, pinval>>
notes  == <<fresh, erased, shared, failures, badUse>>
vars   == <<pc, i, device, gpio, notes>>

TypeOK ==
  /\ pc \in [Files -> {"closed", "alloc", "request", "initial", "open",
                       "wait", "copy", "reset", "free_irq", "kfree"}]
  /\ i \in [Files -> 1..NKeys + 1]
  /\ actions \in [Keys -> 0..Cardinality(Files) + failures]
  /\ key_val \in Buffers \cup {Null} /\ live \subseteq Buffers
  /\ val \in [Keys -> BOOLEAN] /\ ev_press \in BOOLEAN
  /\ pin \in [Keys -> BOOLEAN] /\ latch \in [Keys -> BOOLEAN]
  /\ isr \in [Keys -> {"no", "sample", "clear", "save", "flag"}]
  /\ pinval \in [Keys -> BOOLEAN]
  /\ failures \in 0..MaxFailures
  /\ fresh \in BOOLEAN /\ erased \in BOOLEAN /\ shared \in BOOLEAN
  /\ badUse \in BOOLEAN

Init == /\ pc = [f \in Files |-> "closed"] /\ i = [f \in Files |-> 1]
        /\ actions = [k \in Keys |-> 0]
        /\ key_val = Null /\ live = {}
        /\ val = [k \in Keys |-> FALSE] /\ ev_press = FALSE
        /\ pin = [k \in Keys |-> FALSE] /\ latch = [k \in Keys |-> FALSE]
        /\ isr = [k \in Keys |-> "no"] /\ pinval = [k \in Keys |-> FALSE]
        /\ fresh = TRUE /\ erased = FALSE /\ shared = FALSE
        /\ failures = 0 /\ badUse = FALSE

\* The process of file f goes from one label to another.
Step(f, from, to) == pc[f] = from /\ pc' = [pc EXCEPT ![f] = to]

\* key_val is dereferenced.
Use == badUse' = (badUse \/ key_val \notin live)

Others(f) == {g \in Files \ {f} : pc[g] # "closed"}
-----------------------------------------------------------------------------
(***************************************************************************)
(* btn_drv_open()                                                          *)
(***************************************************************************)

\* gpio_reg_group_set() also clears whatever edge is latched.
Open(f) == /\ Step(f, "closed", "alloc")
           /\ latch' = [k \in Keys |-> FALSE]
           /\ shared' = (shared \/ Others(f) # {})
           /\ UNCHANGED <<i, device, pin, isr, pinval, fresh, erased, failures,
                          badUse>>

Alloc(f) == /\ Step(f, "alloc", "request")
            /\ i' = [i EXCEPT ![f] = 1]
            /\ \E b \in Buffers \ live : key_val' = b /\ live' = live \cup {b}
            /\ UNCHANGED <<actions, val, ev_press, gpio, notes>>

\* kmalloc() fails: -EBUSY, and key_val is NULL for everybody.
AllocFails(f) == /\ failures < MaxFailures
                 /\ failures' = failures + 1
                 /\ Step(f, "alloc", "closed")
                 /\ key_val' = Null
                 /\ UNCHANGED <<i, actions, live, val, ev_press, gpio, fresh, erased,
                                shared, badUse>>

Request(f) == /\ Step(f, "request", "initial")
              /\ actions' = [actions EXCEPT ![i[f]] = @ + 1]
              /\ UNCHANGED <<i, key_val, live, val, ev_press, gpio, notes>>

\* request_irq() fails: -EBUSY, with the buffer and the earlier interrupts left.
RequestFails(f) == /\ failures < MaxFailures
                   /\ failures' = failures + 1
                   /\ Step(f, "request", "closed")
                   /\ UNCHANGED <<i, device, gpio, fresh, erased, shared, badUse>>

\* The level at the time of open().
Initial(f) == /\ Step(f, "initial", IF i[f] = NKeys THEN "open" ELSE "request")
              /\ i' = [i EXCEPT ![f] = IF @ = NKeys THEN 1 ELSE @ + 1]
              /\ val' = [val EXCEPT ![i[f]] = pin[i[f]]]
              /\ Use
              /\ UNCHANGED <<actions, key_val, live, ev_press, gpio, fresh, erased,
                             shared, failures>>
-----------------------------------------------------------------------------
(***************************************************************************)
(* btn_drv_read()                                                          *)
(***************************************************************************)
ReadNonblock(f) == /\ pc[f] = "open"
                   /\ Use
                   /\ fresh' = TRUE /\ erased' = FALSE
                   /\ UNCHANGED <<pc, i, device, gpio, shared, failures>>

Read(f) == Step(f, "open", "wait") /\ UNCHANGED <<i, device, gpio, notes>>

WaitSees(f) == /\ ev_press
               /\ Step(f, "wait", "copy")
               /\ UNCHANGED <<i, device, gpio, notes>>

\* A signal ends the wait; its result is ignored and the read goes on.
WaitSignalled(f) == /\ ~ev_press
                    /\ Step(f, "wait", "copy")
                    /\ UNCHANGED <<i, device, gpio, notes>>

Copy(f) == /\ Step(f, "copy", "reset")
           /\ Use
           /\ fresh' = TRUE /\ erased' = FALSE
           /\ UNCHANGED <<i, device, gpio, shared, failures>>

Saving == {k \in Keys : isr[k] = "flag"}

\* "ev_press = 0".
Reset(f) == /\ Step(f, "reset", "open")
            /\ ev_press' = FALSE
            /\ erased' = (erased \/ (~fresh /\ Saving = {}))
            /\ UNCHANGED <<i, actions, key_val, live, val, gpio, fresh, shared,
                           failures, badUse>>
-----------------------------------------------------------------------------
(***************************************************************************)
(* btn_drv_close()                                                         *)
(***************************************************************************)

\* Mutant: the buffer goes first.
Close_FreesFirst(f) == /\ Step(f, "open", "free_irq")
                       /\ live' = live \ {key_val}
                       /\ UNCHANGED <<i, actions, key_val, val, ev_press, gpio,
                                      notes>>

Close(f) == Step(f, "open", "free_irq") /\ UNCHANGED <<i, device, gpio, notes>>

\* Mutant: the loop of close() stops one key early.
FreeIrq_OffByOne(f) ==
  /\ Step(f, "free_irq", IF i[f] = NKeys THEN "kfree" ELSE "free_irq")
  /\ i' = [i EXCEPT ![f] = IF @ = NKeys THEN 1 ELSE @ + 1]
  /\ isr[i[f]] = "no"
  /\ actions' = [actions EXCEPT ![i[f]] = IF i[f] = NKeys THEN @ ELSE @ - 1]
  /\ UNCHANGED <<key_val, live, val, ev_press, gpio, notes>>

\* free_irq() removes one of the requests, whoever made it, and waits for a
\* running handler.
FreeIrq(f) == /\ Step(f, "free_irq", IF i[f] = NKeys THEN "kfree" ELSE "free_irq")
              /\ i' = [i EXCEPT ![f] = IF @ = NKeys THEN 1 ELSE @ + 1]
              /\ isr[i[f]] = "no"
              /\ actions' = [actions EXCEPT ![i[f]] = @ - 1]
              /\ UNCHANGED <<key_val, live, val, ev_press, gpio, notes>>

\* kfree(key_val): of the buffer that key_val points to now.  Freeing it twice
\* is a bad use; kfree(NULL) is not.
Kfree(f) == /\ Step(f, "kfree", "closed")
            /\ live' = live \ {key_val}
            /\ badUse' = (badUse \/ key_val \notin live \cup {Null})
            /\ UNCHANGED <<i, actions, key_val, val, ev_press, gpio, fresh, erased,
                           shared, failures>>
-----------------------------------------------------------------------------
(***************************************************************************)
(* The keys and buttons_irq()                                              *)
(***************************************************************************)

\* A key is pressed or let go: both edges ask for the interrupt.
Edge(k) == /\ pin' = [pin EXCEPT ![k] = ~@]
           /\ latch' = [latch EXCEPT ![k] = TRUE]
           /\ UNCHANGED <<pc, i, device, isr, pinval, notes>>

IsrStep(k, from, to) == isr[k] = from /\ isr' = [isr EXCEPT ![k] = to]

\* GPIO_MIS is set.  (It is not: IRQ_NONE, and nothing has changed.)
Interrupt(k) == /\ latch[k] /\ actions[k] > 0
                /\ IsrStep(k, "no", "sample")
                /\ UNCHANGED <<pc, i, device, pin, latch, pinval, notes>>

Sample(k) == /\ IsrStep(k, "sample", "clear")
             /\ pinval' = [pinval EXCEPT ![k] = pin[k]]
             /\ UNCHANGED <<pc, i, device, pin, latch, notes>>

\* GPIO_IC: the latched edge is cleared, also one that came after Sample.
Clear(k) == /\ IsrStep(k, "clear", "save")
            /\ latch' = [latch EXCEPT ![k] = FALSE]
            /\ UNCHANGED <<pc, i, device, pin, pinval, notes>>

Save(k) == /\ IsrStep(k, "save", "flag")
           /\ val' = [val EXCEPT ![k] = pinval[k]]
           /\ pinval' = [pinval EXCEPT ![k] = FALSE]
           /\ Use
           /\ fresh' = FALSE
           /\ UNCHANGED <<pc, i, actions, key_val, live, ev_press, pin, latch, erased,
                          shared, failures>>

\* Mutant: only tell a process that waits.
Flag_IfAwaited(k) == /\ IsrStep(k, "flag", "no")
                     /\ ev_press' = (ev_press \/ \E f \in Files : pc[f] = "wait")
                     /\ erased' = FALSE
                     /\ UNCHANGED <<pc, i, actions, key_val, live, val, pin, latch,
                                    pinval, fresh, shared, failures, badUse>>

\* "ev_press = 1", wake_up, SIGIO.
Flag(k) == /\ IsrStep(k, "flag", "no")
           /\ ev_press' = TRUE /\ erased' = FALSE
           /\ UNCHANGED <<pc, i, actions, key_val, live, val, pin, latch, pinval,
                          fresh, shared, failures, badUse>>
-----------------------------------------------------------------------------
OnFile(f) ==
  \/ Open(f) \/ Alloc(f) \/ AllocFails(f) \/ Request(f) \/ RequestFails(f)
  \/ Initial(f) \/ Close(f) \/ FreeIrq(f) \/ Kfree(f)
  \/ ReadNonblock(f) \/ Read(f) \/ WaitSees(f) \/ WaitSignalled(f)
  \/ Copy(f) \/ Reset(f)

OnKey(k) == Edge(k) \/ Interrupt(k) \/ Sample(k) \/ Clear(k) \/ Save(k) \/ Flag(k)

\* After a bad use nothing is said any more.
Next == /\ ~badUse
        /\ (\E f \in Files : OnFile(f)) \/ (\E k \in Keys : OnKey(k))

Spec == Init /\ [][Next]_vars

AllClosed == \A f \in Files : pc[f] = "closed"
-----------------------------------------------------------------------------
(***************************************************************************)
(* Handlers, readers and kfree() meet a buffer that is there, unless two   *)
(* files were open at once or an open failed half way: it is open() and    *)
(* close() of several files that the driver is not written for, and not    *)
(* the order of free_irq() and kfree() (lines 306-310).                    *)
(***************************************************************************)
FreedMemoryNeedsTwo == badUse => shared \/ failures > 0

(***************************************************************************)
(* Under the same condition the last close() leaves no buffer and no       *)
(* interrupt behind.                                                       *)
(***************************************************************************)
CloseLeavesNothing ==
  AllClosed /\ ~shared /\ failures = 0 =>
    live = {} /\ \A k \in Keys : actions[k] = 0 /\ isr[k] = "no"

(***************************************************************************)
(* Whatever the handlers saved and no read has copied is announced by      *)
(* ev_press, or about to be, unless a read reset ev_press after its copy   *)
(* and the key came in between (lines 290-291).                            *)
(***************************************************************************)
FreshOrFlagged == fresh \/ ev_press \/ Saving # {} \/ erased

(***************************************************************************)
(* "Key values: pressed 0x00, 0x01, ...; released 0x80, 0x81, ..." (lines  *)
(* 39-40): with the device open and no interrupt asked for or served,      *)
(* key_val has the level of each key.                                      *)
(***************************************************************************)
KeyValueTellsLevel ==
  /\ \A f \in Files : pc[f] \in {"closed", "open"}
  /\ \E f \in Files : pc[f] = "open"
  /\ \A k \in Keys : ~latch[k] /\ isr[k] = "no"
  => val = pin
=============================================================================
