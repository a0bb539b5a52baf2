----------------------------- MODULE DriverAudit ------------------------------
(***************************************************************************)
(* What holds of the load and unload code of each driver, and the drivers  *)
(* of which it does not hold.                                              *)
(***************************************************************************)
EXTENDS ModuleLifecycle, DriverTables

\* An error path forgets something: an early "return -ENOMEM" or "return ret"
\* (046, 052, 053, 054, 058, 059, sc_021), the cdev structure, the class.
LeaksOnFailure ==
  {"hq_011_class_create_chrdev", "hq_046_fs4412_dts_led",
   "hq_052_platform_led", "hq_053_key_int", "hq_054_platform_led_char",
   "hq_058_work_queue_update", "hq_059_tasklet", "sc_005_leds",
   "sc_012_create_char_node", "sc_013_char_dev_driver",
   "sc_014_char_driver_leds", "sc_021_read_gpio"}

\* exit or remove forgets something: the structure from cdev_alloc(), GPIOs,
\* mappings, the buffers of the devices.
LeaksOnExit ==
  {"hq_010_alloc_chrdev_region", "hq_011_class_create_chrdev",
   "hq_033_my_wait", "hq_034_my_poll", "hq_036_my_fasync",
   "sc_004_one_led", "sc_011_register_cdev", "sc_012_create_char_node",
   "sc_013_char_dev_driver", "sc_014_char_driver_leds", "sc_021_read_gpio",
   "sc_022_dri_ioremap", "sc_28_pwm_ioremap", "sc_29_poll_key"}

\* init rolls back, and returns 0: "return 0" after the labels (033, 034, 036),
\* or ret was never set to an error.
ReportsSuccess ==
  {"hq_010_alloc_chrdev_region", "hq_011_class_create_chrdev",
   "hq_012_led_demo", "hq_020_module_auto", "hq_021_module_auto_update",
   "hq_023_module_led", "hq_033_my_wait", "hq_034_my_poll",
   "hq_036_my_fasync", "hq_043_platform_led", "sc_009_beep_test",
   "sc_010_my_leds"}

\* The result of a registration is not looked at.
Unchecked ==
  {"hq_010_alloc_chrdev_region", "hq_011_class_create_chrdev",
   "hq_033_my_wait", "hq_034_my_poll", "hq_036_my_fasync",
   "hq_040_platform_driver", "hq_040_platform_device", "hq_051_pdrv",
   "hq_051_pdev", "hq_062_hi_btn_driver", "sc_002_register_driver",
   "sc_003_create_device_node", "sc_004_one_led",
   "sc_007_request_cdev_num", "sc_008_request_ascdev_num",
   "sc_011_register_cdev", "sc_012_create_char_node",
   "sc_013_char_dev_driver", "sc_014_char_driver_leds", "sc_021_read_gpio",
   "sc_26_1_atomic_int", "sc_26_2_atomic_bit", "sc_29_poll_key",
   "sc_30_key_irq", "sc_31_i2c_char", "sc_32_my_rc522",
   "hq_041_platform_driver", "hq_041_platform_device",
   "hq_041_platform_device1", "hq_042_platform_device",
   "hq_043_platform_device", "hq_052_pdev", "hq_054_pdev", "hq_000_pdev",
   "sc_32_my_rc522_1", "sc_32_4_my_rc522"}

\* misc_deregister() in probe() and again in remove().
DeregistersTwice == {"sc_005_leds"}

\* What the file operations use goes away under an open file.
RevokedUnderOpenFiles ==
  {"hq_043_platform_led", "hq_050_mpu6050", "hq_054_platform_led_char"}

\* The device or the interrupt is there before what its handlers use: a lock, a
\* queue or a work that is initialised last, registers that are mapped last.
OpensEarly ==
  {"hq_012_led_demo", "hq_017_spinlock", "hq_018_mutex", "hq_019_semaphore",
   "hq_023_module_led", "hq_026_module_spinlock", "hq_027_module_semaphore",
   "hq_028_fs4412_led", "hq_029_module_waitqueue_io",
   "hq_030_module_nonblock_io", "hq_031_module_select_io",
   "hq_032_module_fasync_io", "hq_033_my_wait", "hq_034_my_poll",
   "hq_035_poll", "hq_036_my_fasync", "hq_037_wait_queue_head_t",
   "hq_038_o_nonblock", "hq_043_platform_led", "hq_044_fs4412_pwm",
   "hq_057_work_queue", "hq_058_work_queue_update", "sc_009_beep_test",
   "sc_010_my_leds"}

\* init can still fail, and take code or registers away, when the device is
\* there and may be open.
FailsOpen ==
  {"hq_011_class_create_chrdev", "hq_012_led_demo",
   "hq_015_unlock_ioctl_update", "hq_020_module_auto",
   "hq_021_module_auto_update", "hq_023_module_led", "hq_028_fs4412_led",
   "hq_033_my_wait", "hq_034_my_poll", "hq_035_poll", "hq_036_my_fasync",
   "hq_037_wait_queue_head_t", "hq_038_o_nonblock", "hq_039_my_fasync",
   "hq_043_platform_led", "hq_044_fs4412_pwm", "hq_053_key_int",
   "hq_058_work_queue_update", "hq_059_tasklet", "sc_009_beep_test",
   "sc_010_my_leds"}

\* init writes through what ioremap() or kmalloc() returned without a look.
UsesUnseen ==
  {"hq_028_fs4412_led", "hq_044_fs4412_pwm", "hq_063_alloc_mem",
   "sc_011_register_cdev", "sc_012_create_char_node",
   "sc_013_char_dev_driver", "sc_014_char_driver_leds",
   "sc_022_dri_ioremap", "sc_28_pwm_ioremap"}
-----------------------------------------------------------------------------
(***************************************************************************)
(* What a reader of one table can tell without running it.                 *)
(***************************************************************************)

\* What the first n steps may have acquired, and what they have for certain.
Possible(t, n) == {t.init[i].acq : i \in 1..n}
Certain(t, n)  == {t.init[i].acq : i \in {j \in 1..n : t.init[j].mode # "loose"}}

FullLength(t) == Len(t.init)

\* Each error path that reports an error releases what may have been acquired.
CleansUp(t) ==
  \A i \in 1..FullLength(t) :
     \/ t.init[i].mode = "falls"
     \/ t.init[i].mode = "checked" /\ t.init[i].result = "error"
     => Acquired(t, i - 1) \subseteq Range(t.init[i].undo)

\* So does exit.
CleansAway(t) == Acquired(t, FullLength(t)) \subseteq Range(t.exit)

\* An error path is entered because of an error, and reports it.
Honest(t) ==
  \A i \in 1..FullLength(t) :
     /\ t.init[i].mode # "falls"
     /\ t.init[i].mode = "checked" => t.init[i].result = "error"

\* What is released has been acquired for certain, and is named once.
Owns(t) ==
  /\ Honest(t)
  /\ \A i \in 1..FullLength(t) : t.init[i].mode = "checked" =>
       /\ IsInjective(t.init[i].undo)
       /\ Range(t.init[i].undo) \subseteq Certain(t, i - 1)
  /\ IsInjective(t.exit)
  /\ Range(t.exit) \subseteq Certain(t, FullLength(t))

Doors(t, doors) == doors \cap Possible(t, FullLength(t))

\* A failure that passes for a success closes the device, and who had it open
\* has missed something already.
LoadsOrShuts(t) ==
  \A i \in 1..FullLength(t) :
     /\ t.init[i].mode # "falls"
     /\ t.init[i].mode = "checked" /\ t.init[i].result = "zero" =>
          /\ Possible(t, i - 1) \cap IrqDoors = {}
          /\ Possible(t, i - 1) \cap FileDoors # {} =>
               /\ Possible(t, i - 1) \cap FileDoors \subseteq Range(t.init[i].undo)
               /\ ~(t.files \subseteq Possible(t, i - 1))

\* What the file operations use has been acquired for certain and is not
\* released under an open file; what the interrupt handler uses is released
\* after the interrupt.  A module closes all its doors before its code goes.
Serves(t) ==
  /\ LoadsOrShuts(t)
  /\ Doors(t, FileDoors) # {} =>
       /\ t.files \subseteq Certain(t, FullLength(t))
       /\ IF t.text THEN t.pins ELSE t.files \cap Range(t.exit) = {}
  /\ Doors(t, IrqDoors) # {} =>
       /\ t.irqs \subseteq Certain(t, FullLength(t))
       /\ \A j \in 1..Len(t.exit) : t.exit[j] \in t.irqs =>
            Doors(t, IrqDoors) \subseteq {t.exit[i] : i \in 1..j - 1}
  /\ t.text => Doors(t, FileDoors \cup IrqDoors) \subseteq Range(t.exit)

\* What the handlers use has been acquired before their door.
OpensReady(t) ==
  \A i \in 1..FullLength(t) :
     /\ t.init[i].acq \in FileDoors => t.files \subseteq Certain(t, i - 1)
     /\ t.init[i].acq \in IrqDoors => t.irqs \subseteq Certain(t, i - 1)

\* No error path is entered with a door open.
FailsClosed(t) ==
  \A i, j \in 1..FullLength(t) :
     i < j /\ t.init[i].acq \in FileDoors \cup IrqDoors =>
       t.init[j].mode \notin {"checked", "falls"}

Looks(t) == \A i \in 1..FullLength(t) : t.init[i].mode # "blind"

\* The handlers touch nothing that comes and goes with the driver.
TouchesNothing(t) == ~t.text /\ t.files = {} /\ t.irqs = {}

\* The audit: who is not named above passes.
ASSUME AuditAssumption ==
  \A d \in Drivers :
     /\ d \notin LeaksOnFailure => CleansUp(Table[d])
     /\ d \notin LeaksOnExit => CleansAway(Table[d])
     /\ d \notin ReportsSuccess \cup Unchecked \cup DeregistersTwice => Owns(Table[d])
     /\ d \notin RevokedUnderOpenFiles => Serves(Table[d]) \/ TouchesNothing(Table[d])
     /\ d \notin OpensEarly => OpensReady(Table[d]) \/ TouchesNothing(Table[d])
     /\ d \notin FailsOpen => FailsClosed(Table[d]) \/ TouchesNothing(Table[d])
     /\ d \notin UsesUnseen => Looks(Table[d])

(***************************************************************************)
(* A driver that failed to load or was removed holds nothing any more.     *)
(***************************************************************************)
NothingLeftBehind ==
  /\ phase = "failed" /\ held \ Soft # {} => drv \in LeaksOnFailure
  /\ phase = "gone"   /\ held \ Soft # {} => drv \in LeaksOnExit

(***************************************************************************)
(* A driver releases only what it holds, and that once, unless a           *)
(* registration failed unnoticed or a failed load passed for a success.    *)
(***************************************************************************)
ReleasesItsOwn ==
  stray # {} => drv \in ReportsSuccess \cup Unchecked \cup DeregistersTwice

(***************************************************************************)
(* The step at which a handler first misses something that it uses, a      *)
(* registration, a mapping, a lock or its own code, tells on the driver:   *)
(* while init runs the device came too early (or init itself used what it  *)
(* never got), in its error path the device was open already, and later    *)
(* remove() took it away under an open file.                               *)
(***************************************************************************)
MissingTells ==
  [][ careless' /\ ~careless =>
        drv \in CASE phase' = "crashed" -> UsesUnseen
                 [] phase' = "loading" -> OpensEarly
                 [] phase' \in {"unwinding", "failed"} -> FailsOpen
                 [] OTHER -> RevokedUnderOpenFiles ]_vars
=============================================================================
