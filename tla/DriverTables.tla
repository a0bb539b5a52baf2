----------------------------- MODULE DriverTables -----------------------------
(***************************************************************************)
(* The load and unload code of the drivers, one table each, in the form    *)
(* that ModuleLifecycle describes.  The number in a name is that of the    *)
(* driver's directory: hq_ under hq_source_code, sc_ under source_code.    *)
(* A loop over several minors is unrolled to two of them.                  *)
(***************************************************************************)
EXTENDS Integers, SequencesExt

\* The forms that a step takes.
Step(x, mode, undo, result) ==
  [acq |-> x, mode |-> mode, undo |-> undo, result |-> result]
Sure(x)      == Step(x, "sure", <<>>, "zero")
Try(x, undo) == Step(x, "checked", undo, "error")
Zero(x, undo) == Step(x, "checked", undo, "zero")   \* ret is still 0
Loose(x)     == Step(x, "loose", <<>>, "zero")
Blind(x)     == Step(x, "blind", <<>>, "zero")
Falls(x, undo) == Step(x, "falls", undo, "zero")

\* "goto err": every failure releases all that went before, last one first.
Chain(xs) == [i \in DOMAIN xs |-> Try(xs[i], Reverse(SubSeq(xs, 1, i - 1)))]

\* The same, with 0 returned when one of these steps fails.
ZeroAt(steps, zeros) ==
  [i \in DOMAIN steps |-> IF i \in zeros THEN [steps[i] EXCEPT !.result = "zero"]
                                         ELSE steps[i]]

Module(init, exit, files) ==
  [init |-> init, exit |-> exit, files |-> files, irqs |-> {},
   pins |-> TRUE, text |-> TRUE]

\* probe() and remove(): open files do not hold the device back.
Probe(init, exit, files) ==
  [Module(init, exit, files) EXCEPT !.pins = FALSE, !.text = FALSE]

Irq(t, uses) == [t EXCEPT !.irqs = uses]

Softly(xs) == [i \in DOMAIN xs |-> Sure(xs[i])]
-----------------------------------------------------------------------------
(***************************************************************************)
(* register_chrdev_region(), cdev_add(), then what the handlers need       *)
(***************************************************************************)
Static(after) == Module(Chain(<<"region", "cdev">>) \o Softly(after),
                        <<"cdev", "region">>, {after[i] : i \in DOMAIN after})

hq_005_module_char         == Static(<<>>)
hq_006_module_rw           == Static(<<>>)
hq_007_module_rw_update    == Static(<<>>)
hq_008_module_ioctl        == Static(<<>>)
hq_009_module_ioctl_update == Static(<<>>)
hq_022_module_ioctl        == Static(<<>>)
hq_025_module_atomic       == Static(<<>>)
hq_026_module_spinlock     == Static(<<"lock">>)
hq_027_module_semaphore    == Static(<<"sem">>)
hq_029_module_waitqueue_io == Static(<<"sem", "wq">>)
hq_030_module_nonblock_io  == Static(<<"sem", "wq">>)
hq_031_module_select_io    == Static(<<"sem", "wq">>)
hq_032_module_fasync_io    == Static(<<"sem", "wq">>)
sc_015_module_char         == Static(<<>>)
sc_016_module_rw           == Static(<<>>)
sc_017_module_rw_update    == Static(<<>>)
sc_018_module_ioctl        == Static(<<>>)
sc_019_module_ioctl_update == Static(<<>>)
-----------------------------------------------------------------------------
(***************************************************************************)
(* register_chrdev() alone                                                 *)
(***************************************************************************)
Chrdev(after) == Module(Chain(<<"chrdev">>) \o Softly(after), <<"chrdev">>,
                        {after[i] : i \in DOMAIN after})

hq_013_test_rd_wr   == Chrdev(<<>>)
hq_014_unlock_ioctl == Chrdev(<<>>)
hq_016_atomic       == Chrdev(<<>>)
hq_017_spinlock     == Chrdev(<<"lock">>)
hq_018_mutex        == Chrdev(<<"mutex">>)
hq_019_semaphore    == Chrdev(<<"sem">>)

\* ... and two ioremap(), whose failure rolls back and returns 0.
LedOnChrdev == Module(ZeroAt(Chain(<<"chrdev", "con", "dat">>), {2, 3}),
                      <<"con", "dat", "chrdev">>, {"dat"})

hq_012_led_demo  == LedOnChrdev
sc_009_beep_test == LedOnChrdev
sc_010_my_leds   == LedOnChrdev
-----------------------------------------------------------------------------
(***************************************************************************)
(* register_chrdev(), class_create(), device_create()                      *)
(***************************************************************************)
ChrdevClass(after) ==
  Module(Chain(<<"chrdev", "class", "dev0">>) \o Softly(after),
         <<"dev0", "class", "chrdev">>, {after[i] : i \in DOMAIN after})

hq_015_unlock_ioctl_update ==
  Module(Chain(<<"chrdev", "class", "dev0", "dev1">>),
         <<"dev0", "dev1", "class", "chrdev">>, {})
hq_035_poll                 == ChrdevClass(<<"wq">>)
hq_037_wait_queue_head_t    == ChrdevClass(<<"wq">>)
hq_038_o_nonblock           == ChrdevClass(<<"wq">>)
hq_039_my_fasync            == ChrdevClass(<<>>)

\* ... and the interrupt, whose failures return without releasing anything
\* (irq_of_parse_and_map() returns 0, never a negative number).
KeyOnClass(after, uses) ==
  Irq(Module(Chain(<<"chrdev", "class", "dev0">>)
               \o <<Try("node", <<>>), Loose("irqno"), Try("irq", <<>>)>>
               \o Softly(after),
             <<"irq", "dev0", "class", "chrdev">>, {}), uses)

hq_053_key_int           == KeyOnClass(<<>>, {})
hq_058_work_queue_update == KeyOnClass(<<"work">>, {"work"})
hq_059_tasklet           == KeyOnClass(<<>>, {})   \* DECLARE_TASKLET

hq_057_work_queue ==
  Irq(Module(<<Try("node", <<>>), Try("irqno", <<>>), Try("irq", <<>>), Sure("work")>>,
             <<"irq">>, {}), {"work"})

hq_062_hi_btn_driver == Module(<<Loose("chrdev"), Loose("class"), Loose("dev0")>>,
                               <<"chrdev", "dev0", "class">>, {})
-----------------------------------------------------------------------------
(***************************************************************************)
(* alloc_chrdev_region(), cdev_alloc(), cdev_add(), class, device(s)       *)
(***************************************************************************)

\* cdev_init() makes the structure static again: cdev_del() does not free it.
hq_010_alloc_chrdev_region ==
  Module(<<Try("region", <<>>), Zero("cdev_struct", <<"region">>), Loose("cdev")>>,
         <<"cdev", "region">>, {})

hq_011_class_create_chrdev ==
  Module(<<Try("region", <<>>), Zero("cdev_struct", <<"region">>), Loose("cdev"),
           Try("class", <<"cdev", "region">>),
           Try("dev0", <<"class", "cdev", "region">>),
           Try("dev1", <<"dev0", "class", "cdev", "region">>)>>,
         <<"dev0", "dev1", "class", "cdev", "region">>, {})

\* my_wait_init() ends its error path with "return 0".
MyWait ==
  Module(<<Try("region", <<>>), Zero("cdev_struct", <<"region">>), Loose("cdev"),
           Zero("class", <<"cdev", "region">>),
           Zero("dev0", <<"class", "cdev", "region">>),
           Zero("dev1", <<"dev0", "class", "cdev", "region">>), Sure("wq")>>,
         <<"dev0", "dev1", "class", "cdev", "region">>, {"wq"})

hq_033_my_wait   == MyWait
hq_034_my_poll   == MyWait
hq_036_my_fasync == MyWait

AutoNode == <<"region", "cdev_struct", "cdev", "class", "dev0">>

\* cdev_alloc() fails with ret = 0.
hq_020_module_auto == Module(ZeroAt(Chain(AutoNode), {2}), Reverse(AutoNode), {})

hq_021_module_auto_update ==
  Module(ZeroAt(Chain(AutoNode \o <<"dev1">>), {2}),
         <<"dev0", "dev1", "class", "cdev", "cdev_struct", "region">>, {})

hq_023_module_led ==
  Module(ZeroAt(Chain(AutoNode \o <<"con", "dat">>), {2, 6, 7}),
         <<"con", "dat">> \o Reverse(AutoNode), {"dat"})

\* The results of the six ioremap() are dropped, and written through.
hq_028_fs4412_led == Module(Chain(AutoNode) \o <<Blind("regs")>>,
                            <<"regs">> \o Reverse(AutoNode), {"regs"})

hq_044_fs4412_pwm == Module(Chain(AutoNode) \o <<Blind("pwmbase"), Blind("gpd0con")>>,
                            <<"pwmbase", "gpd0con">> \o Reverse(AutoNode), {"pwmbase"})

\* demo_probe() of 043: the same as 023, behind a platform device.
hq_043_platform_led ==
  Probe(<<Try("res0", <<>>), Try("res1", <<>>)>> \o hq_023_module_led.init,
        hq_023_module_led.exit, {"dat"})
-----------------------------------------------------------------------------
(***************************************************************************)
(* The chapters of source_code on device numbers and devices: the result   *)
(* of the registrations is printed only                                    *)
(***************************************************************************)
sc_007_request_cdev_num   == Module(<<Loose("region")>>, <<"region">>, {})
sc_008_request_ascdev_num == Module(<<Loose("region")>>, <<"region">>, {})

sc_011_register_cdev ==
  Module(<<Loose("region"), Try("my_devices", <<"region">>),
           Blind("data0"), Loose("cdev0"), Blind("data1"), Loose("cdev1")>>,
         <<"cdev0", "cdev1", "region">>, {})

\* scdev_init() and scdev_exit() with a class.
Scdev(after, last) ==
  Module(<<Loose("region"), Loose("class"), Try("my_devices", <<"region">>),
           Blind("data0"), Loose("cdev0"), Loose("dev0"),
           Blind("data1"), Loose("cdev1"), Loose("dev1")>> \o after,
         <<"cdev0", "dev0", "cdev1", "dev1", "class", "my_devices">>
           \o last \o <<"region">>, {})

sc_012_create_char_node == Scdev(<<>>, <<>>)
sc_013_char_dev_driver  == Scdev(<<>>, <<>>)
sc_014_char_driver_leds == Scdev(<<Loose("gpio0"), Loose("gpio1")>>, <<"gpio0", "gpio1">>)
-----------------------------------------------------------------------------
(***************************************************************************)
(* misc_register() in probe()                                              *)
(***************************************************************************)
MiscAlone == Probe(<<Loose("misc")>>, <<"misc">>, {})

sc_003_create_device_node == MiscAlone
sc_26_1_atomic_int        == MiscAlone
sc_26_2_atomic_bit        == MiscAlone
sc_31_i2c_char            == MiscAlone
sc_32_my_rc522            == MiscAlone

\* The GPIO is never freed.
sc_004_one_led == Probe(<<Try("gpio0", <<>>), Loose("misc")>>, <<"misc">>, {})

\* Successful or not, probe() deregisters the device it has registered.
sc_005_leds ==
  Probe(<<Loose("gpio0"), Loose("gpio1"), Loose("misc"), Falls("gpio1", <<"misc">>)>>,
        <<"gpio0", "gpio1", "misc">>, {})

sc_021_read_gpio == Probe(<<Try("gpio0", <<>>), Try("gpio1", <<>>), Loose("misc")>>,
                          <<"misc">>, {})

sc_29_poll_key == Probe(<<Loose("gpio0"), Loose("gpio1"), Loose("misc")>>, <<"misc">>, {})

-----------------------------------------------------------------------------
(***************************************************************************)
(* Other probe() and remove()                                              *)
(***************************************************************************)
Lookups == <<Try("res0", <<>>), Try("res1", <<>>)>>

hq_046_fs4412_dts_led == Probe(Lookups \o <<Try("con", <<>>), Try("dat", <<>>)>>,
                               <<"con", "dat">>, {})
hq_052_platform_led   == Probe(Lookups \o <<Try("con", <<>>), Try("dat", <<>>)>>,
                               <<"con", "dat">>, {})

hq_042_platform_driver == Probe(Lookups, <<>>, {})
hq_045_platform_dts    == Probe(<<Try("node", <<>>)>> \o Lookups, <<>>, {})

hq_054_platform_led_char ==
  Probe(Lookups \o <<Try("con", <<>>), Try("dat", <<>>), Try("chrdev", <<>>)>>,
        <<"con", "dat", "chrdev">>, {"dat"})

hq_047_fs4412_dts_key == Irq(Probe(<<Try("irqno", <<>>), Try("irq", <<>>)>>,
                                   <<"irq">>, {}), {})

hq_048_module_workqueue ==
  Irq(Probe(<<Try("irqno", <<>>), Sure("work"), Try("irq", <<>>)>>, <<"irq">>, {}), {"work"})

sc_30_key_irq == Irq(Probe(<<Loose("irq0"), Loose("irq1")>>, <<"irq0", "irq1">>, {}), {})

hq_050_mpu6050 == Probe(Chain(<<"mpu6050", "region", "cdev">>),
                        <<"cdev", "region", "mpu6050">>, {"mpu6050"})

hq_060_i2c_mpu6050        == Probe(<<Sure("client"), Try("chrdev", <<>>)>>,
                                   <<"chrdev">>, {"client"})
hq_061_i2c_mpu6050_update == Probe(<<Sure("client"), Try("chrdev", <<>>)>>,
                                   <<"chrdev">>, {"client"})
-----------------------------------------------------------------------------
(***************************************************************************)
(* Modules that only register with a bus, and that only map or allocate    *)
(***************************************************************************)
Registration == Module(<<Loose("registration")>>, <<"registration">>, {})

hq_040_platform_driver == Registration
hq_040_platform_device == Registration
hq_051_pdrv            == Registration
hq_051_pdev            == Registration
hq_041_platform_driver  == Registration
hq_041_platform_device  == Registration
hq_041_platform_device1 == Registration
hq_042_platform_device  == Registration
hq_043_platform_device  == Registration
hq_052_pdev             == Registration
hq_054_pdev             == Registration
hq_000_pdev             == Registration
sc_32_my_rc522_1        == Registration
sc_32_4_my_rc522        == Registration
sc_002_register_driver == Registration

sc_022_dri_ioremap == Module(<<Blind("regs")>>, <<>>, {})
sc_28_pwm_ioremap  == Module(<<Blind("pwmbase"), Blind("gpd0con")>>, <<>>, {})
hq_063_alloc_mem   == Module(<<Blind("buf1"), Blind("buf2")>>, <<"buf1", "buf2">>, {})
-----------------------------------------------------------------------------
\* Every driver under its name.
AllTables ==
  [hq_005_module_char |-> hq_005_module_char, hq_006_module_rw |->
   hq_006_module_rw, hq_007_module_rw_update |-> hq_007_module_rw_update,
   hq_008_module_ioctl |-> hq_008_module_ioctl, hq_009_module_ioctl_update
   |-> hq_009_module_ioctl_update, hq_022_module_ioctl |->
   hq_022_module_ioctl, hq_025_module_atomic |-> hq_025_module_atomic,
   hq_026_module_spinlock |-> hq_026_module_spinlock, hq_027_module_semaphore
   |-> hq_027_module_semaphore, hq_029_module_waitqueue_io |->
   hq_029_module_waitqueue_io, hq_030_module_nonblock_io |->
   hq_030_module_nonblock_io, hq_031_module_select_io |->
   hq_031_module_select_io, hq_032_module_fasync_io |->
   hq_032_module_fasync_io, sc_015_module_char |-> sc_015_module_char,
   sc_016_module_rw |-> sc_016_module_rw, sc_017_module_rw_update |->
   sc_017_module_rw_update, sc_018_module_ioctl |-> sc_018_module_ioctl,
   sc_019_module_ioctl_update |-> sc_019_module_ioctl_update,
   hq_013_test_rd_wr |-> hq_013_test_rd_wr, hq_014_unlock_ioctl |->
   hq_014_unlock_ioctl, hq_016_atomic |-> hq_016_atomic, hq_017_spinlock |->
   hq_017_spinlock, hq_018_mutex |-> hq_018_mutex, hq_019_semaphore |->
   hq_019_semaphore, hq_012_led_demo |-> hq_012_led_demo, sc_009_beep_test
   |-> sc_009_beep_test, sc_010_my_leds |-> sc_010_my_leds,
   hq_015_unlock_ioctl_update |-> hq_015_unlock_ioctl_update, hq_035_poll |->
   hq_035_poll, hq_037_wait_queue_head_t |-> hq_037_wait_queue_head_t,
   hq_038_o_nonblock |-> hq_038_o_nonblock, hq_039_my_fasync |->
   hq_039_my_fasync, hq_053_key_int |-> hq_053_key_int,
   hq_058_work_queue_update |-> hq_058_work_queue_update, hq_059_tasklet |->
   hq_059_tasklet, hq_057_work_queue |-> hq_057_work_queue,
   hq_062_hi_btn_driver |-> hq_062_hi_btn_driver, hq_010_alloc_chrdev_region
   |-> hq_010_alloc_chrdev_region, hq_011_class_create_chrdev |->
   hq_011_class_create_chrdev, hq_033_my_wait |-> hq_033_my_wait,
   hq_034_my_poll |-> hq_034_my_poll, hq_036_my_fasync |-> hq_036_my_fasync,
   hq_020_module_auto |-> hq_020_module_auto, hq_021_module_auto_update |->
   hq_021_module_auto_update, hq_023_module_led |-> hq_023_module_led,
   hq_028_fs4412_led |-> hq_028_fs4412_led, hq_044_fs4412_pwm |->
   hq_044_fs4412_pwm, hq_043_platform_led |-> hq_043_platform_led,
   sc_007_request_cdev_num |-> sc_007_request_cdev_num,
   sc_008_request_ascdev_num |-> sc_008_request_ascdev_num,
   sc_011_register_cdev |-> sc_011_register_cdev, sc_012_create_char_node |->
   sc_012_create_char_node, sc_013_char_dev_driver |->
   sc_013_char_dev_driver, sc_014_char_driver_leds |->
   sc_014_char_driver_leds, sc_003_create_device_node |->
   sc_003_create_device_node, sc_26_1_atomic_int |-> sc_26_1_atomic_int,
   sc_26_2_atomic_bit |-> sc_26_2_atomic_bit, sc_32_my_rc522 |->
   sc_32_my_rc522, sc_004_one_led |-> sc_004_one_led, sc_005_leds |->
   sc_005_leds, sc_021_read_gpio |-> sc_021_read_gpio, sc_29_poll_key |->
   sc_29_poll_key, sc_31_i2c_char |-> sc_31_i2c_char, hq_046_fs4412_dts_led
   |-> hq_046_fs4412_dts_led, hq_052_platform_led |-> hq_052_platform_led,
   hq_054_platform_led_char |-> hq_054_platform_led_char,
   hq_047_fs4412_dts_key |-> hq_047_fs4412_dts_key, hq_048_module_workqueue
   |-> hq_048_module_workqueue, sc_30_key_irq |-> sc_30_key_irq,
   hq_050_mpu6050 |-> hq_050_mpu6050, hq_060_i2c_mpu6050 |->
   hq_060_i2c_mpu6050, hq_061_i2c_mpu6050_update |->
   hq_061_i2c_mpu6050_update, hq_040_platform_driver |->
   hq_040_platform_driver, hq_040_platform_device |-> hq_040_platform_device,
   hq_051_pdrv |-> hq_051_pdrv, hq_051_pdev |-> hq_051_pdev,
   sc_002_register_driver |-> sc_002_register_driver, sc_022_dri_ioremap |->
   sc_022_dri_ioremap, sc_28_pwm_ioremap |-> sc_28_pwm_ioremap,
   hq_063_alloc_mem |-> hq_063_alloc_mem,
   hq_041_platform_driver |-> hq_041_platform_driver,
   hq_041_platform_device |-> hq_041_platform_device,
   hq_041_platform_device1 |-> hq_041_platform_device1,
   hq_042_platform_device |-> hq_042_platform_device,
   hq_043_platform_device |-> hq_043_platform_device,
   hq_052_pdev |-> hq_052_pdev,
   hq_054_pdev |-> hq_054_pdev,
   hq_000_pdev |-> hq_000_pdev,
   sc_32_my_rc522_1 |-> sc_32_my_rc522_1,
   sc_32_4_my_rc522 |-> sc_32_4_my_rc522,
   hq_042_platform_driver |-> hq_042_platform_driver,
   hq_045_platform_dts |-> hq_045_platform_dts]
==============================================================================
