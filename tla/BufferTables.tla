---------------------------- MODULE BufferTables ----------------------------
(***************************************************************************)
(* The form of read() and write() of each driver with a buffer, for module *)
(* BufferIO.  Names as in DriverTables.                                    *)
(***************************************************************************)

\* read() takes from the front, write() appends.
Queue == [style |-> "queue", sem |-> FALSE, deaf |-> FALSE, wide |-> {}]

\* read() takes all, write() replaces.
Last == [Queue EXCEPT !.style = "last"]

\* read() waits for the flag and clears the array.
Page == [Queue EXCEPT !.style = "page"]

\* The same, and a failed copy is only printed; read() copies sizeof(ker_buf).
DeafPage == [Page EXCEPT !.deaf = TRUE, !.wide = {"read"}]

\* read() and write() leave alone what they do not copy.
Keep == [Queue EXCEPT !.style = "keep"]

hq_006_module_rw             == Last
hq_007_module_rw_update      == Queue
hq_008_module_ioctl          == Queue
hq_009_module_ioctl_update   == Queue
hq_013_test_rd_wr            == Keep
hq_014_unlock_ioctl          == [Keep EXCEPT !.wide = {"read", "write"}]
hq_015_unlock_ioctl_update   == [Keep EXCEPT !.wide = {"read", "write"}]
hq_022_module_ioctl          == Queue
hq_025_module_atomic         == Last
hq_026_module_spinlock       == Last
hq_027_module_semaphore      == [Last EXCEPT !.sem = TRUE]
hq_033_my_wait               == DeafPage
hq_034_my_poll               == DeafPage
hq_035_poll                  == Page
hq_036_my_fasync             == DeafPage
hq_037_wait_queue_head_t     == Page
hq_038_o_nonblock            == Page
hq_039_my_fasync             == Keep
sc_016_module_rw             == Last
sc_017_module_rw_update      == Queue
sc_018_module_ioctl          == Queue
sc_019_module_ioctl_update   == Queue

BufferForms ==
  {hq_006_module_rw, hq_007_module_rw_update, hq_008_module_ioctl,
   hq_009_module_ioctl_update, hq_013_test_rd_wr, hq_014_unlock_ioctl,
   hq_015_unlock_ioctl_update, hq_022_module_ioctl, hq_025_module_atomic,
   hq_026_module_spinlock, hq_027_module_semaphore, hq_033_my_wait, hq_034_my_poll,
   hq_035_poll, hq_036_my_fasync, hq_037_wait_queue_head_t, hq_038_o_nonblock,
   hq_039_my_fasync, sc_016_module_rw, sc_017_module_rw_update,
   sc_018_module_ioctl, sc_019_module_ioctl_update}
=============================================================================
