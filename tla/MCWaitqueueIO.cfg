SPECIFICATION Spec
CONSTANTS Readers = {r1, r2, r3}
          Writers = {w1, w2}
          Pollers = {s1}
          Nonblock = {r3}
          KMax = 1
          ReadSizes = {0, 1}
          WriteSizes = {0, 1, 2}
          MaxWrites = 2
          Signals = TRUE
          Faults = TRUE
SYMMETRY Symmetry
CHECK_DEADLOCK FALSE
INVARIANTS TypeOK NoLostWakeup UnitsFollowData NoReaderStuck
