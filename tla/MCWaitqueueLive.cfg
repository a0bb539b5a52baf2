SPECIFICATION FairSpec
CONSTANTS Readers = {r1, r2}
          Writers = {w1, w2}
          Pollers = {s1}
          Nonblock = {r2}
          KMax = 2
          ReadSizes = {1, 2}
          WriteSizes = {0, 1, 2}
          MaxWrites = 3
          Signals = FALSE
          Faults = FALSE
CHECK_DEADLOCK FALSE
PROPERTIES DataIsRead
