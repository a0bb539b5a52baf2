SPECIFICATION Spec
CONSTANTS Readers = {r1}
          Writers = {w1}
          Pollers = {}
          Nonblock = {}
          KMax = 1
          ReadSizes = {1}
          WriteSizes = {1}
          MaxWrites = 2
          Signals = FALSE
          Faults = FALSE
CHECK_DEADLOCK FALSE
INVARIANT CounterRecordsKbuf
