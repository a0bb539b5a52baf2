SPECIFICATION Spec
CONSTANTS Files = {f1}
          NKeys = 1
          Buffers = {b1}
          Null = Null
          MaxFailures = 0
INVARIANT KeyValueTellsLevel
CHECK_DEADLOCK FALSE
