SPECIFICATION Spec
CONSTANTS Files = {f1, f2}
          NKeys = 2
          Buffers = {b1, b2}
          Null = Null
          MaxFailures = 1
INVARIANTS TypeOK FreedMemoryNeedsTwo CloseLeavesNothing FreshOrFlagged
SYMMETRY Symmetry
CHECK_DEADLOCK FALSE
