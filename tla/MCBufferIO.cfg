SPECIFICATION Spec
CONSTANTS Procs = {p1, p2, p3}
          Forms <- BufferForms
          Bytes = {a, b}
          Zero = Zero
          KMax = 3
          MaxUnits = 2
SYMMETRY Symmetry
INVARIANTS TypeOK StaysInside UnreadIsAnnounced
PROPERTY ImplementsBox
CHECK_DEADLOCK FALSE
