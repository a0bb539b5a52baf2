SPECIFICATION Spec
CONSTANTS Programs = {p1, p2}
          Axes = 2
          Asked = {"acc", "temp"}
          MaxSample = 1
          MaxFailures = 1
SYMMETRY Symmetry
INVARIANTS TypeOK OneFreshSample CallsKeepApart
