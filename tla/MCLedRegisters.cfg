SPECIFICATION Spec
CONSTANTS Files = {f1, f2}
          Loader = ldr
          Other = nbr
          Ways = {"rmw", "write"}
          LedNum = 2
          UsedPins <- AskedPins
SYMMETRY Symmetry
INVARIANTS TypeOK PinsTellLastAsked DarkWhenIdle
