SPECIFICATION FairSpec
CONSTANTS Openers = {p1, p2, p3}
          Slots = 2
INVARIANTS TypeOK Accounted
PROPERTIES RefusalHasCause OpenReturns DeviceRecovers KeepsPromise
