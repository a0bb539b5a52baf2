SPECIFICATION Spec
CONSTANTS Width = 3
          MaxPoll = 2
          Me <- MCMe
          MaxRead = 2
INVARIANTS TypeOK BytesArrive OneDriver BusFree
PROPERTIES DataStable CallEnds
