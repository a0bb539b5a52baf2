SPECIFICATION Spec
CONSTANTS Drivers <- DriverNames
          Table <- AllTables
          Resources <- AllResources
          Soft <- SoftResources
          MaxOpens = 1
CHECK_DEADLOCK FALSE
INVARIANTS TypeOK NothingLeftBehind ReleasesItsOwn DisciplinePays
PROPERTIES MissingTells
