SPECIFICATION DWFairSpec
CONSTANT Kinds = {"work", "late_work", "tasklet", "timer"}
INVARIANTS DWTypeOK OnlyTheCaughtSurvive ChainUnbroken
PROPERTY EveryPressServed
CHECK_DEADLOCK FALSE
