SPECIFICATION FairSpec
CONSTANTS
    r1 = r1
    r2 = r2
    r3 = r3
    NoRun = NoRun
    Runs <- MCRuns
    Callbacks <- NotFromOnError
    MicrotaskCalls = FALSE
    MaxCalls = 6
INVARIANTS OneRunPerToken NoLeakedStream StopIsFinal
PROPERTIES DeliversCurrent StreamingMeansWork
CHECK_DEADLOCK FALSE
