\* A consumer that gives up from onError.
SPECIFICATION Spec
CONSTANTS
    r1 = r1
    r2 = r2
    r3 = r3
    NoRun = NoRun
    Runs <- MCRuns
    Callbacks <- AllCallbacks
    MicrotaskCalls = FALSE
    MaxCalls = 2
SYMMETRY RunSymmetry
INVARIANT StopIsFinal
CHECK_DEADLOCK FALSE
