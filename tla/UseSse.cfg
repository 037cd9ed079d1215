\* With and without a throttle.  No symmetry: a liveness property is checked.
SPECIFICATION FairHookSpec
CONSTANTS
    NoSource = NoSource
    NoTimer = NoTimer
    Sources = {s1, s2, s3}
    Timers = {t1, t2}
    Callbacks = {}
    MaxCalls = 3
    MaxAttempts = 3
    HistoryLimit = 2
    MaxMessages = 3
INVARIANT NothingLost
PROPERTY EveryMessageShown
CHECK_DEADLOCK FALSE
