\* The consumer calls from every callback.  No symmetry: liveness is checked.
SPECIFICATION FairSpec
CONSTANTS
    NoSource = NoSource
    NoTimer = NoTimer
    Sources = {s1, s2, s3, s4}
    Timers = {t1, t2}
    Callbacks = {"onConnecting", "onStateChange", "onOpen", "onMessage", "onError"}
    MaxCalls = 5
    MaxAttempts = 4
INVARIANT StateIsTrue
PROPERTY KeepsConnecting
CHECK_DEADLOCK FALSE
