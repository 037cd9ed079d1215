\* No timeouts and no close(): the FIFO is all there is.
SPECIFICATION FairSpec
CONSTANTS
    q1 = q1
    q2 = q2
    q3 = q3
    q4 = q4
    Garbage = Garbage
    None = None
    Requests <- Three
    Timed = FALSE
    Closes = FALSE
PROPERTIES PromisesKept EveryRequestSettles
CHECK_DEADLOCK FALSE
