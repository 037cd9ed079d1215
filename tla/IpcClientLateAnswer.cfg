\* Timeouts: the response of a request that timed out still arrives.
SPECIFICATION Spec
CONSTANTS
    q1 = q1
    q2 = q2
    q3 = q3
    q4 = q4
    Garbage = Garbage
    None = None
    Requests <- Three
    Timed = TRUE
    Closes = FALSE
INVARIANT AnswersMatch
CHECK_DEADLOCK FALSE
