\* Per-request timeouts, and a caller that closes the client at any point.
SPECIFICATION Spec
CONSTANTS
    q1 = q1
    q2 = q2
    q3 = q3
    q4 = q4
    Garbage = Garbage
    None = None
    Requests <- Four
    Timed = TRUE
    Closes = TRUE
SYMMETRY Symmetry4
INVARIANT Bookkeeping
CHECK_DEADLOCK FALSE
