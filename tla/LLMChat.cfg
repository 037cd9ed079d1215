\* Two and three loops at a time; the transport may go on yielding.
SPECIFICATION Spec
CONSTANTS
    Sends = {c1, c2, c3}
    NoSend = NoSend
    MaxChunks = 2
    Cooperative = FALSE
INVARIANTS StreamingIsHeld RepliesPure
CHECK_DEADLOCK FALSE
