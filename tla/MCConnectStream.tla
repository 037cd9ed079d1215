--------------------------- MODULE MCConnectStream ---------------------------
(* Instances of ConnectStream for TLC: a few attempts, a few start() and    *)
(* stop() calls.  Attempts are interchangeable.                             *)
EXTENDS ConnectStream, TLC

CONSTANTS r1, r2, r3

MCRuns == {r1, r2, r3}
AllCallbacks == CallbackNames
NotFromOnError == CallbackNames \ {"onError"}

RunSymmetry == Permutations(MCRuns)
==============================================================================
