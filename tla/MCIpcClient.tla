----------------------------- MODULE MCIpcClient -----------------------------
(* Instances of IpcClient for TLC: a few interchangeable requests.          *)
EXTENDS IpcClient, TLC

CONSTANTS q1, q2, q3, q4

Three == {q1, q2, q3}
Four == {q1, q2, q3, q4}

Symmetry4 == Permutations(Four)
==============================================================================
