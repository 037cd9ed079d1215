--------------------------- MODULE RequestResponse ---------------------------
(***************************************************************************)
(* What a call that returns a promise owes its caller, however it is       *)
(* carried out: the promise is settled at most once, it is resolved with   *)
(* the answer to this call and to no other, and it is settled some time.   *)
(* IpcClient and LayoutWorker implement it.                                *)
(***************************************************************************)
CONSTANTS
    Requests,   \* the calls
    None        \* no answer

VARIABLES
    status,     \* the promise of each call
    answer      \* the call whose answer it was resolved with

promises == <<status, answer>>

Init ==
    /\ status = [r \in Requests |-> "new"]
    /\ answer = [r \in Requests |-> None]

Issue(r) ==
    /\ status[r] = "new"
    /\ status' = [status EXCEPT ![r] = "pending"]
    /\ UNCHANGED answer

\* The call fails before anything is waited for.
Refuse(r) ==
    /\ status[r] = "new"
    /\ status' = [status EXCEPT ![r] = "rejected"]
    /\ UNCHANGED answer

Resolve(r) ==
    /\ status[r] = "pending"
    /\ status' = [status EXCEPT ![r] = "resolved"]
    /\ answer' = [answer EXCEPT ![r] = r]

\* A failure may be that of several calls at once.
Reject(some) ==
    /\ \A r \in some : status[r] = "pending"
    /\ status' = [r \in Requests |-> IF r \in some THEN "rejected" ELSE status[r]]
    /\ UNCHANGED answer

Next ==
    \/ \E r \in Requests : Issue(r) \/ Refuse(r) \/ Resolve(r)
    \/ \E some \in SUBSET Requests : Reject(some)

Spec == Init /\ [][Next]_promises
==============================================================================
