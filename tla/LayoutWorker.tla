----------------------------- MODULE LayoutWorker ----------------------------
(***************************************************************************)
(* The off-thread graph layout of packages/flow (layout-worker.ts): the    *)
(* handle of createLayoutWorker on the main thread, the message channels   *)
(* and the handler inside the worker, which is asynchronous and so may     *)
(* have several layouts in progress and finish them in any order.          *)
(*                                                                         *)
(* A graph, and the result computed from it, are named by the call that    *)
(* asked for it.                                                           *)
(***************************************************************************)
EXTENDS Naturals, Sequences

CONSTANTS
    Calls,       \* the calls of layout()
    None         \* no answer

VARIABLES
    worker,      \* the handle's `worker': alive, or undefined after terminate()
    nextId,      \* the handle's `nextId'
    id,          \* the request id of each call
    status,      \* the promise of each call
    answer,      \* whose result it was resolved with
    listening,   \* calls whose message and error listeners are attached
    unposted,    \* history: calls whose graph could not be cloned
    requests,    \* posted to the worker and not handled yet
    computing,   \* requests whose handler is suspended
    responses    \* posted back and not delivered yet

handle == <<worker, nextId, id, status, answer, listening, unposted>>
channel == <<requests, computing, responses>>
vars == <<handle, channel>>

Request == [id : Nat, of : Calls]
Response == [id : Nat, of : Calls, ok : BOOLEAN]

TypeOK ==
    /\ worker \in {"alive", "terminated"}
    /\ nextId \in Nat
    /\ id \in [Calls -> Nat]
    /\ status \in [Calls -> {"new", "pending", "resolved", "rejected"}]
    /\ answer \in [Calls -> Calls \cup {None}]
    /\ listening \in SUBSET Calls /\ unposted \in SUBSET Calls
    /\ requests \in Seq(Request)
    /\ computing \in SUBSET Request
    /\ responses \in Seq(Response)

Init ==
    /\ worker = "alive"
    /\ nextId = 0
    /\ id = [c \in Calls |-> 0]
    /\ status = [c \in Calls |-> "new"]
    /\ answer = [c \in Calls |-> None]
    /\ listening = {} /\ unposted = {}
    /\ requests = <<>>
    /\ computing = {}
    /\ responses = <<>>

------------------------------------------------------------------------------
(* A definition marked "mistake" is what the code could have said in place  *)
(* of the next; no action uses it.                                          *)

\* nextId++
NewId == nextId + 1

\* `data.id !== id' sends the other calls' listeners away.
Anyone(c, m) == TRUE           \* mistake: the first answer serves everyone
Addressed(c, m) == m.id = id[c]

\* resolve(data.result) or reject(...)
Outcome(m) == IF m.ok THEN "resolved" ELSE "rejected"

\* cleanup(), of each of the calls a listener has settled.
KeepListening(some) == UNCHANGED listening   \* mistake: no removeEventListener()
Cleanup(some) == listening' = listening \ some

\* What the handler posts: a result, or the message of what was thrown.
OnlyResults(q, ok) == IF ok THEN <<[id |-> q.id, of |-> q.of, ok |-> TRUE]>>
                            ELSE <<>>  \* mistake: the error leaves the handler
Reply(q, ok) == <<[id |-> q.id, of |-> q.of, ok |-> ok]>>

------------------------------------------------------------------------------
(* The main thread.                                                        *)

\* layout() of a terminated handle
LayoutRefused(c) ==
    /\ status[c] = "new" /\ worker = "terminated"
    /\ status' = [status EXCEPT ![c] = "rejected"]
    /\ UNCHANGED <<worker, nextId, id, answer, listening, unposted, channel>>

\* layout(): the listeners are attached, then the request is posted.
Layout(c) ==
    /\ status[c] = "new" /\ worker = "alive"
    /\ id' = [id EXCEPT ![c] = nextId]
    /\ nextId' = NewId
    /\ listening' = listening \cup {c}
    /\ requests' = Append(requests, [id |-> nextId, of |-> c])
    /\ status' = [status EXCEPT ![c] = "pending"]
    /\ UNCHANGED <<worker, answer, unposted, computing, responses>>

\* postMessage throws: the promise is rejected, the listeners are there.
LayoutThrows(c) ==
    /\ status[c] = "new" /\ worker = "alive"
    /\ id' = [id EXCEPT ![c] = nextId]
    /\ nextId' = NewId
    /\ listening' = listening \cup {c}
    /\ status' = [status EXCEPT ![c] = "rejected"]
    /\ unposted' = unposted \cup {c}
    /\ UNCHANGED <<worker, answer, channel>>

\* A response is dispatched to every listener; settling twice does nothing.
OnMessage ==
    /\ responses # <<>>
    /\ LET m == Head(responses)
           heard == {c \in listening : Addressed(c, m)}
           settled == {c \in heard : status[c] = "pending"}
       IN  /\ status' = [c \in Calls |-> IF c \in settled THEN Outcome(m) ELSE status[c]]
           /\ answer' = [c \in Calls |-> IF c \in settled /\ m.ok THEN m.of ELSE answer[c]]
           /\ Cleanup(heard)
    /\ responses' = Tail(responses)
    /\ UNCHANGED <<worker, nextId, id, unposted, requests, computing>>

\* The error event says nothing of the request: all that wait are rejected.
OnError ==
    /\ worker = "alive"
    /\ status' = [c \in Calls |-> IF c \in listening /\ status[c] = "pending"
                                  THEN "rejected" ELSE status[c]]
    /\ Cleanup(listening)
    /\ UNCHANGED <<worker, nextId, id, answer, unposted, channel>>

\* terminate(): the worker's tasks and the messages under way are dropped.
Terminate ==
    /\ worker = "alive"
    /\ worker' = "terminated"
    /\ requests' = <<>> /\ computing' = {} /\ responses' = <<>>
    /\ UNCHANGED <<nextId, id, status, answer, listening, unposted>>

------------------------------------------------------------------------------
(* The worker: layoutWorkerHandler, up to its await and from there on.      *)

Handle ==
    /\ requests # <<>>
    /\ requests' = Tail(requests)
    /\ computing' = computing \cup {Head(requests)}
    /\ UNCHANGED <<handle, responses>>

Finish(q) ==
    /\ q \in computing
    /\ computing' = computing \ {q}
    /\ \E ok \in BOOLEAN : responses' = responses \o Reply(q, ok)
    /\ UNCHANGED <<handle, requests>>

------------------------------------------------------------------------------
Next ==
    \/ \E c \in Calls : LayoutRefused(c) \/ Layout(c) \/ LayoutThrows(c)
    \/ OnMessage \/ OnError \/ Terminate
    \/ Handle \/ \E q \in computing : Finish(q)

Spec == Init /\ [][Next]_vars

\* Messages are delivered and a layout comes to an end.
Fairness ==
    /\ WF_vars(OnMessage) /\ WF_vars(Handle)
    /\ WF_vars(\E q \in computing : Finish(q))

FairSpec == Spec /\ Fairness

------------------------------------------------------------------------------
(* Properties.                                                             *)

Promises == INSTANCE RequestResponse WITH Requests <- Calls

(* "Correlates a reply to its request so concurrent layouts never cross":   *)
(* a layout is settled once, with the result for its own graph, in whatever *)
(* order the worker finishes and whatever crashes in between.               *)
LayoutsNeverCross == Promises!Spec

(* "Listeners are scoped to the single request id and torn down on settle   *)
(* so repeated calls do not leak handlers": who waits listens, and nobody    *)
(* else does but a call whose graph could not be cloned.                    *)
ListenersScoped ==
    LET waiting == {c \in Calls : status[c] = "pending"}
    IN  waiting \subseteq listening /\ listening \subseteq waiting \cup unposted

(* A layout that was posted is settled, unless the worker is terminated.    *)
EveryLayoutSettles ==
    \A c \in Calls : status[c] = "pending" ~> status[c] # "pending" \/ worker = "terminated"
==============================================================================
