------------------------------ MODULE SseClient ------------------------------
(***************************************************************************)
(* The Server-Sent-Events client of packages/realtime (sse-client.ts): one *)
(* EventSource at a time, replaced after an error when a backoff timer     *)
(* goes off.  Unlike ConnectStream it has no run token: what start() and   *)
(* close() undo is only what the fields still point to.                    *)
(*                                                                         *)
(* As in ConnectStream, `stack' holds one frame per callback of the        *)
(* consumer that is running, with the statement the client goes on with.   *)
(***************************************************************************)
EXTENDS Naturals, Sequences

CONSTANTS
    Sources,     \* the EventSources the factory can hand out: bounds connect()
    NoSource,    \* `undefined' as this.source
    Timers,      \* timer handles: bounds the timers armed at one time
    NoTimer,     \* `undefined' as this.reconnectHandle
    Callbacks,   \* callbacks from which the consumer calls start()/close()
    MaxCalls,    \* bound on the calls of start() and close()
    MaxAttempts  \* bound on attempt: as many errors as there are sources, unless
                 \* a source the client has lost goes on failing

\* onStateChange('connecting') comes in the middle of connect() and of
\* scheduleReconnect(), the other state changes end a handler: two names.
CallbackNames == {"onConnecting", "onStateChange", "onOpen", "onMessage", "onError"}

ASSUME SourceAssumption == NoSource \notin Sources /\ NoTimer \notin Timers
ASSUME CallAssumption ==
    Callbacks \subseteq CallbackNames /\ MaxCalls \in Nat /\ MaxAttempts \in Nat

VARIABLES
    state,            \* SseClient.state
    source,           \* SseClient.source
    attempt,          \* SseClient.attempt
    reconnectHandle,  \* SseClient.reconnectHandle
    feed,             \* each EventSource: not made, listened to, closed
    armed,            \* timers that will go off
    stack,            \* callbacks that are running, innermost first
    thrown,           \* history: did the factory throw when it was last asked?
    asked,            \* history: the last start()/close() of the consumer
    crossed,          \* history: was close() ever called from a handler half way?
    calls             \* history: calls of start() and close() so far

vars == <<state, source, attempt, reconnectHandle, feed, armed, stack,
          thrown, asked, crossed, calls>>

States == {"idle", "connecting", "open", "closed"}
Frame == [at : {"dial", "opened", "teardown", "arm", "end"},
          cb : CallbackNames \cup {"none"}]

TypeOK ==
    /\ state \in States
    /\ source \in Sources \cup {NoSource}
    /\ attempt \in Nat
    /\ reconnectHandle \in Timers \cup {NoTimer}
    /\ feed \in [Sources -> {"unborn", "live", "dead"}]
    /\ armed \in SUBSET Timers
    /\ stack \in Seq(Frame)
    /\ thrown \in BOOLEAN
    /\ asked \in {"nothing", "start", "close"}
    /\ crossed \in BOOLEAN
    /\ calls \in Nat

Init ==
    /\ state = "idle"
    /\ source = NoSource
    /\ attempt = 0
    /\ reconnectHandle = NoTimer
    /\ feed = [s \in Sources |-> "unborn"]
    /\ armed = {}
    /\ stack = <<>>
    /\ thrown = FALSE
    /\ asked = "nothing"
    /\ crossed = FALSE
    /\ calls = 0

------------------------------------------------------------------------------
(* The call stack.                                                         *)

Push(at, cb, rest) == <<[at |-> at, cb |-> cb]>> \o rest
At(at) == stack # <<>> /\ Head(stack).at = at

\* Handlers that have yet to dial, to tear down or to arm a timer: they do so
\* whatever a callback they have called did in the meantime.
Unfinished == {"dial", "teardown", "arm"}
HalfWay == \E i \in DOMAIN stack : stack[i].at \in Unfinished

\* The consumer has control: between two tasks, or inside one of its callbacks.
MayCall == /\ calls < MaxCalls
           /\ calls' = calls + 1
           /\ stack = <<>> \/ (stack # <<>> /\ Head(stack).cb \in Callbacks)

\* setState(next), after which the code goes on at `at'.
SetState(next, at, rest) ==
    /\ state' = next
    /\ stack' = Push(at, CASE state = next -> "none"
                           [] state # next /\ next = "connecting" -> "onConnecting"
                           [] OTHER -> "onStateChange", rest)

(* A definition marked "mistake" is what the code could have said in place  *)
(* of the next; no action uses it.                                          *)

Busy == state \in {"connecting", "open"}

\* Bound: nobody dials when every source has been used.
CanDial == \E s \in Sources : feed[s] = "unborn"

CountUp == attempt + 1

\* clearReconnect()
KeepReconnect == UNCHANGED <<armed, reconnectHandle>>   \* mistake: forgotten
ClearReconnect ==
    /\ armed' = armed \ {reconnectHandle}
    /\ reconnectHandle' = NoTimer

\* teardownSource(): whatever this.source points to is unsubscribed and closed.
TeardownSource ==
    /\ feed' = [s \in Sources |-> IF s = source THEN "dead" ELSE feed[s]]
    /\ source' = NoSource

------------------------------------------------------------------------------
(* The consumer's calls; start() does nothing while connecting or open.     *)

Start ==
    /\ MayCall
    /\ ~Busy /\ CanDial
    /\ SetState("connecting", "dial", stack)
    /\ asked' = "start"
    /\ UNCHANGED <<source, attempt, reconnectHandle, feed, armed, thrown, crossed>>

Close ==
    /\ MayCall
    /\ ClearReconnect
    /\ TeardownSource
    /\ SetState("closed", "end", stack)
    /\ asked' = "close"
    /\ crossed' = (crossed \/ HalfWay)
    /\ UNCHANGED <<attempt, thrown>>

------------------------------------------------------------------------------
(* What the client does when a callback returns.                           *)

\* connect(), from the factory on: the new source replaces this.source.
Dial ==
    /\ At("dial")
    /\ \E s \in Sources : /\ feed[s] = "unborn"
                          /\ feed' = [feed EXCEPT ![s] = "live"]
                          /\ source' = s
    /\ stack' = Tail(stack)
    /\ thrown' = FALSE
    /\ UNCHANGED <<state, attempt, reconnectHandle, armed, asked, crossed, calls>>

\* The factory throws: no source, and the handlers on the stack are left, up
\* to a callback of the consumer that catches.
DialThrows ==
    /\ At("dial")
    /\ thrown' = TRUE
    /\ \E n \in 1..Len(stack) : stack' = SubSeq(stack, n + 1, Len(stack))
    /\ UNCHANGED <<state, source, attempt, reconnectHandle, feed, armed, asked, crossed, calls>>

\* handleOpen, after its state change.
AnnounceOpen ==
    /\ At("opened")
    /\ stack' = Push("end", "onOpen", Tail(stack))
    /\ UNCHANGED <<state, source, attempt, reconnectHandle, feed, armed, thrown, asked, crossed, calls>>

\* handleError, after onError: teardownSource and scheduleReconnect up to its
\* state change ...
Teardown ==
    /\ At("teardown")
    /\ TeardownSource
    /\ attempt' = CountUp
    /\ SetState("connecting", "arm", Tail(stack))
    /\ UNCHANGED <<reconnectHandle, armed, thrown, asked, crossed, calls>>

\* ... and the timer, which replaces the handle of any timer armed before.
Arm ==
    /\ At("arm")
    /\ \E t \in Timers \ armed : /\ armed' = armed \cup {t}
                                 /\ reconnectHandle' = t
    /\ stack' = Tail(stack)
    /\ UNCHANGED <<state, source, attempt, feed, thrown, asked, crossed, calls>>

Return ==
    /\ At("end")
    /\ stack' = Tail(stack)
    /\ UNCHANGED <<state, source, attempt, reconnectHandle, feed, armed, thrown, asked, crossed, calls>>

------------------------------------------------------------------------------
(* Events of an EventSource the client listens to, and the timer.  The      *)
(* handlers do not look at which source the event comes from.               *)

HandleOpen(s) ==
    /\ stack = <<>> /\ feed[s] = "live"
    /\ attempt' = 0
    /\ SetState("open", "opened", stack)
    /\ UNCHANGED <<source, reconnectHandle, feed, armed, thrown, asked, crossed, calls>>

HandleMessage(s) ==
    /\ stack = <<>> /\ feed[s] = "live"
    /\ stack' = Push("end", "onMessage", stack)
    /\ UNCHANGED <<state, source, attempt, reconnectHandle, feed, armed, thrown, asked, crossed, calls>>

HandleError(s) ==
    /\ stack = <<>> /\ feed[s] = "live" /\ attempt < MaxAttempts
    /\ stack' = Push("teardown", "onError", stack)
    /\ UNCHANGED <<state, source, attempt, reconnectHandle, feed, armed, thrown, asked, crossed, calls>>

\* (Mistake: a timer that clears the handle and never connects.)
FireForgets(t) ==
    /\ stack = <<>> /\ t \in armed
    /\ armed' = armed \ {t}
    /\ reconnectHandle' = NoTimer
    /\ UNCHANGED <<state, source, attempt, feed, stack, thrown, asked, crossed, calls>>

Fire(t) ==
    /\ stack = <<>> /\ t \in armed /\ CanDial
    /\ armed' = armed \ {t}
    /\ reconnectHandle' = NoTimer
    /\ SetState("connecting", "dial", stack)
    /\ UNCHANGED <<source, attempt, feed, thrown, asked, crossed, calls>>

------------------------------------------------------------------------------
Resume == Dial \/ DialThrows \/ AnnounceOpen \/ Teardown \/ Arm \/ Return

Next ==
    \/ Start
    \/ Close
    \/ Resume
    \/ \E s \in Sources : HandleOpen(s) \/ HandleMessage(s) \/ HandleError(s)
    \/ \E t \in Timers : Fire(t)

Spec == Init /\ [][Next]_vars

\* A call runs to its end and timers go off.  The server may never answer.
FairSpec == Spec /\ WF_vars(Resume) /\ \A t \in Timers : WF_vars(Fire(t))

------------------------------------------------------------------------------
(* Properties.                                                             *)

Live == {s \in Sources : feed[s] = "live"}

(* The client listens to the EventSource it points to and to no other: two  *)
(* live feeds would hand every server event over twice, and close() would   *)
(* only reach one of them.                                                  *)
OneFeed == \A s \in Live : s = source

(* Between two tasks the published state tells what the client is doing:    *)
(* `open' has a feed, `connecting' has a feed or a retry that will make one *)
(* but never both, and a retry is always one close() can still cancel.      *)
(* After a factory that throws it is `connecting' with neither.             *)
StateMatchesWork ==
    stack = <<>> =>
        /\ state = "open" => Live # {} /\ armed = {}
        /\ state = "connecting" => IF thrown THEN Live = {} /\ armed = {}
                                             ELSE (Live = {}) # (armed = {})
        /\ armed \subseteq {reconnectHandle}

(* Once close() and the calls it was made from have returned there is no    *)
(* feed, no timer and state `closed', until the next start().               *)
CloseIsFinal ==
    stack = <<>> /\ asked = "close" => state = "closed" /\ Live = {} /\ armed = {}

(* All three, whatever the consumer calls from whichever callback: one feed *)
(* at a time, a published state that is true, and a close() that is final.  *)
(* The exception: from the first close() that was called while a handler    *)
(* was half way - from onError, or from onStateChange('connecting') - the   *)
(* client promises nothing, since the handler goes on to dial or to arm a   *)
(* timer for a client that is closed, or that was started again since.      *)
StateIsTrue == ~crossed => OneFeed /\ StateMatchesWork /\ CloseIsFinal

(* A client that is connecting does not stay between two feeds for ever,    *)
(* if its factory does not throw.                                           *)
KeepsConnecting ==
    state = "connecting" ~>
        \/ state # "connecting"
        \/ Live # {} \/ thrown
        \/ \A s \in Sources : feed[s] # "unborn"
==============================================================================
