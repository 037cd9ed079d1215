---------------------------- MODULE ConnectStream ----------------------------
(***************************************************************************)
(* The server-stream consumer of packages/realtime (connect-stream.ts with *)
(* reconnect-scheduler.ts): a state machine whose work is spread over      *)
(* asynchronous attempts that outlive the start()/stop() call that made    *)
(* them superfluous.                                                       *)
(*                                                                         *)
(* JavaScript runs one call at a time.  `stack' is the part of the call    *)
(* stack that matters: one frame per callback of the consumer that is      *)
(* running, with the statement the code goes on with when it returns.      *)
(* While a callback runs the consumer may call start() and stop()          *)
(* re-entrantly; messages, failures and timers are only handled when the   *)
(* stack is empty.                                                         *)
(*                                                                         *)
(* A run is one call of runAttempt: its token, its AbortController and,    *)
(* once it has failed, the retry timer it arms are all named by it.        *)
(***************************************************************************)
EXTENDS Naturals, Sequences

CONSTANTS
    Runs,            \* the attempts that can be opened: bounds consume()
    NoRun,           \* `undefined' as a controller or a timer handle
    Callbacks,       \* callbacks from which the consumer calls start()/stop()
    MicrotaskCalls,  \* may start()/stop() run between the microtask that ends
                     \* drainStream and the one that resumes runAttempt?
    MaxCalls         \* bound on the calls of start() and stop()

CallbackNames == {"onStateChange", "onMessage", "onError", "onClose"}

ASSUME RunAssumption == NoRun \notin Runs
ASSUME CallAssumption == /\ Callbacks \subseteq CallbackNames
                         /\ MicrotaskCalls \in BOOLEAN
                         /\ MaxCalls \in Nat

VARIABLES
    current,     \* ConnectStreamMachine.current
    runToken,    \* ConnectStreamMachine.runToken
    controller,  \* the run whose AbortController this.controller is
    attempt,     \* ReconnectScheduler.attempt
    handle,      \* ReconnectScheduler.handle, by the run that armed it
    phase,       \* how far each run has come
    token,       \* the token each run closed over
    aborted,     \* the runs whose signal is aborted
    stack,       \* callbacks that are running, innermost first
    asked,       \* history: the last start()/stop() that took effect
    calls        \* history: calls of start() and stop() so far

vars == <<current, runToken, controller, attempt, handle, phase, token,
          aborted, stack, asked, calls>>

States == {"idle", "streaming", "closed"}
Phases == {"unborn",     \* not opened yet
           "opening",    \* consume() has announced it, call() not invoked yet
           "draining",   \* suspended in for await
           "completed",  \* drainStream returned true, runAttempt not resumed
           "failing",    \* the catch block is running
           "waiting",    \* its retry timer is armed
           "finished"}
Frame == [at : {"open", "closing", "schedule", "arm", "end"},
          run : Runs \cup {NoRun},
          cb : CallbackNames \cup {"none"}]

TypeOK ==
    /\ current \in States
    /\ runToken \in Nat
    /\ controller \in Runs \cup {NoRun}
    /\ attempt \in Nat
    /\ handle \in Runs \cup {NoRun}
    /\ phase \in [Runs -> Phases]
    /\ token \in [Runs -> Nat]
    /\ aborted \in SUBSET Runs
    /\ stack \in Seq(Frame)
    /\ asked \in {"nothing", "start", "stop"}
    /\ calls \in Nat

Init ==
    /\ current = "idle"
    /\ runToken = 0
    /\ controller = NoRun
    /\ attempt = 0
    /\ handle = NoRun
    /\ phase = [r \in Runs |-> "unborn"]
    /\ token = [r \in Runs |-> 0]
    /\ aborted = {}
    /\ stack = <<>>
    /\ asked = "nothing"
    /\ calls = 0

------------------------------------------------------------------------------
(* The call stack.                                                         *)

\* Callback cb runs on top of `rest'; then the code goes on at `at'.
Push(at, r, cb, rest) == <<[at |-> at, run |-> r, cb |-> cb]>> \o rest

At(at) == stack # <<>> /\ Head(stack).at = at
Top == Head(stack).run

\* The event loop may take another task or microtask.
Idle == /\ stack = <<>>
        /\ MicrotaskCalls \/ \A r \in Runs : phase[r] # "completed"

\* The consumer has control: between two tasks, or inside one of its callbacks.
MayCall == /\ calls < MaxCalls
           /\ calls' = calls + 1
           /\ Idle \/ (stack # <<>> /\ Head(stack).cb \in Callbacks)

\* setState(next), after which the code goes on at `at': the consumer hears of
\* it only when it is a change.
SetState(next, at, r, rest) ==
    /\ current' = next
    /\ stack' = Push(at, r, IF current = next THEN "none" ELSE "onStateChange", rest)

\* consume(t): the controller is in place before the change is announced.
Consume(r, t) ==
    /\ controller' = r
    /\ token' = [token EXCEPT ![r] = t]
    /\ SetState("streaming", "open", r, stack)

IsCurrent(r) == token[r] = runToken

------------------------------------------------------------------------------
(* The expressions the actions turn on.  A definition marked "mistake" is   *)
(* what the code could have said in place of the next; no action uses it.   *)

KeepToken == runToken             \* mistake: stop() and start() leave it alone
NewToken == runToken + 1

CountUp == attempt + 1

ForgetController == UNCHANGED aborted   \* mistake: no abort()
AbortController == aborted' = aborted \cup ({controller} \ {NoRun})

\* May an item reach the consumer, and what becomes of a drained iterator?
AnyItem(r) == TRUE                \* mistake: a superseded loop still hands over
Wanted(r) == IsCurrent(r)
Drained(r) == IF IsCurrent(r) THEN "completed" ELSE "finished"

Never(r) == FALSE                 \* mistake: every error is reported
Silent(r) == ~IsCurrent(r) \/ r \in aborted

OwnToken(r) == token[r]

NoRetry(r) == FALSE               \* mistake: the timer does not run its callback
Retry(r) == OwnToken(r) = runToken

------------------------------------------------------------------------------
(* The consumer's calls.                                                   *)

Start ==
    /\ MayCall
    /\ current # "streaming"
    /\ runToken' = NewToken
    /\ attempt' = 0
    /\ \E r \in Runs : /\ phase[r] = "unborn"
                       /\ phase' = [phase EXCEPT ![r] = "opening"]
                       /\ Consume(r, NewToken)
    /\ asked' = "start"
    /\ UNCHANGED <<handle, aborted>>

Stop ==
    /\ MayCall
    /\ runToken' = NewToken
    /\ phase' = [r \in Runs |-> IF r = handle THEN "finished" ELSE phase[r]]
    /\ handle' = NoRun
    /\ AbortController
    /\ controller' = NoRun
    /\ SetState("closed", "end", NoRun, stack)
    /\ asked' = "stop"
    /\ UNCHANGED <<attempt, token>>

------------------------------------------------------------------------------
(* What the code does when a callback returns.                             *)

\* runAttempt invokes options.call(signal) and suspends in for await.
Open ==
    /\ At("open")
    /\ phase' = [phase EXCEPT ![Top] = "draining"]
    /\ stack' = Tail(stack)
    /\ UNCHANGED <<current, runToken, controller, attempt, handle, token,
                   aborted, asked, calls>>

\* The catch block, entered by run r: a superseded or aborted run is silent,
\* any other reports its error before it schedules the retry.
Catch(r, rest) ==
    /\ IF Silent(r)
       THEN /\ phase' = [phase EXCEPT ![r] = "finished"]
            /\ stack' = rest
       ELSE /\ phase' = [phase EXCEPT ![r] = "failing"]
            /\ stack' = Push("schedule", r, "onError", rest)
    /\ UNCHANGED <<current, runToken, controller, attempt, handle, token,
                   aborted, asked, calls>>

\* options.call(signal) itself throws.
OpenThrows == At("open") /\ Catch(Top, Tail(stack))

\* scheduleReconnect(token), up to its state change ...
ScheduleReconnect ==
    /\ At("schedule")
    /\ SetState("streaming", "arm", Top, Tail(stack))
    /\ UNCHANGED <<runToken, controller, attempt, handle, phase, token,
                   aborted, asked, calls>>

\* ... and reconnect.schedule(...), which forgets any timer armed before.
Arm ==
    /\ At("arm")
    /\ attempt' = CountUp
    /\ handle' = Top
    /\ phase' = [phase EXCEPT ![Top] = "waiting"]
    /\ stack' = Tail(stack)
    /\ UNCHANGED <<current, runToken, controller, token, aborted, asked, calls>>

\* runAttempt, after the state change that ends a completed run.
AnnounceClose ==
    /\ At("closing")
    /\ stack' = Push("end", NoRun, "onClose", Tail(stack))
    /\ UNCHANGED <<current, runToken, controller, attempt, handle, phase,
                   token, aborted, asked, calls>>

\* Nothing is left to do after the callback.
Return ==
    /\ At("end")
    /\ stack' = Tail(stack)
    /\ UNCHANGED <<current, runToken, controller, attempt, handle, phase,
                   token, aborted, asked, calls>>

------------------------------------------------------------------------------
(* What reaches the machine from the transport and the event loop.         *)

\* An item is yielded to run r, which may have been superseded meanwhile.
Deliver(r) ==
    /\ Idle
    /\ phase[r] = "draining"
    /\ IF Wanted(r)
       THEN /\ attempt' = 0
            /\ stack' = Push("end", NoRun, "onMessage", stack)
            /\ UNCHANGED phase
       ELSE /\ phase' = [phase EXCEPT ![r] = "finished"]
            /\ UNCHANGED <<attempt, stack>>
    /\ UNCHANGED <<current, runToken, controller, handle, token, aborted,
                   asked, calls>>

\* The iterator of run r is done: drainStream returns isCurrent().
Complete(r) ==
    /\ Idle
    /\ phase[r] = "draining"
    /\ phase' = [phase EXCEPT ![r] = Drained(r)]
    /\ UNCHANGED <<current, runToken, controller, attempt, handle, token,
                   aborted, stack, asked, calls>>

\* runAttempt resumes after `await drainStream(...)' with `completed' true.
Close(r) ==
    /\ stack = <<>>
    /\ phase[r] = "completed"
    /\ phase' = [phase EXCEPT ![r] = "finished"]
    /\ SetState("closed", "closing", r, stack)
    /\ UNCHANGED <<runToken, controller, attempt, handle, token, aborted,
                   asked, calls>>

\* The iterator of run r rejects.
Fail(r) ==
    /\ Idle
    /\ phase[r] = "draining"
    /\ Catch(r, stack)

\* The retry timer run r armed goes off; it clears `handle' whoever owns it.
Fire(r) ==
    /\ Idle
    /\ phase[r] = "waiting"
    /\ handle' = NoRun
    /\ IF Retry(r)
       THEN \E s \in Runs :
                /\ phase[s] = "unborn"
                /\ phase' = [phase EXCEPT ![r] = "finished", ![s] = "opening"]
                /\ Consume(s, OwnToken(r))
       ELSE /\ phase' = [phase EXCEPT ![r] = "finished"]
            /\ UNCHANGED <<current, controller, token, stack>>
    /\ UNCHANGED <<runToken, attempt, aborted, asked, calls>>

------------------------------------------------------------------------------
Resume == Open \/ OpenThrows \/ ScheduleReconnect \/ Arm \/ AnnounceClose \/ Return

Next ==
    \/ Start
    \/ Stop
    \/ Resume
    \/ \E r \in Runs : Deliver(r) \/ Complete(r) \/ Close(r) \/ Fail(r) \/ Fire(r)

Spec == Init /\ [][Next]_vars

\* A call runs to its end, microtasks are run and timers go off: nothing is
\* assumed of the consumer or of the server.
Fairness == /\ WF_vars(Resume)
            /\ \A r \in Runs : WF_vars(Close(r)) /\ WF_vars(Fire(r))

FairSpec == Spec /\ Fairness

------------------------------------------------------------------------------
(* Properties.                                                             *)

\* The run still has something to do.
Active(r) == phase[r] \in {"opening", "draining", "completed", "failing", "waiting"}

(* A token names one line of work: an attempt and the retry that follows    *)
(* it never exist side by side, whatever timers and superseded loops are    *)
(* still around, so two streams never feed the consumer at once.            *)
OneRunPerToken ==
    \A r, s \in Runs :
        Active(r) /\ Active(s) /\ token[r] = token[s] => r = s

(* onMessage is only ever invoked for the stream of the attempt that was    *)
(* begun last, while the last word of the consumer is start() and before    *)
(* anybody has told that stream to cancel: nothing a superseded or stopped  *)
(* attempt yields late gets through.                                        *)
Delivering == stack = <<>> /\ stack' # <<>> /\ Head(stack').cb = "onMessage"
DeliversCurrent ==
    [][\A r \in Runs :
           Deliver(r) /\ Delivering => asked = "start" /\ controller = r /\ r \notin aborted]_vars

(* An attempt that was superseded has had its signal aborted: the transport *)
(* of a stream nobody reads any more is told to cancel.                     *)
NoLeakedStream ==
    \A r \in Runs : phase[r] \in {"opening", "draining"} /\ ~IsCurrent(r)
                        => r \in aborted

(* `stop': "Cancel the active stream + any pending reconnect; transition to *)
(* closed."  Once the calls in progress have returned the machine is closed *)
(* and stays so until the next start().                                     *)
StopIsFinal == stack = <<>> /\ asked = "stop" => current = "closed"

(* A machine that says it is streaming is: unless the consumer stops it, it *)
(* gets back to iterating a stream, through the retry timer if need be.     *)
StreamingMeansWork ==
    current = "streaming" ~>
        \/ current = "closed"
        \/ \E r \in Runs : phase[r] = "draining" /\ IsCurrent(r)
        \/ \A r \in Runs : phase[r] # "unborn"
==============================================================================
