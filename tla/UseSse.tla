-------------------------------- MODULE UseSse -------------------------------
(***************************************************************************)
(* useSSE() of packages/realtime (use-sse.svelte.ts, stream-status.svelte  *)
(* .ts): an SseClient whose callbacks write the cells a component renders. *)
(* What a callback writes, it writes in the step that invokes it; none of  *)
(* them calls back into the client, whatever SseClient's Callbacks are.    *)
(***************************************************************************)
EXTENDS SseClient

CONSTANTS
    HistoryLimit,  \* see MessageBuffer
    MaxMessages    \* bound on the server's messages

ASSUME MessageAssumption == MaxMessages \in Nat /\ HistoryLimit \in Nat \ {0}

VARIABLES
    buffered, messages, lastMessage, batch, flushing, stopped,   \* see MessageBuffer
    shownState,    \* the `state' cell
    shownAttempt,  \* the `attempt' cell
    shownError,    \* is there an error in the `error' cell?
    delivered      \* history: messages the client has handed over

Buffer == INSTANCE MessageBuffer WITH armed <- flushing

bufferVars == <<buffered, messages, lastMessage, batch, flushing, stopped>>
cells == <<shownState, shownAttempt, shownError>>
hookVars == <<vars, bufferVars, cells, delivered>>

HookTypeOK ==
    /\ TypeOK
    /\ Buffer!TypeOK
    /\ shownState \in States
    /\ shownAttempt \in Nat
    /\ shownError \in BOOLEAN
    /\ delivered \in 0..MaxMessages

HookInit ==
    /\ Init
    /\ Buffer!Init
    /\ shownState = "idle"
    /\ shownAttempt = 0
    /\ shownError = FALSE
    /\ delivered = 0

------------------------------------------------------------------------------
(* The callbacks.  A definition marked "mistake" is what the code could     *)
(* have said in place of the next; no action uses it.                       *)

\* The callback this step invokes: the frame it has pushed.
Called == IF stack' # <<>> /\ Len(stack') >= Len(stack) /\ stack' # stack
          THEN Head(stack').cb ELSE "none"

\* onStateChange: (next) => status.onStateChange(next)
NextState == state'

\* onOpen: () => status.resetError()
ResetError == FALSE

Cells ==
    /\ shownState' = IF Called \in {"onConnecting", "onStateChange"} THEN NextState
                                                                     ELSE shownState
    /\ shownAttempt' = IF Called = "onError" THEN attempt ELSE shownAttempt
    /\ shownError' = CASE Called = "onError" -> TRUE
                       [] Called = "onOpen" -> ResetError
                       [] OTHER -> shownError

\* onMessage: (event) => status.push(event)
Received ==
    IF Called = "onMessage"
    THEN /\ delivered < MaxMessages
         /\ delivered' = delivered + 1
         /\ Buffer!Push(delivered + 1)
    ELSE UNCHANGED <<bufferVars, delivered>>

------------------------------------------------------------------------------
\* $effect on mount, or connect().
Connect == stack = <<>> /\ Start /\ Cells /\ UNCHANGED <<bufferVars, delivered>>

\* $effect's teardown, or close(): the history is stopped before the client.
Unmount == stack = <<>> /\ Buffer!Stop /\ Close /\ Cells /\ UNCHANGED delivered

\* The client goes on: an event of its source, its timer, the rest of a handler.
Proceed == Resume /\ Cells /\ Received
Event ==
    /\ \/ \E s \in Sources : \/ HandleOpen(s)
                             \/ HandleMessage(s)
                             \/ HandleError(s)
       \/ \E t \in Timers : Fire(t)
    /\ Cells /\ Received

Flush ==
    /\ stack = <<>>
    /\ Buffer!FlushTimer
    /\ UNCHANGED <<vars, cells, delivered>>

HookNext == Connect \/ Unmount \/ Proceed \/ Event \/ Flush

HookSpec == HookInit /\ [][HookNext]_hookVars

\* A handler runs to its end, and a due timer goes off however many events
\* the loop runs before it.
FairHookSpec == HookSpec /\ WF_hookVars(Proceed) /\ SF_hookVars(Flush)

------------------------------------------------------------------------------
(* Properties.                                                             *)

(* What the component renders is what the client is: between two tasks the  *)
(* `state' cell agrees with SseClient.currentState, the error is "cleared   *)
(* on (re)open", and the `attempt' cell is the number the last error came   *)
(* with, one less than the client counts since.  (Only an error writes that *)
(* cell: it keeps its number when the client is open again, although its    *)
(* comment says that it "resets to 0 on a successful open".)                *)
CellsAgree ==
    stack = <<>> =>
        /\ shownState = state
        /\ shownState = "open" => ~shownError
        /\ attempt > 0 => shownAttempt = attempt - 1

(* A component that has closed the hook, and not connected it again, shows  *)
(* `closed' and nothing is left that could change what it shows: no source, *)
(* no reconnect, and no flush of the throttle.                              *)
QuietOnceClosed ==
    stack = <<>> /\ asked = "close" =>
        shownState = "closed" /\ Live = {} /\ armed = {} /\ ~flushing

(* Until the hook is closed the throttle loses, repeats and reorders        *)
(* nothing: the history and then the batch are the newest messages, as many *)
(* as the limit lets it keep, and the "most recent message" is the end of   *)
(* the history.  The state, error and attempt cells say what CellsAgree     *)
(* asks of them, and a closed hook is quiet.                                *)
NothingLost ==
    /\ CellsAgree
    /\ QuietOnceClosed
    /\ LET all == messages \o batch IN
       ~stopped =>
                /\ \A i \in DOMAIN all : all[i] = delivered - Len(all) + i
                /\ Len(all) >= IF delivered < HistoryLimit THEN delivered ELSE HistoryLimit
                /\ messages # <<>> => lastMessage = messages[Len(messages)]

(* A message does not stay in the throttle: it is shown, or the hook is     *)
(* closed.                                                                  *)
EveryMessageShown ==
    \A n \in 1..MaxMessages : delivered >= n ~> lastMessage >= n \/ stopped
==============================================================================
