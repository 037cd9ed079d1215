------------------------------- MODULE LLMChat -------------------------------
(***************************************************************************)
(* The chat store of packages/ai (client.svelte.ts): useLLMChat() keeps a  *)
(* conversation and streams one reply at a time into its last turn.        *)
(*                                                                         *)
(* send() is asynchronous: the loop that reads a reply and its `finally'   *)
(* outlive stop() and reset(), which only ask the transport to end it.  A  *)
(* turn is the user's message with the reply it got; the seed messages     *)
(* never change and are left out.                                          *)
(***************************************************************************)
EXTENDS Naturals, Sequences, FiniteSets

CONSTANTS
    Sends,        \* the calls of send() that are not ignored
    NoSend,       \* no controller, no error
    MaxChunks,    \* bound on the chunks of one reply
    Cooperative   \* does the transport yield nothing once it is aborted?

ASSUME SendAssumption == NoSend \notin Sends /\ MaxChunks \in Nat
ASSUME OptionAssumption == Cooperative \in BOOLEAN

VARIABLES
    turns,       \* messages: per turn, the send and the sends whose text it got
    streaming,   \* the `streaming' cell
    error,       \* the `error' cell, by the send that threw
    controller,  \* the send whose AbortController is held
    phase,       \* how far each send has come
    slot,        \* replyIndex of each send, as an index into turns
    chunks,      \* history: chunks each send has yielded
    aborted,     \* the sends whose signal is aborted
    asked,       \* history: the last call that took effect
    hasty,       \* history: was a send() ever made before an earlier one settled?
    displaced    \* history: sends whose turn reset() removed while they were read

vars == <<turns, streaming, error, controller, phase, slot, chunks, aborted,
          asked, hasty, displaced>>

Turn == [of : Sends, text : Seq(Sends)]

TypeOK ==
    /\ turns \in Seq(Turn)
    /\ streaming \in BOOLEAN
    /\ error \in Sends \cup {NoSend}
    /\ controller \in Sends \cup {NoSend}
    /\ phase \in [Sends -> {"unborn", "reading", "settled"}]
    /\ slot \in [Sends -> Nat]
    /\ chunks \in [Sends -> 0..MaxChunks]
    /\ aborted \in SUBSET Sends
    /\ asked \in {"nothing", "send", "stop", "reset"}
    /\ hasty \in BOOLEAN
    /\ displaced \in SUBSET Sends

Init ==
    /\ turns = <<>>
    /\ streaming = FALSE
    /\ error = NoSend
    /\ controller = NoSend
    /\ phase = [s \in Sends |-> "unborn"]
    /\ slot = [s \in Sends |-> 0]
    /\ chunks = [s \in Sends |-> 0]
    /\ aborted = {}
    /\ asked = "nothing"
    /\ hasty = FALSE
    /\ displaced = {}

Reading == {s \in Sends : phase[s] = "reading"}

------------------------------------------------------------------------------
(* A definition marked "mistake" is what the code could have said in place  *)
(* of the next; no action uses it.                                          *)

\* appendChunk(): an index that is gone yields the list unchanged.
AppendLast(s) ==                 \* mistake: always the last turn
    IF turns = <<>> THEN turns ELSE [turns EXCEPT ![Len(turns)].text = Append(@, s)]
AppendChunk(s) ==
    IF slot[s] <= Len(turns) THEN [turns EXCEPT ![slot[s]].text = Append(@, s)] ELSE turns

\* `if (streaming) return'
NeverBusy == FALSE               \* mistake: a second send() is let through
Busy == streaming

\* controller?.abort()
Abort == aborted' = aborted \cup ({controller} \ {NoSend})

\* What `finally' leaves in the flag.
Kept == streaming                \* mistake: nobody clears it
Cleared == FALSE

------------------------------------------------------------------------------
(* The consumer's calls.                                                   *)

Send(s) ==
    /\ phase[s] = "unborn" /\ ~Busy
    /\ error' = NoSend
    /\ controller' = s
    /\ streaming' = TRUE
    /\ slot' = [slot EXCEPT ![s] = Len(turns) + 1]
    /\ turns' = Append(turns, [of |-> s, text |-> <<>>])
    /\ phase' = [phase EXCEPT ![s] = "reading"]
    /\ asked' = "send"
    /\ hasty' = (hasty \/ Reading # {})
    /\ UNCHANGED <<chunks, aborted, displaced>>

Stop ==
    /\ Abort
    /\ controller' = NoSend
    /\ streaming' = FALSE
    /\ asked' = "stop"
    /\ UNCHANGED <<turns, error, phase, slot, chunks, hasty, displaced>>

Reset ==
    /\ Abort
    /\ controller' = NoSend
    /\ streaming' = FALSE
    /\ error' = NoSend
    /\ turns' = <<>>
    /\ asked' = "reset"
    /\ displaced' = displaced \cup Reading
    /\ UNCHANGED <<phase, slot, chunks, hasty>>

------------------------------------------------------------------------------
(* What the transport does to the loop of send s.                          *)

Chunk(s) ==
    /\ s \in Reading
    /\ Cooperative => s \notin aborted
    /\ chunks[s] < MaxChunks
    /\ chunks' = [chunks EXCEPT ![s] = @ + 1]
    /\ turns' = AppendChunk(s)
    /\ UNCHANGED <<streaming, error, controller, phase, slot, aborted, asked, hasty, displaced>>

\* `finally', which does not ask whose controller and flag it clears.
Finally(s) ==
    /\ phase' = [phase EXCEPT ![s] = "settled"]
    /\ streaming' = Cleared
    /\ controller' = NoSend
    /\ UNCHANGED <<turns, slot, chunks, aborted, asked, hasty, displaced>>

End(s) == s \in Reading /\ Finally(s) /\ UNCHANGED error

Throw(s) == s \in Reading /\ Finally(s) /\ error' = s

------------------------------------------------------------------------------
Next ==
    \/ \E s \in Sends : Send(s) \/ Chunk(s) \/ End(s) \/ Throw(s)
    \/ Stop \/ Reset

Spec == Init /\ [][Next]_vars

------------------------------------------------------------------------------
(* Properties.                                                             *)

(* The flag is only up while a reply nobody has ended is being read, and    *)
(* stop() would end that one.  For a consumer that lets the send() it has   *)
(* ended settle before the next, the flag is up whenever there is one: no   *)
(* `finally' of an older send() can have lowered it.                        *)
StreamingIsHeld ==
    /\ streaming => controller \in Reading \ aborted
    /\ ~hasty => Reading \ aborted = IF streaming THEN {controller} ELSE {}

(* "Append a user message and stream the assistant reply": a reply is made  *)
(* of the chunks of its own send, however many older streams are still read *)
(* beside it.  The only foreign chunks are those of sends whose turn was    *)
(* removed by reset() while they were read: they have kept their index.     *)
RepliesPure ==
    \A i \in DOMAIN turns : \A k \in DOMAIN turns[i].text :
        turns[i].text[k] \in {turns[i].of} \cup displaced

(* "Reset the conversation back to the initial messages": until the next    *)
(* send() it stays so, whatever the streams that are still read yield, and  *)
(* "a stream that outlives its placeholder cannot write past the end".      *)
ResetEmpties == asked = "reset" => turns = <<>> /\ ~streaming
==============================================================================
