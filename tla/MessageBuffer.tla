---------------------------- MODULE MessageBuffer ----------------------------
(***************************************************************************)
(* The message history of packages/realtime's hooks: message-buffer,       *)
(* bounded-history and, when bufferMs is set, the throttle of              *)
(* buffered-emitter.  Stateless about where messages come from; UseSse     *)
(* drives it.                                                              *)
(***************************************************************************)
EXTENDS Naturals, Sequences

CONSTANT
    HistoryLimit   \* historyLimit

VARIABLES
    buffered,     \* is bufferMs > 0?  Chosen once
    messages,     \* the history, oldest first
    lastMessage,  \* 0: none yet
    batch,        \* pushed and not flushed
    armed,        \* is the flush timer armed?
    stopped       \* the emitter's `stopped'

vars == <<buffered, messages, lastMessage, batch, armed, stopped>>

TypeOK ==
    /\ buffered \in BOOLEAN
    /\ messages \in Seq(Nat) /\ Len(messages) <= HistoryLimit
    /\ lastMessage \in Nat
    /\ batch \in Seq(Nat)
    /\ armed \in BOOLEAN
    /\ stopped \in BOOLEAN

Init ==
    /\ buffered \in BOOLEAN
    /\ messages = <<>>
    /\ lastMessage = 0
    /\ batch = <<>>
    /\ armed = FALSE
    /\ stopped = FALSE

------------------------------------------------------------------------------
(* A definition marked "mistake" is what the code could have said in place  *)
(* of the next; no action uses it.                                          *)

\* appendBounded(current, added, limit): the newest are the ones kept.
AppendBounded(current, added) ==
    LET next == current \o added IN
    IF Len(next) > HistoryLimit
    THEN SubSeq(next, Len(next) - HistoryLimit + 1, Len(next))
    ELSE next

\* append(added)
First(added) == added[1]                        \* mistake: the oldest
Latest(added) == added[Len(added)]
Land(added) ==
    IF added = <<>>
    THEN UNCHANGED <<messages, lastMessage>>
    ELSE /\ lastMessage' = Latest(added)
         /\ messages' = AppendBounded(messages, added)

\* push(m): without a throttle it lands at once, a stopped throttle drops it.
Push(m) ==
    IF ~buffered THEN Land(<<m>>) /\ UNCHANGED <<buffered, batch, armed, stopped>>
    ELSE IF stopped THEN UNCHANGED vars
    ELSE /\ batch' = Append(batch, m)
         /\ armed' = TRUE
         /\ UNCHANGED <<buffered, messages, lastMessage, stopped>>

\* The timer: flush() takes the batch and disarms itself.
DropBatch == UNCHANGED <<messages, lastMessage>>   \* mistake: emptied too early
LandBatch == Land(batch)
FlushTimer ==
    /\ armed
    /\ armed' = FALSE
    /\ batch' = <<>>
    /\ LandBatch
    /\ UNCHANGED <<buffered, stopped>>

\* stop(), which is final.
Discard == batch' = <<>> /\ armed' = FALSE
Stop ==
    /\ IF buffered THEN stopped' = TRUE /\ Discard ELSE UNCHANGED <<stopped, batch, armed>>
    /\ UNCHANGED <<buffered, messages, lastMessage>>
==============================================================================
