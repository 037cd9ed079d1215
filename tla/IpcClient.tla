------------------------------ MODULE IpcClient ------------------------------
(***************************************************************************)
(* The colocated-IPC client of packages/ipc-sockmap (client.ts,            *)
(* pending-queue.ts and the frame decoder of transport.ts) with the socket *)
(* and the server it talks to.  Frames carry no identifier: the client     *)
(* hands each response to the oldest request that still waits.             *)
(*                                                                         *)
(* A response is named by the request it answers.  Its bytes arrive in at  *)
(* most two chunks, which is all the decoder's buffer can tell apart: part *)
(* of a frame, then the rest.                                              *)
(***************************************************************************)
EXTENDS Naturals, Sequences, Functions

CONSTANTS
    Requests,   \* the calls of request()
    Garbage,    \* a frame cut out of the middle of another one
    None,       \* no answer, no failure
    Timed,      \* is requestTimeoutMs set?
    Closes      \* does the caller call close()?

ASSUME RequestAssumption == /\ Garbage \notin Requests /\ None \notin Requests
                            /\ Garbage # None
ASSUME OptionAssumption == Timed \in BOOLEAN /\ Closes \in BOOLEAN

VARIABLES
    queue,      \* PendingQueue.queue, oldest first
    timers,     \* requests whose timeout is armed
    failure,    \* PendingQueue.failure
    closed,     \* IpcClient's `closed'
    decoder,    \* FrameDecoder.buffer: at a frame boundary, inside a frame, or
                \* reading payload bytes as if they were a header
    status,     \* the promise of each request
    answer,     \* what the promise was resolved with
    socket,     \* connected, failed, destroyed, or gone after its close event
    peerEnded,  \* the server has ended the stream
    toServer,   \* requests written and not yet read by the server
    toClient    \* responses on their way, oldest first

client == <<queue, timers, failure, closed, decoder, status, answer>>
wire == <<socket, peerEnded, toServer, toClient>>
vars == <<client, wire>>

Failures == {"transport", "closed by peer", "decode"}

TypeOK ==
    /\ queue \in Seq(Requests)
    /\ timers \in SUBSET Requests
    /\ failure \in Failures \cup {None}
    /\ closed \in BOOLEAN
    /\ decoder \in {"boundary", "inside", "garbled"}
    /\ status \in [Requests -> {"new", "pending", "resolved", "rejected"}]
    /\ answer \in [Requests -> Requests \cup {Garbage, None}]
    /\ socket \in {"connected", "failed", "destroyed", "gone"}
    /\ peerEnded \in BOOLEAN
    /\ toServer \in Seq(Requests)
    /\ toClient \in Seq(Requests)

Init ==
    /\ queue = <<>>
    /\ timers = {}
    /\ failure = None
    /\ closed = FALSE
    /\ decoder = "boundary"
    /\ status = [r \in Requests |-> "new"]
    /\ answer = [r \in Requests |-> None]
    /\ socket = "connected"
    /\ peerEnded = FALSE
    /\ toServer = <<>>
    /\ toClient = <<>>

------------------------------------------------------------------------------
(* PendingQueue.                                                           *)

(* A definition marked "mistake" is what the code could have said in place  *)
(* of the next; no action uses it.                                          *)

\* The splice of drop(entry).
Splice(r) ==
    \E i \in DOMAIN queue :
        /\ queue[i] = r
        /\ queue' = SubSeq(queue, 1, i - 1) \o SubSeq(queue, i + 1, Len(queue))

\* queue.shift(): the waiter that is served, and who still waits.
Pop == [next |-> queue[Len(queue)],  \* mistake: the newest
        rest |-> SubSeq(queue, 1, Len(queue) - 1)]
Shift == [next |-> Head(queue), rest |-> Tail(queue)]

\* settleNext(payload): the oldest waiter gets it; nobody waiting, it is lost.
SettleNext(payload) ==
    IF queue = <<>>
    THEN UNCHANGED <<queue, timers, status, answer>>
    ELSE /\ queue' = Shift.rest
         /\ timers' = timers \ {Shift.next}
         /\ status' = [status EXCEPT ![Shift.next] = "resolved"]
         /\ answer' = [answer EXCEPT ![Shift.next] = payload]

\* failAll(error).
KeepTimers == UNCHANGED timers       \* mistake: no clearTimeout()
ClearTimers == timers' = timers \ Range(queue)
FailAll(error) ==
    /\ failure' = error
    /\ status' = [r \in Requests |-> IF r \in Range(queue) THEN "rejected" ELSE status[r]]
    /\ ClearTimers
    /\ queue' = <<>>
    /\ UNCHANGED answer

------------------------------------------------------------------------------
(* The caller.                                                             *)

\* request(), refused: the connection has failed or the client is closed.
RequestRefused(r) ==
    /\ status[r] = "new"
    /\ failure # None \/ closed
    /\ status' = [status EXCEPT ![r] = "rejected"]
    /\ UNCHANGED <<queue, timers, failure, closed, decoder, answer, wire>>

Request(r) ==
    /\ status[r] = "new"
    /\ failure = None /\ ~closed
    /\ status' = [status EXCEPT ![r] = "pending"]
    /\ queue' = Append(queue, r)
    /\ timers' = IF Timed THEN timers \cup {r} ELSE timers
    /\ toServer' = Append(toServer, r)
    /\ UNCHANGED <<failure, closed, decoder, answer, socket, peerEnded, toClient>>

\* request(), whose frame is too long or whose write throws: the entry that was
\* just added is cancelled again.
RequestUnwritten(r) ==
    /\ status[r] = "new"
    /\ failure = None /\ ~closed
    /\ status' = [status EXCEPT ![r] = "rejected"]
    /\ UNCHANGED <<queue, timers, failure, closed, decoder, answer, wire>>

\* The timeout rejects the request only if drop() still found it in the queue.
Timeout(r) ==
    /\ r \in timers
    /\ timers' = timers \ {r}
    /\ IF r \in Range(queue)
       THEN Splice(r) /\ status' = [status EXCEPT ![r] = "rejected"]
       ELSE UNCHANGED <<queue, status>>
    /\ UNCHANGED <<failure, closed, decoder, answer, wire>>

\* close(): the decoder forgets the part of a frame it holds, the rest of that
\* frame is still on its way.
Close ==
    /\ Closes /\ ~closed
    /\ closed' = TRUE
    /\ decoder' = IF decoder = "inside" THEN "garbled" ELSE decoder
    /\ UNCHANGED <<queue, timers, failure, status, answer, wire>>

------------------------------------------------------------------------------
(* Events of the socket.                                                   *)

Receiving == socket = "connected" /\ toClient # <<>>

\* A chunk that ends inside a frame.
DataPart ==
    /\ Receiving
    /\ decoder = "boundary"
    /\ decoder' = "inside"
    /\ UNCHANGED <<queue, timers, failure, closed, status, answer, wire>>

\* A chunk that completes a frame.
Data ==
    /\ Receiving
    /\ decoder \in {"boundary", "inside"}
    /\ decoder' = "boundary"
    /\ SettleNext(Head(toClient))
    /\ toClient' = Tail(toClient)
    /\ UNCHANGED <<failure, closed, socket, peerEnded, toServer>>

\* Payload bytes read as a header announce a frame that is found at once, or
\* one that swallows what follows.
GarbledData ==
    /\ Receiving
    /\ decoder = "garbled"
    /\ SettleNext(Garbage) \/ UNCHANGED <<queue, timers, status, answer>>
    /\ toClient' = Tail(toClient)
    /\ UNCHANGED <<failure, closed, decoder, socket, peerEnded, toServer>>

\* A header that announces too long a frame: push() throws, and the frames it
\* had already cut out of this chunk are lost with it.
BadData ==
    /\ socket = "connected"
    /\ FailAll("decode")
    /\ socket' = "destroyed"
    /\ \E n \in 0..Len(toClient) : toClient' = SubSeq(toClient, n + 1, Len(toClient))
    /\ UNCHANGED <<closed, decoder, peerEnded, toServer>>

SocketError ==
    /\ socket = "connected"
    /\ FailAll("transport")
    /\ socket' = "failed"
    /\ UNCHANGED <<closed, decoder, peerEnded, toServer, toClient>>

\* markClosed(): had the caller closed before?
MarkFirst == TRUE                    \* mistake: the flag is set before it is read
WasClosed == closed

\* The close event.
SocketClose ==
    /\ \/ socket \in {"failed", "destroyed"}
       \/ socket = "connected" /\ peerEnded /\ toClient = <<>>
    /\ IF WasClosed THEN UNCHANGED <<queue, timers, failure, status, answer>>
                    ELSE FailAll("closed by peer")
    /\ closed' = TRUE
    /\ socket' = "gone"
    /\ UNCHANGED <<decoder, peerEnded, toServer, toClient>>

------------------------------------------------------------------------------
(* The server: it answers in order.                                        *)

Serve ==
    /\ ~peerEnded /\ toServer # <<>>
    /\ toServer' = Tail(toServer)
    /\ toClient' = Append(toClient, Head(toServer))
    /\ UNCHANGED <<client, socket, peerEnded>>

\* It ends the stream or dies; what it had not sent yet is never received.
PeerEnd ==
    /\ ~peerEnded
    /\ peerEnded' = TRUE
    /\ \E n \in 0..Len(toClient) : toClient' = SubSeq(toClient, 1, n)
    /\ UNCHANGED <<client, socket, toServer>>

------------------------------------------------------------------------------
Next ==
    \/ \E r \in Requests :
           Request(r) \/ RequestRefused(r) \/ RequestUnwritten(r) \/ Timeout(r)
    \/ Close
    \/ DataPart \/ Data \/ GarbledData \/ BadData \/ SocketError \/ SocketClose
    \/ Serve \/ PeerEnd

Spec == Init /\ [][Next]_vars

\* Timers go off, chunks that have arrived are delivered, a dead socket is
\* reported, and the server answers for as long as it is there.
Fairness ==
    /\ \A r \in Requests : WF_vars(Timeout(r))
    /\ WF_vars(Data) /\ WF_vars(SocketClose) /\ WF_vars(Serve)

FairSpec == Spec /\ Fairness

------------------------------------------------------------------------------
(* Properties.                                                             *)

(* The queue holds exactly the requests that wait, once each; a timer is    *)
(* armed for those and for no settled request: "a settled request whose     *)
(* timer still fires would reject a promise that already resolved".         *)
Bookkeeping ==
    /\ \A i, j \in DOMAIN queue : queue[i] = queue[j] => i = j
    /\ Range(queue) = {r \in Requests : status[r] = "pending"}
    /\ timers = IF Timed THEN Range(queue) ELSE {}
    /\ failure # None => queue = <<>>

(* A promise is settled once, whatever arrives afterwards.                  *)
SettledOnce ==
    [][\A r \in Requests : status[r] \in {"resolved", "rejected"}
           => status'[r] = status[r] /\ answer'[r] = answer[r]]_vars

(* "Requests go out in order and responses come back in order, so a FIFO is *)
(* the whole protocol state": a request is only ever resolved with its own  *)
(* response.                                                                *)
AnswersMatch == \A r \in Requests : status[r] = "resolved" => answer[r] = r

(* Without timeouts and close() the client keeps the promises of any        *)
(* request and response: the chunks, the FIFO and the socket implement      *)
(* RequestResponse, a failure of the connection being that of all who wait. *)
Promises == INSTANCE RequestResponse
PromisesKept == Promises!Spec

(* Every request that was sent is settled.                                  *)
EveryRequestSettles ==
    \A r \in Requests : status[r] = "pending" ~> status[r] \in {"resolved", "rejected"}
==============================================================================
