------------------------------ MODULE AiGateway ------------------------------
(* The way of an inference in @sveltesentio/ai: the browser's createLlmProxy *)
(* (proxy.ts), the application's route behind it, createLLMProxy with its    *)
(* provider adapters (server.ts), and the audit log (audit.ts).              *)
(*                                                                           *)
(* The route is external: it awaits complete() and answers with JSON or a    *)
(* problem document.  A stream() is consumed on the server by whoever called *)
(* it, who may stop at any chunk.  Text is a sequence of chunks.             *)
EXTENDS Naturals, Sequences, FiniteSets

CONSTANTS
    Requests,
    Streaming,      \* those that call stream(); the others call complete()
    Audited,        \* those called with an AuditContext on a proxy with a log
    Chunks,         \* text deltas
    Empty,          \* a provider event without text; not one of Chunks
    MaxEvents       \* bound: events of one provider stream

VARIABLES
    phase,          \* how far the server has got with each request
    events,         \* what the provider has produced
    assembled,      \* stream(): the text so far; complete(): the text
    given,          \* what the caller of the proxy was handed
    log,            \* the records the sink took
    browser         \* what the browser's post() has come to

vars == <<phase, events, assembled, given, log, browser>>

Phases == {"idle", "called", "open", "recording", "done", "failed", "abandoned"}

Init ==
    /\ phase = [r \in Requests |-> "idle"]
    /\ events = [r \in Requests |-> <<>>]
    /\ assembled = [r \in Requests |-> <<>>]
    /\ given = [r \in Requests |-> <<>>]
    /\ log = <<>>
    /\ browser = [r \in Requests |-> "idle"]

At(r, from, to) == phase[r] = from /\ phase' = [phase EXCEPT ![r] = to]

(* chat() and complete() of createLlmProxy: POST to the application's        *)
(* endpoint, whose route calls complete(); the network may fail, or the      *)
(* caller's signal abort, before the request gets there.                     *)
Post(r) ==
    /\ r \notin Streaming
    /\ browser[r] = "idle"
    /\ \/ /\ browser' = [browser EXCEPT ![r] = "waiting"]
          /\ At(r, "idle", "called")
       \/ /\ browser' = [browser EXCEPT ![r] = "rejected"]
          /\ UNCHANGED phase
    /\ UNCHANGED <<events, assembled, given, log>>

(* The signal aborts the fetch, or the connection breaks; the server is not  *)
(* told (no adapter passes params.signal on).                                *)
Abort(r) ==
    /\ browser[r] = "waiting"
    /\ browser' = [browser EXCEPT ![r] = "rejected"]
    /\ UNCHANGED <<phase, events, assembled, given, log>>

(* The response: readBody, then the body or a ProblemError.                  *)
Respond(r) ==
    /\ browser[r] = "waiting"
    /\ phase[r] \in {"done", "failed"}
    /\ browser' = [browser EXCEPT ![r] = IF phase[r] = "done" THEN "resolved" ELSE "rejected"]
    /\ UNCHANGED <<phase, events, assembled, given, log>>

(* What an adapter makes a chunk of: events that carry text.                 *)
Text(s) ==
    LET upTo[i \in 0..Len(s)] ==
            IF i = 0 THEN <<>>
            ELSE IF s[i] \in Chunks THEN Append(upTo[i - 1], s[i]) ELSE upTo[i - 1]
    IN  upTo[Len(s)]

(* complete(): the provider answers with the whole text.                     *)
ProviderCompletes(r) ==
    /\ r \notin Streaming
    /\ At(r, "called", "recording")
    /\ \E n \in 1..MaxEvents : \E s \in [1..n -> Chunks \cup {Empty}] :
        /\ events' = [events EXCEPT ![r] = s]
        /\ assembled' = [assembled EXCEPT ![r] = Text(s)]
    /\ UNCHANGED <<given, log, browser>>

(* ollama.chat returns a stream for a non-streaming request, or any provider *)
(* throws: toProblem.                                                        *)
ProviderThrows(r) ==
    /\ \/ At(r, "called", "failed")
       \/ At(r, "open", "failed")
    /\ UNCHANGED <<events, assembled, given, log, browser>>

(* stream(): the first next() opens the provider's stream.                   *)
Open(r) ==
    /\ r \in Streaming
    /\ \/ At(r, "idle", "called")
       \/ At(r, "called", "open")
    /\ UNCHANGED <<events, assembled, given, log, browser>>

\* mistake: the text of the chunk replaces what was assembled.
Latest(text, chunk) == <<chunk>>

(* assembled += chunk.text.                                                  *)
Assembled(text, chunk) == Append(text, chunk)

(* One event of the provider's stream; one with text is yielded, and the     *)
(* caller has it when its next() resolves.  (ollama may answer with a single *)
(* message in place of a stream: one such event, then End.)                  *)
Event(r) ==
    /\ phase[r] = "open"
    /\ Len(events[r]) < MaxEvents
    /\ \E e \in Chunks \cup {Empty} :
        /\ events' = [events EXCEPT ![r] = Append(@, e)]
        /\ IF e = Empty
           THEN UNCHANGED <<assembled, given>>
           ELSE /\ assembled' = [assembled EXCEPT ![r] = Assembled(@, e)]
                /\ given' = [given EXCEPT ![r] = Append(@, e)]
    /\ UNCHANGED <<phase, log, browser>>

(* The caller breaks out of its for await: return() ends both generators at  *)
(* the yield they stand at.                                                  *)
Break(r) ==
    /\ events[r] # <<>>
    /\ events[r][Len(events[r])] # Empty
    /\ At(r, "open", "abandoned")
    /\ UNCHANGED <<events, assembled, given, log, browser>>

(* The provider's stream ends.                                               *)
End(r) ==
    /\ At(r, "open", "recording")
    /\ UNCHANGED <<events, assembled, given, log, browser>>

(* record() and AuditLog.record(): redact, stamp, validate, await the sink.  *)
(* Without a log or a context it returns at once.                            *)
Logged(r) ==
    log' = IF r \in Audited
           THEN Append(log, [request |-> r, output |-> assembled[r]])
           ELSE log

(* complete() returns, stream() ends.                                        *)
Finish(r) ==
    /\ At(r, "recording", "done")
    /\ Logged(r)
    /\ given' = [given EXCEPT ![r] = IF r \in Streaming THEN @ ELSE assembled[r]]
    /\ UNCHANGED <<events, assembled, browser>>

(* The redactor or the sink throws, or the record has neither a prompt nor   *)
(* its hash: the call rejects after the inference has been paid for.         *)
RecordThrows(r) ==
    /\ r \in Audited
    /\ At(r, "recording", "failed")
    /\ UNCHANGED <<events, assembled, given, log, browser>>

Next ==
    \E r \in Requests :
        \/ Post(r) \/ Abort(r) \/ Respond(r)
        \/ ProviderCompletes(r) \/ ProviderThrows(r)
        \/ Open(r) \/ Event(r) \/ Break(r) \/ End(r)
        \/ Finish(r) \/ RecordThrows(r)

Spec == Init /\ [][Next]_vars

-------------------------------------------------------------------------------
Records(r) == {i \in DOMAIN log : log[i].request = r}

(* With a log, an inference whose caller saw it end has one record, with     *)
(* exactly the text the caller was given; one that failed, was broken off or *)
(* is not to be audited has none; and a browser is not handed an answer      *)
(* before its record is written (server.ts:80-84, "every completion writes   *)
(* one audit record on success; a failed inference is NOT recorded").        *)
AuditIsTrue ==
    \A r \in Requests :
        IF r \in Audited /\ phase[r] = "done"
        THEN \E i \in DOMAIN log :
                Records(r) = {i} /\ log[i].output = given[r] /\ given[r] = Text(events[r])
        ELSE Records(r) = {} /\ (r \in Audited => browser[r] # "resolved")
==============================================================================
