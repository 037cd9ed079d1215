------------------------------ MODULE QueryCache -----------------------------
(* One cache entry of @sveltesentio/query: a Connect query that fetches it   *)
(* (connect-query.ts, with the retry policy of query-client.ts) and          *)
(* mutations that change it optimistically and roll back (useOptimistic) or  *)
(* only invalidate it (createSentioMutation), in mutation.ts.                *)
(*                                                                           *)
(* A value is the set of the mutations whose effect it shows; what the       *)
(* server holds is such a set too.  TanStack's own code, as far as it        *)
(* touches the entry (the fetch, cancel with revert, invalidate, which drops *)
(* the fetch under way only if there is data), is external and modelled from *)
(* how it is used.                                                           *)
EXTENDS Naturals, FiniteSets

CONSTANTS
    Mutations,      \* mutate() calls
    Plain,          \* those of createSentioMutation, with no optimistic value
    MaxRetries,     \* createQueryClient({ maxRetries })
    Absent          \* the entry has no data yet

VARIABLES
    reconciles,     \* invalidateOnSettled / a non-empty `invalidates`
    server,         \* what the server holds
    cache,          \* the entry's data, or Absent
    fetch,          \* the fetch under way, or Resting
    failing,        \* the last fetch gave up
    phase,          \* how far each mutation has got
    previous,       \* context.previous of each
    alone,          \* history: no other mutation and no new fetch since it was called
    outrun          \* history: the last invalidation found no data, and a fetch that
                    \* had its answer already

vars == <<reconciles, server, cache, fetch, failing, phase, previous, alone, outrun>>

Phases == {"idle", "cancelling", "sent", "applied", "refused", "rolled", "settled"}
Values == SUBSET Mutations
Resting == [on |-> FALSE, read |-> Absent, failures |-> 0]

(* The HTTP status of a Connect code, as ProblemError carries it.            *)
Status == [not_found |-> 404, canceled |-> 499, resource_exhausted |-> 429,
           unavailable |-> 503, unknown |-> 500]

(* isRetryableProblem of what connectErrorToProblem made of the code.        *)
Retryable(code) == Status[code] = 429 \/ Status[code] >= 500

Active(m) == phase[m] \notin {"idle", "settled"}

Init ==
    /\ reconciles \in BOOLEAN
    /\ server = {}
    /\ cache \in {Absent, {}}
    /\ fetch = Resting
    /\ failing = FALSE
    /\ phase = [m \in Mutations |-> "idle"]
    /\ previous = [m \in Mutations |-> Absent]
    /\ alone = [m \in Mutations |-> FALSE]
    /\ outrun = FALSE

(* A fetch begins with no failures; whoever mutates then is not alone.       *)
Begun == fetch' = [Resting EXCEPT !.on = TRUE] /\ outrun' = FALSE
NobodyAlone == alone' = [m \in Mutations |-> FALSE]

(* A component mounts or the window gets the focus: a fetch, unless one is   *)
(* under way (TanStack joins it).                                            *)
Refetch ==
    /\ ~fetch.on
    /\ Begun
    /\ NobodyAlone
    /\ UNCHANGED <<reconciles, server, cache, failing, phase, previous>>

(* The server answers call(client, { signal }): the value of that moment.    *)
Read ==
    /\ fetch.on
    /\ fetch.read = Absent
    /\ fetch' = [fetch EXCEPT !.read = server]
    /\ UNCHANGED <<reconciles, server, cache, failing, phase, previous, alone, outrun>>

(* The answer arrives and becomes the data.                                  *)
Fetched ==
    /\ fetch.on
    /\ fetch.read # Absent
    /\ cache' = fetch.read
    /\ fetch' = Resting
    /\ failing' = FALSE
    /\ UNCHANGED <<reconciles, server, phase, previous, alone, outrun>>

(* The call fails with a code: tried again, or given up and the data kept.   *)
FetchFails(code) ==
    /\ fetch.on
    /\ IF fetch.failures < MaxRetries /\ Retryable(code)
       THEN /\ fetch' = [Resting EXCEPT !.on = TRUE, !.failures = fetch.failures + 1]
            /\ failing' = failing
            /\ outrun' = FALSE
       ELSE /\ fetch' = Resting
            /\ failing' = TRUE
            /\ UNCHANGED outrun
    /\ UNCHANGED <<reconciles, server, cache, phase, previous, alone>>

(* What cancelQueries leaves of a fetch.                                     *)
Cancelled(f) == Resting

(* mutate(): onMutate cancels the entry's fetch and awaits that.             *)
Mutate(m) ==
    /\ phase[m] = "idle"
    /\ m \notin Plain
    /\ phase' = [phase EXCEPT ![m] = "cancelling"]
    /\ fetch' = Cancelled(fetch)
    /\ alone' = [n \in Mutations |-> n = m /\ \A o \in Mutations : ~Active(o)]
    /\ UNCHANGED <<reconciles, server, cache, failing, previous, outrun>>

(* After the await: the snapshot and the optimistic value.                   *)
Apply(m) ==
    /\ phase[m] = "cancelling"
    /\ phase' = [phase EXCEPT ![m] = "sent"]
    /\ previous' = [previous EXCEPT ![m] = cache]
    /\ cache' = (IF cache = Absent THEN {} ELSE cache) \cup {m}
    /\ UNCHANGED <<reconciles, server, fetch, failing, alone, outrun>>

(* mutate() of createSentioMutation calls mutationFn at once.                *)
MutatePlain(m) ==
    /\ phase[m] = "idle"
    /\ m \in Plain
    /\ phase' = [phase EXCEPT ![m] = "sent"]
    /\ NobodyAlone
    /\ UNCHANGED <<reconciles, server, cache, fetch, failing, previous, outrun>>

(* The server applies the mutation; it, or the answer, may be lost.          *)
ServerApplies(m) ==
    /\ phase[m] = "sent"
    /\ server' = server \cup {m}
    /\ \E p \in {"applied", "refused"} : phase' = [phase EXCEPT ![m] = p]
    /\ UNCHANGED <<reconciles, cache, fetch, failing, previous, alone, outrun>>

ServerRefuses(m) ==
    /\ phase[m] = "sent"
    /\ phase' = [phase EXCEPT ![m] = "refused"]
    /\ UNCHANGED <<reconciles, server, cache, fetch, failing, previous, alone, outrun>>

(* setQueryData(queryKey, undefined) changes nothing.                        *)
Restored(snapshot) == IF snapshot = Absent THEN cache ELSE snapshot

(* onError: the snapshot of this mutation, whatever came after it.           *)
RollBack(m) ==
    /\ phase[m] = "refused"
    /\ phase' = [phase EXCEPT ![m] = "rolled"]
    /\ cache' = IF m \in Plain THEN cache ELSE Restored(previous[m])
    /\ UNCHANGED <<reconciles, server, fetch, failing, previous, alone, outrun>>

(* invalidateQueries: the fetch under way is dropped and a new one begins,   *)
(* but while the entry has no data the one under way is joined.              *)
AnyFetch == fetch.on                        \* mistake: it is always joined
Joins == fetch.on /\ cache = Absent

Invalidate ==
    IF Joins
    THEN /\ outrun' = (outrun \/ (cache = Absent /\ fetch.read # Absent))
         /\ UNCHANGED fetch
    ELSE Begun

(* onSettled.                                                                *)
Settle(m) ==
    /\ phase[m] \in {"applied", "rolled"}
    /\ phase' = [phase EXCEPT ![m] = "settled"]
    /\ IF reconciles
       THEN Invalidate
       ELSE UNCHANGED <<fetch, outrun>>
    /\ UNCHANGED <<reconciles, server, cache, failing, previous, alone>>

Next ==
    \/ Refetch
    \/ Read
    \/ Fetched
    \/ \E code \in DOMAIN Status : FetchFails(code)
    \/ \E m \in Mutations :
        Mutate(m) \/ Apply(m) \/ MutatePlain(m) \/ ServerApplies(m)
        \/ ServerRefuses(m) \/ RollBack(m) \/ Settle(m)

Spec == Init /\ [][Next]_vars

-------------------------------------------------------------------------------
(* While a mutation is the only one and no fetch has begun since it was      *)
(* called, the entry shows the snapshot with its value, nothing that was     *)
(* requested before it replaces that, and when it fails the entry is what it *)
(* was (mutation.ts:70-77).  An entry that had no data keeps the value.      *)
AloneIsClean ==
    \A m \in Mutations : alone[m] =>
        /\ phase[m] \in {"sent", "applied", "refused"} =>
               cache = (IF previous[m] = Absent THEN {} ELSE previous[m]) \cup {m}
        /\ phase[m] = "rolled" /\ previous[m] # Absent => cache = previous[m]

(* Mutations may overlap in any order, roll back over one another's values   *)
(* and lose their answers; once all are settled and the refetch of the last  *)
(* has come back, the entry shows exactly what the server holds              *)
(* (mutation.ts:59-62, "Reconciles by invalidating the key once settled").   *)
(* A mutation that overlaps with nothing is right before that, too.  The     *)
(* exception is a mutation of createSentioMutation that settles before the   *)
(* entry has any data, while the answer of its first fetch is on the way.    *)
Reconciled ==
    /\ (reconciles /\ ~fetch.on /\ ~failing /\ ~outrun
            /\ (\A m \in Mutations : ~Active(m))
            /\ (\E m \in Mutations : phase[m] = "settled"))
       => cache = server
    /\ AloneIsClean
==============================================================================
