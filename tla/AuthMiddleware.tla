---------------------------- MODULE AuthMiddleware ---------------------------
(***************************************************************************)
(* The bearer-token middleware of packages/api (auth-middleware.ts) over a *)
(* token store, a refresh endpoint and a server that lets tokens expire.   *)
(* Several requests are under way at once and share the store.             *)
(*                                                                         *)
(* Tokens are numbered in the order in which they are minted; 0 is what    *)
(* the store holds at the beginning, an old token or none at all.          *)
(***************************************************************************)
EXTENDS Naturals

CONSTANTS
    Requests,   \* the requests
    Bodied      \* of them, those with a body, which fetch() consumes

VARIABLES
    progress,   \* how far each request has got
    carries,    \* the token each request was last sent with
    fresh,      \* the token its own refresh has returned
    stored,     \* the token in the store
    overlapped, \* history: has a refresh begun before another had ended?
    minted,     \* the newest token there is
    oldest      \* the oldest token the server still accepts

middleware == <<progress, carries, fresh, stored, overlapped>>
server == <<minted, oldest>>
apiVars == <<middleware, server>>

Refreshing == {"refreshing", "minted"}
Ended == {"ok", "unauthorized", "failed", "thrown"}

ApiTypeOK ==
    /\ progress \in [Requests -> {"new", "sent", "stored", "retried"} \cup Refreshing \cup Ended]
    /\ carries \in [Requests -> Nat] /\ fresh \in [Requests -> Nat]
    /\ overlapped \in BOOLEAN
    /\ stored \in Nat /\ minted \in Nat /\ oldest \in Nat

ApiInit ==
    /\ progress = [r \in Requests |-> "new"]
    /\ carries = [r \in Requests |-> 0] /\ fresh = [r \in Requests |-> 0]
    /\ stored = 0 /\ minted = 0 /\ overlapped = FALSE
    /\ oldest \in {0, 1}

------------------------------------------------------------------------------
(* A definition marked "mistake" is what the code could have said in place  *)
(* of the next; no action uses it.                                          *)

\* The token that setToken() is given ...
Persisted(r) == fresh[r]

\* ... and the one the request is sent again with.
Reread(r) == stored             \* mistake: read from the store once more
Applied(r) == fresh[r]

Enter(r, p) == progress' = [progress EXCEPT ![r] = p]

------------------------------------------------------------------------------
\* onRequest(): the token is whatever the store holds.
OnRequest(r) ==
    /\ progress[r] = "new"
    /\ Enter(r, "sent")
    /\ carries' = [carries EXCEPT ![r] = stored]
    /\ UNCHANGED <<fresh, stored, overlapped, server>>

\* The server looks at the token when the request arrives.
Accept(r) ==
    /\ progress[r] \in {"sent", "retried"} /\ carries[r] >= oldest
    /\ Enter(r, "ok")
    /\ UNCHANGED <<carries, fresh, stored, overlapped, server>>

\* onResponse() of a 401: refresh() is called.
OnUnauthorized(r) ==
    /\ progress[r] = "sent" /\ carries[r] < oldest
    /\ Enter(r, "refreshing")
    /\ overlapped' = (overlapped \/ \E q \in Requests : progress[q] \in Refreshing)
    /\ UNCHANGED <<carries, fresh, stored, server>>

\* The retry is a plain fetch(): its 401 is the caller's.
SecondUnauthorized(r) ==
    /\ progress[r] = "retried" /\ carries[r] < oldest
    /\ Enter(r, "unauthorized")
    /\ UNCHANGED <<carries, fresh, stored, overlapped, server>>

\* The refresh endpoint mints a token; the answer is on its way.
Mint(r) ==
    /\ progress[r] = "refreshing"
    /\ Enter(r, "minted")
    /\ minted' = minted + 1
    /\ fresh' = [fresh EXCEPT ![r] = minted + 1]
    /\ UNCHANGED <<carries, stored, overlapped, oldest>>

\* refresh() rejects, maybe after a token was minted, or the session cannot be
\* recovered: the store stays.
RefreshFails(r) ==
    /\ progress[r] \in {"refreshing", "minted"}
    /\ Enter(r, "failed")
    /\ UNCHANGED <<carries, fresh, stored, overlapped, server>>

\* onResponse() goes on after `await refresh()', and awaits setToken().
SetToken(r) ==
    /\ progress[r] = "minted"
    /\ Enter(r, "stored")
    /\ stored' = Persisted(r)
    /\ UNCHANGED <<carries, fresh, overlapped, server>>

\* applyToken() clones the request and fetch() sends the clone.
Retry(r) ==
    /\ progress[r] = "stored" /\ r \notin Bodied
    /\ Enter(r, "retried")
    /\ carries' = [carries EXCEPT ![r] = Applied(r)]
    /\ UNCHANGED <<fresh, stored, overlapped, server>>

\* clone() of a request whose body has been sent throws.
CloneThrows(r) ==
    /\ progress[r] = "stored" /\ r \in Bodied
    /\ Enter(r, "thrown")
    /\ UNCHANGED <<carries, fresh, stored, overlapped, server>>

\* Tokens expire, the oldest first.
Expire ==
    /\ oldest <= minted
    /\ oldest' \in (oldest + 1)..(minted + 1)
    /\ UNCHANGED <<middleware, minted>>

------------------------------------------------------------------------------
ApiNext ==
    \/ \E r \in Requests :
           \/ OnRequest(r) \/ Accept(r)
           \/ OnUnauthorized(r) \/ SecondUnauthorized(r)
           \/ Mint(r) \/ RefreshFails(r) \/ SetToken(r)
           \/ Retry(r) \/ CloneThrows(r)
    \/ Expire

ApiSpec == ApiInit /\ [][ApiNext]_apiVars

------------------------------------------------------------------------------
(* Properties.                                                             *)

(* A request is never sent again with a token that is not newer than the    *)
(* one it was refused with, whoever else writes to the store meanwhile.     *)
RetryIsFresher ==
    [][\A r \in Requests : progress[r] = "stored" /\ progress'[r] = "retried"
           => carries'[r] > carries[r]]_apiVars

(* One refresh is enough: no request ends unauthorized, whoever refreshes    *)
(* beside it, unless the server has dropped the token minted for it.        *)
OneRefreshIsEnough ==
    \A r \in Requests : progress[r] = "unauthorized" => fresh[r] < oldest

(* "Persist a freshly minted access token": the store is never left with a   *)
(* token older than one that was persisted in it, if refreshes do not        *)
(* overlap; two that do may end in the order opposite to that of the tokens. *)
StoreKeepsNewest ==
    ~overlapped => \A r \in Requests :
        progress[r] \notin Refreshing \cup {"failed"} => stored >= fresh[r]
==============================================================================
