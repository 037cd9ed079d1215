-------------------------- MODULE Packages_proofs ---------------------------
(* Proofs about the modules that Packages puts side by side, of which        *)
(* MCPackages checks a small instance.                                       *)
EXTENDS Packages, Integers, FiniteSetTheorems, SequenceTheorems, WellFoundedInduction, TLAPS

------------------------------------------------------------------------------
(* ProviderAuth.                                                             *)
USE DEF Assigned, Replaced, Apply, ConnectionClose, Dial

(* What the token adds to the subprotocols.                                  *)
LEMMA Entry ==
    ASSUME session \in MaybeToken
    PROVE  /\ TokenEntry \subseteq Tokens
           /\ session # None /\ usesProtocol =>
                  TokenEntry # {} /\ TokenEntry \cap Tokens = {session}
<1>1. CASE usesProtocol
  BY <1>1, TokenAssumption DEF MaybeToken, TokenEntry
<1>2. CASE ~usesProtocol
  BY <1>2 DEF TokenEntry
<1> QED
  BY <1>1, <1>2

LEMMA ProviderInitTypeOK == Init => TypeOK
<1> SUFFICES ASSUME Init PROVE TypeOK
  OBVIOUS
<1>1. {Callers} \cup TokenEntry \in Protocols /\ {} \in Protocols
  BY Entry DEF Init, Protocols
<1> QED
  BY <1>1 DEF Init, TypeOK, MaybeToken

LEMMA ProviderNextTypeOK == TypeOK /\ [Next]_vars => TypeOK'
<1> SUFFICES ASSUME TypeOK, [Next]_vars PROVE TypeOK'
  OBVIOUS
<1>0. TokenEntry \in Protocols /\ {Callers} \cup TokenEntry \in Protocols
  BY Entry DEF TypeOK, Protocols
<1> USE <1>0 DEF TypeOK, MaybeToken
<1>1. CASE ConnectProvider
  <2>1. /\ session' = session /\ usesProtocol' = usesProtocol /\ stale' = stale
        /\ phase' \in {"up", "idle"} /\ bound' = TRUE
        /\ params' \in MaybeToken /\ protocols' \in Protocols
    BY <1>1 DEF ConnectProvider
  <2>2. CASE dialed' = dialed
    BY <2>1, <2>2
  <2>3. CASE dialed' = [session |-> session, stale |-> FALSE, params |-> session,
                        protocols |-> {Callers} \cup TokenEntry]
    <3>1. dialed' \in [session : MaybeToken, stale : BOOLEAN,
                       params : MaybeToken, protocols : Protocols]
      BY <2>3
    <3> QED
      BY <2>1, <3>1
  <2> QED
    BY <1>1, <2>2, <2>3 DEF ConnectProvider
<1>2. CASE Pause \/ Drop
  BY <1>2 DEF Pause, Drop
<1>3. CASE Connect \/ Redial
  BY <1>3 DEF Connect, Redial
<1>4. CASE Disconnect \/ Rotate
  BY <1>4 DEF Disconnect, Rotate
<1>5. CASE UNCHANGED vars
  BY <1>5 DEF vars
<1> QED
  BY <1>1, <1>2, <1>3, <1>4, <1>5 DEF Next

(* Every variable of the provider keeps its type.                            *)
THEOREM ProviderTypeCorrect == Spec => []TypeOK
  BY ProviderInitTypeOK, ProviderNextTypeOK, PTL DEF Spec

------------------------------------------------------------------------------
(* While nothing is connected, what the next dial will carry is what the     *)
(* resolver returns, for it was resolved when the last connection closed,    *)
(* unless it is stale.  A provider that can still dial has its listener.     *)
ReadyToDial ==
    /\ phase \in {"idle", "backoff"} /\ ~stale /\ session # None => params = session
    /\ phase \in {"idle", "backoff"} /\ ~stale /\ session # None /\ usesProtocol
           => protocols \cap Tokens = {session}

TokenInv ==
    /\ TypeOK
    /\ phase \in {"idle", "up", "backoff"} => bound
    /\ ReadyToDial
    /\ DialsWithCurrentToken

(* Every dial carries the resolver's token, unless it has changed since the  *)
(* connection before it closed.                                              *)
THEOREM DialsWithCurrentTokenCorrect == Spec => []DialsWithCurrentToken
<1>1. Init => TokenInv
  <2> SUFFICES ASSUME Init PROVE TokenInv
    OBVIOUS
  <2>1. session # None /\ usesProtocol => ({Callers} \cup TokenEntry) \cap Tokens = {session}
    BY Entry, TokenAssumption DEF Init
  <2> QED
    BY <2>1, ProviderInitTypeOK DEF Init, TokenInv, ReadyToDial, DialsWithCurrentToken
<1>2. TokenInv /\ [Next]_vars => TokenInv'
  <2> SUFFICES ASSUME TokenInv, [Next]_vars PROVE TokenInv'
    OBVIOUS
  <2>0. TypeOK /\ TypeOK'
    BY ProviderNextTypeOK DEF TokenInv
  <2>00. /\ session # None /\ usesProtocol =>
                TokenEntry # {} /\ TokenEntry \cap Tokens = {session}
         /\ session # None /\ usesProtocol =>
                ({Callers} \cup TokenEntry) \cap Tokens = {session}
    BY <2>0, Entry, TokenAssumption DEF TypeOK
  <2> USE <2>0, <2>00 DEF TokenInv, ReadyToDial, DialsWithCurrentToken
  <2>1. CASE ConnectProvider
    BY <2>1 DEF ConnectProvider
  <2>2. CASE Pause \/ Drop
    BY <2>2 DEF Pause, Drop
  <2>3. CASE Connect \/ Redial
    BY <2>3 DEF Connect, Redial
  <2>4. CASE Disconnect
    BY <2>4 DEF Disconnect
  <2>6. CASE Rotate
    <3>1. ReadyToDial'
      <4>1. CASE phase \in {"idle", "backoff"}
        <5>1. stale' = TRUE
          BY <2>6, <4>1 DEF Rotate
        <5> QED
          BY <5>1
      <4>2. CASE phase \notin {"idle", "backoff"}
        BY <2>6, <4>2 DEF Rotate
      <4> QED
        BY <4>1, <4>2
    <3> QED
      BY <2>6, <3>1 DEF Rotate
  <2>5. CASE UNCHANGED vars
    BY <2>5 DEF vars
  <2> QED
    BY <2>1, <2>2, <2>3, <2>4, <2>5, <2>6 DEF Next
<1>3. TokenInv => DialsWithCurrentToken
  BY DEF TokenInv
<1> QED
  BY <1>1, <1>2, <1>3, PTL DEF Spec

HIDE DEF Assigned, Replaced, Apply, ConnectionClose, Dial

------------------------------------------------------------------------------
(* AuthMiddleware.                                                           *)
USE DEF Enter, Applied, Persisted, Refreshing, Ended

LEMMA ApiInitTypeOK == ApiInit => ApiTypeOK
<1> SUFFICES ASSUME ApiInit PROVE ApiTypeOK
  OBVIOUS
<1>1. overlapped = FALSE /\ stored = 0 /\ minted = 0 /\ oldest \in {0, 1}
      /\ progress = [r \in Requests |-> "new"]
      /\ carries = [r \in Requests |-> 0] /\ fresh = [r \in Requests |-> 0]
  BY DEF ApiInit
<1>2. progress \in [Requests -> {"new", "sent", "stored", "retried"} \cup Refreshing \cup Ended]
  BY <1>1
<1>3. carries \in [Requests -> Nat] /\ fresh \in [Requests -> Nat]
  BY <1>1
<1>4. overlapped \in BOOLEAN
  BY <1>1, Zenon
<1> QED
  BY <1>1, <1>2, <1>3, <1>4 DEF ApiTypeOK

LEMMA ApiNextTypeOK == ApiTypeOK /\ [ApiNext]_apiVars => ApiTypeOK'
<1> SUFFICES ASSUME ApiTypeOK, [ApiNext]_apiVars PROVE ApiTypeOK'
  OBVIOUS
<1> USE DEF ApiTypeOK
<1>1. ASSUME NEW r \in Requests, OnRequest(r) \/ Accept(r) \/ SecondUnauthorized(r)
      PROVE  ApiTypeOK'
  BY <1>1 DEF OnRequest, Accept, SecondUnauthorized, server
<1>2. ASSUME NEW r \in Requests, OnUnauthorized(r) PROVE ApiTypeOK'
  <2>1. overlapped' \in BOOLEAN
    BY <1>2, Zenon DEF OnUnauthorized
  <2> QED
    BY <1>2, <2>1 DEF OnUnauthorized, server
<1>3. ASSUME NEW r \in Requests, Mint(r) \/ RefreshFails(r) \/ SetToken(r)
      PROVE  ApiTypeOK'
  BY <1>3 DEF Mint, RefreshFails, SetToken, server
<1>4. ASSUME NEW r \in Requests, Retry(r) \/ CloneThrows(r) PROVE ApiTypeOK'
  BY <1>4 DEF Retry, CloneThrows, server
<1>5. CASE Expire
  BY <1>5 DEF Expire, middleware
<1>6. CASE UNCHANGED apiVars
  BY <1>6 DEF apiVars, middleware, server
<1> QED
  BY <1>1, <1>2, <1>3, <1>4, <1>5, <1>6 DEF ApiNext

(* Every variable keeps its type.                                            *)
THEOREM ApiTypeCorrect == ApiSpec => []ApiTypeOK
  BY ApiInitTypeOK, ApiNextTypeOK, PTL DEF ApiSpec

------------------------------------------------------------------------------
(* Tokens only come from the refresh endpoint, so none is newer than the     *)
(* newest minted; the one minted for a request is newer than the one it was  *)
(* refused with, and the one it is sent again with.                          *)
FreshInv ==
    /\ ApiTypeOK
    /\ stored <= minted
    /\ \A r \in Requests : carries[r] <= minted /\ fresh[r] <= minted
    /\ \A r \in Requests : progress[r] \in {"minted", "stored"} => carries[r] < fresh[r]
    /\ \A r \in Requests : progress[r] \in {"retried", "unauthorized"} => carries[r] = fresh[r]
    /\ OneRefreshIsEnough

LEMMA NextFreshInv == FreshInv /\ [ApiNext]_apiVars => FreshInv'
<1> SUFFICES ASSUME FreshInv, [ApiNext]_apiVars PROVE FreshInv'
  OBVIOUS
<1>0. ApiTypeOK'
  BY ApiNextTypeOK DEF FreshInv
<1> USE <1>0 DEF FreshInv, ApiTypeOK, OneRefreshIsEnough
<1>1. ASSUME NEW r \in Requests, OnRequest(r) \/ Accept(r) \/ SecondUnauthorized(r)
      PROVE  FreshInv'
  BY <1>1 DEF OnRequest, Accept, SecondUnauthorized, server
<1>2. ASSUME NEW r \in Requests, OnUnauthorized(r) PROVE FreshInv'
  BY <1>2 DEF OnUnauthorized, server
<1>3. ASSUME NEW r \in Requests, Mint(r) PROVE FreshInv'
  BY <1>3 DEF Mint
<1>4. ASSUME NEW r \in Requests, RefreshFails(r) \/ SetToken(r) PROVE FreshInv'
  BY <1>4 DEF RefreshFails, SetToken, server
<1>5. ASSUME NEW r \in Requests, Retry(r) \/ CloneThrows(r) PROVE FreshInv'
  BY <1>5 DEF Retry, CloneThrows, server
<1>6. CASE Expire
  BY <1>6 DEF Expire, middleware
<1>7. CASE UNCHANGED apiVars
  BY <1>7 DEF apiVars, middleware, server
<1> QED
  BY <1>1, <1>2, <1>3, <1>4, <1>5, <1>6, <1>7 DEF ApiNext

LEMMA InitFreshInv == ApiInit => FreshInv
  BY ApiInitTypeOK DEF ApiInit, FreshInv, OneRefreshIsEnough

LEMMA AlwaysFreshInv == ApiSpec => []FreshInv
  BY InitFreshInv, NextFreshInv, PTL DEF ApiSpec

(* A request is sent again only with a newer token than the one refused.     *)
THEOREM RetryIsFresherCorrect == ApiSpec => RetryIsFresher
<1>1. FreshInv /\ [ApiNext]_apiVars =>
          [\A r \in Requests : progress[r] = "stored" /\ progress'[r] = "retried"
               => carries'[r] > carries[r]]_apiVars
  <2> SUFFICES ASSUME FreshInv, ApiNext, NEW r \in Requests,
                      progress[r] = "stored", progress'[r] = "retried"
               PROVE  carries'[r] > carries[r]
    OBVIOUS
  <2>1. Retry(r)
    BY DEF FreshInv, ApiTypeOK, ApiNext, OnRequest, Accept, OnUnauthorized, SecondUnauthorized,
           Mint, RefreshFails, SetToken, Retry, CloneThrows, Expire, middleware
  <2> QED
    BY <2>1 DEF FreshInv, ApiTypeOK, Retry
<1> QED
  BY <1>1, AlwaysFreshInv, PTL DEF ApiSpec, RetryIsFresher

(* A request ends unauthorized only if the token minted for it is dropped.   *)
THEOREM OneRefreshIsEnoughCorrect == ApiSpec => []OneRefreshIsEnough
<1>1. FreshInv => OneRefreshIsEnough
  BY DEF FreshInv
<1> QED
  BY <1>1, AlwaysFreshInv, PTL

------------------------------------------------------------------------------
(* If no refresh begins while another is under way there is at most one, and *)
(* the token it has minted is the newest there is.                           *)
SerialInv ==
    /\ FreshInv
    /\ StoreKeepsNewest
    /\ ~overlapped =>
           /\ \A q, r \in Requests :
                  progress[q] \in Refreshing /\ progress[r] \in Refreshing => q = r
           /\ \A r \in Requests : progress[r] = "minted" => fresh[r] = minted
           /\ \A r \in Requests : progress[r] \in {"new", "sent", "refreshing"} => fresh[r] = 0

LEMMA NextSerialInv == SerialInv /\ [ApiNext]_apiVars => SerialInv'
<1> SUFFICES ASSUME SerialInv, [ApiNext]_apiVars PROVE SerialInv'
  OBVIOUS
<1>0. FreshInv'
  BY NextFreshInv DEF SerialInv
<1> USE <1>0 DEF SerialInv, FreshInv, ApiTypeOK, StoreKeepsNewest
<1>1. ASSUME NEW r \in Requests, OnRequest(r) \/ Accept(r) \/ SecondUnauthorized(r)
      PROVE  SerialInv'
  BY <1>1 DEF OnRequest, Accept, SecondUnauthorized, server
<1>2. ASSUME NEW r \in Requests, OnUnauthorized(r) PROVE SerialInv'
  <2>1. CASE overlapped'
    BY <1>2, <2>1
  <2>2. CASE ~overlapped'
    <3>1. ~overlapped /\ \A q \in Requests : progress[q] \notin Refreshing
      BY <1>2, <2>2, Zenon DEF OnUnauthorized
    <3> QED
      BY <1>2, <3>1 DEF OnUnauthorized, server
  <2> QED
    BY <2>1, <2>2
<1>3. ASSUME NEW r \in Requests, Mint(r) PROVE SerialInv'
  BY <1>3 DEF Mint
<1>4. ASSUME NEW r \in Requests, RefreshFails(r) PROVE SerialInv'
  BY <1>4 DEF RefreshFails, server
<1>5. ASSUME NEW r \in Requests, SetToken(r) PROVE SerialInv'
  BY <1>5 DEF SetToken, server
<1>6. ASSUME NEW r \in Requests, Retry(r) \/ CloneThrows(r) PROVE SerialInv'
  BY <1>6 DEF Retry, CloneThrows, server
<1>7. CASE Expire
  BY <1>7 DEF Expire, middleware
<1>8. CASE UNCHANGED apiVars
  BY <1>8 DEF apiVars, middleware, server
<1> QED
  BY <1>1, <1>2, <1>3, <1>4, <1>5, <1>6, <1>7, <1>8 DEF ApiNext

(* As long as refreshes do not overlap the store never goes back.            *)
THEOREM StoreKeepsNewestCorrect == ApiSpec => []StoreKeepsNewest
<1>1. ApiInit => SerialInv
  BY InitFreshInv DEF ApiInit, SerialInv, StoreKeepsNewest
<1>2. SerialInv => StoreKeepsNewest
  BY DEF SerialInv
<1> QED
  BY <1>1, <1>2, NextSerialInv, PTL DEF ApiSpec

HIDE DEF Enter, Applied, Persisted, Refreshing, Ended

------------------------------------------------------------------------------

(* A set of numbers has a least one: what a proof by induction comes down to *)
(* that takes the least number its formula is false of.                      *)
LEMMA LeastNumber ==
    ASSUME NEW T, T \subseteq Nat, T # {}
    PROVE  \E x \in T : \A y \in T : x <= y
<1> DEFINE R == {ss \in Nat \X Nat : ss[1] < ss[2]}
<1>1. IsWellFoundedOn(R, Nat)
  BY NatLessThanWellFounded DEF OpToRel
<1>2. ASSUME NEW a \in Nat, NEW b \in Nat, a < b PROVE <<a, b>> \in R
  BY <1>2
<1> HIDE DEF R
<1>3. PICK x \in T : \A y \in T : <<y, x>> \notin R
  BY <1>1, WFMin
<1>4. ASSUME NEW y \in T PROVE x <= y
  <2>1. x \in Nat /\ y \in Nat /\ ~(y < x)
    BY <1>2, <1>3
  <2> QED
    BY <2>1
<1> QED
  BY <1>4

------------------------------------------------------------------------------
(* QueryCache: any mutations, those of createSentioMutation among them, and  *)
(* any number of retries.                                                    *)

MaybeValue == Query!Values \cup {Absent}
Fetch == [on : BOOLEAN, read : MaybeValue, failures : Nat]

QueryTypeOK ==
    /\ reconciles \in BOOLEAN
    /\ failing \in BOOLEAN
    /\ remote \in Query!Values
    /\ cache \in MaybeValue
    /\ fetch \in Fetch
    /\ mutations \in [Mutations -> Query!Phases]
    /\ previous \in [Mutations -> MaybeValue]
    /\ alone \in [Mutations -> BOOLEAN]
    /\ outrun \in BOOLEAN

(* What becomes of the fetch.                                                *)
Asking(n) == [Query!Resting EXCEPT !.on = TRUE, !.failures = n]
Answered(f) == [f EXCEPT !.read = remote]

LEMMA Fetches ==
    /\ Query!Resting \in Fetch /\ ~Query!Resting.on /\ Query!Resting.read = Absent
    /\ \A n \in Nat : Asking(n) \in Fetch /\ Asking(n).on /\ Asking(n).read = Absent
    /\ Query!Begun => fetch' \in Fetch /\ fetch'.on /\ fetch'.read = Absent /\ outrun' = FALSE
<1>1. Query!Resting \in Fetch /\ ~Query!Resting.on /\ Query!Resting.read = Absent
  BY DEF Query!Resting, Fetch, MaybeValue
<1>2. ASSUME NEW n \in Nat PROVE Asking(n) \in Fetch /\ Asking(n).on /\ Asking(n).read = Absent
  BY DEF Asking, Query!Resting, Fetch, MaybeValue
<1>3. ASSUME Query!Begun
      PROVE  fetch' \in Fetch /\ fetch'.on /\ fetch'.read = Absent /\ outrun' = FALSE
  BY <1>3 DEF Query!Begun, Query!Resting, Fetch, MaybeValue
<1> QED
  BY <1>1, <1>2, <1>3

LEMMA Answering ==
    ASSUME NEW f \in Fetch, remote \in Query!Values
    PROVE  Answered(f) \in Fetch /\ Answered(f).on = f.on /\ Answered(f).read = remote
  BY DEF Answered, Fetch, MaybeValue

LEMMA QueryInitTypeOK == Query!Init => QueryTypeOK
<1> SUFFICES ASSUME Query!Init PROVE QueryTypeOK
  OBVIOUS
<1>1. {} \in Query!Values
  BY DEF Query!Values
<1> QED
  BY <1>1, Fetches DEF Query!Init, QueryTypeOK, MaybeValue, Query!Phases

LEMMA QueryNextTypeOK == QueryTypeOK /\ [Query!Next]_(Query!vars) => QueryTypeOK'
<1> SUFFICES ASSUME QueryTypeOK, [Query!Next]_(Query!vars) PROVE QueryTypeOK'
  OBVIOUS
<1> USE DEF QueryTypeOK
<1>1. CASE Query!Refetch
  BY <1>1, Fetches DEF Query!Refetch, Query!NobodyAlone
<1>2. CASE Query!Read
  BY <1>2, Answering DEF Query!Read, Answered
<1>3. CASE Query!Fetched
  BY <1>3, Fetches DEF Query!Fetched, Fetch
<1>4. ASSUME NEW code \in DOMAIN Query!Status, Query!FetchFails(code) PROVE QueryTypeOK'
  <2>1. fetch.failures + 1 \in Nat
    BY DEF Fetch
  <2>2. /\ fetch' \in {Query!Resting, Asking(fetch.failures + 1)}
        /\ failing' \in BOOLEAN /\ outrun' \in BOOLEAN
    BY <1>4 DEF Query!FetchFails, Asking
  <2>3. fetch' \in Fetch
    BY <2>1, <2>2, Fetches
  <2> QED
    BY <1>4, <2>2, <2>3 DEF Query!FetchFails
<1>5. ASSUME NEW m \in Mutations, Query!Mutate(m) \/ Query!MutatePlain(m) PROVE QueryTypeOK'
  BY ZenonT(50), <1>5, Fetches DEF Query!Mutate, Query!MutatePlain, Query!NobodyAlone, Query!Cancelled, Query!Phases
<1>6. ASSUME NEW m \in Mutations, Query!Apply(m) PROVE QueryTypeOK'
  <2>1. (IF cache = Absent THEN {} ELSE cache) \cup {m} \in MaybeValue
    BY DEF MaybeValue, Query!Values
  <2> QED
    BY <1>6, <2>1 DEF Query!Apply, Query!Phases
<1>7. ASSUME NEW m \in Mutations, Query!ServerApplies(m) \/ Query!ServerRefuses(m) PROVE QueryTypeOK'
  <2>1. remote \cup {m} \in Query!Values
    BY DEF Query!Values
  <2> QED
    BY <1>7, <2>1 DEF Query!ServerApplies, Query!ServerRefuses, Query!Phases
<1>8. ASSUME NEW m \in Mutations, Query!RollBack(m) PROVE QueryTypeOK'
  BY <1>8 DEF Query!RollBack, Query!Restored, Query!Phases
<1>9. ASSUME NEW m \in Mutations, Query!Settle(m) PROVE QueryTypeOK'
  BY <1>9, Fetches DEF Query!Settle, Query!Invalidate, Query!Joins, Query!Phases
<1>10. CASE UNCHANGED Query!vars
  BY <1>10 DEF Query!vars
<1> QED
  BY <1>1, <1>2, <1>3, <1>4, <1>5, <1>6, <1>7, <1>8, <1>9, <1>10 DEF Query!Next

(* Once everything has settled the fetch, if it has its answer, has what the *)
(* server still holds, for the last Settle() began or joined it; whatever a mutation   *)
(* that is alone could meet is inactive, and no fetch is under way until it  *)
(* has settled.                                                              *)
Quiet == (\A m \in Mutations : ~Query!Active(m)) /\ (\E m \in Mutations : mutations[m] = "settled")

SettledInv ==
    /\ QueryTypeOK
    /\ reconciles /\ Quiet /\ ~outrun =>
           /\ fetch.read \in {Absent, remote}
           /\ fetch.on \/ failing \/ cache = remote
    /\ \A m \in Mutations : alone[m] =>
           /\ m \notin Plain /\ mutations[m] # "idle"
           /\ \A o \in Mutations \ {m} : ~Query!Active(o)
           /\ fetch.on => mutations[m] = "settled"
    /\ Query!AloneIsClean

LEMMA NextSettledInv ==
    Absent \notin Query!Values /\ SettledInv /\ [Query!Next]_(Query!vars) => SettledInv'
<1> SUFFICES ASSUME Absent \notin Query!Values, SettledInv, [Query!Next]_(Query!vars)
             PROVE  SettledInv'
  OBVIOUS
<1>0. QueryTypeOK /\ QueryTypeOK'
  BY QueryNextTypeOK DEF SettledInv
<1> USE <1>0 DEF SettledInv, QueryTypeOK, Quiet, Query!Active, Query!AloneIsClean
<1>1. CASE Query!Refetch
  BY <1>1, Fetches DEF Query!Refetch, Query!NobodyAlone
<1>2. CASE Query!Read
  <2>1. fetch'.read = remote /\ fetch'.on
    BY <1>2, Answering DEF Query!Read, Answered
  <2> QED
    BY <1>2, <2>1 DEF Query!Read
<1>3. CASE Query!Fetched
  <2>1. ~fetch'.on /\ fetch'.read = Absent
    BY <1>3, Fetches DEF Query!Fetched
  <2> QED
    BY <1>3, <2>1 DEF Query!Fetched, Query!Phases
<1>4. ASSUME NEW code \in DOMAIN Query!Status, Query!FetchFails(code) PROVE SettledInv'
  <2>1. fetch.failures + 1 \in Nat
    BY DEF Fetch
  <2>2. fetch.on
    BY <1>4 DEF Query!FetchFails
  <2>3. \/ fetch' = Query!Resting /\ failing' /\ outrun' = outrun
        \/ fetch' = Asking(fetch.failures + 1)
    BY <1>4 DEF Query!FetchFails, Asking
  <2>4. fetch'.read = Absent /\ (fetch'.on \/ failing')
    BY <2>1, <2>3, Fetches
  <2> QED
    BY <1>4, <2>2, <2>4 DEF Query!FetchFails
<1>5. ASSUME NEW m \in Mutations, Query!Mutate(m) \/ Query!MutatePlain(m) PROVE SettledInv'
  BY <1>5, Fetches DEF Query!Mutate, Query!MutatePlain, Query!NobodyAlone, Query!Cancelled, Query!Phases
<1>6. ASSUME NEW m \in Mutations, Query!Apply(m) PROVE SettledInv'
  BY <1>6 DEF Query!Apply, Query!Phases
<1>7. ASSUME NEW m \in Mutations, Query!ServerApplies(m) \/ Query!ServerRefuses(m) PROVE SettledInv'
  BY <1>7 DEF Query!ServerApplies, Query!ServerRefuses, Query!Phases
<1>8. ASSUME NEW m \in Mutations, Query!RollBack(m) PROVE SettledInv'
  BY <1>8 DEF Query!RollBack, Query!Restored, Query!Phases
<1>9. ASSUME NEW m \in Mutations, Query!Settle(m) PROVE SettledInv'
  BY <1>9, Fetches DEF Query!Settle, Query!Invalidate, Query!Joins, Query!Phases
<1>10. CASE UNCHANGED Query!vars
  BY <1>10 DEF Query!vars
<1> QED
  BY <1>1, <1>2, <1>3, <1>4, <1>5, <1>6, <1>7, <1>8, <1>9, <1>10 DEF Query!Next

(* Once all mutations have settled and the last refetch has come back the    *)
(* entry shows what the server holds; one that overlaps with nothing is      *)
(* right before that.  A value is not mistaken for the absence of one.       *)
THEOREM ReconciledCorrect ==
    ASSUME Absent \notin Query!Values
    PROVE  Query!Spec => []Reconciled
<1>1. Query!Init => SettledInv
  BY QueryInitTypeOK, Fetches DEF Query!Init, SettledInv, Quiet, Query!AloneIsClean
<1>2. SettledInv /\ [Query!Next]_(Query!vars) => SettledInv'
  BY NextSettledInv
<1>3. SettledInv => Reconciled
  BY DEF SettledInv, Quiet, Reconciled, Query!Reconciled
<1> QED
  BY <1>1, <1>2, <1>3, PTL DEF Query!Spec

------------------------------------------------------------------------------
(* EmulatorLoader: any mounts, whose options add any globals.                *)

LoaderTypeOK ==
    /\ overlaps \in BOOLEAN
    /\ hasMount \in BOOLEAN
    /\ mounts \in [Mounts -> Loader!Phases]
    /\ globals \in [Keys -> Mounts \cup {Nobody}]
    /\ attached \in SUBSET Mounts
    /\ loading \in SUBSET Mounts
    /\ booted \in [Mounts -> [Keys -> Mounts \cup {Nobody}]]

LEMMA LoaderInitTypeOK == Loader!Init => LoaderTypeOK
  BY DEF Loader!Init, LoaderTypeOK, Loader!Phases, Loader!Own

LEMMA LoaderNextTypeOK == LoaderTypeOK /\ [Loader!Next]_(Loader!vars) => LoaderTypeOK'
<1> SUFFICES ASSUME LoaderTypeOK, [Loader!Next]_(Loader!vars) PROVE LoaderTypeOK'
  OBVIOUS
<1> USE DEF LoaderTypeOK, Loader!Phases
<1>1. ASSUME NEW m \in Mounts, Loader!InjectUnknown(m) PROVE LoaderTypeOK'
  BY <1>1 DEF Loader!InjectUnknown
<1>2. ASSUME NEW m \in Mounts, Loader!Inject(m) PROVE LoaderTypeOK'
  BY <1>2 DEF Loader!Inject, Loader!PriorRemoved
<1>3. ASSUME NEW m \in Mounts, Loader!Cleanup(m) PROVE LoaderTypeOK'
  BY <1>3 DEF Loader!Cleanup
<1>4. ASSUME NEW m \in Mounts, Loader!RunScript(m) PROVE LoaderTypeOK'
  BY <1>4 DEF Loader!RunScript
<1>5. CASE UNCHANGED Loader!vars
  BY <1>5 DEF Loader!vars
<1> QED
  BY <1>1, <1>2, <1>3, <1>4, <1>5 DEF Loader!Next

(* The globals are nobody's as long as nothing is on the page, unless the    *)
(* document has no place for a script and the injection threw halfway; what  *)
(* is on the page alone has them all, and so has its script when it runs.    *)
OnePage ==
    /\ LoaderTypeOK
    /\ attached = {} \/ \E m \in Mounts : attached = {m}
    /\ \A m \in Mounts : mounts[m] = "new" => booted[m] = Loader!Own(m)
    /\ \A m \in Mounts : mounts[m] = "mounted" => hasMount
    /\ ~overlaps =>
        /\ \A m, n \in Mounts : mounts[m] = "mounted" /\ mounts[n] = "mounted" => m = n
        /\ hasMount /\ Loader!Free => globals = [k \in Keys |-> Nobody]
        /\ \A m \in Mounts : mounts[m] = "mounted" =>
               globals = Loader!Own(m) /\ booted[m] = Loader!Own(m)
    /\ \A m \in loading : mounts[m] # "new"

LEMMA NextOnePage == OnePage /\ [Loader!Next]_(Loader!vars) => OnePage'
<1> SUFFICES ASSUME OnePage, [Loader!Next]_(Loader!vars) PROVE OnePage'
  OBVIOUS
<1>0. LoaderTypeOK /\ LoaderTypeOK'
  BY LoaderNextTypeOK DEF OnePage
<1> USE <1>0 DEF OnePage, LoaderTypeOK, Loader!Phases, Loader!Own, Loader!Free
<1>1. ASSUME NEW m \in Mounts, Loader!InjectUnknown(m) PROVE OnePage'
  BY <1>1 DEF Loader!InjectUnknown
<1>2. ASSUME NEW m \in Mounts, Loader!Inject(m) PROVE OnePage'
  BY <1>2 DEF Loader!Inject, Loader!PriorRemoved
<1>3. ASSUME NEW m \in Mounts, Loader!Cleanup(m) PROVE OnePage'
  <2>1. mounts' = [mounts EXCEPT ![m] = "gone"] /\ mounts[m] = "mounted"
    BY <1>3 DEF Loader!Cleanup
  <2>2. attached' = {} \/ \E n \in Mounts : attached' = {n}
    BY <1>3 DEF Loader!Cleanup
  <2>3. /\ \A n \in Mounts : mounts'[n] = "new" => booted'[n] = Loader!Own(n)
        /\ \A n \in Mounts : mounts'[n] = "mounted" => hasMount'
        /\ \A n \in loading' : mounts'[n] # "new"
    BY <1>3, <2>1 DEF Loader!Cleanup
  <2>4. ASSUME ~overlaps'
        PROVE  /\ \A n \in Mounts : mounts'[n] # "mounted"
               /\ globals' = [k \in Keys |-> Nobody]
    BY <1>3, <2>1, <2>4 DEF Loader!Cleanup, Loader!SetKeys
  <2> QED
    BY <2>2, <2>3, <2>4
<1>4. ASSUME NEW m \in Mounts, Loader!RunScript(m) PROVE OnePage'
  BY <1>4 DEF Loader!RunScript
<1>5. CASE UNCHANGED Loader!vars
  BY <1>5 DEF Loader!vars
<1> QED
  BY <1>1, <1>2, <1>3, <1>4, <1>5 DEF Loader!Next

(* Whatever is mounted, re-run and dropped, the page has one loader script   *)
(* at most, and a script whose emulator has the page to itself finds its own *)
(* globals.                                                                  *)
THEOREM FindsItsOwnCorrect == Loader!Spec => []FindsItsOwn
<1>1. Loader!Init => OnePage
  BY LoaderInitTypeOK DEF Loader!Init, OnePage, Loader!Free
<1>2. OnePage => FindsItsOwn
  <2>1. \A S : Loader!Cardinality(S) = Cardinality(S)
    BY DEF Loader!Cardinality, Cardinality
  <2> SUFFICES ASSUME OnePage PROVE FindsItsOwn
    OBVIOUS
  <2>2. Cardinality(attached) <= 1
    <3>1. CASE attached = {}
      BY <3>1, FS_EmptySet
    <3>2. ASSUME NEW m \in Mounts, attached = {m} PROVE Cardinality(attached) <= 1
      <4>1. IsFiniteSet({m}) /\ Cardinality({m}) = 1
        BY FS_Singleton
      <4> QED
        BY <3>2, <4>1
    <3> QED
      BY <3>1, <3>2 DEF OnePage
  <2> QED
    BY <2>1, <2>2 DEF OnePage, FindsItsOwn, Loader!FindsItsOwn
<1> QED
  BY <1>1, <1>2, NextOnePage, PTL DEF Loader!Spec

------------------------------------------------------------------------------
(* SignIn: any tabs, sign-ins and tokens.                                    *)

Views == {"nothing", "provider", "exchange", "error", "page"}
Steps == {"none", "session", "csrf", "accepted", "failed"} \cup Auth!Reasons
Cookies == [session : Nat, csrf : Nat, login : Nat]
Shown == [shows : Views, login : Nat, session : Nat, header : Nat]
Sent == [step : Steps, session : Nat, cookie : Nat, header : Nat, locals : Nat]

AuthTypeOK ==
    /\ rethrows \in BOOLEAN
    /\ signIns \in Nat
    /\ tokens \in Seq(Nat)
    /\ jar \in Cookies
    /\ tab \in [Tabs -> Shown]
    /\ request \in [Tabs -> Sent]

(* What the handlers make of a tab, the cookies and a request.               *)
Turn(p, v) == [p EXCEPT !.shows = v]
Leave(p, n) == [p EXCEPT !.shows = "provider", !.login = n, !.header = 0]
Load(p, s, h) == [p EXCEPT !.shows = "page", !.session = s, !.header = h]
Issued(c, n) == [c EXCEPT !.csrf = n]
Begun(c, n) == [c EXCEPT !.login = n]
SignedIn(c, n) == [c EXCEPT !.session = n, !.login = 0]
Resolve(q, n) == [q EXCEPT !.step = "csrf", !.locals = n]
Judge(q, v) == [q EXCEPT !.step = v]

LEMMA Turned ==
    ASSUME NEW p \in Shown, NEW v \in Views
    PROVE  /\ Turn(p, v) \in Shown
           /\ Turn(p, v).header = p.header
           /\ Turn(p, v).session = p.session
  BY DEF Shown, Turn
LEMMA Left ==
    ASSUME NEW p \in Shown, NEW n \in Nat
    PROVE  Leave(p, n) \in Shown /\ Leave(p, n).header = 0
<1>1. "provider" \in Views
  BY DEF Views
<1> QED
  BY <1>1 DEF Shown, Leave
LEMMA Loaded ==
    ASSUME NEW p \in Shown, NEW s \in Nat, NEW h \in Nat
    PROVE  /\ Load(p, s, h) \in Shown
           /\ Load(p, s, h).session = s
           /\ Load(p, s, h).header = h
           /\ Load(p, s, h).shows = "page"
<1>1. "page" \in Views
  BY DEF Views
<1> QED
  BY <1>1 DEF Shown, Load
LEMMA Baked ==
    ASSUME NEW c \in Cookies, NEW n \in Nat
    PROVE  /\ Issued(c, n) \in Cookies /\ Issued(c, n).csrf = n
           /\ Begun(c, n) \in Cookies /\ Begun(c, n).csrf = c.csrf
           /\ SignedIn(c, n) \in Cookies /\ SignedIn(c, n).csrf = c.csrf
           /\ c.session \in Nat /\ c.csrf \in Nat
  BY DEF Cookies, SignedIn, Issued, Begun
LEMMA Resolved ==
    ASSUME NEW q \in Sent, NEW n \in Nat
    PROVE  /\ Resolve(q, n) \in Sent
           /\ Resolve(q, n).step = "csrf"
           /\ Resolve(q, n).locals = n
           /\ Resolve(q, n).session = q.session
           /\ Resolve(q, n).header = q.header
           /\ q.session \in Nat
<1>1. "csrf" \in Steps
  BY DEF Steps
<1> QED
  BY <1>1 DEF Sent, Resolve
LEMMA Judged ==
    ASSUME NEW q \in Sent, NEW v \in Steps
    PROVE  /\ Judge(q, v) \in Sent
           /\ Judge(q, v).step = v
           /\ Judge(q, v).locals = q.locals
           /\ Judge(q, v).session = q.session
           /\ Judge(q, v).header = q.header
  BY DEF Sent, Judge
LEMMA Verdicts ==
    ASSUME NEW q \in Sent
    PROVE  /\ Auth!Verdict(q) \in Steps \ {"none"}
           /\ Auth!Verdict(q) = "accepted" =>
                  q.locals # 0 /\ q.header # 0 /\ tokens[q.header] = q.locals
  BY DEF Auth!Verdict, Auth!Reasons, Steps, Auth!Verifies, Auth!BoundTo
LEMMA Idling == Auth!Idle \in Sent /\ Auth!Idle.step = "none"
<1>1. "none" \in Steps
  BY DEF Steps
<1> QED
  BY <1>1 DEF Sent, Auth!Idle

(* A page is loaded with the cookie's token or one issued for it.            *)
LEMMA Pages ==
    ASSUME AuthTypeOK, NEW t \in Tabs, Auth!LoadPage(t)
    PROVE  \E s, h \in Nat :
               /\ tab' = [tab EXCEPT ![t] = Load(tab[t], s, h)]
               /\ \/ tokens' = tokens /\ jar' = jar /\ (h # 0 => h = jar.csrf /\ tokens[h] = s)
                  \/ /\ tokens' = Append(tokens, s) /\ jar' = Issued(jar, h)
                     /\ h = Len(tokens) + 1
<1> USE DEF AuthTypeOK
<1> DEFINE s == IF jar.session \in live THEN jar.session ELSE 0
           n == Len(tokens) + 1
<1>1. jar.session \in Nat /\ jar.csrf \in Nat
  BY Baked
<1>2. s \in Nat /\ n \in Nat
  BY <1>1
<1>3. \/ /\ \E h \in {0, jar.csrf} :
               /\ tab' = [tab EXCEPT ![t] = Load(tab[t], s, h)]
               /\ h # 0 => tokens[h] = s
         /\ tokens' = tokens /\ jar' = jar
      \/ /\ tab' = [tab EXCEPT ![t] = Load(tab[t], s, n)]
         /\ tokens' = Append(tokens, s) /\ jar' = Issued(jar, n)
  BY <1>1, <1>2 DEF Auth!LoadPage, Load, Issued
<1> HIDE DEF s
<1> QED
  BY <1>1, <1>2, <1>3

(* The hooks let a request go on, or answer it.                              *)
LEMMA Answers ==
    ASSUME AuthTypeOK, NEW t \in Tabs,
           Auth!ResolveThrows(t) \/ Auth!HandleCsrf(t) \/ Auth!Answered(t)
    PROVE  \E q \in Sent :
               /\ request' = [request EXCEPT ![t] = q]
               /\ q.step # "none" => /\ request[t].step # "none"
                                     /\ q.header = request[t].header
                                     /\ q.session = request[t].session
                                     /\ q.locals = request[t].locals
               /\ q.step = "accepted" =>
                      q.locals # 0 /\ q.header # 0 /\ tokens[q.header] = q.locals
<1> USE DEF AuthTypeOK
<1>1. CASE Auth!ResolveThrows(t)
  <2>1. "failed" \in Steps
    BY DEF Steps
  <2>2. request' = [request EXCEPT ![t] = Judge(request[t], "failed")] /\ request[t].step = "session"
    BY <1>1 DEF Auth!ResolveThrows, Judge
  <2> QED
    BY <2>1, <2>2, Judged
<1>2. CASE Auth!HandleCsrf(t)
  <2> DEFINE v == Auth!Verdict(request[t])
  <2>1. request' = [request EXCEPT ![t] = Judge(request[t], v)] /\ request[t].step = "csrf"
    BY <1>2 DEF Auth!HandleCsrf, Judge
  <2>2. /\ v \in Steps
        /\ v = "accepted" => request[t].locals # 0 /\ request[t].header # 0
                                 /\ tokens[request[t].header] = request[t].locals
    BY Verdicts
  <2> HIDE DEF v
  <2>3. request[t] \in Sent
    OBVIOUS
  <2>4. /\ Judge(request[t], v) \in Sent
        /\ Judge(request[t], v).step = v
        /\ Judge(request[t], v).locals = request[t].locals
        /\ Judge(request[t], v).session = request[t].session
        /\ Judge(request[t], v).header = request[t].header
    BY <2>2, <2>3, Judged
  <2> QED
    BY <2>1, <2>2, <2>4
<1>3. CASE Auth!Answered(t)
  BY <1>3, Idling DEF Auth!Answered
<1> QED
  BY <1>1, <1>2, <1>3

LEMMA AuthInitTypeOK == Auth!Init => AuthTypeOK
<1> SUFFICES ASSUME Auth!Init PROVE AuthTypeOK
  OBVIOUS
<1> USE DEF Auth!Init, AuthTypeOK
<1>1. tokens \in Seq(Nat)
  OBVIOUS
<1>2. jar \in Cookies
  BY DEF Cookies
<1>3. tab \in [Tabs -> Shown]
  BY DEF Shown, Views
<1>4. request \in [Tabs -> Sent]
  BY Idling
<1> QED
  BY <1>1, <1>2, <1>3, <1>4

LEMMA AuthNextTypeOK == AuthTypeOK /\ [Auth!Next]_(Auth!vars) => AuthTypeOK'
<1> SUFFICES ASSUME AuthTypeOK, [Auth!Next]_(Auth!vars) PROVE AuthTypeOK'
  OBVIOUS
<1> USE DEF AuthTypeOK
<1>1. ASSUME NEW t \in Tabs, Auth!BeginSignIn(t) PROVE AuthTypeOK'
  <2>1. signIns + 1 \in Nat
    OBVIOUS
  <2>2. /\ tab' = [tab EXCEPT ![t] = Leave(tab[t], signIns + 1)]
        /\ jar' = Begun(jar, signIns + 1)
    BY <1>1 DEF Auth!BeginSignIn, Leave, Begun
  <2>3. tab' \in [Tabs -> Shown] /\ jar' \in Cookies
    BY <2>1, <2>2, Left, Baked
  <2> QED
    BY <1>1, <2>1, <2>3 DEF Auth!BeginSignIn
<1>2. ASSUME NEW t \in Tabs, Auth!Return(t) \/ Auth!Exchange(t) \/ Auth!ExchangeFails(t)
      PROVE  AuthTypeOK'
  <2>1. \E v \in Views : tab' = [tab EXCEPT ![t] = Turn(tab[t], v)]
    BY <1>2 DEF Auth!Return, Auth!Exchange, Auth!ExchangeFails, Views, Turn
  <2>2. tab[t].login \in Nat
    BY DEF Shown
  <2>3. jar' = jar \/ jar' = SignedIn(jar, tab[t].login)
    BY <1>2 DEF Auth!Return, Auth!Exchange, Auth!ExchangeFails, SignedIn
  <2>4. tab' \in [Tabs -> Shown]
    BY <2>1, Turned
  <2>5. SignedIn(jar, tab[t].login) \in Cookies
    BY <2>2, Baked
  <2> QED
    BY <1>2, <2>3, <2>4, <2>5 DEF Auth!Return, Auth!Exchange, Auth!ExchangeFails
<1>3. ASSUME NEW t \in Tabs, Auth!LoadPage(t) PROVE AuthTypeOK'
  <2>1. UNCHANGED <<rethrows, signIns, live, expired, request>>
    BY <1>3 DEF Auth!LoadPage
  <2>2. PICK s, h \in Nat :
            /\ tab' = [tab EXCEPT ![t] = Load(tab[t], s, h)]
            /\ \/ tokens' = tokens /\ jar' = jar
               \/ tokens' = Append(tokens, s) /\ jar' = Issued(jar, h)
    BY <1>3, Pages
  <2>3. Load(tab[t], s, h) \in Shown /\ Issued(jar, h) \in Cookies
    BY Loaded, Baked
  <2>4. tab' \in [Tabs -> Shown] /\ jar' \in Cookies /\ tokens' \in Seq(Nat)
    BY SMTT(30), <2>2, <2>3
  <2> QED
    BY <2>1, <2>4
<1>4. ASSUME NEW t \in Tabs, Auth!Submit(t) PROVE AuthTypeOK'
  BY <1>4 DEF Auth!Submit, Shown, Sent, Cookies, Steps
<1>5. ASSUME NEW t \in Tabs, Auth!ResolveSession(t) PROVE AuthTypeOK'
  <2>0. request[t].session \in Nat
    BY DEF Sent
  <2>1. \E n \in Nat : request' = [request EXCEPT ![t] = Resolve(request[t], n)]
    BY <1>5, <2>0 DEF Auth!ResolveSession, Resolve
  <2>2. request' \in [Tabs -> Sent]
    BY <2>1, Resolved
  <2> QED
    BY <1>5, <2>2 DEF Auth!ResolveSession
<1>6. ASSUME NEW t \in Tabs, Auth!ResolveThrows(t) \/ Auth!HandleCsrf(t) \/ Auth!Answered(t)
      PROVE  AuthTypeOK'
  <2>1. UNCHANGED <<rethrows, signIns, tokens, jar, tab>>
    BY <1>6 DEF Auth!ResolveThrows, Auth!HandleCsrf, Auth!Answered
  <2> QED
    BY <1>6, <2>1, Answers
<1>7. ASSUME NEW s \in Auth!Sessions, Auth!EndSession(s) PROVE AuthTypeOK'
  BY <1>7 DEF Auth!EndSession
<1>8. ASSUME NEW k \in DOMAIN tokens, Auth!ExpireToken(k) PROVE AuthTypeOK'
  BY <1>8 DEF Auth!ExpireToken
<1>9. CASE UNCHANGED Auth!vars
  BY <1>9 DEF Auth!vars
<1> QED
  BY <1>1, <1>2, <1>3, <1>4, <1>5, <1>6, <1>7, <1>8, <1>9 DEF Auth!Next

(* A page's token is bound to the page's session, and a request on its way   *)
(* has both from its page, which stays as it is until the answer.            *)
FromItsPage ==
    /\ AuthTypeOK
    /\ jar.csrf <= Len(tokens)
    /\ \A t \in Tabs : tab[t].header # 0 =>
           tab[t].header <= Len(tokens) /\ tokens[tab[t].header] = tab[t].session
    /\ \A t \in Tabs : request[t].step # "none" =>
           /\ tab[t].shows = "page"
           /\ request[t].header = tab[t].header
           /\ request[t].locals \in {0, request[t].session}
           /\ request[t].step = "accepted" =>
                  request[t].locals # 0 /\ request[t].header # 0
                      /\ tokens[request[t].header] = request[t].locals

LEMMA NextFromItsPage == FromItsPage /\ [Auth!Next]_(Auth!vars) => FromItsPage'
<1> SUFFICES ASSUME FromItsPage, [Auth!Next]_(Auth!vars) PROVE FromItsPage'
  OBVIOUS
<1>0. AuthTypeOK /\ AuthTypeOK'
  BY AuthNextTypeOK DEF FromItsPage
<1> USE <1>0 DEF FromItsPage, AuthTypeOK
<1>1. ASSUME NEW t \in Tabs, Auth!BeginSignIn(t) PROVE FromItsPage'
  <2>1. signIns + 1 \in Nat /\ request[t].step = "none"
    BY <1>1, Idling DEF Auth!BeginSignIn
  <2>2. tab' = [tab EXCEPT ![t] = Leave(tab[t], signIns + 1)]
    BY <1>1 DEF Auth!BeginSignIn, Leave
  <2>3. jar'.csrf = jar.csrf
    BY <1>1, <2>1, Baked DEF Auth!BeginSignIn, Begun
  <2>4. UNCHANGED <<tokens, request>>
    BY <1>1 DEF Auth!BeginSignIn
  <2> QED
    BY <2>1, <2>2, <2>3, <2>4, Left
<1>2. ASSUME NEW t \in Tabs, Auth!Return(t) \/ Auth!Exchange(t) \/ Auth!ExchangeFails(t)
      PROVE  FromItsPage'
  <2>1. \E v \in Views : tab' = [tab EXCEPT ![t] = Turn(tab[t], v)]
    BY <1>2 DEF Auth!Return, Auth!Exchange, Auth!ExchangeFails, Views, Turn
  <2>2. tab[t].login \in Nat
    BY DEF Shown
  <2>3. jar' = jar \/ jar' = SignedIn(jar, tab[t].login)
    BY <1>2 DEF Auth!Return, Auth!Exchange, Auth!ExchangeFails, SignedIn
  <2>7. SignedIn(jar, tab[t].login).csrf = jar.csrf
    BY <2>2, Baked
  <2>4. jar'.csrf = jar.csrf
    BY <2>3, <2>7
  <2>5. request[t].step = "none"
    BY <1>2 DEF Auth!Return, Auth!Exchange, Auth!ExchangeFails, Auth!Shows
  <2>6. UNCHANGED <<tokens, request>>
    BY <1>2 DEF Auth!Return, Auth!Exchange, Auth!ExchangeFails
  <2> QED
    BY <2>1, <2>4, <2>5, <2>6, Turned
<1>3. ASSUME NEW t \in Tabs, Auth!LoadPage(t) PROVE FromItsPage'
  <2>1. request' = request /\ request[t].step = "none"
    BY <1>3, Idling DEF Auth!LoadPage
  <2>2. PICK s, h \in Nat :
            /\ tab' = [tab EXCEPT ![t] = Load(tab[t], s, h)]
            /\ \/ tokens' = tokens /\ jar' = jar /\ (h # 0 => h = jar.csrf /\ tokens[h] = s)
               \/ /\ tokens' = Append(tokens, s) /\ jar' = Issued(jar, h)
                  /\ h = Len(tokens) + 1
    BY <1>3, Pages
  <2>a. tab[t] \in Shown /\ jar \in Cookies
    OBVIOUS
  <2>3. Load(tab[t], s, h).session = s /\ Load(tab[t], s, h).header = h
    BY <2>2, <2>a DEF Load, Shown
  <2>5. Issued(jar, h).csrf = h
    BY <2>2, <2>a, Baked
  <2>6. CASE tokens' = tokens /\ jar' = jar /\ (h # 0 => h = jar.csrf /\ tokens[h] = s)
    BY <2>1, <2>2, <2>3, <2>6
  <2>7. CASE tokens' = Append(tokens, s) /\ jar' = Issued(jar, h) /\ h = Len(tokens) + 1
    <3>1. tokens'[h] = s /\ Len(tokens') = h /\ \A i \in 1..Len(tokens) : tokens'[i] = tokens[i]
      BY <2>7
    <3>2. jar'.csrf <= Len(tokens')
      BY <2>5, <2>7, <3>1
    <3>3. \A u \in Tabs : tab[u].header \in Nat /\ request[u].header \in Nat
      BY DEF Shown, Sent
    <3>4. ASSUME NEW u \in Tabs, tab'[u].header # 0
          PROVE  tab'[u].header <= Len(tokens') /\ tokens'[tab'[u].header] = tab'[u].session
      BY <2>2, <2>3, <2>7, <3>1, <3>3, <3>4
    <3>5. ASSUME NEW u \in Tabs, request[u].step = "accepted"
          PROVE  tokens'[request[u].header] = request[u].locals
      BY <2>2, <2>3, <2>7, <3>1, <3>3, <3>5
    <3> QED
      BY <2>1, <2>2, <2>3, <3>2, <3>4, <3>5
  <2> QED
    BY <2>2, <2>6, <2>7
<1>4. ASSUME NEW t \in Tabs, Auth!Submit(t) PROVE FromItsPage'
  BY <1>4 DEF Auth!Submit, Shown, Sent, Auth!Shows
<1>5. ASSUME NEW t \in Tabs, Auth!ResolveSession(t) PROVE FromItsPage'
  BY SMTT(30), <1>5 DEF Auth!ResolveSession, Sent
<1>6. ASSUME NEW t \in Tabs, Auth!ResolveThrows(t) \/ Auth!HandleCsrf(t) \/ Auth!Answered(t)
      PROVE  FromItsPage'
  <2>1. UNCHANGED <<tokens, jar, tab>>
    BY <1>6 DEF Auth!ResolveThrows, Auth!HandleCsrf, Auth!Answered
  <2> QED
    BY <1>6, <2>1, Answers
<1>7. ASSUME NEW s \in Auth!Sessions, Auth!EndSession(s) PROVE FromItsPage'
  BY <1>7 DEF Auth!EndSession
<1>8. ASSUME NEW k \in DOMAIN tokens, Auth!ExpireToken(k) PROVE FromItsPage'
  BY <1>8 DEF Auth!ExpireToken
<1>9. CASE UNCHANGED Auth!vars
  BY <1>9 DEF Auth!vars
<1> QED
  BY <1>1, <1>2, <1>3, <1>4, <1>5, <1>6, <1>7, <1>8, <1>9 DEF Auth!Next

(* A mutation is only carried out for the session of the page it was made    *)
(* on, whatever the other tabs have signed in to since.                      *)
THEOREM ActsForItsPageCorrect == Auth!Spec => []ActsForItsPage
<1>1. Auth!Init => FromItsPage
  BY AuthInitTypeOK DEF Auth!Init, FromItsPage, Auth!Idle
<1>2. FromItsPage => ActsForItsPage
  <2> SUFFICES ASSUME FromItsPage, NEW t \in Tabs, request[t].step = "accepted"
               PROVE  /\ request[t].session = tab[t].session
                      /\ request[t].locals = request[t].session
    BY DEF ActsForItsPage, Auth!ActsForItsPage
  <2> QED
    BY DEF FromItsPage
<1> QED
  BY <1>1, <1>2, NextFromItsPage, PTL DEF Auth!Spec

(* Kept(s, wanted) is what both modules that filter a sequence do, FlowGraph *)
(* and AiGateway: the last of the values of a recursive function.            *)
Taken(s, i, wanted, sofar) == IF s[i] \in wanted THEN Append(sofar, s[i]) ELSE sofar
AreKept(f, s, wanted, n) ==
    f = [i \in 0..n |-> IF i = 0 THEN <<>> ELSE Taken(s, i, wanted, f[i - 1])]
Kept(s, wanted) == (CHOOSE f : AreKept(f, s, wanted, Len(s)))[Len(s)]

(* There is such a function, for sequences of any length.                    *)
LEMMA KeptExist == ASSUME NEW s, NEW w PROVE \A n \in Nat : \E f : AreKept(f, s, w, n)
<1> DEFINE T == {n \in Nat : ~ \E f : AreKept(f, s, w, n)}
<1> SUFFICES ASSUME T # {} PROVE FALSE
  OBVIOUS
<1>1. PICK n \in T : \A k \in T : n <= k
  BY LeastNumber, Zenon
<1>2. n # 0
  <2>1. AreKept([i \in 0..0 |-> <<>>], s, w, 0)
    BY DEF AreKept
  <2> QED
    BY <2>1
<1>3. n \in Nat /\ n - 1 \in Nat /\ n - 1 \notin T
  BY <1>1, <1>2
<1>4. PICK g : AreKept(g, s, w, n - 1)
  BY <1>3
<1> DEFINE f == [i \in 0..n |-> IF i = n THEN Taken(s, n, w, g[n - 1]) ELSE g[i]]
<1>5. ASSUME NEW i \in 0..n PROVE f[i] = IF i = 0 THEN <<>> ELSE Taken(s, i, w, f[i - 1])
  <2>1. CASE i = n
    BY <1>2, <1>3, <2>1
  <2>2. CASE i # n
    <3>1. i \in 0..(n - 1) /\ (i # 0 => i - 1 \in 0..(n - 1))
      BY <1>3, <2>2
    <3>2. g[i] = IF i = 0 THEN <<>> ELSE Taken(s, i, w, g[i - 1])
      BY <1>4, <3>1 DEF AreKept
    <3>3. f[i] = g[i] /\ (i # 0 => f[i - 1] = g[i - 1])
      BY <1>3, <2>2, <3>1
    <3> QED
      BY <3>2, <3>3
  <2> QED
    BY <2>1, <2>2
<1>6. AreKept(f, s, w, n)
  <2>1. f = [i \in 0..n |-> f[i]]
    OBVIOUS
  <2>2. [i \in 0..n |-> f[i]] = [i \in 0..n |-> IF i = 0 THEN <<>> ELSE Taken(s, i, w, f[i - 1])]
    <3> HIDE DEF f
    <3> QED
      BY <1>5, Zenon
  <2> QED
    BY <2>1, <2>2 DEF AreKept
<1> QED
  BY <1>1, <1>6

LEMMA KeptAgree ==
    ASSUME NEW s, NEW t, NEW w, NEW n \in Nat, NEW m \in 0..n, NEW f, NEW g,
           AreKept(f, s, w, n), AreKept(g, t, w, m), \A i \in 1..m : s[i] = t[i]
    PROVE  f[m] = g[m]
<1> DEFINE T == {i \in 0..m : f[i] # g[i]}
<1> SUFFICES ASSUME T # {} PROVE FALSE
  OBVIOUS
<1>1. PICK i \in T : \A k \in T : i <= k
  <2>1. T \subseteq Nat
    OBVIOUS
  <2> QED
    BY <2>1, LeastNumber, Zenon
<1>2. ASSUME NEW k \in 0..m
      PROVE  /\ f[k] = IF k = 0 THEN <<>> ELSE Taken(s, k, w, f[k - 1])
             /\ g[k] = IF k = 0 THEN <<>> ELSE Taken(t, k, w, g[k - 1])
  BY DEF AreKept
<1>3. i # 0
  BY <1>1, <1>2
<1>4. i - 1 \in 0..m /\ i - 1 \notin T /\ i \in 1..m
  BY <1>1, <1>3
<1>5. f[i - 1] = g[i - 1] /\ s[i] = t[i]
  BY <1>4
<1> QED
  BY <1>1, <1>2, <1>3, <1>5 DEF Taken

LEMMA KeptIsLast ==
    ASSUME NEW s, NEW w, Len(s) \in Nat
    PROVE  \E f : AreKept(f, s, w, Len(s)) /\ Kept(s, w) = f[Len(s)]
  BY KeptExist DEF Kept

LEMMA KeptOfNothing == ASSUME NEW w PROVE Kept(<<>>, w) = <<>>
<1>1. PICK f : AreKept(f, <<>>, w, 0) /\ Kept(<<>>, w) = f[0]
  BY KeptIsLast
<1> QED
  BY <1>1 DEF AreKept

LEMMA KeptOfOneMore ==
    ASSUME NEW S, NEW s \in Seq(S), NEW e \in S, NEW w
    PROVE  Kept(Append(s, e), w) = IF e \in w THEN Append(Kept(s, w), e) ELSE Kept(s, w)
<1> DEFINE t == Append(s, e)
<1>1. Len(s) \in Nat /\ Len(t) = Len(s) + 1 /\ t[Len(t)] = e /\ \A i \in 1..Len(s) : t[i] = s[i]
  OBVIOUS
<1> HIDE DEF t
<1>2. PICK f : AreKept(f, t, w, Len(t)) /\ Kept(t, w) = f[Len(t)]
  BY <1>1, KeptIsLast
<1>3. PICK g : AreKept(g, s, w, Len(s)) /\ Kept(s, w) = g[Len(s)]
  BY <1>1, KeptIsLast
<1>4. f[Len(t)] = Taken(t, Len(t), w, f[Len(s)])
  BY <1>1, <1>2 DEF AreKept
<1>5. f[Len(s)] = g[Len(s)]
  BY <1>1, <1>2, <1>3, KeptAgree
<1>6. Kept(t, w) = IF e \in w THEN Append(Kept(s, w), e) ELSE Kept(s, w)
  BY <1>1, <1>2, <1>3, <1>4, <1>5 DEF Taken
<1> QED
  BY <1>6 DEF t

(* What is kept: a sequence of the wanted elements, as many as there are.    *)
Wanted(s, n, w) == {j \in 1..n : s[j] \in w}
IsKept(k, S, s, n, w) ==
    /\ k \in Seq(S)
    /\ \A i \in DOMAIN k : k[i] \in w
    /\ \A i \in DOMAIN k : \E j \in 1..n : s[j] = k[i]
    /\ \A j \in Wanted(s, n, w) : \E i \in DOMAIN k : k[i] = s[j]
    /\ Len(k) = Cardinality(Wanted(s, n, w))

LEMMA OneMoreKept ==
    ASSUME NEW S, NEW s \in Seq(S), NEW w, NEW n \in 1..Len(s), NEW k,
           IsKept(k, S, s, n - 1, w)
    PROVE  IsKept(Taken(s, n, w, k), S, s, n, w)
<1>1. IsFiniteSet(Wanted(s, n - 1, w))
  <2>1. IsFiniteSet(1..(n - 1))
    BY FS_Interval
  <2> QED
    BY <2>1, FS_Subset DEF Wanted
<1>2. CASE s[n] \notin w
  <2>1. Wanted(s, n, w) = Wanted(s, n - 1, w) /\ Taken(s, n, w, k) = k
    BY <1>2 DEF Wanted, Taken
  <2> QED
    BY <2>1 DEF IsKept
<1>3. CASE s[n] \in w
  <2>1. /\ Wanted(s, n, w) = Wanted(s, n - 1, w) \cup {n}
        /\ n \notin Wanted(s, n - 1, w)
        /\ Taken(s, n, w, k) = Append(k, s[n])
    BY <1>3 DEF Wanted, Taken
  <2>2. Cardinality(Wanted(s, n, w)) = Cardinality(Wanted(s, n - 1, w)) + 1
    BY <1>1, <2>1, FS_AddElement
  <2>3. k \in Seq(S) /\ s[n] \in S
    BY DEF IsKept
  <2>4. /\ Append(k, s[n]) \in Seq(S)
        /\ Len(Append(k, s[n])) = Len(k) + 1
        /\ DOMAIN Append(k, s[n]) = 1..(Len(k) + 1) /\ DOMAIN k = 1..Len(k) /\ Len(k) \in Nat
        /\ \A i \in 1..Len(k) : Append(k, s[n])[i] = k[i]
        /\ Append(k, s[n])[Len(k) + 1] = s[n]
    BY <2>3
  <2> DEFINE l == Append(k, s[n])
  <2> HIDE DEF l
  <2>5. \A i \in DOMAIN l : l[i] \in w /\ \E j \in 1..n : s[j] = l[i]
    <3> SUFFICES ASSUME NEW i \in DOMAIN l PROVE l[i] \in w /\ \E j \in 1..n : s[j] = l[i]
      OBVIOUS
    <3>1. CASE i = Len(k) + 1
      BY <3>1, <2>4, <1>3 DEF l
    <3>2. CASE i \in 1..Len(k)
      BY <3>2, <2>4 DEF l, IsKept
    <3> QED
      BY <3>1, <3>2, <2>4 DEF l
  <2>6. \A j \in Wanted(s, n, w) : \E i \in DOMAIN l : l[i] = s[j]
    <3> SUFFICES ASSUME NEW j \in Wanted(s, n, w) PROVE \E i \in DOMAIN l : l[i] = s[j]
      OBVIOUS
    <3>1. CASE j = n
      BY <3>1, <2>4 DEF l
    <3>2. CASE j \in Wanted(s, n - 1, w)
      BY <3>2, <2>4 DEF l, IsKept
    <3> QED
      BY <3>1, <3>2, <2>1
  <2>7. l \in Seq(S) /\ Len(l) = Cardinality(Wanted(s, n, w))
    BY <2>2, <2>4 DEF l, IsKept
  <2>8. IsKept(l, S, s, n, w)
    BY <2>5, <2>6, <2>7 DEF IsKept
  <2> QED
    BY <2>1, <2>8 DEF l
<1> QED
  BY <1>2, <1>3

LEMMA KeptIsKept ==
    ASSUME NEW S, NEW s \in Seq(S), NEW w
    PROVE  IsKept(Kept(s, w), S, s, Len(s), w)
<1>1. Len(s) \in Nat
  OBVIOUS
<1>2. PICK f : AreKept(f, s, w, Len(s)) /\ Kept(s, w) = f[Len(s)]
  BY <1>1, KeptIsLast
<1> DEFINE T == {i \in 0..Len(s) : ~IsKept(f[i], S, s, i, w)}
<1>3. CASE T = {}
  BY <1>1, <1>2, <1>3
<1>4. CASE T # {}
  <2>1. PICK i \in T : \A k \in T : i <= k
    <3>1. T \subseteq Nat
      BY <1>1
    <3> QED
      BY <1>4, <3>1, LeastNumber, Zenon
  <2>2. ASSUME NEW k \in 0..Len(s)
        PROVE  f[k] = IF k = 0 THEN <<>> ELSE Taken(s, k, w, f[k - 1])
    BY <1>2 DEF AreKept
  <2>3. i # 0
    <3>1. Wanted(s, 0, w) = {}
      BY DEF Wanted
    <3>2. <<>> \in Seq(S) /\ Len(<<>>) = 0 /\ DOMAIN <<>> = {}
      OBVIOUS
    <3>3. Cardinality(Wanted(s, 0, w)) = 0
      BY <3>1, FS_EmptySet
    <3>4. IsKept(<<>>, S, s, 0, w)
      BY <3>1, <3>2, <3>3, Zenon DEF IsKept
    <3> QED
      BY <1>1, <2>1, <2>2, <3>4
  <2>4. i - 1 \in 0..Len(s) /\ i - 1 \notin T /\ i \in 1..Len(s)
    BY <1>1, <2>1, <2>3
  <2>5. IsKept(f[i - 1], S, s, i - 1, w)
    BY <2>4
  <2>6. IsKept(Taken(s, i, w, f[i - 1]), S, s, i, w)
    BY <2>4, <2>5, OneMoreKept
  <2> QED
    BY <2>1, <2>2, <2>3, <2>6
<1> QED
  BY <1>3, <1>4

------------------------------------------------------------------------------
(* AiGateway: any requests and providers, streams of any length.             *)

LEMMA TextKept == ASSUME NEW s PROVE Ai!Text(s) = Kept(s, Chunks)
  BY DEF Ai!Text, Kept, AreKept, Taken

Pieces == Chunks \cup {Empty}
Record == [request : Proxied, output : Seq(Pieces)]

LEMMA TextIsSeq == ASSUME NEW S, NEW s \in Seq(S) PROVE Ai!Text(s) \in Seq(S)
  BY TextKept, KeptIsKept DEF IsKept

LEMMA TextOfNothing == Ai!Text(<<>>) = <<>>
  BY TextKept, KeptOfNothing

LEMMA TextOfOneMore ==
    ASSUME NEW s \in Seq(Pieces), NEW e \in Pieces, Empty \notin Chunks
    PROVE  Ai!Text(Append(s, e)) =
               IF e = Empty THEN Ai!Text(s) ELSE Append(Ai!Text(s), e)
  BY TextKept, KeptOfOneMore DEF Pieces

AiTypeOK ==
    /\ proxying \in [Proxied -> Ai!Phases]
    /\ events \in [Proxied -> Seq(Pieces)]
    /\ assembled \in [Proxied -> Seq(Pieces)]
    /\ given \in [Proxied -> Seq(Pieces)]
    /\ log \in Seq(Record)
    /\ browser \in [Proxied -> {"idle", "waiting", "resolved", "rejected"}]

LEMMA AiInitTypeOK == Ai!Init => AiTypeOK
  BY DEF Ai!Init, AiTypeOK, Ai!Phases

LEMMA AiNextTypeOK ==
    ASSUME MaxEvents \in Nat PROVE AiTypeOK /\ [Ai!Next]_(Ai!vars) => AiTypeOK'
<1> SUFFICES ASSUME AiTypeOK, [Ai!Next]_(Ai!vars) PROVE AiTypeOK'
  OBVIOUS
<1> USE DEF AiTypeOK, Ai!Phases, Ai!At
<1>1. ASSUME NEW r \in Proxied, Ai!Post(r) \/ Ai!Abort(r) \/ Ai!Respond(r) PROVE AiTypeOK'
  BY <1>1 DEF Ai!Post, Ai!Abort, Ai!Respond
<1>2. ASSUME NEW r \in Proxied, Ai!ProviderCompletes(r) PROVE AiTypeOK'
  <2>0. PICK n \in 1..MaxEvents : \E s \in [1..n -> Pieces] :
            /\ events' = [events EXCEPT ![r] = s]
            /\ assembled' = [assembled EXCEPT ![r] = Ai!Text(s)]
    BY <1>2 DEF Ai!ProviderCompletes, Pieces
  <2>1. PICK s \in [1..n -> Pieces] :
            /\ events' = [events EXCEPT ![r] = s]
            /\ assembled' = [assembled EXCEPT ![r] = Ai!Text(s)]
    BY <2>0
  <2>2. s \in Seq(Pieces)
    BY <2>0, <2>1
  <2>3. Ai!Text(s) \in Seq(Pieces)
    BY <2>2, TextIsSeq
  <2> QED
    BY <1>2, <2>1, <2>2, <2>3 DEF Ai!ProviderCompletes
<1>3. ASSUME NEW r \in Proxied,
             Ai!ProviderThrows(r) \/ Ai!Open(r) \/ Ai!Break(r) \/ Ai!End(r) \/ Ai!RecordThrows(r)
      PROVE  AiTypeOK'
  BY <1>3 DEF Ai!ProviderThrows, Ai!Open, Ai!Break, Ai!End, Ai!RecordThrows
<1>4. ASSUME NEW r \in Proxied, Ai!Event(r) PROVE AiTypeOK'
  <2>1. PICK e \in Pieces :
            /\ events' = [events EXCEPT ![r] = Append(events[r], e)]
            /\ \/ UNCHANGED <<assembled, given>>
               \/ /\ assembled' = [assembled EXCEPT ![r] = Append(assembled[r], e)]
                  /\ given' = [given EXCEPT ![r] = Append(given[r], e)]
    BY <1>4 DEF Ai!Event, Ai!Assembled, Pieces
  <2>2. /\ Append(events[r], e) \in Seq(Pieces) /\ Append(assembled[r], e) \in Seq(Pieces)
        /\ Append(given[r], e) \in Seq(Pieces)
    BY <2>1
  <2>3. /\ events' \in [Proxied -> Seq(Pieces)]
        /\ assembled' \in [Proxied -> Seq(Pieces)]
        /\ given' \in [Proxied -> Seq(Pieces)]
    BY ZenonT(50), <2>1, <2>2
  <2> QED
    BY <1>4, <2>3 DEF Ai!Event
<1>5. ASSUME NEW r \in Proxied, Ai!Finish(r) PROVE AiTypeOK'
  <2>1. [request |-> r, output |-> assembled[r]] \in Record
    BY DEF Record
  <2>2. log' \in Seq(Record)
    BY <1>5, <2>1 DEF Ai!Finish, Ai!Logged
  <2> QED
    BY <1>5, <2>2 DEF Ai!Finish
<1>6. CASE UNCHANGED Ai!vars
  BY <1>6 DEF Ai!vars
<1> QED
  BY <1>1, <1>2, <1>3, <1>4, <1>5, <1>6 DEF Ai!Next

(* What has been assembled is the text of what the provider has produced,    *)
(* and the caller of a stream has all of it; the log has one record of every *)
(* audited request that is done, with what was given, and of no other.       *)
Assembles == \A r \in Proxied : assembled[r] = Ai!Text(events[r])
Hands ==
    /\ \A r \in Proxied : r \in Streaming \/ proxying[r] = "done" => given[r] = assembled[r]
    /\ \A r \in Proxied : proxying[r] = "open" => r \in Streaming
Resolves == \A r \in Proxied : browser[r] = "resolved" => proxying[r] = "done"
RecordsDone ==
    \A i \in DOMAIN log : /\ log[i].request \in Proxied \cap Audited
                          /\ proxying[log[i].request] = "done"
                          /\ log[i].output = assembled[log[i].request]
RecordsOnce == \A i, j \in DOMAIN log : log[i].request = log[j].request => i = j
RecordsAll ==
    \A r \in Proxied \cap Audited : proxying[r] = "done" =>
        \E i \in DOMAIN log : log[i].request = r

LogInv ==
    /\ AiTypeOK
    /\ Assembles /\ Hands /\ Resolves
    /\ RecordsDone /\ RecordsOnce /\ RecordsAll

LEMMA NextLogInv ==
    ASSUME MaxEvents \in Nat, Empty \notin Chunks PROVE LogInv /\ [Ai!Next]_(Ai!vars) => LogInv'
<1> SUFFICES ASSUME LogInv, [Ai!Next]_(Ai!vars) PROVE LogInv'
  OBVIOUS
<1>0. AiTypeOK /\ AiTypeOK'
  BY AiNextTypeOK DEF LogInv
<1>i. Assembles /\ Hands /\ Resolves /\ RecordsDone /\ RecordsOnce /\ RecordsAll
  BY DEF LogInv
<1>p. proxying \in [Proxied -> Ai!Phases]
  BY <1>0 DEF AiTypeOK
<1> USE DEF Ai!At, Ai!Phases
(* A step of the server that hands nothing over and writes no record.        *)
<1>u. ASSUME UNCHANGED <<events, assembled, given, log>>,
             \A q \in Proxied : (proxying'[q] = "done" <=> proxying[q] = "done")
      PROVE  Assembles' /\ RecordsDone' /\ RecordsOnce' /\ RecordsAll'
  <2>1. Assembles'
    BY <1>i, <1>u DEF Assembles
  <2>2. RecordsDone'
    BY <1>i, <1>u DEF RecordsDone
  <2>3. RecordsOnce' /\ RecordsAll'
    BY <1>i, <1>u DEF RecordsOnce, RecordsAll
  <2> QED
    BY <2>1, <2>2, <2>3
<1>1. ASSUME NEW r \in Proxied, Ai!Post(r) \/ Ai!Abort(r) \/ Ai!Respond(r) PROVE LogInv'
  <2>1. UNCHANGED <<events, assembled, given, log>>
    BY <1>1 DEF Ai!Post, Ai!Abort, Ai!Respond
  <2>2. \A q \in Proxied : /\ (proxying'[q] = "done" <=> proxying[q] = "done")
                           /\ (proxying'[q] = "open" => proxying[q] = "open")
    BY <1>1, <1>p DEF Ai!Post, Ai!Abort, Ai!Respond
  <2>3. Resolves'
    BY <1>0, <1>1, <1>i, <1>p, <2>2 DEF Ai!Post, Ai!Abort, Ai!Respond, Resolves, AiTypeOK
  <2>4. Hands'
    BY <1>i, <2>1, <2>2 DEF Hands
  <2> QED
    BY <1>0, <1>u, <2>1, <2>2, <2>3, <2>4 DEF LogInv
<1>2. ASSUME NEW r \in Proxied, Ai!ProviderCompletes(r) PROVE LogInv'
  <2>1. \E s : /\ events' = [events EXCEPT ![r] = s]
               /\ assembled' = [assembled EXCEPT ![r] = Ai!Text(s)]
    BY <1>2 DEF Ai!ProviderCompletes
  <2>2. /\ r \notin Streaming /\ proxying[r] = "called"
        /\ proxying' = [proxying EXCEPT ![r] = "recording"]
        /\ UNCHANGED <<given, log, browser>>
    BY <1>2 DEF Ai!ProviderCompletes
  <2>3. Assembles'
    BY <1>0, <1>i, <2>1 DEF Assembles, AiTypeOK
  <2>4. \A q \in Proxied : q # r => assembled'[q] = assembled[q]
    BY <1>0, <2>1 DEF AiTypeOK
  <2>5. Hands'
    BY <1>i, <1>p, <2>2, <2>4 DEF Hands
  <2>6. RecordsDone'
    BY <1>i, <1>p, <2>2, <2>4 DEF RecordsDone
  <2>7. RecordsOnce' /\ RecordsAll' /\ Resolves'
    BY <1>i, <1>p, <2>2 DEF RecordsOnce, RecordsAll, Resolves
  <2> QED
    BY <1>0, <2>3, <2>5, <2>6, <2>7 DEF LogInv
<1>3. ASSUME NEW r \in Proxied,
             Ai!ProviderThrows(r) \/ Ai!Open(r) \/ Ai!Break(r) \/ Ai!End(r) \/ Ai!RecordThrows(r)
      PROVE  LogInv'
  <2>1. UNCHANGED <<events, assembled, given, log, browser>>
    BY <1>3 DEF Ai!ProviderThrows, Ai!Open, Ai!Break, Ai!End, Ai!RecordThrows
  <2>2. \A q \in Proxied : /\ (proxying'[q] = "done" <=> proxying[q] = "done")
                           /\ (proxying'[q] = "open" => proxying[q] = "open" \/ q \in Streaming)
    BY <1>3, <1>p DEF Ai!ProviderThrows, Ai!Open, Ai!Break, Ai!End, Ai!RecordThrows
  <2>3. Resolves' /\ Hands'
    BY <1>i, <2>1, <2>2 DEF Resolves, Hands
  <2> QED
    BY <1>0, <1>u, <2>1, <2>2, <2>3 DEF LogInv
<1>4. ASSUME NEW r \in Proxied, Ai!Event(r) PROVE LogInv'
  <2>1. PICK e \in Pieces :
            /\ events' = [events EXCEPT ![r] = Append(events[r], e)]
            /\ IF e = Empty
               THEN UNCHANGED <<assembled, given>>
               ELSE /\ assembled' = [assembled EXCEPT ![r] = Append(assembled[r], e)]
                    /\ given' = [given EXCEPT ![r] = Append(given[r], e)]
    BY <1>4 DEF Ai!Event, Ai!Assembled, Pieces
  <2>2. UNCHANGED <<proxying, log, browser>> /\ proxying[r] = "open"
    BY <1>4 DEF Ai!Event
  <2>3. Ai!Text(Append(events[r], e)) =
            IF e = Empty THEN Ai!Text(events[r]) ELSE Append(Ai!Text(events[r]), e)
    BY <1>0, TextOfOneMore DEF AiTypeOK
  <2>4. /\ events'[r] = Append(events[r], e)
        /\ assembled'[r] = IF e = Empty THEN assembled[r] ELSE Append(assembled[r], e)
        /\ given'[r] = IF e = Empty THEN given[r] ELSE Append(given[r], e)
    BY <1>0, <2>1 DEF AiTypeOK
  <2>5. \A q \in Proxied \ {r} : events'[q] = events[q] /\ assembled'[q] = assembled[q]
                                    /\ given'[q] = given[q]
    BY <1>0, <2>1 DEF AiTypeOK
  <2>6. Assembles'
    <3>1. assembled'[r] = Ai!Text(events'[r])
      BY <1>i, <2>3, <2>4 DEF Assembles
    <3> QED
      BY <1>i, <2>5, <3>1 DEF Assembles
  <2>7. given[r] = assembled[r] /\ \A i \in DOMAIN log : log[i].request # r
    BY <1>i, <2>2 DEF Hands, RecordsDone
  <2>8. Hands'
    BY <1>i, <2>2, <2>4, <2>5, <2>7 DEF Hands
  <2>9. RecordsDone'
    BY <1>i, <2>2, <2>5, <2>7 DEF RecordsDone
  <2>10. RecordsOnce' /\ RecordsAll' /\ Resolves'
    BY <1>i, <2>2 DEF RecordsOnce, RecordsAll, Resolves
  <2> QED
    BY <1>0, <2>6, <2>8, <2>9, <2>10 DEF LogInv
<1>5. ASSUME NEW r \in Proxied, Ai!Finish(r) PROVE LogInv'
  <2>1. UNCHANGED <<events, assembled, browser>>
    BY <1>5 DEF Ai!Finish
  <2>2. proxying[r] = "recording" /\ proxying' = [proxying EXCEPT ![r] = "done"]
    BY <1>5 DEF Ai!Finish
  <2>3. \A q \in Proxied : given'[q] =
            IF q = r /\ q \notin Streaming THEN assembled[q] ELSE given[q]
    BY <1>0, <1>5 DEF Ai!Finish, AiTypeOK
  <2>4. Assembles' /\ Hands' /\ Resolves'
    BY <1>i, <1>p, <2>1, <2>2, <2>3 DEF Assembles, Hands, Resolves
  <2>5. CASE r \notin Audited
    <3>1. log' = log
      BY <1>5, <2>5 DEF Ai!Finish, Ai!Logged
    <3>2. RecordsDone' /\ RecordsOnce' /\ RecordsAll'
      BY <1>i, <1>p, <2>1, <2>2, <2>5, <3>1 DEF RecordsDone, RecordsOnce, RecordsAll
    <3> QED
      BY <1>0, <2>4, <3>2 DEF LogInv
  <2>6. CASE r \in Audited
    <3> DEFINE e == [request |-> r, output |-> assembled[r]]
    <3>1. log' = Append(log, e)
      BY <1>5, <2>6 DEF Ai!Finish, Ai!Logged
    <3>2. e.request = r /\ e.output = assembled[r]
      OBVIOUS
    <3> HIDE DEF e
    <3>3. log \in Seq(Record)
      BY <1>0 DEF AiTypeOK
    <3>4. /\ DOMAIN log' = DOMAIN log \cup {Len(log) + 1} /\ Len(log) + 1 \notin DOMAIN log
          /\ log'[Len(log) + 1] = e /\ \A i \in DOMAIN log : log'[i] = log[i]
      BY <3>1, <3>3
    <3>5. \A i \in DOMAIN log : log[i].request # r
      BY <1>i, <2>2 DEF RecordsDone
    <3>6. RecordsDone'
      BY <1>i, <1>p, <2>1, <2>2, <2>6, <3>2, <3>4 DEF RecordsDone
    <3>7. RecordsOnce'
      BY <1>i, <3>2, <3>4, <3>5 DEF RecordsOnce
    <3>8. RecordsAll'
      BY <1>i, <1>p, <2>2, <3>2, <3>4 DEF RecordsAll
    <3> QED
      BY <1>0, <2>4, <3>6, <3>7, <3>8 DEF LogInv
  <2> QED
    BY <2>5, <2>6
<1>6. CASE UNCHANGED Ai!vars
  <2>1. UNCHANGED <<events, assembled, given, log, proxying, browser>>
    BY <1>6 DEF Ai!vars
  <2>2. Hands' /\ Resolves'
    BY <1>i, <2>1 DEF Hands, Resolves
  <2> QED
    BY <1>0, <1>u, <2>1, <2>2 DEF LogInv
<1> QED
  BY <1>1, <1>2, <1>3, <1>4, <1>5, <1>6 DEF Ai!Next

(* The audit log has one record, with the text the caller was given, of      *)
(* every audited inference that was seen to end, and of no other.            *)
THEOREM AuditIsTrueCorrect ==
    ASSUME MaxEvents \in Nat, Empty \notin Chunks PROVE Ai!Spec => []AuditIsTrue
<1>1. Ai!Init => LogInv
  BY AiInitTypeOK, TextOfNothing
     DEF Ai!Init, LogInv, Assembles, Hands, Resolves, RecordsDone, RecordsOnce, RecordsAll
<1>2. LogInv /\ [Ai!Next]_(Ai!vars) => LogInv'
  BY NextLogInv
<1>3. LogInv => AuditIsTrue
  <2> SUFFICES ASSUME LogInv, NEW r \in Proxied
               PROVE  IF r \in Audited /\ proxying[r] = "done"
                      THEN \E i \in DOMAIN log : Ai!Records(r) = {i} /\ log[i].output = given[r]
                                                     /\ given[r] = Ai!Text(events[r])
                      ELSE Ai!Records(r) = {} /\ (r \in Audited => browser[r] # "resolved")
    BY DEF AuditIsTrue, Ai!AuditIsTrue
  <2> QED
    BY DEF LogInv, Ai!Records, Assembles, Hands, Resolves, RecordsDone, RecordsOnce, RecordsAll
<1> QED
  BY <1>1, <1>2, <1>3, PTL DEF Ai!Spec

------------------------------------------------------------------------------
(* CollabStores: a document of any contents, and any people.                 *)

(* Whatever the stage, a snapshot that is not the document is one of which a *)
(* change is still unsaid or was missed.                                     *)
Presences == [People -> Collab!States \cup {Nothing}]
Formed(c) ==
    /\ kind = "presence" => c \in Presences
    /\ kind = "map" => DOMAIN c = Slots
InStep == ~missed /\ ~unsaid => snapshot = Collab!Snapshot(content)
Heard == stage = "mounted" /\ kind = "presence" => ~missed
CollabInv ==
    /\ unsaid => inTransaction
    /\ kind = "presence" => ~inTransaction
    /\ Formed(content)
    /\ InStep
    /\ Heard

(* A write that leaves presences and maps what they are.                     *)
TypedWrite(c) == Collab!Write(c) /\ Formed(c)

(* What a write does, whoever makes it.                                      *)
LEMMA WriteKeeps ==
    ASSUME CollabInv, NEW c, TypedWrite(c)
    PROVE  /\ CollabInv'
           /\ stage = "gone" => snapshot' = snapshot
<1>1. content' = c /\ kind' = kind /\ excludeLocal' = excludeLocal
      /\ inTransaction' = inTransaction /\ stage' = stage
  BY DEF Collab!Write, TypedWrite
<1>2. Collab!Snapshot(c) = Collab!Snapshot(content)'
  BY <1>1 DEF Collab!Snapshot, Collab!SnapshotYjsMap, Collab!SnapshotOthers
<1>6. Formed(content)'
  BY <1>1 DEF TypedWrite, Formed
<1>3. CASE inTransaction
  BY <1>1, <1>3, <1>6 DEF Collab!Write, TypedWrite, CollabInv, InStep, Heard
<1>4. CASE ~inTransaction /\ kind = "presence" /\ c = content
  <2>1. UNCHANGED <<unsaid, snapshot, missed, content>>
    BY <1>1, <1>4 DEF Collab!Write, TypedWrite
  <2> QED
    BY <1>1, <1>2, <1>4, <1>6, <2>1 DEF CollabInv, InStep, Heard
<1>5. CASE ~inTransaction /\ ~(kind = "presence" /\ c = content)
  <2>1. /\ snapshot' = IF stage = "mounted" THEN Collab!Snapshot(c) ELSE snapshot
        /\ missed' = (stage # "mounted")
        /\ unsaid' = unsaid
    BY <1>5 DEF Collab!Write, Collab!Notify, TypedWrite
  <2> QED
    BY <1>1, <1>2, <1>5, <1>6, <2>1 DEF CollabInv, InStep, Heard
<1> QED
  BY <1>3, <1>4, <1>5

(* One person's state set; a patched state is a state.                       *)
LEMMA OneSet ==
    ASSUME Formed(content), kind = "presence",
           NEW p \in People, NEW s \in Collab!States \cup {Nothing}
    PROVE  Formed([content EXCEPT ![p] = s])
  BY DEF Presences, Formed

LEMMA PatchedState ==
    ASSUME NEW state \in Collab!States \cup {Nothing}, NEW patch \in Collab!Patches
    PROVE  Collab!Patched(state, patch) \in Collab!States
<1>1. ASSUME NEW f \in Slots PROVE Collab!Field(state, f) \in Items \cup {Nothing}
  BY DEF Collab!Field, Collab!States
<1>2. ASSUME NEW f \in DOMAIN patch PROVE patch[f] \in Items
  BY DEF Collab!Patches
<1> QED
  BY <1>1, <1>2 DEF Collab!Patched, Collab!States

(* Every action of the model but four is a write.                            *)
LEMMA OthersWrite ==
    ASSUME Me \in People, CollabInv, Collab!Next
    PROVE  \/ \E c : TypedWrite(c)
           \/ Collab!Transact \/ Collab!Commit \/ Collab!Mount \/ Collab!Unmount
<1>0. Formed(content)
  BY DEF CollabInv
<1>1. ASSUME Collab!Peer PROVE \E c : TypedWrite(c)
  <2>1. CASE kind = "presence"
    <3>1. PICK p \in People, s \in Collab!States \cup {Nothing} :
             Collab!Write([content EXCEPT ![p] = s])
      BY <1>1, <2>1 DEF Collab!Peer
    <3> QED
      BY <1>0, <2>1, <3>1, OneSet DEF TypedWrite
  <2>2. CASE kind # "presence"
    <3>1. PICK c \in Collab!Contents : Collab!Write(c)
      BY <1>1, <2>2 DEF Collab!Peer
    <3>2. kind = "map" => DOMAIN c = Slots
      BY <3>1 DEF Collab!Contents
    <3> QED
      BY <2>2, <3>1, <3>2 DEF TypedWrite, Formed
  <2> QED
    BY <2>1, <2>2
<1>2. ASSUME Collab!Push \/ Collab!Insert \/ Collab!Delete PROVE \E c : TypedWrite(c)
  <2>1. kind # "presence" /\ kind # "map"
    BY <1>2 DEF Collab!Push, Collab!Insert, Collab!Delete, Collab!Sequential
  <2>2. \E c : Collab!Write(c)
    BY <1>2, Zenon DEF Collab!Push, Collab!Insert, Collab!Delete
  <2> QED
    BY <2>1, <2>2 DEF TypedWrite, Formed
<1>3. ASSUME Collab!Clear PROVE \E c : TypedWrite(c)
  BY <1>3 DEF Collab!Clear, TypedWrite, Formed
<1>6. ASSUME NEW k \in Slots, Collab!SetKey(k) \/ Collab!DeleteKey(k) PROVE \E c : TypedWrite(c)
  <2>1. kind = "map" /\ \E v : Collab!Write([content EXCEPT ![k] = v])
    BY <1>6 DEF Collab!SetKey, Collab!DeleteKey
  <2>2. PICK v : Collab!Write([content EXCEPT ![k] = v])
    BY <2>1
  <2>3. Formed([content EXCEPT ![k] = v])
    BY <1>0, <2>1 DEF Formed
  <2> QED
    BY <2>2, <2>3 DEF TypedWrite
<1>4. ASSUME Collab!SetLocal PROVE \E c : TypedWrite(c)
  <2>1. PICK s \in Collab!States \cup {Nothing} : Collab!Write([content EXCEPT ![Me] = s])
    BY <1>4 DEF Collab!SetLocal
  <2>2. kind = "presence"
    BY <1>4 DEF Collab!SetLocal
  <2> QED
    BY <1>0, <2>1, <2>2, OneSet DEF TypedWrite
<1>5. ASSUME NEW patch \in Collab!Patches, Collab!PatchLocal(patch) PROVE \E c : TypedWrite(c)
  <2>1. kind = "presence" /\ Collab!Write([content EXCEPT ![Me] = Collab!Patched(content[Me], patch)])
    BY <1>5 DEF Collab!PatchLocal, Collab!LocalState
  <2>2. content[Me] \in Collab!States \cup {Nothing}
    BY <1>0, <2>1 DEF Presences, Formed
  <2>3. Collab!Patched(content[Me], patch) \in Collab!States
    BY <2>2, PatchedState
  <2> QED
    BY <1>0, <2>1, <2>3, OneSet DEF TypedWrite
<1> QED
  BY <1>1, <1>2, <1>3, <1>4, <1>5, <1>6 DEF Collab!Next

LEMMA CollabInit == Collab!Init => CollabInv
  BY DEF Collab!Init, CollabInv, InStep, Heard, Collab!Contents, Presences, Formed

LEMMA CollabStep ==
    ASSUME Me \in People, CollabInv, [Collab!Next]_(Collab!vars)
    PROVE  CollabInv' /\ (stage = "gone" => snapshot' = snapshot)
<1>1. ASSUME kind' = kind, excludeLocal' = excludeLocal, content' = content
      PROVE  Collab!Snapshot(content)' = Collab!Snapshot(content)
  BY <1>1 DEF Collab!Snapshot, Collab!SnapshotYjsMap, Collab!SnapshotOthers
<1>2. CASE \E c : TypedWrite(c)
  BY <1>2, WriteKeeps
<1>3. CASE Collab!Transact
  BY <1>1, <1>3 DEF Collab!Transact, CollabInv, InStep, Heard, Formed
<1>4. CASE Collab!Commit
  BY <1>1, <1>4 DEF Collab!Commit, Collab!Notify, CollabInv, InStep, Heard, Formed
<1>5. CASE Collab!Mount
  <2>1. /\ stage = "created" /\ ~inTransaction /\ stage' = "mounted"
        /\ UNCHANGED <<kind, excludeLocal, content, inTransaction, unsaid>>
        /\ snapshot' = IF kind = "presence" THEN Collab!Snapshot(content) ELSE snapshot
        /\ missed' = (missed /\ kind # "presence")
    BY <1>5 DEF Collab!Mount, Collab!Refreshed
  <2> QED
    BY <1>1, <2>1 DEF CollabInv, InStep, Heard, Formed
<1>6. CASE Collab!Unmount
  BY <1>1, <1>6 DEF Collab!Unmount, CollabInv, InStep, Heard, Formed
<1>7. CASE UNCHANGED Collab!vars
  BY <1>1, <1>7 DEF Collab!vars, CollabInv, InStep, Heard, Formed
<1> QED
  BY <1>2, <1>3, <1>4, <1>5, <1>6, <1>7, OthersWrite

(* A write to one key leaves the others as they are ...                      *)
LEMMA KeyKeeps ==
    ASSUME NEW k \in Slots, Collab!SetKey(k) \/ Collab!DeleteKey(k),
           NEW other \in Slots \ {k}, CollabInv
    PROVE  content'[other] = content[other]
<1>1. DOMAIN content = Slots
  BY DEF CollabInv, Formed, Collab!SetKey, Collab!DeleteKey
<1>2. \E v : content' = [content EXCEPT ![k] = v]
  BY DEF Collab!SetKey, Collab!DeleteKey, Collab!Write
<1> QED
  BY <1>1, <1>2

(* ... and a patch the fields it does not name, and everybody else.          *)
LEMMA PatchKeeps ==
    ASSUME Me \in People, Nothing \notin Collab!States, CollabInv,
           NEW patch \in Collab!Patches, Collab!PatchLocal(patch)
    PROVE  /\ \A p \in People \ {Me} : content'[p] = content[p]
           /\ \A f \in Slots \ DOMAIN patch :
                 Collab!Field(content'[Me], f) = Collab!Field(content[Me], f)
<1> DEFINE state == Collab!Patched(content[Me], patch)
<1>1. content \in Presences /\ content' = [content EXCEPT ![Me] = state]
  BY DEF CollabInv, Formed, Collab!PatchLocal, Collab!LocalState, Collab!Write
<1>2. state \in Collab!States
  BY <1>1, PatchedState DEF Presences
<1>3. \A f \in Slots \ DOMAIN patch : state[f] = Collab!Field(content[Me], f)
  BY DEF Collab!Patched
<1> HIDE DEF state
<1>4. content'[Me] = state /\ \A p \in People \ {Me} : content'[p] = content[p]
  BY <1>1 DEF Presences
<1> QED
  BY <1>2, <1>3, <1>4 DEF Collab!Field

(* A mounted store shows the document unless a change came before its effect *)
(* ran and none since, which presence is spared; it is left alone when its   *)
(* component has gone; and a write to one key, or a patch of some fields,    *)
(* keeps all others as they are by then, whatever the component shows.       *)
THEOREM ShowsDocumentCorrect ==
    ASSUME Me \in People, Nothing \notin Collab!States PROVE Collab!Spec => ShowsDocument
<1>1. CollabInv => /\ stage = "mounted" /\ ~inTransaction /\ ~missed
                         => snapshot = Collab!Snapshot(content)
                   /\ stage = "mounted" /\ kind = "presence" => ~missed
  BY DEF CollabInv, InStep, Heard
<1>2. CollabInv /\ [Collab!Next]_(Collab!vars) =>
          [stage = "gone" => UNCHANGED snapshot]_(Collab!vars)
  BY CollabStep
<1> DEFINE KeysKept == \A k \in Slots : Collab!SetKey(k) \/ Collab!DeleteKey(k) =>
                          \A other \in Slots \ {k} : content'[other] = content[other]
           FieldsKept == \A patch \in Collab!Patches : Collab!PatchLocal(patch) =>
                          /\ \A p \in People \ {Me} : content'[p] = content[p]
                          /\ \A f \in Slots \ DOMAIN patch :
                                Collab!Field(content'[Me], f) = Collab!Field(content[Me], f)
<1>3. CollabInv => [KeysKept]_(Collab!vars)
  BY KeyKeeps
<1>4. CollabInv => [FieldsKept]_(Collab!vars)
  BY PatchKeeps
<1>5. CollabInv /\ [Collab!Next]_(Collab!vars) => CollabInv'
  BY CollabStep
<1> QED
  BY CollabInit, <1>1, <1>2, <1>3, <1>4, <1>5, PTL DEF Collab!Spec, ShowsDocument, Collab!ShowsDocument

------------------------------------------------------------------------------
(* FlowGraph: graphs of any size.                                            *)

LEMMA FlowCardinality ==
    \A S : Flow!Cardinality(S) = Cardinality(S)
  BY DEF Flow!Cardinality, Cardinality

LEMMA IntervalSize ==
    ASSUME NEW n \in Nat PROVE IsFiniteSet(1..n) /\ Cardinality(1..n) = n
<1>1. IsFiniteSet(1..n) /\ Cardinality(1..n) = IF 1 > n THEN 0 ELSE n - 1 + 1
  BY FS_Interval
<1> QED
  BY <1>1

LEMMA FlowMin ==
    ASSUME NEW S \in SUBSET Nat, S # {}
    PROVE  Flow!Min(S) \in S /\ \A x \in S : Flow!Min(S) <= x
<1>1. \E x \in S : \A y \in S : x <= y
  BY LeastNumber, Zenon
<1> QED
  BY <1>1 DEF Flow!Min

(* The graph, as the algorithms see it.                                      *)
Nodes == Flow!Elements(nodes)
Arcs == {e \in Flow!Ids \X Flow!Ids : (\E i \in DOMAIN edges : edges[i] = e) /\ Flow!Known(e)}
Outs == [id \in Flow!Ids |-> Flow!Outgoing(id)]

CanvasOK ==
    /\ MaxId \in Nat
    /\ nodes \in Seq(Flow!Ids)
    /\ edges \in Seq(Flow!Ids \X Flow!Ids)

LEMMA GraphStays ==
    ASSUME UNCHANGED <<nodes, edges>>
    PROVE  /\ Nodes' = Nodes /\ Arcs' = Arcs /\ Outs' = Outs
           /\ (Flow!Distinct <=> Flow!Distinct')
           /\ (CanvasOK <=> CanvasOK')
<1>1. Nodes' = Nodes
  BY DEF Nodes, Flow!Elements
<1>2. \A e : Flow!Known(e)' <=> Flow!Known(e)
  BY DEF Flow!Known, Flow!Elements
<1>3. Arcs' = Arcs
  BY <1>2 DEF Arcs
<1>4. ASSUME NEW id PROVE Flow!Outgoing(id)' = Flow!Outgoing(id)
  <2>1. {e \in {id} \X Flow!Ids : Flow!Known(e)}' = {e \in {id} \X Flow!Ids : Flow!Known(e)}
    BY <1>2
  <2> QED
    BY <2>1, Zenon DEF Flow!Outgoing
<1>5. Outs' = Outs
  BY <1>4, Zenon DEF Outs
<1>6. (Flow!Distinct <=> Flow!Distinct') /\ (CanvasOK <=> CanvasOK')
  BY DEF Flow!Distinct, Flow!Elements, CanvasOK
<1> QED
  BY <1>1, <1>3, <1>5, <1>6

LEMMA NodesAreIds ==
    ASSUME CanvasOK
    PROVE  /\ Nodes \subseteq Flow!Ids /\ Flow!Ids \subseteq Nat /\ IsFiniteSet(Flow!Ids)
           /\ Arcs \subseteq Nodes \X Nodes
           /\ IsFiniteSet(Nodes) /\ Cardinality(Nodes) <= Len(nodes)
<1>1. Flow!Ids \subseteq Nat /\ IsFiniteSet(Flow!Ids)
  BY FS_Interval DEF CanvasOK, Flow!Ids
<1>2. Nodes \subseteq Flow!Ids
  BY DEF CanvasOK, Nodes, Flow!Elements
<1>3. Arcs \subseteq Nodes \X Nodes
  BY DEF Arcs, Nodes, Flow!Known
<1>4. nodes \in Surjection(1..Len(nodes), Nodes)
  BY DEF CanvasOK, Nodes, Flow!Elements, Surjection
<1>5. IsFiniteSet(Nodes) /\ Cardinality(Nodes) <= Len(nodes)
  <2>1. Len(nodes) \in Nat
    BY DEF CanvasOK
  <2>2. IsFiniteSet(1..Len(nodes)) /\ Cardinality(1..Len(nodes)) = Len(nodes)
    BY <2>1, IntervalSize
  <2> QED
    BY <1>4, <2>2, FS_Surjection
<1> QED
  BY <1>1, <1>2, <1>3, <1>5

LEMMA EdgesAreArcs == ASSUME CanvasOK PROVE \A a, b : Flow!Edge(a, b) <=> <<a, b>> \in Arcs
<1> SUFFICES ASSUME NEW a, NEW b PROVE Flow!Edge(a, b) <=> <<a, b>> \in Arcs
  OBVIOUS
<1>1. \A i \in DOMAIN edges : edges[i] \in Flow!Ids \X Flow!Ids
  BY DEF CanvasOK
<1>2. Flow!Edge(a, b) <=> \E i \in DOMAIN edges : edges[i] = <<a, b>> /\ Flow!Known(<<a, b>>)
  BY Zenon DEF Flow!Edge
<1> QED
  BY <1>1, <1>2, Zenon DEF Arcs

(* The children of a node are the ends of its arcs, one for each edge.       *)
Leaving(es, arcs, set) == {i \in DOMAIN es : es[i] \in arcs /\ es[i][1] \in set}

LEMMA ArcsOfEdges ==
    ASSUME CanvasOK
    PROVE  \A i \in DOMAIN edges : /\ edges[i] \in Flow!Ids \X Flow!Ids
                                   /\ (Flow!Known(edges[i]) <=> edges[i] \in Arcs)
  BY DEF CanvasOK, Arcs

LEMMA Children ==
    ASSUME CanvasOK, NEW id \in Flow!Ids
    PROVE  /\ Outs[id] = Flow!Outgoing(id)
           /\ Outs[id] \in Seq(Flow!Ids)
           /\ \A j \in DOMAIN Outs[id] : <<id, Outs[id][j]>> \in Arcs
           /\ \A b : <<id, b>> \in Arcs => \E j \in DOMAIN Outs[id] : Outs[id][j] = b
           /\ Len(Outs[id]) = Cardinality(Leaving(edges, Arcs, {id}))
<1> DEFINE w == {e \in {id} \X Flow!Ids : Flow!Known(e)}
           k == Kept(edges, w)
<1>1. k = Flow!Kept(edges, w)
  BY DEF Kept, AreKept, Taken, Flow!Kept
<1>2. IsKept(k, Flow!Ids \X Flow!Ids, edges, Len(edges), w)
  BY KeptIsKept DEF CanvasOK
<1>3. Outs[id] = [i \in DOMAIN k |-> k[i][2]]
  BY <1>1 DEF Outs, Flow!Outgoing
<1>4. DOMAIN edges = 1..Len(edges) /\ Len(edges) \in Nat
  BY DEF CanvasOK
<1>5. \A i \in DOMAIN edges : edges[i] \in w <=> edges[i] \in Arcs /\ edges[i][1] = id
  BY ArcsOfEdges
<1>6. Wanted(edges, Len(edges), w) = Leaving(edges, Arcs, {id})
  BY <1>4, <1>5 DEF Wanted, Leaving
<1>7. /\ k \in Seq(Flow!Ids \X Flow!Ids)
      /\ \A i \in DOMAIN k : k[i] \in w /\ \E j \in DOMAIN edges : edges[j] = k[i]
      /\ \A j \in DOMAIN edges : edges[j] \in w => \E i \in DOMAIN k : k[i] = edges[j]
      /\ Len(k) = Cardinality(Leaving(edges, Arcs, {id}))
  BY <1>2, <1>4, <1>6 DEF IsKept, Wanted
<1> HIDE DEF k, w
<1>8. Outs[id] \in Seq(Flow!Ids) /\ Len(Outs[id]) = Len(k) /\ DOMAIN Outs[id] = DOMAIN k
  <2>1. Len(k) \in Nat /\ DOMAIN k = 1..Len(k) /\ \A i \in DOMAIN k : k[i][2] \in Flow!Ids
    <3>1. k \in Seq(Flow!Ids \X Flow!Ids)
      BY <1>7
    <3>2. ASSUME NEW i \in DOMAIN k PROVE k[i][2] \in Flow!Ids
      <4>1. k[i] \in Flow!Ids \X Flow!Ids
        BY <3>1
      <4> QED
        BY <4>1
    <3> QED
      BY <3>1, <3>2
  <2> QED
    BY <1>3, <2>1
<1>9. ASSUME NEW j \in DOMAIN k PROVE k[j] \in Arcs /\ k[j] = <<id, k[j][2]>>
  <2>1. PICK i \in DOMAIN edges : edges[i] = k[j]
    BY <1>7
  <2>2. k[j] \in Arcs /\ k[j][1] = id
    BY <1>5, <1>7, <2>1
  <2> QED
    BY <2>2 DEF Arcs
<1>10. ASSUME NEW b, <<id, b>> \in Arcs PROVE \E j \in DOMAIN k : k[j][2] = b
  <2>1. PICK i \in DOMAIN edges : edges[i] = <<id, b>>
    BY <1>10 DEF Arcs
  <2>2. edges[i] \in w
    BY <1>5, <1>10, <2>1
  <2>3. PICK j \in DOMAIN k : k[j] = <<id, b>>
    BY <1>7, <2>1, <2>2
  <2> QED
    BY <2>3
<1>11. Outs[id] = Flow!Outgoing(id)
  BY DEF Outs
<1>12. \A j \in DOMAIN Outs[id] : Outs[id][j] = k[j][2]
  BY <1>3, <1>8
<1>13. \A j \in DOMAIN Outs[id] : <<id, Outs[id][j]>> \in Arcs
  BY <1>8, <1>9, <1>12
<1>14. \A b : <<id, b>> \in Arcs => \E j \in DOMAIN Outs[id] : Outs[id][j] = b
  BY <1>8, <1>10, <1>12
<1> QED
  BY <1>7, <1>8, <1>11, <1>13, <1>14

(* Paths, of any set of arcs.                                                *)
ClosedIn(arcs, set) == \A e \in arcs : e[1] \in set => e[2] \in set
PathIn(arcs, a, b) ==
    \A set \in SUBSET Flow!Ids :
        ClosedIn(arcs, set) /\ (\A e \in arcs : e[1] = a => e[2] \in set) => b \in set
CycleIn(arcs) == \E id \in Flow!Ids : PathIn(arcs, id, id)

LEMMA PathsAgree ==
    ASSUME CanvasOK
    PROVE  /\ \A a, b \in Flow!Ids : Flow!Path(a, b) <=> PathIn(Arcs, a, b)
           /\ (Flow!Cyclic <=> CycleIn(Arcs))
<1>1. ASSUME NEW set \in SUBSET Flow!Ids PROVE Flow!Closed(set) <=> ClosedIn(Arcs, set)
  <2>1. CASE Flow!Closed(set)
    <3> SUFFICES ASSUME NEW e \in Arcs, e[1] \in set PROVE e[2] \in set
      BY <2>1 DEF ClosedIn
    <3>1. e = <<e[1], e[2]>> /\ e[2] \in Flow!Ids
      BY DEF Arcs
    <3>2. Flow!Edge(e[1], e[2])
      BY <3>1, EdgesAreArcs
    <3> QED
      BY <2>1, <3>1, <3>2 DEF Flow!Closed
  <2>2. CASE ClosedIn(Arcs, set)
    <3> SUFFICES ASSUME NEW a \in set, NEW b \in Flow!Ids, Flow!Edge(a, b) PROVE b \in set
      BY <2>2 DEF Flow!Closed
    <3>1. <<a, b>> \in Arcs
      BY EdgesAreArcs
    <3> QED
      BY <2>2, <3>1 DEF ClosedIn
  <2> QED
    BY <2>1, <2>2
<1>2. ASSUME NEW a \in Flow!Ids, NEW set \in SUBSET Flow!Ids
      PROVE  (\A c \in Flow!Ids : Flow!Edge(a, c) => c \in set)
                <=> (\A e \in Arcs : e[1] = a => e[2] \in set)
  <2>1. \A e \in Arcs : e = <<e[1], e[2]>> /\ e[2] \in Flow!Ids
    BY DEF Arcs
  <2>2. \A c : Flow!Edge(a, c) <=> <<a, c>> \in Arcs
    BY EdgesAreArcs
  <2>3. ASSUME \A c \in Flow!Ids : Flow!Edge(a, c) => c \in set, NEW e \in Arcs, e[1] = a
        PROVE  e[2] \in set
    BY <2>1, <2>2, <2>3
  <2>4. ASSUME \A e \in Arcs : e[1] = a => e[2] \in set, NEW c \in Flow!Ids, Flow!Edge(a, c)
        PROVE  c \in set
    <3>1. <<a, c>> \in Arcs /\ <<a, c>>[1] = a /\ <<a, c>>[2] = c
      BY <2>2, <2>4
    <3> QED
      BY <2>4, <3>1, Zenon
  <2> QED
    BY <2>3, <2>4
<1>3. ASSUME NEW a \in Flow!Ids, NEW b \in Flow!Ids
      PROVE  Flow!Path(a, b) <=> PathIn(Arcs, a, b)
  BY <1>1, <1>2 DEF Flow!Path, PathIn
<1> QED
  BY <1>3 DEF Flow!Cyclic, CycleIn

LEMMA PathsGrow ==
    ASSUME NEW A \in SUBSET (Flow!Ids \X Flow!Ids), NEW a, NEW b, NEW c, <<b, c>> \in A
    PROVE  /\ PathIn(A, b, c)
           /\ PathIn(A, a, b) => PathIn(A, a, c)
           /\ PathIn(A, c, a) => PathIn(A, b, a)
<1>1. PathIn(A, b, c)
  BY DEF PathIn, ClosedIn
<1>2. PathIn(A, a, b) => PathIn(A, a, c)
  BY DEF PathIn, ClosedIn
<1>3. PathIn(A, c, a) => PathIn(A, b, a)
  BY DEF PathIn, ClosedIn
<1> QED
  BY <1>1, <1>2, <1>3

(* Where every node of a finite set has a predecessor in it, there is a      *)
(* cycle: of the nodes with the most descendants, take one's predecessor.    *)
LEMMA CycleExists ==
    ASSUME CanvasOK, NEW A \in SUBSET (Flow!Ids \X Flow!Ids), NEW R \in SUBSET Flow!Ids, R # {},
           \A n \in R : \E p \in R : <<p, n>> \in A
    PROVE  CycleIn(A)
<1> DEFINE Below(a) == {b \in Flow!Ids : PathIn(A, a, b)}
           T == {MaxId - Cardinality(Below(a)) : a \in R}
<1> SUFFICES ASSUME ~CycleIn(A) PROVE FALSE
  OBVIOUS
<1>1. IsFiniteSet(Flow!Ids) /\ Cardinality(Flow!Ids) = MaxId /\ MaxId \in Nat
  BY FS_Interval DEF CanvasOK, Flow!Ids
<1>2. ASSUME NEW a PROVE IsFiniteSet(Below(a)) /\ Cardinality(Below(a)) \in 0..MaxId
  <2>1. IsFiniteSet(Below(a)) /\ Cardinality(Below(a)) <= MaxId
    BY <1>1, FS_Subset
  <2> QED
    BY <1>1, <2>1, FS_CardinalityType
<1>3. PICK a \in R : \A b \in R : Cardinality(Below(b)) <= Cardinality(Below(a))
  <2>1. T \subseteq Nat /\ T # {}
    <3>1. ASSUME NEW b \in R PROVE MaxId - Cardinality(Below(b)) \in Nat
      <4>1. Cardinality(Below(b)) \in 0..MaxId
        BY <1>2
      <4> HIDE DEF Below
      <4> QED
        BY <1>1, <4>1
    <3> HIDE DEF Below
    <3> QED
      BY <3>1
  <2>2. PICK x \in T : \A y \in T : x <= y
    BY <2>1, LeastNumber, Zenon
  <2>3. PICK a \in R : x = MaxId - Cardinality(Below(a))
    BY <2>2
  <2>4. ASSUME NEW b \in R PROVE Cardinality(Below(b)) <= Cardinality(Below(a))
    <3>1. MaxId - Cardinality(Below(a)) <= MaxId - Cardinality(Below(b))
      BY <2>2, <2>3
    <3> HIDE DEF Below
    <3> QED
      BY <1>1, <1>2, <3>1
  <2> QED
    BY <2>4
<1>4. PICK p \in R : <<p, a>> \in A
  OBVIOUS
<1>5. Below(a) \cup {a} \subseteq Below(p) /\ a \notin Below(a)
  BY <1>4, PathsGrow DEF CycleIn
<1>6. Cardinality(Below(a) \cup {a}) = Cardinality(Below(a)) + 1
  BY ZenonT(50), <1>2, <1>5, FS_AddElement
<1>7. Cardinality(Below(a) \cup {a}) <= Cardinality(Below(p))
  BY <1>2, <1>5, FS_Subset
<1>8. Cardinality(Below(p)) <= Cardinality(Below(a)) /\ Cardinality(Below(a)) \in 0..MaxId
      /\ Cardinality(Below(p)) \in 0..MaxId
  BY <1>2, <1>3
<1> HIDE DEF Below
<1> QED
  BY <1>6, <1>7, <1>8

LEMMA NextCanvas == ASSUME CanvasOK, Flow!Next PROVE CanvasOK'
<1> USE DEF CanvasOK
<1>1. CASE Flow!CreateNode
  BY <1>1 DEF Flow!CreateNode
<1>2. CASE Flow!Connect
  <2>1. PICK a \in Flow!Elements(nodes), b \in Flow!Elements(nodes) : edges' = Append(edges, <<a, b>>)
    BY <1>2 DEF Flow!Connect
  <2>2. a \in Flow!Ids /\ b \in Flow!Ids
    BY DEF Flow!Elements
  <2> QED
    BY <1>2, <2>1, <2>2 DEF Flow!Connect
<1>3. CASE Flow!Delete
  <2>0. \A w : Flow!Kept(nodes, w) = Kept(nodes, w) /\ Flow!Kept(edges, w) = Kept(edges, w)
    BY DEF Kept, AreKept, Taken, Flow!Kept
  <2>1. \A w : Flow!Kept(nodes, w) \in Seq(Flow!Ids) /\ Flow!Kept(edges, w) \in Seq(Flow!Ids \X Flow!Ids)
    <3>1. ASSUME NEW w
          PROVE  Kept(nodes, w) \in Seq(Flow!Ids) /\ Kept(edges, w) \in Seq(Flow!Ids \X Flow!Ids)
      BY KeptIsKept DEF IsKept
    <3> QED
      BY <2>0, <3>1
  <2> QED
    BY <1>3, <2>1 DEF Flow!Delete
<1>4. CASE UNCHANGED <<nodes, edges>>
  BY <1>4
<1>5. Flow!Sort \/ Flow!SortStep \/ Flow!SortEnds => UNCHANGED <<nodes, edges>>
  BY DEF Flow!Sort, Flow!SortStep, Flow!SortEnds, Flow!canvas
<1>6. Flow!FindCycles \/ Flow!Visit \/ Flow!SearchStep \/ Flow!SearchEnds => UNCHANGED <<nodes, edges>>
  BY DEF Flow!FindCycles, Flow!Visit, Flow!SearchStep, Flow!SearchEnds, Flow!canvas
<1>7. Flow!Reach \/ Flow!ReachStep \/ Flow!ReachEnds => UNCHANGED <<nodes, edges>>
  BY DEF Flow!Reach, Flow!ReachStep, Flow!ReachEnds, Flow!canvas
<1> QED
  BY <1>1, <1>2, <1>3, <1>4, <1>5, <1>6, <1>7 DEF Flow!Next

(* Each call of dag.ts leaves the graph alone.                               *)
LEMMA CallsKeepCanvas ==
    ASSUME Flow!Next, ~Flow!Edit
    PROVE  UNCHANGED <<nodes, edges>>
<1>1. ~Flow!CreateNode /\ ~Flow!Connect /\ ~Flow!Delete
  BY DEF Flow!CreateNode, Flow!Connect, Flow!Delete
<1>5. Flow!Sort \/ Flow!SortStep \/ Flow!SortEnds => UNCHANGED <<nodes, edges>>
  BY DEF Flow!Sort, Flow!SortStep, Flow!SortEnds, Flow!canvas
<1>6. Flow!FindCycles \/ Flow!Visit \/ Flow!SearchStep \/ Flow!SearchEnds => UNCHANGED <<nodes, edges>>
  BY DEF Flow!FindCycles, Flow!Visit, Flow!SearchStep, Flow!SearchEnds, Flow!canvas
<1>7. Flow!Reach \/ Flow!ReachStep \/ Flow!ReachEnds => UNCHANGED <<nodes, edges>>
  BY DEF Flow!Reach, Flow!ReachStep, Flow!ReachEnds, Flow!canvas
<1> QED
  BY <1>1, <1>5, <1>6, <1>7 DEF Flow!Next

(* topologicalSort(): what is emitted is in order, an indegree counts the    *)
(* edges from nodes that are not emitted, and what has none left is ready.   *)
Pending(es, arcs, n, done) == {i \in DOMAIN es : es[i] \in arcs /\ es[i][2] = n /\ es[i][1] \notin done}
InjectiveSeq(s) == \A i, j \in DOMAIN s : s[i] = s[j] => i = j
Emitted == Flow!Elements(order)

Counts ==
    /\ indegree = [n \in Nodes |-> indegree[n]]
    /\ \A n \in Nodes : indegree[n] = Cardinality(Pending(edges, Arcs, n, Emitted))
    /\ ready = {n \in Nodes : indegree[n] = 0} \ Emitted
    /\ \A n \in Emitted : indegree[n] = 0
Ordered ==
    /\ order \in Seq(Flow!Ids) /\ InjectiveSeq(order) /\ Emitted \subseteq Nodes
    /\ \A j \in DOMAIN order : \A a : <<a, order[j]>> \in Arcs => \E i \in DOMAIN order : i < j /\ order[i] = a
SortInv == task = "sort" => Counts /\ Ordered

LEMMA Pendings ==
    ASSUME CanvasOK, NEW n, NEW done
    PROVE  /\ Flow!EdgesInto(n) = Pending(edges, Arcs, n, {})
           /\ IsFiniteSet(Pending(edges, Arcs, n, done))
           /\ Cardinality(Pending(edges, Arcs, n, done)) \in Nat
           /\ (Cardinality(Pending(edges, Arcs, n, done)) = 0 <=> Pending(edges, Arcs, n, done) = {})
<1>1. Flow!EdgesInto(n) = Pending(edges, Arcs, n, {})
  BY ArcsOfEdges DEF Flow!EdgesInto, Pending
<1>2. IsFiniteSet(DOMAIN edges)
  <2>1. DOMAIN edges = 1..Len(edges) /\ Len(edges) \in Nat
    BY DEF CanvasOK
  <2> QED
    BY <2>1, IntervalSize
<1>3. IsFiniteSet(Pending(edges, Arcs, n, done))
  BY <1>2, FS_Subset DEF Pending
<1> QED
  BY <1>1, <1>3, FS_EmptySet, FS_CardinalityType

LEMMA SortBegins == ASSUME CanvasOK, Flow!Sort PROVE SortInv'
<1>1. UNCHANGED <<nodes, edges>> /\ order' = <<>>
      /\ indegree' = [n \in Nodes |-> Cardinality(Flow!EdgesInto(n))]
      /\ ready' = {n \in Nodes : Flow!EdgesInto(n) = {}}
  BY FlowCardinality DEF Flow!Sort, Flow!canvas, Nodes
<1>2. Nodes' = Nodes /\ Arcs' = Arcs /\ Emitted' = {}
  BY <1>1, GraphStays DEF Emitted, Flow!Elements
<1>3. \A n : /\ Flow!EdgesInto(n) = Pending(edges, Arcs, n, {})
             /\ Cardinality(Pending(edges, Arcs, n, {})) = 0 <=> Pending(edges, Arcs, n, {}) = {}
  BY Pendings
<1>4. Counts'
  BY <1>1, <1>2, <1>3 DEF Counts
<1>5. Ordered'
  BY <1>1, <1>2 DEF Ordered, InjectiveSeq
<1> QED
  BY <1>4, <1>5 DEF SortInv

(* A step emits the least node that is ready.                                *)
LEMMA SortGoesOn == ASSUME CanvasOK, SortInv, Flow!SortStep PROVE SortInv'
<1> DEFINE id == Flow!Min(ready)
           P(n) == Pending(edges, Arcs, n, Emitted)
           Q(n) == Pending(edges, Arcs, n, Emitted \cup {id})
<1>0. Counts /\ Ordered
  BY DEF SortInv, Flow!SortStep
<1>1. id \in ready /\ id \in Nodes /\ id \in Flow!Ids /\ id \notin Emitted /\ indegree[id] = 0
  <2>1. ready \subseteq Nat /\ ready # {}
    BY <1>0, NodesAreIds DEF Counts, Flow!SortStep
  <2>2. id \in ready
    BY <2>1, FlowMin
  <2> QED
    BY <1>0, <2>2, NodesAreIds DEF Counts
<1>2. UNCHANGED <<nodes, edges>> /\ order' = Append(order, id)
      /\ indegree' = Flow!Lowered(indegree, id)
      /\ ready' = (ready \ {id}) \cup {n \in DOMAIN indegree' : indegree'[n] = 0 /\ indegree[n] > 0}
  BY DEF Flow!SortStep, Flow!canvas
<1> HIDE DEF id
<1>3. Nodes' = Nodes /\ Arcs' = Arcs
  BY <1>2, GraphStays
<1>4. /\ order' \in Seq(Flow!Ids) /\ DOMAIN order' = 1..(Len(order) + 1) /\ Len(order) \in Nat
      /\ DOMAIN order = 1..Len(order)
      /\ \A i \in DOMAIN order : order'[i] = order[i]
      /\ order'[Len(order) + 1] = id
  BY <1>0, <1>1, <1>2 DEF Ordered
<1>5. Emitted' = Emitted \cup {id}
  BY <1>4 DEF Emitted, Flow!Elements
<1>6. ASSUME NEW n \in Nodes
      PROVE  /\ indegree'[n] = Cardinality(Q(n)) /\ Cardinality(Q(n)) \in Nat
             /\ indegree[n] = Cardinality(P(n)) /\ Cardinality(P(n)) \in Nat
             /\ indegree'[n] <= indegree[n]
  <2> DEFINE B == Flow!EdgesBetween(id, n)
  <2>1. B \subseteq P(n) /\ Q(n) = P(n) \ B
    <3>1. Flow!EdgesInto(n) = Pending(edges, Arcs, n, {})
      BY Pendings
    <3> QED
      BY <1>1, <3>1 DEF Flow!EdgesBetween, Pending
  <2>2. indegree'[n] = indegree[n] - Cardinality(B)
    <3>1. DOMAIN indegree = Nodes
      BY <1>0, Zenon DEF Counts
    <3> QED
      BY <1>2, <3>1, FlowCardinality DEF Flow!Lowered
  <2>3. indegree[n] = Cardinality(P(n))
    BY <1>0 DEF Counts
  <2>4. IsFiniteSet(P(n)) /\ Cardinality(P(n)) \in Nat /\ Cardinality(Q(n)) \in Nat
    BY Pendings
  <2>5. Cardinality(P(n) \ B) = Cardinality(P(n)) - Cardinality(P(n) \cap B) /\ P(n) \cap B = B
    BY <2>1, <2>4, FS_Difference
  <2>6. Cardinality(B) \in Nat
    BY <2>1, <2>4, FS_Subset, FS_CardinalityType
  <2>7. Cardinality(Q(n)) = Cardinality(P(n)) - Cardinality(B)
    BY <2>1, <2>5, Zenon
  <2> HIDE DEF B, P, Q
  <2> QED
    BY <2>2, <2>3, <2>4, <2>6, <2>7
<1>7. Counts'
  <2>1. indegree' = [n \in Nodes |-> indegree'[n]] /\ DOMAIN indegree' = Nodes
    <3>1. DOMAIN indegree = Nodes
      BY <1>0, Zenon DEF Counts
    <3> QED
      BY <1>2, <3>1 DEF Flow!Lowered
  <2>2. \A n \in Nodes : indegree'[n] = Cardinality(Pending(edges, Arcs, n, Emitted \cup {id}))
    BY <1>6
  <2>3. ready' = {n \in Nodes : indegree'[n] = 0} \ (Emitted \cup {id})
    <3>1. ready = {n \in Nodes : indegree[n] = 0} \ Emitted
      BY <1>0 DEF Counts
    <3>2. \A n \in Nodes : /\ indegree[n] \in Nat /\ indegree'[n] \in Nat /\ indegree'[n] <= indegree[n]
                           /\ (n \in Emitted \cup {id} => indegree[n] = 0)
      BY <1>0, <1>1, <1>6 DEF Counts
    <3>3. ready' = (ready \ {id}) \cup {n \in Nodes : indegree'[n] = 0 /\ indegree[n] > 0}
      BY <1>2, <2>1
    <3>4. ASSUME NEW n \in Nodes
          PROVE  n \in ready' <=> indegree'[n] = 0 /\ n \notin Emitted \cup {id}
      BY <3>1, <3>2, <3>3
    <3>5. ready' \subseteq Nodes
      BY <3>1, <3>3
    <3> QED
      BY <3>4, <3>5
  <2>4. \A n \in Emitted \cup {id} : indegree'[n] = 0
    <3>1. Emitted \cup {id} \subseteq Nodes
      BY <1>0, <1>1 DEF Ordered
    <3>2. \A n \in Emitted \cup {id} : indegree[n] = 0
      BY <1>0, <1>1 DEF Counts
    <3> QED
      BY <1>6, <3>1, <3>2
  <2> QED
    BY <1>2, <1>3, <1>5, <2>1, <2>2, <2>3, <2>4 DEF Counts
<1>8. Ordered'
  <2>1. InjectiveSeq(order')
    <3>1. \A i \in DOMAIN order : order[i] # id
      BY <1>1 DEF Emitted, Flow!Elements
    <3> QED
      BY <1>0, <1>4, <3>1 DEF Ordered, InjectiveSeq
  <2>2. ASSUME NEW a, <<a, id>> \in Arcs PROVE \E i \in DOMAIN order : order[i] = a
    <3>1. PICK i \in DOMAIN edges : edges[i] = <<a, id>>
      BY <2>2 DEF Arcs
    <3>2. P(id) = {}
      <4>1. Cardinality(P(id)) = 0
        BY <1>1, <1>6
      <4> QED
        BY <4>1, Pendings
    <3>3. a \in Emitted
      BY <2>2, <3>1, <3>2 DEF Pending
    <3> QED
      BY <3>3 DEF Emitted, Flow!Elements
  <2>3. ASSUME NEW j \in DOMAIN order', NEW a, <<a, order'[j]>> \in Arcs
        PROVE  \E i \in DOMAIN order' : i < j /\ order'[i] = a
    <3>1. CASE j = Len(order) + 1
      <4>1. PICK i \in DOMAIN order : order[i] = a
        BY <1>4, <2>2, <2>3, <3>1
      <4> QED
        BY <1>4, <3>1, <4>1
    <3>2. CASE j \in DOMAIN order
      <4>1. PICK i \in DOMAIN order : i < j /\ order[i] = a
        BY <1>0, <1>4, <2>3, <3>2 DEF Ordered
      <4> QED
        BY <1>4, <3>2, <4>1
    <3> QED
      BY <1>4, <3>1, <3>2
  <2> QED
    BY <1>0, <1>1, <1>3, <1>4, <1>5, <2>1, <2>3 DEF Ordered
<1> QED
  BY <1>7, <1>8 DEF SortInv

(* A sort that has emitted as many ids as there are nodes has emitted each   *)
(* node once; one of distinct ids that has not leaves a cycle.               *)
LEMMA SortedAll ==
    ASSUME CanvasOK, Ordered, Len(order) = Len(nodes)
    PROVE  /\ Emitted = Nodes
           /\ \A i, j \in DOMAIN order : <<order[i], order[j]>> \in Arcs => i < j
<1>1. Len(order) \in Nat /\ DOMAIN order = 1..Len(order)
  BY DEF Ordered
<1>2. order \in Bijection(1..Len(order), Emitted)
  BY <1>1 DEF Ordered, InjectiveSeq, Emitted, Flow!Elements, Bijection, Injection, Surjection, IsInjective
<1>3. Cardinality(Emitted) = Len(order)
  <2>1. ExistsBijection(1..Len(order), Emitted)
    BY <1>2 DEF ExistsBijection
  <2> QED
    BY <1>1, <2>1, FS_CountingElements
<1>4. IsFiniteSet(Nodes) /\ Cardinality(Nodes) <= Len(nodes) /\ Emitted \subseteq Nodes
  BY NodesAreIds DEF Ordered
<1>5. Cardinality(Emitted) <= Cardinality(Nodes) /\ Cardinality(Nodes) \in Nat
      /\ (Cardinality(Nodes) = Cardinality(Emitted) => Nodes = Emitted)
  BY <1>4, FS_Subset, FS_CardinalityType
<1>6. Emitted = Nodes
  BY <1>1, <1>3, <1>4, <1>5
<1>7. ASSUME NEW i \in DOMAIN order, NEW j \in DOMAIN order, <<order[i], order[j]>> \in Arcs
      PROVE  i < j
  <2>1. PICK k \in DOMAIN order : k < j /\ order[k] = order[i]
    BY <1>7 DEF Ordered
  <2> QED
    BY <2>1 DEF Ordered, InjectiveSeq
<1> QED
  BY <1>6, <1>7

LEMMA SortRefuses ==
    ASSUME CanvasOK, Counts, Ordered, ready = {}, Len(order) # Len(nodes), Flow!Distinct
    PROVE  CycleIn(Arcs)
<1> DEFINE R == Nodes \ Emitted
<1>1. R # {}
  <2> SUFFICES ASSUME R = {} PROVE FALSE
    OBVIOUS
  <2>1. Emitted = Nodes
    BY DEF Ordered
  <2>2. Len(order) \in Nat /\ DOMAIN order = 1..Len(order)
    BY DEF Ordered
  <2>3. order \in Bijection(1..Len(order), Emitted)
    BY <2>2 DEF Ordered, InjectiveSeq, Emitted, Flow!Elements, Bijection, Injection, Surjection, IsInjective
  <2>4. ExistsBijection(1..Len(order), Emitted)
    BY <2>3 DEF ExistsBijection
  <2>5. Cardinality(Emitted) = Len(order)
    BY <2>2, <2>4, FS_CountingElements
  <2>6. Cardinality(Nodes) = Len(nodes)
    BY FlowCardinality DEF Flow!Distinct, Nodes
  <2> QED
    BY <2>1, <2>5, <2>6
<1>2. ASSUME NEW n \in R PROVE \E p \in R : <<p, n>> \in Arcs
  <2>1. indegree[n] # 0 /\ indegree[n] = Cardinality(Pending(edges, Arcs, n, Emitted))
    BY <1>2 DEF Counts
  <2>2. Pending(edges, Arcs, n, Emitted) # {}
    BY <2>1, Pendings
  <2>3. PICK i \in DOMAIN edges : edges[i] \in Arcs /\ edges[i][2] = n /\ edges[i][1] \notin Emitted
    BY <2>2 DEF Pending
  <2>4. edges[i] = <<edges[i][1], n>> /\ edges[i][1] \in Nodes
    BY <2>3, NodesAreIds DEF Arcs
  <2> QED
    BY <2>3, <2>4
<1>3. R \in SUBSET Flow!Ids /\ Arcs \in SUBSET (Flow!Ids \X Flow!Ids)
  BY NodesAreIds DEF Arcs
<1> QED
  BY <1>1, <1>2, <1>3, CycleExists

LEMMA ElementsOfConcat ==
    ASSUME NEW S, NEW s \in Seq(S), NEW t \in Seq(S)
    PROVE  Flow!Elements(s \o t) = Flow!Elements(s) \cup Flow!Elements(t)
<1>0. DOMAIN s = 1..Len(s) /\ Len(s) \in Nat /\ DOMAIN t = 1..Len(t) /\ Len(t) \in Nat
  OBVIOUS
<1> DEFINE u == s \o t
<1>1. /\ DOMAIN u = 1..(Len(s) + Len(t))
      /\ \A i \in 1..Len(s) : u[i] = s[i]
      /\ \A i \in 1..Len(t) : u[Len(s) + i] = t[i]
  OBVIOUS
<1> HIDE DEF u
<1>2. ASSUME NEW i \in DOMAIN u PROVE u[i] \in Flow!Elements(s) \cup Flow!Elements(t)
  <2>1. CASE i \in 1..Len(s)
    BY <1>0, <1>1, <2>1 DEF Flow!Elements
  <2>2. CASE i \notin 1..Len(s)
    <3>1. i - Len(s) \in 1..Len(t) /\ Len(s) + (i - Len(s)) = i
      BY <1>0, <1>1, <2>2
    <3>2. u[i] = t[i - Len(s)]
      BY <1>1, <3>1
    <3> QED
      BY <1>0, <3>1, <3>2 DEF Flow!Elements
  <2> QED
    BY <2>1, <2>2
<1>3. \A i \in DOMAIN s : i \in DOMAIN u /\ u[i] = s[i]
  BY <1>0, <1>1
<1>4. \A i \in DOMAIN t : Len(s) + i \in DOMAIN u /\ u[Len(s) + i] = t[i]
  BY <1>0, <1>1
<1>5. Flow!Elements(u) = Flow!Elements(s) \cup Flow!Elements(t)
  BY <1>2, <1>3, <1>4 DEF Flow!Elements
<1> QED
  BY <1>5 DEF u

LEMMA ElementsOfAppend ==
    ASSUME NEW S, NEW s \in Seq(S), NEW e \in S
    PROVE  Flow!Elements(Append(s, e)) = Flow!Elements(s) \cup {e}
<1>0. DOMAIN s = 1..Len(s) /\ Len(s) \in Nat
  OBVIOUS
<1> DEFINE u == Append(s, e)
<1>1. DOMAIN u = 1..(Len(s) + 1) /\ u[Len(s) + 1] = e /\ \A i \in 1..Len(s) : u[i] = s[i]
  OBVIOUS
<1> HIDE DEF u
<1>2. DOMAIN u = DOMAIN s \cup {Len(s) + 1}
  BY <1>0, <1>1
<1>3. Flow!Elements(u) = Flow!Elements(s) \cup {e}
  BY <1>0, <1>1, <1>2 DEF Flow!Elements
<1> QED
  BY <1>3 DEF u

LEMMA ElementsOfTail ==
    ASSUME NEW S, NEW s \in Seq(S), s # <<>>
    PROVE  Flow!Elements(s) = Flow!Elements(Tail(s)) \cup {Head(s)}
<1>0. DOMAIN s = 1..Len(s) /\ Len(s) \in Nat
  OBVIOUS
<1> DEFINE u == Tail(s)
<1>1. /\ DOMAIN u = 1..(Len(s) - 1) /\ Len(s) > 0 /\ Head(s) = s[1]
      /\ \A i \in 1..(Len(s) - 1) : u[i] = s[i + 1]
  OBVIOUS
<1> HIDE DEF u
<1>2. ASSUME NEW i \in DOMAIN s PROVE s[i] \in Flow!Elements(u) \cup {Head(s)}
  <2>1. CASE i # 1
    <3>1. i - 1 \in DOMAIN u /\ u[i - 1] = s[i]
      BY <1>0, <1>1, <2>1
    <3> QED
      BY <3>1 DEF Flow!Elements
  <2> QED
    BY <1>1, <2>1
<1>3. \A i \in DOMAIN u : i + 1 \in DOMAIN s /\ u[i] = s[i + 1]
  BY <1>0, <1>1
<1>4. 1 \in DOMAIN s
  BY <1>0, <1>1
<1>5. Flow!Elements(s) = Flow!Elements(u) \cup {Head(s)}
  BY <1>1, <1>2, <1>3, <1>4 DEF Flow!Elements
<1> QED
  BY <1>5 DEF u

(* reachableFrom(): each step takes one from the queue, and an edge is put   *)
(* there once, when the node that it leaves is reached.                      *)
Spread == reached \cup Flow!Elements(queue)
ReachInv ==
    task = "reach" =>
        /\ start \in Flow!Ids /\ queue \in Seq(Flow!Ids) /\ reached \subseteq Flow!Ids /\ steps \in Nat
        /\ steps + Len(queue) = 1 + Cardinality(Leaving(edges, Arcs, reached))
        /\ \A e \in Arcs : e[1] \in reached => e[2] \in Spread
        /\ \A b \in Spread : b = start \/ PathIn(Arcs, start, b)
        /\ start \in Spread

LEMMA Leavings ==
    ASSUME CanvasOK, NEW set
    PROVE  /\ IsFiniteSet(Leaving(edges, Arcs, set))
           /\ Cardinality(Leaving(edges, Arcs, set)) \in 0..Len(edges)
<1>1. DOMAIN edges = 1..Len(edges) /\ Len(edges) \in Nat
  BY DEF CanvasOK
<1>2. IsFiniteSet(DOMAIN edges) /\ Cardinality(DOMAIN edges) = Len(edges)
  BY <1>1, IntervalSize
<1>3. Leaving(edges, Arcs, set) \in SUBSET (DOMAIN edges)
  BY DEF Leaving
<1>4. IsFiniteSet(Leaving(edges, Arcs, set)) /\ Cardinality(Leaving(edges, Arcs, set)) <= Len(edges)
  BY <1>2, <1>3, FS_Subset
<1> QED
  BY <1>1, <1>4, FS_CardinalityType

LEMMA ReachBegins == ASSUME CanvasOK, Flow!Reach PROVE ReachInv'
<1>1. UNCHANGED <<nodes, edges>> /\ start' \in Flow!Ids /\ queue' = <<start'>> /\ reached' = {} /\ steps' = 0
  BY DEF Flow!Reach, Flow!canvas
<1>2. Arcs' = Arcs
  BY <1>1, GraphStays
<1>3. Spread' = {start'} /\ Len(queue') = 1 /\ queue' \in Seq(Flow!Ids)
  BY <1>1 DEF Spread, Flow!Elements
<1>4. Cardinality(Leaving(edges, Arcs, {})) = 0
  <2>1. Leaving(edges, Arcs, {}) = {}
    BY DEF Leaving
  <2> QED
    BY <2>1, FS_EmptySet
<1> QED
  BY <1>1, <1>2, <1>3, <1>4 DEF ReachInv

LEMMA ReachGoesOn == ASSUME CanvasOK, ReachInv, Flow!ReachStep PROVE ReachInv'
<1> DEFINE h == Head(queue)
           L(set) == Leaving(edges, Arcs, set)
<1>1. /\ UNCHANGED <<nodes, edges, start>>
      /\ queue # <<>> /\ steps' = steps + 1 /\ reached' = reached \cup {h}
      /\ queue' = IF h \in reached THEN Tail(queue) ELSE Tail(queue) \o Flow!Outgoing(h)
  BY DEF Flow!ReachStep, Flow!canvas
<1>2. Arcs' = Arcs
  BY <1>1, GraphStays
<1>3. /\ start \in Flow!Ids /\ queue \in Seq(Flow!Ids) /\ reached \subseteq Flow!Ids /\ steps \in Nat
      /\ steps + Len(queue) = 1 + Cardinality(L(reached))
      /\ \A e \in Arcs : e[1] \in reached => e[2] \in Spread
      /\ \A b \in Spread : b = start \/ PathIn(Arcs, start, b)
      /\ start \in Spread
  BY DEF ReachInv, Flow!ReachStep
<1>4. h \in Flow!Ids /\ Tail(queue) \in Seq(Flow!Ids) /\ Len(Tail(queue)) = Len(queue) - 1 /\ Len(queue) \in Nat
  BY <1>1, <1>3
<1>5. Flow!Elements(queue) = Flow!Elements(Tail(queue)) \cup {h}
  BY SMTT(30), <1>1, <1>3, <1>4, ElementsOfTail
<1>6. CASE h \in reached
  <2>1. reached' = reached /\ queue' = Tail(queue) /\ Spread' = Spread
    BY <1>1, <1>5, <1>6 DEF Spread
  <2>2. steps' \in Nat /\ steps' + Len(queue') = 1 + Cardinality(L(reached))
    <3>1. Cardinality(L(reached)) \in Nat
      BY SMTT(30), Leavings
    <3>2. steps' = steps + 1 /\ Len(queue') = Len(queue) - 1
      BY <1>1, <1>4, <2>1
    <3>3. steps \in Nat /\ Len(queue) \in Nat /\ steps + Len(queue) = 1 + Cardinality(L(reached))
      BY <1>3, <1>4
    <3> HIDE DEF L
    <3> QED
      BY <3>1, <3>2, <3>3
  <2> QED
    BY <1>1, <1>2, <1>3, <1>4, <2>1, <2>2 DEF ReachInv
<1>7. CASE h \notin reached
  <2> DEFINE o == Outs[h]
  <2>1. /\ o = Flow!Outgoing(h) /\ o \in Seq(Flow!Ids)
        /\ \A j \in DOMAIN o : <<h, o[j]>> \in Arcs
        /\ \A b : <<h, b>> \in Arcs => \E j \in DOMAIN o : o[j] = b
        /\ Len(o) = Cardinality(L({h}))
    BY <1>4, Children
  <2> HIDE DEF o
  <2>2. queue' = Tail(queue) \o o /\ queue' \in Seq(Flow!Ids) /\ Len(queue') = Len(queue) - 1 + Len(o)
    BY <1>1, <1>4, <1>7, <2>1
  <2>3. Spread' = Spread \cup Flow!Elements(o)
    <3>1. Flow!Elements(queue') = Flow!Elements(Tail(queue)) \cup Flow!Elements(o)
      <4>1. Tail(queue) \in Seq(Flow!Ids) /\ o \in Seq(Flow!Ids) /\ h \in Flow!Ids
        BY <1>4, <2>1
      <4>2. Flow!Elements(Tail(queue) \o o) = Flow!Elements(Tail(queue)) \cup Flow!Elements(o)
        BY ZenonT(50), <4>1, ElementsOfConcat
      <4> QED
        BY <2>2, <4>2
    <3> QED
      BY <1>1, <1>5, <3>1 DEF Spread
  <2>4. Cardinality(L(reached')) = Cardinality(L(reached)) + Cardinality(L({h}))
    <3>1. L(reached') = L(reached) \cup L({h}) /\ L(reached) \cap L({h}) = {}
      BY <1>1, <1>7 DEF Leaving
    <3>2. IsFiniteSet(L(reached)) /\ IsFiniteSet(L({h}))
          /\ Cardinality(L(reached)) \in Nat /\ Cardinality(L({h})) \in Nat
      BY Leavings
    <3>3. Cardinality(L(reached) \cup L({h})) =
              Cardinality(L(reached)) + Cardinality(L({h})) - Cardinality(L(reached) \cap L({h}))
      BY <3>2, FS_Union
    <3>4. Cardinality(L(reached) \cap L({h})) = 0
      BY <3>1, FS_EmptySet
    <3> HIDE DEF L
    <3> QED
      BY <3>1, <3>2, <3>3, <3>4
  <2>5. steps' \in Nat /\ steps' + Len(queue') = 1 + Cardinality(L(reached'))
    <3>1. Cardinality(L(reached)) \in Nat /\ Cardinality(L({h})) \in Nat /\ Len(o) \in Nat
      BY Leavings, <2>1
    <3>2. Len(o) = Cardinality(L({h})) /\ steps' = steps + 1 /\ Len(queue') = Len(queue) - 1 + Len(o)
      BY <1>1, <2>1, <2>2
    <3>3. steps \in Nat /\ Len(queue) \in Nat /\ steps + Len(queue) = 1 + Cardinality(L(reached))
      BY <1>3, <1>4
    <3> HIDE DEF L
    <3> QED
      BY <2>4, <3>1, <3>2, <3>3
  <2>6. ASSUME NEW e \in Arcs, e[1] \in reached' PROVE e[2] \in Spread'
    <3>1. CASE e[1] \in reached
      BY <1>3, <2>3, <3>1
    <3>2. CASE e[1] = h
      <4>1. e = <<h, e[2]>>
        BY <3>2 DEF Arcs
      <4>2. \E j \in DOMAIN o : o[j] = e[2]
        BY <2>1, <4>1
      <4> QED
        BY <2>3, <4>2 DEF Flow!Elements
    <3> QED
      BY <1>1, <2>6, <3>1, <3>2
  <2>7. ASSUME NEW b \in Spread' PROVE b = start \/ PathIn(Arcs, start, b)
    <3>1. CASE b \in Spread
      BY <1>3, <3>1
    <3>2. CASE b \in Flow!Elements(o)
      <4>1. <<h, b>> \in Arcs /\ Arcs \in SUBSET (Flow!Ids \X Flow!Ids)
        BY <2>1, <3>2 DEF Flow!Elements, Arcs
      <4>2. h = start \/ PathIn(Arcs, start, h)
        BY <1>3, <1>5 DEF Spread
      <4> QED
        BY <4>1, <4>2, PathsGrow
    <3> QED
      BY <2>3, <3>1, <3>2
  <2>8. reached' \subseteq Flow!Ids /\ start \in Spread'
    BY <1>1, <1>3, <1>4, <2>3
  <2> QED
    BY <1>1, <1>2, <1>3, <2>2, <2>5, <2>6, <2>7, <2>8 DEF ReachInv
<1> QED
  BY <1>6, <1>7

(* The bound of edges + 1 steps is never too small: when it is met, or the   *)
(* queue is empty, nothing is left to reach.                                 *)
LEMMA ReachedAll ==
    ASSUME CanvasOK, ReachInv, task = "reach", queue = <<>> \/ steps = Flow!MaxSteps
    PROVE  /\ start \in Flow!Ids
           /\ reached \ {start} = {b \in Flow!Ids \ {start} : PathIn(Arcs, start, b)}
<1>1. /\ start \in Flow!Ids /\ queue \in Seq(Flow!Ids) /\ reached \subseteq Flow!Ids /\ steps \in Nat
      /\ steps + Len(queue) = 1 + Cardinality(Leaving(edges, Arcs, reached))
      /\ \A e \in Arcs : e[1] \in reached => e[2] \in Spread
      /\ \A b \in Spread : b = start \/ PathIn(Arcs, start, b)
      /\ start \in Spread
  BY DEF ReachInv
<1>2. queue = <<>>
  <2> SUFFICES ASSUME steps = Len(edges) + 1 PROVE queue = <<>>
    BY DEF Flow!MaxSteps
  <2>1. Cardinality(Leaving(edges, Arcs, reached)) \in 0..Len(edges) /\ Len(edges) \in Nat /\ Len(queue) \in Nat
    BY <1>1, Leavings DEF CanvasOK
  <2>2. Len(queue) = 0
    BY <1>1, <2>1
  <2> QED
    BY <1>1, <2>2
<1>3. Spread = reached
  BY <1>2 DEF Spread, Flow!Elements
<1>4. ASSUME NEW b \in Flow!Ids, PathIn(Arcs, start, b) PROVE b \in reached
  <2>1. ClosedIn(Arcs, reached) /\ \A e \in Arcs : e[1] = start => e[2] \in reached
    BY <1>1, <1>3 DEF ClosedIn
  <2> QED
    BY <1>1, <1>4, <2>1 DEF PathIn
<1> QED
  BY <1>1, <1>3, <1>4

(* findCycles(): the stack is a path, and each frame has a child to look at  *)
(* next; what is visited and not on the stack is done with, and as long as   *)
(* no cycle was found no arc leaves it and no cycle goes through it.         *)
Frame == [id : Flow!Ids, next : Nat]
IsCycle(c, arcs) == c[1] = c[Len(c)] /\ \A i \in 1..(Len(c) - 1) : <<c[i], c[i + 1]>> \in arcs
Searches == task \in {"cycles", "explain"}
DoneWith == visited \ Flow!Elements(stack)

StackOK ==
    /\ frames \in Seq(Frame) /\ stack \in Seq(Flow!Ids) /\ Len(frames) = Len(stack)
    /\ \A i \in DOMAIN stack : frames[i].id = stack[i] /\ frames[i].next \in 1..(Len(Outs[stack[i]]) + 1)
    /\ InjectiveSeq(stack)
    /\ \A i \in 1..(Len(stack) - 1) : <<stack[i], stack[i + 1]>> \in Arcs
    /\ Flow!Elements(stack) \subseteq visited /\ visited \subseteq Nodes
RootOK == root \in 1..(Len(nodes) + 1) /\ \A k \in 1..(root - 1) : nodes[k] \in visited
CyclesOK == cycles \in Seq(Seq(Flow!Ids)) /\ \A i \in DOMAIN cycles : IsCycle(cycles[i], Arcs)
Looked ==
    \A i \in DOMAIN stack : \A j \in 1..(frames[i].next - 1) :
        Outs[stack[i]][j] \in DoneWith \cup {stack[m] : m \in (i + 1)..Len(stack)}
Clean ==
    cycles = <<>> => /\ ClosedIn(Arcs, DoneWith) /\ \A d \in DoneWith : ~PathIn(Arcs, d, d)
                     /\ Looked
Explains == task = "explain" /\ Flow!Distinct => CycleIn(Arcs)
SearchInv == Searches => StackOK /\ RootOK /\ CyclesOK /\ Clean /\ Explains

LEMMA SearchBegins ==
    ASSUME CanvasOK, UNCHANGED <<nodes, edges>>, NEW for \in {"cycles", "explain"}, Flow!BeginSearch(for),
           for = "explain" /\ Flow!Distinct => CycleIn(Arcs)
    PROVE  SearchInv'
<1>1. /\ root' = 1 /\ frames' = <<>> /\ visited' = {} /\ stack' = <<>> /\ cycles' = <<>> /\ task' = for
      /\ Arcs' = Arcs /\ Nodes' = Nodes /\ Outs' = Outs /\ (Flow!Distinct <=> Flow!Distinct')
  BY GraphStays DEF Flow!BeginSearch
<1>2. DoneWith' = {} /\ Flow!Elements(stack') = {}
  BY <1>1 DEF DoneWith, Flow!Elements
<1>3. StackOK'
  BY <1>1, <1>2 DEF StackOK, InjectiveSeq
<1>4. RootOK'
  BY <1>1 DEF RootOK, CanvasOK
<1>5. CyclesOK'
  BY <1>1 DEF CyclesOK
<1>6. Clean'
  BY <1>1, <1>2 DEF Clean, ClosedIn, Looked
<1>7. Explains'
  BY <1>1 DEF Explains
<1> QED
  BY <1>3, <1>4, <1>5, <1>6, <1>7 DEF SearchInv

(* A node is entered: it goes on the stack with a frame of its own.          *)
LEMMA Enters ==
    ASSUME CanvasOK, StackOK, Clean, NEW id \in Nodes, id \notin visited,
           UNCHANGED <<nodes, edges, cycles>>, Flow!Enter(id),
           NEW fs, fs \in Seq(Frame), Len(fs) = Len(stack),
           \A i \in DOMAIN stack : /\ fs[i].id = stack[i] /\ fs[i].next \in 1..(Len(Outs[stack[i]]) + 1)
                                   /\ \A j \in 1..(fs[i].next - 1) :
                                        j \in 1..(frames[i].next - 1) \/ (i = Len(stack) /\ Outs[stack[i]][j] = id),
           stack # <<>> => <<stack[Len(stack)], id>> \in Arcs,
           frames' = Append(fs, [id |-> id, next |-> 1])
    PROVE  StackOK' /\ Clean'
<1> DEFINE n == Len(stack)
<1>1. /\ visited' = visited \cup {id} /\ stack' = Append(stack, id)
      /\ Arcs' = Arcs /\ Nodes' = Nodes /\ Outs' = Outs
  BY GraphStays DEF Flow!Enter
<1>2. stack \in Seq(Flow!Ids) /\ id \in Flow!Ids /\ n \in Nat /\ DOMAIN stack = 1..n
  BY NodesAreIds DEF StackOK
<1>3. /\ stack' \in Seq(Flow!Ids) /\ Len(stack') = n + 1 /\ DOMAIN stack' = 1..(n + 1)
      /\ stack'[n + 1] = id /\ \A i \in 1..n : stack'[i] = stack[i]
  BY <1>1, <1>2
<1>4. /\ frames' \in Seq(Frame) /\ Len(frames') = n + 1
      /\ frames'[n + 1] = [id |-> id, next |-> 1] /\ \A i \in 1..n : frames'[i] = fs[i]
  <2>1. [id |-> id, next |-> 1] \in Frame
    BY <1>2 DEF Frame
  <2> QED
    BY <1>2, <2>1
<1>5. Flow!Elements(stack') = Flow!Elements(stack) \cup {id} /\ id \notin Flow!Elements(stack)
  BY <1>1, <1>2, ElementsOfAppend DEF StackOK
<1>6. DoneWith' = DoneWith
  BY <1>1, <1>5 DEF DoneWith
<1>7. StackOK'
  <2>1. ASSUME NEW i \in DOMAIN stack'
        PROVE  frames'[i].id = stack'[i] /\ frames'[i].next \in 1..(Len(Outs[stack'[i]]) + 1)
    <3>1. CASE i = n + 1
      <4>1. Len(Outs[id]) \in Nat
        BY <1>2, Children
      <4> QED
        BY <1>3, <1>4, <3>1, <4>1
    <3>2. CASE i \in 1..n
      BY <1>2, <1>3, <1>4, <3>2
    <3> QED
      BY <1>2, <1>3, <3>1, <3>2
  <2>2. InjectiveSeq(stack')
    <3>1. \A i \in 1..n : stack[i] # id
      BY <1>2, <1>5 DEF Flow!Elements
    <3>2. \A i, j \in 1..n : stack[i] = stack[j] => i = j
      BY <1>2 DEF InjectiveSeq, StackOK
    <3>3. ASSUME NEW i \in 1..(n + 1), NEW j \in 1..(n + 1), stack'[i] = stack'[j] PROVE i = j
      <4>1. i = n + 1 \/ (i \in 1..n /\ stack'[i] = stack[i] /\ stack[i] # id)
        BY <1>2, <1>3, <3>1
      <4>2. j = n + 1 \/ (j \in 1..n /\ stack'[j] = stack[j] /\ stack[j] # id)
        BY <1>2, <1>3, <3>1
      <4> QED
        BY <1>3, <3>2, <3>3, <4>1, <4>2
    <3> QED
      BY <1>3, <3>3 DEF InjectiveSeq
  <2>3. ASSUME NEW i \in 1..(Len(stack') - 1) PROVE <<stack'[i], stack'[i + 1]>> \in Arcs
    <3>1. CASE i = n
      <4>1. i \in 1..n /\ stack'[i] = stack[n] /\ stack'[i + 1] = id
        BY <1>2, <1>3, <2>3, <3>1
      <4>2. stack # <<>>
        BY <1>2, <3>1, <4>1
      <4> QED
        BY <4>1, <4>2
    <3>2. CASE i \in 1..(n - 1)
      BY <1>2, <1>3, <3>2 DEF StackOK
    <3> QED
      BY <1>2, <1>3, <3>1, <3>2
  <2>4. Flow!Elements(stack') \subseteq visited' /\ visited' \subseteq Nodes
    BY <1>1, <1>5 DEF StackOK
  <2> QED
    BY <1>1, <1>3, <1>4, <2>1, <2>2, <2>3, <2>4 DEF StackOK
<1>8. Clean'
  <2> SUFFICES ASSUME cycles = <<>>, NEW i \in DOMAIN stack', NEW j \in 1..(frames'[i].next - 1)
               PROVE  Outs[stack'[i]][j] \in DoneWith \cup {stack'[m] : m \in (i + 1)..Len(stack')}
    BY <1>1, <1>6 DEF Clean, Looked
  <2>1. i # n + 1
    BY <1>4
  <2>2. i \in 1..n /\ stack'[i] = stack[i] /\ frames'[i] = fs[i]
    BY <1>2, <1>3, <1>4, <2>1
  <2>3. CASE j \in 1..(frames[i].next - 1)
    <3>1. Outs[stack[i]][j] \in DoneWith \cup {stack[m] : m \in (i + 1)..n}
      BY <1>2, <2>2, <2>3 DEF Clean, Looked
    <3>2. \A m \in (i + 1)..n : m \in (i + 1)..(n + 1) /\ stack'[m] = stack[m]
      BY <1>2, <1>3, <2>2
    <3> QED
      BY <1>3, <2>2, <3>1, <3>2
  <2>4. CASE i = n /\ Outs[stack[i]][j] = id
    <3>1. n + 1 \in (i + 1)..Len(stack') /\ stack'[n + 1] = id
      BY <1>2, <1>3, <2>4
    <3> QED
      BY <2>2, <2>4, <3>1
  <2> QED
    BY <1>2, <2>2, <2>3, <2>4
<1> QED
  BY <1>7, <1>8

(* A node is left: all its children are done with, so it is on no cycle.     *)
LEMMA Leaves ==
    ASSUME CanvasOK, StackOK, Clean, stack # <<>>,
           frames[Len(frames)].next > Len(Outs[frames[Len(frames)].id]),
           UNCHANGED <<nodes, edges, cycles, visited>>,
           stack' = SubSeq(stack, 1, Len(stack) - 1),
           frames' = SubSeq(frames, 1, Len(frames) - 1)
    PROVE  StackOK' /\ Clean'
<1> DEFINE n == Len(stack)
           t == stack[Len(stack)]
<1>1. Arcs' = Arcs /\ Nodes' = Nodes /\ Outs' = Outs
  BY GraphStays
<1>2. stack \in Seq(Flow!Ids) /\ n \in Nat /\ n > 0 /\ DOMAIN stack = 1..n /\ t \in Flow!Ids
      /\ frames \in Seq(Frame) /\ Len(frames) = n
  BY DEF StackOK
<1>3. /\ stack' \in Seq(Flow!Ids) /\ Len(stack') = n - 1 /\ DOMAIN stack' = 1..(n - 1)
      /\ \A i \in 1..(n - 1) : stack'[i] = stack[i]
  BY <1>2
<1>4. /\ frames' \in Seq(Frame) /\ Len(frames') = n - 1
      /\ \A i \in 1..(n - 1) : frames'[i] = frames[i]
  BY <1>2
<1>5. Flow!Elements(stack') = Flow!Elements(stack) \ {t} /\ t \in Flow!Elements(stack)
  <2>1. \A i \in 1..(n - 1) : stack[i] # t
    BY <1>2 DEF StackOK, InjectiveSeq
  <2>2. Flow!Elements(stack') = {stack[i] : i \in 1..(n - 1)}
    BY <1>3, Zenon DEF Flow!Elements
  <2>3. Flow!Elements(stack) = {stack[i] : i \in 1..n}
    BY <1>2, Zenon DEF Flow!Elements
  <2>4. 1..n = 1..(n - 1) \cup {n}
    BY <1>2
  <2> QED
    BY <2>1, <2>2, <2>3, <2>4
<1>6. DoneWith' = DoneWith \cup {t} /\ t \notin DoneWith
  BY <1>5 DEF DoneWith, StackOK
<1>7. StackOK'
  <2>1. InjectiveSeq(stack')
    BY <1>2, <1>3 DEF StackOK, InjectiveSeq
  <2>2. \A i \in DOMAIN stack' : frames'[i].id = stack'[i] /\ frames'[i].next \in 1..(Len(Outs[stack'[i]]) + 1)
    BY <1>2, <1>3, <1>4 DEF StackOK
  <2>3. \A i \in 1..(Len(stack') - 1) : <<stack'[i], stack'[i + 1]>> \in Arcs
    BY <1>2, <1>3 DEF StackOK
  <2>4. Flow!Elements(stack') \subseteq visited /\ visited \subseteq Nodes
    BY <1>5 DEF StackOK
  <2> QED
    BY <1>1, <1>3, <1>4, <2>1, <2>2, <2>3, <2>4 DEF StackOK
<1>8. Clean'
  <2> SUFFICES ASSUME cycles = <<>>
               PROVE  /\ ClosedIn(Arcs, DoneWith') /\ \A d \in DoneWith' : ~PathIn(Arcs, d, d)
                      /\ Looked'
    BY <1>1 DEF Clean
  <2>1. ASSUME NEW e \in Arcs, e[1] = t PROVE e[2] \in DoneWith
    <3>1. e = <<t, e[2]>>
      BY <2>1 DEF Arcs
    <3>2. PICK j \in DOMAIN Outs[t] : Outs[t][j] = e[2]
      <4>1. <<t, e[2]>> \in Arcs /\ t \in Flow!Ids
        BY <1>2, <3>1
      <4> HIDE DEF t
      <4> QED
        BY <4>1, Children
    <3>3. Outs[t] \in Seq(Flow!Ids)
      BY <1>2, Children
    <3>4. frames[n].id = t /\ frames[n].next > Len(Outs[t]) /\ frames[n].next \in Nat /\ n \in DOMAIN stack
      BY <1>2, <3>3 DEF StackOK
    <3>5. j \in 1..(frames[n].next - 1)
      BY SMTT(30), <3>2, <3>3, <3>4
    <3>6. Outs[stack[n]][j] \in DoneWith \cup {stack[m] : m \in (n + 1)..Len(stack)}
      BY <3>4, <3>5 DEF Clean, Looked
    <3>7. (n + 1)..Len(stack) = {}
      BY <1>2
    <3> QED
      BY <3>2, <3>6, <3>7
  <2>2. ClosedIn(Arcs, DoneWith) /\ \A d \in DoneWith : ~PathIn(Arcs, d, d)
    BY DEF Clean
  <2>3. ClosedIn(Arcs, DoneWith \cup {t})
    BY <2>1, <2>2 DEF ClosedIn
  <2>4. ~PathIn(Arcs, t, t)
    <3>1. DoneWith \in SUBSET Flow!Ids
      BY NodesAreIds DEF DoneWith, StackOK
    <3> QED
      BY <1>6, <2>1, <2>2, <3>1 DEF PathIn
  <2>5. ASSUME NEW i \in DOMAIN stack', NEW j \in 1..(frames'[i].next - 1)
        PROVE  Outs[stack'[i]][j] \in DoneWith' \cup {stack'[m] : m \in (i + 1)..Len(stack')}
    <3>1. i \in 1..(n - 1) /\ stack'[i] = stack[i] /\ frames'[i] = frames[i] /\ i \in DOMAIN stack
      BY <1>2, <1>3, <1>4
    <3>2. Outs[stack[i]][j] \in DoneWith \cup {stack[m] : m \in (i + 1)..n}
      BY <2>5, <3>1 DEF Clean, Looked
    <3>3. ASSUME NEW m \in (i + 1)..n PROVE stack[m] = t \/ (m \in (i + 1)..(n - 1) /\ stack'[m] = stack[m])
      BY <1>2, <1>3, <3>1
    <3> QED
      BY ZenonT(50), <1>3, <1>6, <3>1, <3>2, <3>3
  <2>6. Looked'
    BY <1>1, <2>5 DEF Looked
  <2> QED
    BY <1>6, <2>2, <2>3, <2>4, <2>6
<1> QED
  BY <1>7, <1>8

LEMMA ChildrenOf ==
    ASSUME CanvasOK, NEW t, t \in Flow!Ids
    PROVE  /\ Outs[t] = Flow!Outgoing(t)
           /\ Len(Outs[t]) \in Nat /\ DOMAIN Outs[t] = 1..Len(Outs[t])
           /\ \A m \in DOMAIN Outs[t] : <<t, Outs[t][m]>> \in Arcs
<1>1. Outs[t] \in Seq(Flow!Ids)
  BY Children
<1>2. Outs[t] = Flow!Outgoing(t) /\ \A m \in DOMAIN Outs[t] : <<t, Outs[t][m]>> \in Arcs
  BY Children
<1> QED
  BY <1>1, <1>2

LEMMA CyclesClosed ==
    ASSUME CanvasOK, StackOK, stack # <<>>, NEW child,
           <<stack[Len(stack)], child>> \in Arcs, Flow!OnStack(child)
    PROVE  Flow!Cycle(child) \in Seq(Flow!Ids) /\ IsCycle(Flow!Cycle(child), Arcs)
<1> DEFINE n == Len(stack)
           k == Flow!Min({i \in DOMAIN stack : stack[i] = child})
           c == Flow!Cycle(child)
<1>1. stack \in Seq(Flow!Ids) /\ n \in Nat /\ DOMAIN stack = 1..n
  BY DEF StackOK
<1>2. k \in 1..n /\ stack[k] = child
  <2> DEFINE P == {i \in DOMAIN stack : stack[i] = child}
  <2>1. P \in SUBSET Nat /\ P # {}
    BY <1>1 DEF Flow!OnStack, Flow!Elements
  <2>2. Flow!Min(P) \in P
    BY <2>1, FlowMin
  <2> QED
    BY <1>1, <2>2
<1>3. c = Append(SubSeq(stack, k, n), child)
  BY DEF Flow!Cycle
<1> HIDE DEF k, c
<1>4. child \in Flow!Ids
  BY <1>1, <1>2
<1> DEFINE s == SubSeq(stack, k, n)
<1>5. s \in Seq(Flow!Ids) /\ Len(s) = n - k + 1 /\ \A i \in 1..(n - k + 1) : s[i] = stack[k + i - 1]
  BY <1>1, <1>2
<1> HIDE DEF s
<1>6. /\ c \in Seq(Flow!Ids) /\ Len(c) = n - k + 2 /\ c[n - k + 2] = child
      /\ \A i \in 1..(n - k + 1) : c[i] = stack[k + i - 1]
  <2>1. n - k + 1 \in Nat
    BY <1>1, <1>2
  <2>2. c = Append(s, child)
    BY <1>3 DEF s
  <2>3. c \in Seq(Flow!Ids) /\ Len(c) = Len(s) + 1 /\ c[Len(s) + 1] = child /\ \A i \in 1..Len(s) : c[i] = s[i]
    BY <1>4, <1>5, <2>1, <2>2
  <2> QED
    BY <1>1, <1>2, <1>5, <2>1, <2>3
<1>7. c[1] = child
  <2>1. 1 \in 1..(n - k + 1) /\ k + 1 - 1 = k
    BY <1>1, <1>2
  <2> QED
    BY <1>2, <1>6, <2>1
<1>8. ASSUME NEW i \in 1..(Len(c) - 1) PROVE <<c[i], c[i + 1]>> \in Arcs
  <2>1. CASE i = n - k + 1
    <3>1. c[i] = stack[n] /\ c[i + 1] = child
      BY SMTT(30), <1>1, <1>2, <1>6, <2>1
    <3> QED
      BY <3>1
  <2>2. CASE i # n - k + 1
    <3>0. k \in Nat /\ n \in Nat /\ k >= 1 /\ i \in Nat /\ i >= 1 /\ i <= n - k
      <4>1. Len(c) - 1 = n - k + 1
        BY <1>1, <1>2, <1>6
      <4>2. i \in 1..(n - k + 1)
        BY <1>8, <4>1
      <4> QED
        BY <1>1, <1>2, <2>2, <4>2
    <3>1. k + i - 1 \in 1..(n - 1) /\ k + (i + 1) - 1 = (k + i - 1) + 1
          /\ i \in 1..(n - k + 1) /\ i + 1 \in 1..(n - k + 1)
      BY <3>0
    <3>2. c[i] = stack[k + i - 1] /\ c[i + 1] = stack[(k + i - 1) + 1]
      BY <1>6, <3>1
    <3> QED
      BY <3>1, <3>2 DEF StackOK
  <2> QED
    BY <2>1, <2>2
<1>9. c[Len(c)] = child
  BY <1>6
<1> QED
  BY <1>6, <1>7, <1>8, <1>9 DEF IsCycle, c

(* The frame on top looks at its next child.                                 *)
LEMMA NextChild ==
    ASSUME CanvasOK, StackOK, stack # <<>>,
           frames[Len(frames)].next <= Len(Outs[frames[Len(frames)].id]),
           NEW fs, fs = [frames EXCEPT ![Len(frames)].next = @ + 1]
    PROVE  LET n == Len(stack)
               j == frames[n].next
           IN  /\ fs \in Seq(Frame) /\ Len(fs) = n
               /\ \A i \in DOMAIN stack : fs[i].id = stack[i]
               /\ \A i \in DOMAIN stack : fs[i].next \in 1..(Len(Outs[stack[i]]) + 1)
               /\ \A i \in 1..(n - 1) : fs[i] = frames[i]
               /\ fs[n].next = j + 1 /\ n \in DOMAIN stack /\ Len(frames) = n
               /\ j \in DOMAIN Outs[stack[n]] /\ frames[n].id = stack[n]
               /\ <<stack[n], Outs[stack[n]][j]>> \in Arcs
<1> DEFINE n == Len(stack)
           j == frames[n].next
           f == frames[n]
           g == [f EXCEPT !.next = @ + 1]
<1>1. frames \in Seq(Frame) /\ Len(frames) = n /\ n \in Nat /\ n > 0 /\ DOMAIN stack = 1..n
      /\ DOMAIN frames = 1..n /\ n \in 1..n
  BY DEF StackOK
<1>2. f \in Frame /\ f.id = stack[n] /\ f.next \in 1..(Len(Outs[stack[n]]) + 1) /\ stack[n] \in Flow!Ids
  BY <1>1 DEF StackOK
<1>3. g \in Frame /\ g.id = f.id /\ g.next = f.next + 1
  <2>1. f.id \in Flow!Ids /\ f.next \in Nat /\ f = [id |-> f.id, next |-> f.next]
    BY <1>2 DEF Frame
  <2>2. g = [id |-> f.id, next |-> f.next + 1]
    BY <2>1
  <2> QED
    BY <2>1, <2>2 DEF Frame
<1>4. fs = [frames EXCEPT ![n] = g]
  BY <1>1
<1>5. Len(Outs[stack[n]]) \in Nat /\ DOMAIN Outs[stack[n]] = 1..Len(Outs[stack[n]])
      /\ \A m \in DOMAIN Outs[stack[n]] : <<stack[n], Outs[stack[n]][m]>> \in Arcs
  BY <1>2, ChildrenOf
<1> HIDE DEF f, g
<1>6. fs \in Seq(Frame) /\ Len(fs) = n /\ fs[n] = g /\ \A i \in 1..(n - 1) : fs[i] = frames[i]
  BY <1>1, <1>3, <1>4
<1>7. f.next <= Len(Outs[stack[n]])
  BY <1>1, <1>2 DEF f
<1>8. j \in DOMAIN Outs[stack[n]] /\ j = f.next
  BY <1>2, <1>5, <1>7 DEF f
<1>9. ASSUME NEW i \in DOMAIN stack
      PROVE  fs[i].id = stack[i] /\ fs[i].next \in 1..(Len(Outs[stack[i]]) + 1)
  <2>1. CASE i = n
    <3>1. fs[i].id = stack[i] /\ fs[i].next = f.next + 1
      BY <1>2, <1>3, <1>6, <2>1
    <3>2. f.next \in Nat /\ f.next + 1 \in 1..(Len(Outs[stack[n]]) + 1)
      BY <1>2, <1>5, <1>7
    <3> QED
      BY <2>1, <3>1, <3>2
  <2>2. CASE i \in 1..(n - 1)
    BY <1>6, <2>2 DEF StackOK
  <2> QED
    BY <1>1, <2>1, <2>2
<1>10. fs[n].next = j + 1 /\ frames[n].id = stack[n]
  BY <1>2, <1>3, <1>6, <1>8 DEF f
<1> QED
  BY <1>1, <1>5, <1>6, <1>8, <1>9, <1>10

LEMMA VisitGoesOn == ASSUME CanvasOK, SearchInv, Flow!Visit PROVE SearchInv'
<1>0. StackOK /\ RootOK /\ CyclesOK /\ Clean /\ Explains /\ UNCHANGED <<nodes, edges, task, cycles>>
      /\ frames = <<>> /\ root <= Len(nodes) /\ root' = root + 1
  BY DEF SearchInv, Searches, Flow!Visit, Flow!Searching, Flow!canvas
<1>1. Arcs' = Arcs /\ Nodes' = Nodes /\ Outs' = Outs /\ (Flow!Distinct <=> Flow!Distinct')
  BY <1>0, GraphStays
<1>2. root \in 1..Len(nodes) /\ Len(nodes) \in Nat /\ nodes[root] \in Nodes
  BY <1>0 DEF RootOK, CanvasOK, Nodes, Flow!Elements
<1>3. CASE nodes[root] \in visited /\ UNCHANGED <<frames, visited, stack>>
  <2>1. StackOK'
    BY <1>0, <1>1, <1>3 DEF StackOK, InjectiveSeq
  <2>2. RootOK'
    <3>1. ASSUME NEW k \in 1..(root' - 1) PROVE nodes[k] \in visited
      <4>1. k = root \/ k \in 1..(root - 1)
        BY <1>0, <1>2
      <4> QED
        BY <1>0, <1>3, <4>1 DEF RootOK
    <3> QED
      BY <1>0, <1>2, <1>3, <3>1 DEF RootOK
  <2>3. Clean'
    BY <1>0, <1>1, <1>3 DEF Clean, Looked, DoneWith
  <2> QED
    BY <1>0, <1>1, <2>1, <2>2, <2>3 DEF SearchInv, CyclesOK, Explains
<1>4. CASE nodes[root] \notin visited /\ Flow!Enter(nodes[root])
           /\ frames' = <<[id |-> nodes[root], next |-> 1]>>
  <2>1. stack = <<>> /\ DOMAIN stack = {} /\ Len(stack) = 0
    BY <1>0 DEF StackOK
  <2>2. <<>> \in Seq(Frame) /\ Len(<<>>) = 0
        /\ frames' = Append(<<>>, [id |-> nodes[root], next |-> 1])
    BY <1>4
  <2>3. StackOK' /\ Clean'
    BY <1>0, <1>2, <1>4, <2>1, <2>2, Enters
  <2>4. visited' = visited \cup {nodes[root]}
    BY <1>4 DEF Flow!Enter
  <2>5. RootOK'
    <3>1. ASSUME NEW k \in 1..(root' - 1) PROVE nodes[k] \in visited'
      <4>1. k = root \/ k \in 1..(root - 1)
        BY <1>0, <1>2
      <4> QED
        BY <1>0, <2>4, <4>1 DEF RootOK
    <3> QED
      BY <1>0, <1>2, <3>1 DEF RootOK
  <2> QED
    BY <1>0, <1>1, <2>3, <2>5 DEF SearchInv, CyclesOK, Explains
<1> QED
  BY <1>3, <1>4 DEF Flow!Visit

LEMMA SearchGoesOn == ASSUME CanvasOK, SearchInv, Flow!SearchStep PROVE SearchInv'
<1> DEFINE n == Len(stack)
           j == frames[n].next
           child == Outs[stack[n]][j]
           fs == [frames EXCEPT ![Len(frames)].next = @ + 1]
<1>0. StackOK /\ RootOK /\ CyclesOK /\ Clean /\ Explains /\ UNCHANGED <<nodes, edges, task, root>>
      /\ frames # <<>>
  BY DEF SearchInv, Searches, Flow!SearchStep, Flow!Searching, Flow!canvas
<1>1. Arcs' = Arcs /\ Nodes' = Nodes /\ Outs' = Outs /\ (Flow!Distinct <=> Flow!Distinct')
  BY <1>0, GraphStays
<1>2. /\ stack # <<>> /\ Len(frames) = n /\ frames[n].id = stack[n] /\ stack[n] \in Flow!Ids
      /\ frames[n].next \in Nat /\ DOMAIN stack = 1..n /\ n \in 1..n /\ n \in Nat /\ frames \in Seq(Frame)
      /\ Outs[stack[n]] = Flow!Outgoing(frames[n].id) /\ Len(Outs[stack[n]]) \in Nat
  <2>1. frames \in Seq(Frame) /\ stack \in Seq(Flow!Ids) /\ Len(frames) = n
    BY <1>0 DEF StackOK
  <2>2. stack # <<>> /\ n \in 1..n /\ DOMAIN stack = 1..n /\ stack[n] \in Flow!Ids /\ n \in Nat
    BY <1>0, <2>1
  <2>3. frames[n].id = stack[n] /\ frames[n] \in Frame
    BY <1>0, <2>1, <2>2 DEF StackOK
  <2>4. Outs[stack[n]] = Flow!Outgoing(stack[n]) /\ Len(Outs[stack[n]]) \in Nat
    BY <2>2, ChildrenOf
  <2> QED
    BY <2>1, <2>2, <2>3, <2>4 DEF Frame
<1>3. CASE j > Len(Outs[stack[n]])
  <2>1. /\ frames' = SubSeq(frames, 1, Len(frames) - 1) /\ stack' = SubSeq(stack, 1, n - 1)
        /\ UNCHANGED <<visited, cycles>>
    BY <1>2, <1>3 DEF Flow!SearchStep, Flow!Popped
  <2>2. StackOK' /\ Clean'
    BY <1>0, <1>2, <1>3, <2>1, Leaves
  <2> QED
    BY <1>0, <1>1, <2>1, <2>2 DEF SearchInv, RootOK, CyclesOK, Explains
<1>4. CASE ~(j > Len(Outs[stack[n]]))
  <2>0. frames[Len(frames)].next <= Len(Outs[frames[Len(frames)].id])
    BY <1>2, <1>4
  <2>1. /\ fs \in Seq(Frame) /\ Len(fs) = n
        /\ \A i \in DOMAIN stack : fs[i].id = stack[i]
        /\ \A i \in DOMAIN stack : fs[i].next \in 1..(Len(Outs[stack[i]]) + 1)
        /\ \A i \in 1..(n - 1) : fs[i] = frames[i]
        /\ fs[n].next = j + 1 /\ j \in DOMAIN Outs[stack[n]]
        /\ <<stack[n], child>> \in Arcs
    BY <1>0, <1>2, <2>0, NextChild
  <2>2. \/ Flow!OnStack(child) /\ cycles' = Append(cycles, Flow!Cycle(child)) /\ frames' = fs
           /\ UNCHANGED <<visited, stack>>
        \/ /\ ~Flow!OnStack(child) /\ child \notin visited /\ Flow!Enter(child)
           /\ frames' = Append(fs, [id |-> child, next |-> 1]) /\ UNCHANGED cycles
        \/ /\ ~Flow!OnStack(child) /\ child \in visited /\ frames' = fs
           /\ UNCHANGED <<visited, stack, cycles>>
    BY <1>2, <1>4 DEF Flow!SearchStep
  <2> HIDE DEF fs, child
  <2>3. ASSUME UNCHANGED <<visited, stack>>, frames' = fs PROVE StackOK' /\ RootOK'
    <3>1. /\ InjectiveSeq(stack') /\ Flow!Elements(stack') \subseteq visited' /\ visited' \subseteq Nodes
          /\ \A i \in 1..(Len(stack') - 1) : <<stack'[i], stack'[i + 1]>> \in Arcs
      BY <1>0, <2>3 DEF StackOK
    <3> QED
      BY <1>0, <1>1, <2>1, <2>3, <3>1 DEF StackOK, RootOK
  <2>4. CASE Flow!OnStack(child) /\ cycles' = Append(cycles, Flow!Cycle(child)) /\ frames' = fs
             /\ UNCHANGED <<visited, stack>>
    <3>1. Flow!Cycle(child) \in Seq(Flow!Ids) /\ IsCycle(Flow!Cycle(child), Arcs)
      BY <1>0, <1>2, <2>1, <2>4, CyclesClosed
    <3> DEFINE c == Flow!Cycle(child)
    <3> HIDE DEF c
    <3>2. cycles \in Seq(Seq(Flow!Ids)) /\ c \in Seq(Flow!Ids) /\ IsCycle(c, Arcs)
          /\ \A i \in DOMAIN cycles : IsCycle(cycles[i], Arcs)
      BY <1>0, <3>1 DEF CyclesOK, c
    <3>3. /\ cycles' \in Seq(Seq(Flow!Ids)) /\ cycles' # <<>> /\ DOMAIN cycles' = 1..(Len(cycles) + 1)
          /\ DOMAIN cycles = 1..Len(cycles) /\ Len(cycles) \in Nat
          /\ cycles'[Len(cycles) + 1] = c /\ \A i \in 1..Len(cycles) : cycles'[i] = cycles[i]
      <4>1. cycles' = Append(cycles, c)
        BY <2>4 DEF c
      <4> QED
        BY <3>2, <4>1
    <3>4. \A i \in DOMAIN cycles' : IsCycle(cycles'[i], Arcs)
      <4> SUFFICES ASSUME NEW i \in DOMAIN cycles' PROVE IsCycle(cycles'[i], Arcs)
        OBVIOUS
      <4>1. i = Len(cycles) + 1 \/ i \in DOMAIN cycles
        BY <3>3
      <4> QED
        BY <3>2, <3>3, <4>1
    <3>5. CyclesOK' /\ Clean'
      BY <1>1, <3>3, <3>4 DEF CyclesOK, Clean
    <3> QED
      BY <1>0, <1>1, <2>3, <2>4, <3>5 DEF SearchInv, Explains
  <2>5. CASE /\ ~Flow!OnStack(child) /\ child \notin visited /\ Flow!Enter(child)
             /\ frames' = Append(fs, [id |-> child, next |-> 1]) /\ UNCHANGED cycles
    <3>1. child \in Nodes
      BY <2>1, NodesAreIds
    <3>2. ASSUME NEW i \in DOMAIN stack, NEW m \in 1..(fs[i].next - 1)
          PROVE  m \in 1..(frames[i].next - 1) \/ (i = Len(stack) /\ Outs[stack[i]][m] = child)
      <4>1. CASE i = n
        <5>1. m \in 1..j /\ j \in Nat
          BY <1>2, <2>1, <3>2, <4>1
        <5>2. m = j \/ m \in 1..(j - 1)
          BY <5>1
        <5> QED
          BY <4>1, <5>2 DEF child
      <4>2. CASE i \in 1..(n - 1)
        BY <2>1, <3>2, <4>2
      <4> QED
        BY <1>2, <4>1, <4>2
    <3>5. \A i \in DOMAIN stack :
              /\ fs[i].id = stack[i] /\ fs[i].next \in 1..(Len(Outs[stack[i]]) + 1)
              /\ \A m \in 1..(fs[i].next - 1) :
                   m \in 1..(frames[i].next - 1) \/ (i = Len(stack) /\ Outs[stack[i]][m] = child)
      BY <2>1, <3>2, Zenon
    <3>6. /\ StackOK /\ Clean /\ child \notin visited /\ UNCHANGED <<nodes, edges, cycles>> /\ Flow!Enter(child)
          /\ fs \in Seq(Frame) /\ Len(fs) = Len(stack)
          /\ (stack # <<>> => <<stack[Len(stack)], child>> \in Arcs)
          /\ frames' = Append(fs, [id |-> child, next |-> 1])
      BY <1>0, <2>1, <2>5
    <3>3. StackOK' /\ Clean'
      BY <3>1, <3>5, <3>6, Enters
    <3>4. visited \subseteq visited'
      BY <2>5 DEF Flow!Enter
    <3> QED
      BY <1>0, <1>1, <2>5, <3>3, <3>4 DEF SearchInv, RootOK, CyclesOK, Explains
  <2>6. CASE /\ ~Flow!OnStack(child) /\ child \in visited /\ frames' = fs
             /\ UNCHANGED <<visited, stack, cycles>>
    <3>1. child \in DoneWith /\ DoneWith' = DoneWith
      BY <2>6 DEF DoneWith, Flow!OnStack
    <3>2. ASSUME cycles = <<>>, NEW i \in DOMAIN stack, NEW m \in 1..(fs[i].next - 1)
          PROVE  Outs[stack[i]][m] \in DoneWith \cup {stack[l] : l \in (i + 1)..Len(stack)}
      <4>1. CASE i = n
        <5>1. m \in 1..j /\ j \in Nat
          BY <1>2, <2>1, <3>2, <4>1
        <5>2. m = j \/ m \in 1..(j - 1)
          BY <5>1
        <5>3. m = j => Outs[stack[i]][m] = child
          BY <4>1 DEF child
        <5>4. m \in 1..(frames[i].next - 1) => Outs[stack[i]][m] \in DoneWith \cup {stack[l] : l \in (i + 1)..Len(stack)}
          BY <1>0, <3>2 DEF Clean, Looked
        <5> QED
          BY <3>1, <4>1, <5>2, <5>3, <5>4
      <4>2. CASE i \in 1..(n - 1)
        <5>1. m \in 1..(frames[i].next - 1)
          BY <2>1, <3>2, <4>2
        <5> QED
          BY <1>0, <3>2, <5>1 DEF Clean, Looked
      <4> QED
        BY <1>2, <4>1, <4>2
    <3>3. Clean'
      BY <1>0, <1>1, <2>6, <3>1, <3>2 DEF Clean, Looked
    <3> QED
      BY <1>0, <1>1, <2>3, <2>6, <3>3 DEF SearchInv, CyclesOK, Explains
  <2> QED
    BY <2>2, <2>4, <2>5, <2>6
<1> QED
  BY <1>3, <1>4

(* No arc goes from what is not a node, and a search that has visited every  *)
(* node and left the stack has found a cycle if there is one.                *)
LEMMA SearchedAll ==
    ASSUME CanvasOK, StackOK, RootOK, Clean, frames = <<>>, root > Len(nodes), cycles = <<>>
    PROVE  ~CycleIn(Arcs)
<1>1. Len(nodes) \in Nat /\ DOMAIN nodes = 1..Len(nodes)
  BY DEF CanvasOK
<1>2. stack = <<>> /\ DoneWith = visited
  BY DEF StackOK, DoneWith, Flow!Elements
<1>3. Nodes \subseteq visited
  BY <1>1 DEF RootOK, Nodes, Flow!Elements
<1>4. ASSUME NEW id \in Flow!Ids, PathIn(Arcs, id, id) PROVE id \in Nodes
  <2> SUFFICES ASSUME id \notin Nodes PROVE FALSE
    OBVIOUS
  <2>1. ClosedIn(Arcs, {}) /\ \A e \in Arcs : e[1] = id => e[2] \in {}
    BY NodesAreIds DEF ClosedIn
  <2>2. {} \in SUBSET Flow!Ids
    OBVIOUS
  <2> QED
    BY <1>4, <2>1, <2>2 DEF PathIn
<1> QED
  BY <1>2, <1>3, <1>4 DEF Clean, CycleIn

(* An answer is about the graph there is: an edit takes it away.             *)
AnswerInv ==
    /\ task # "idle" => answer.call = "none"
    /\ answer.call = "sort" =>
           /\ Flow!Elements(answer.order) = Nodes
           /\ \A i, j \in DOMAIN answer.order : <<answer.order[i], answer.order[j]>> \in Arcs => i < j
    /\ answer.call \in {"cycles", "explain"} =>
           /\ \A i \in DOMAIN answer.cycles : IsCycle(answer.cycles[i], Arcs)
           /\ answer.cycles = <<>> => ~CycleIn(Arcs)
           /\ answer.call = "explain" /\ Flow!Distinct => answer.cycles # <<>>
    /\ answer.call = "reach" =>
           /\ answer.from \in Flow!Ids
           /\ answer.set = {b \in Flow!Ids \ {answer.from} : PathIn(Arcs, answer.from, b)}
FlowInv == CanvasOK /\ AnswerInv /\ SortInv /\ ReachInv /\ SearchInv

LEMMA NoAnswerYet ==
    ASSUME answer' = Flow!NoAnswer \/ (answer' = answer /\ answer.call = "none")
    PROVE  AnswerInv'
<1>1. answer'.call = "none"
  BY DEF Flow!NoAnswer
<1> QED
  BY <1>1 DEF AnswerInv

LEMMA FlowInit == MaxId \in Nat /\ Flow!Init => FlowInv
<1> SUFFICES ASSUME MaxId \in Nat, Flow!Init PROVE FlowInv
  OBVIOUS
<1>1. nodes = <<>> /\ edges = <<>> /\ task = "idle" /\ answer.call = "none"
  BY DEF Flow!Init, Flow!NoAnswer
<1>2. CanvasOK
  BY <1>1 DEF CanvasOK
<1> QED
  BY <1>1, <1>2 DEF FlowInv, AnswerInv, SortInv, ReachInv, SearchInv, Searches

LEMMA SortStops == ASSUME FlowInv, Flow!SortEnds PROVE FlowInv'
<1>1. /\ Counts /\ Ordered /\ CanvasOK /\ UNCHANGED <<nodes, edges>> /\ answer.call = "none"
      /\ ready = {} \/ Len(order) = Len(nodes)
  BY DEF FlowInv, SortInv, AnswerInv, Flow!SortEnds, Flow!canvas
<1>2. CanvasOK' /\ Arcs' = Arcs /\ Nodes' = Nodes
  BY <1>1, GraphStays
<1>3. CASE Len(order) = Len(nodes)
  <2>1. task' = "idle" /\ answer' = [call |-> "sort", order |-> order]
    BY <1>3 DEF Flow!SortEnds
  <2>2. Flow!Elements(order) = Nodes /\ \A i, j \in DOMAIN order : <<order[i], order[j]>> \in Arcs => i < j
    BY <1>1, <1>3, SortedAll DEF Emitted
  <2>3. answer'.call = "sort" /\ answer'.order = order
    BY <2>1
  <2>4. AnswerInv'
    BY <1>2, <2>1, <2>2, <2>3 DEF AnswerInv
  <2> QED
    BY <1>2, <2>1, <2>4 DEF FlowInv, SortInv, ReachInv, SearchInv, Searches
<1>4. CASE Len(order) # Len(nodes)
  <2>1. Flow!BeginSearch("explain") /\ task' = "explain" /\ answer' = answer
    BY <1>4 DEF Flow!SortEnds, Flow!BeginSearch
  <2>2. Flow!Distinct => CycleIn(Arcs)
    BY <1>1, <1>4, SortRefuses
  <2>3. SearchInv'
    BY <1>1, <2>1, <2>2, SearchBegins
  <2>4. AnswerInv'
    BY <1>1, <2>1, NoAnswerYet
  <2> QED
    BY <1>2, <2>1, <2>3, <2>4 DEF FlowInv, SortInv, ReachInv
<1> QED
  BY <1>3, <1>4

LEMMA SearchStops == ASSUME FlowInv, Flow!SearchEnds PROVE FlowInv'
<1>1. /\ CanvasOK /\ UNCHANGED <<nodes, edges>> /\ task \in {"cycles", "explain"}
      /\ frames = <<>> /\ root > Len(nodes)
      /\ task' = "idle" /\ answer' = [call |-> task, cycles |-> cycles]
  BY DEF FlowInv, Flow!SearchEnds, Flow!Searching, Flow!canvas
<1>2. StackOK /\ RootOK /\ CyclesOK /\ Clean /\ Explains
  BY <1>1 DEF FlowInv, SearchInv, Searches
<1>3. CanvasOK' /\ Arcs' = Arcs /\ (Flow!Distinct <=> Flow!Distinct')
  BY <1>1, GraphStays
<1>4. answer'.call = task /\ answer'.cycles = cycles
  BY <1>1
<1>5. cycles = <<>> => ~CycleIn(Arcs)
  BY <1>1, <1>2, SearchedAll
<1>6. AnswerInv'
  BY <1>1, <1>2, <1>3, <1>4, <1>5 DEF AnswerInv, CyclesOK, Explains
<1> QED
  BY <1>1, <1>3, <1>6 DEF FlowInv, SortInv, ReachInv, SearchInv, Searches

LEMMA ReachStops == ASSUME FlowInv, Flow!ReachEnds PROVE FlowInv'
<1>1. /\ CanvasOK /\ ReachInv /\ UNCHANGED <<nodes, edges>> /\ task = "reach"
      /\ queue = <<>> \/ steps = Flow!MaxSteps
      /\ task' = "idle" /\ answer' = [call |-> "reach", from |-> start, set |-> reached \ {start}]
  BY DEF FlowInv, Flow!ReachEnds, Flow!canvas
<1>2. CanvasOK' /\ Arcs' = Arcs
  BY <1>1, GraphStays
<1>3. start \in Flow!Ids /\ reached \ {start} = {b \in Flow!Ids \ {start} : PathIn(Arcs, start, b)}
  BY <1>1, ReachedAll
<1>4. answer'.call = "reach" /\ answer'.from = start /\ answer'.set = reached \ {start}
  BY <1>1
<1>5. AnswerInv'
  BY <1>1, <1>2, <1>3, <1>4 DEF AnswerInv
<1> QED
  BY <1>1, <1>2, <1>5 DEF FlowInv, SortInv, ReachInv, SearchInv, Searches

LEMMA FlowStep == FlowInv /\ [Flow!Next]_(Flow!vars) => FlowInv'
<1> SUFFICES ASSUME FlowInv, [Flow!Next]_(Flow!vars) PROVE FlowInv'
  OBVIOUS
<1>1. ASSUME Flow!Next, Flow!Edit PROVE FlowInv'
  <2>1. task' = "idle" /\ AnswerInv'
    BY <1>1, NoAnswerYet DEF Flow!Edit
  <2>2. CanvasOK'
    BY <1>1, NextCanvas DEF FlowInv
  <2> QED
    BY <2>1, <2>2 DEF FlowInv, SortInv, ReachInv, SearchInv, Searches
<1>2. ASSUME UNCHANGED <<nodes, edges>> PROVE CanvasOK'
  BY <1>2, GraphStays DEF FlowInv
<1>3. CASE Flow!Sort
  <2>1. UNCHANGED <<nodes, edges>> /\ task' = "sort" /\ AnswerInv'
    BY <1>3, NoAnswerYet DEF Flow!Sort, Flow!canvas
  <2>2. SortInv'
    BY <1>3, SortBegins DEF FlowInv
  <2> QED
    BY <1>2, <2>1, <2>2 DEF FlowInv, ReachInv, SearchInv, Searches
<1>4. CASE Flow!SortStep
  <2>1. UNCHANGED <<nodes, edges>> /\ task' = "sort" /\ answer' = answer /\ answer.call = "none"
    BY <1>4 DEF Flow!SortStep, Flow!canvas, FlowInv, AnswerInv
  <2>2. SortInv' /\ AnswerInv'
    BY <1>4, <2>1, SortGoesOn, NoAnswerYet DEF FlowInv
  <2> QED
    BY <1>2, <2>1, <2>2 DEF FlowInv, ReachInv, SearchInv, Searches
<1>5. CASE Flow!SortEnds
  BY <1>5, SortStops
<1>6. CASE Flow!FindCycles
  <2>1. UNCHANGED <<nodes, edges>> /\ Flow!BeginSearch("cycles") /\ task' = "cycles" /\ AnswerInv'
    BY <1>6, NoAnswerYet DEF Flow!FindCycles, Flow!BeginSearch, Flow!canvas
  <2>2. SearchInv'
    BY <2>1, SearchBegins DEF FlowInv
  <2> QED
    BY <1>2, <2>1, <2>2 DEF FlowInv, SortInv, ReachInv
<1>7. CASE Flow!Visit \/ Flow!SearchStep
  <2>1. UNCHANGED <<nodes, edges>> /\ task' = task /\ task \in {"cycles", "explain"}
        /\ answer' = answer /\ answer.call = "none"
    BY <1>7 DEF Flow!Visit, Flow!SearchStep, Flow!Searching, Flow!canvas, FlowInv, AnswerInv
  <2>2. SearchInv' /\ AnswerInv'
    BY <1>7, <2>1, VisitGoesOn, SearchGoesOn, NoAnswerYet DEF FlowInv
  <2> QED
    BY <1>2, <2>1, <2>2 DEF FlowInv, SortInv, ReachInv
<1>8. CASE Flow!SearchEnds
  BY <1>8, SearchStops
<1>9. CASE Flow!Reach
  <2>1. UNCHANGED <<nodes, edges>> /\ task' = "reach" /\ AnswerInv'
    BY <1>9, NoAnswerYet DEF Flow!Reach, Flow!canvas
  <2>2. ReachInv'
    BY <1>9, ReachBegins DEF FlowInv
  <2> QED
    BY <1>2, <2>1, <2>2 DEF FlowInv, SortInv, SearchInv, Searches
<1>10. CASE Flow!ReachStep
  <2>1. UNCHANGED <<nodes, edges>> /\ task' = "reach" /\ answer' = answer /\ answer.call = "none"
    BY <1>10 DEF Flow!ReachStep, Flow!canvas, FlowInv, AnswerInv
  <2>2. ReachInv' /\ AnswerInv'
    BY <1>10, <2>1, ReachGoesOn, NoAnswerYet DEF FlowInv
  <2> QED
    BY <1>2, <2>1, <2>2 DEF FlowInv, SortInv, SearchInv, Searches
<1>11. CASE Flow!ReachEnds
  BY <1>11, ReachStops
<1>12. CASE UNCHANGED Flow!vars
  <2>1. /\ UNCHANGED <<nodes, edges, task, indegree, ready, order, root, frames, visited, stack, cycles>>
        /\ UNCHANGED <<start, queue, reached, steps, answer>>
    BY <1>12 DEF Flow!vars, Flow!canvas, Flow!sorting, Flow!searching, Flow!reaching
  <2>2. CanvasOK' /\ Arcs' = Arcs /\ Nodes' = Nodes /\ Outs' = Outs /\ (Flow!Distinct <=> Flow!Distinct')
    BY <1>2, <2>1, GraphStays
  <2>3. Emitted' = Emitted /\ Spread' = Spread /\ DoneWith' = DoneWith
    BY <2>1 DEF Emitted, Spread, DoneWith, Flow!Elements
  <2>4. AnswerInv'
    BY <2>1, <2>2 DEF FlowInv, AnswerInv
  <2>5. SortInv'
    BY <2>1, <2>2, <2>3 DEF FlowInv, SortInv, Counts, Ordered
  <2>6. ReachInv'
    BY <2>1, <2>2, <2>3 DEF FlowInv, ReachInv
  <2>7. SearchInv'
    <3>1. StackOK <=> StackOK'
      BY <2>1, <2>2 DEF StackOK
    <3>2. Clean <=> Clean'
      BY <2>1, <2>2, <2>3 DEF Clean, Looked
    <3>3. (RootOK <=> RootOK') /\ (CyclesOK <=> CyclesOK') /\ (Explains <=> Explains')
      BY <2>1, <2>2 DEF RootOK, CyclesOK, Explains
    <3> QED
      BY <2>1, <3>1, <3>2, <3>3 DEF FlowInv, SearchInv, Searches
  <2> QED
    BY <2>2, <2>4, <2>5, <2>6, <2>7 DEF FlowInv
<1>13. Flow!CreateNode \/ Flow!Connect \/ Flow!Delete => Flow!Next /\ Flow!Edit
  BY DEF Flow!CreateNode, Flow!Connect, Flow!Delete, Flow!Next
<1> QED
  BY <1>1, <1>3, <1>4, <1>5, <1>6, <1>7, <1>8, <1>9, <1>10, <1>11, <1>12, <1>13 DEF Flow!Next

(* For every graph, whatever edits made it: a sort of distinct ids is an     *)
(* order in which every edge points forward, and is refused only with a      *)
(* cycle; findCycles() reports cycles of the graph, and none only for a      *)
(* graph without; and reachableFrom() finds what a path leads to, for which  *)
(* its bound of edges + 1 steps is enough.                                   *)
THEOREM AnswersRightCorrect == ASSUME MaxId \in Nat PROVE Flow!Spec => []AnswersRight
<1>1. FlowInv => AnswersRight
  <2> SUFFICES ASSUME FlowInv PROVE AnswersRight
    OBVIOUS
  <2>1. CanvasOK /\ AnswerInv
    BY DEF FlowInv
  <2>2. \A a, b : Flow!Edge(a, b) <=> <<a, b>> \in Arcs
    BY <2>1, EdgesAreArcs
  <2>3. CASE answer.call = "sort"
    BY <2>1, <2>2, <2>3 DEF AnswerInv, AnswersRight, Flow!AnswersRight, Nodes
  <2>4. CASE answer.call \in {"cycles", "explain"}
    <3>1. \A c \in Flow!Elements(answer.cycles) : IsCycle(c, Arcs)
      BY <2>1, <2>4 DEF AnswerInv, Flow!Elements
    <3>2. \A c \in Flow!Elements(answer.cycles) :
              c[1] = c[Len(c)] /\ \A i \in 1..(Len(c) - 1) : Flow!Edge(c[i], c[i + 1])
      BY <2>2, <3>1 DEF IsCycle
    <3>3. answer.cycles = <<>> => ~Flow!Cyclic
      BY <2>1, <2>4, PathsAgree DEF AnswerInv
    <3>4. answer.call = "explain" /\ Flow!Distinct => answer.cycles # <<>>
      BY <2>1, <2>4 DEF AnswerInv
    <3>5. answer.call # "sort" /\ answer.call # "reach"
      BY <2>4
    <3> QED
      BY <3>2, <3>3, <3>4, <3>5 DEF AnswersRight, Flow!AnswersRight
  <2>5. CASE answer.call = "reach"
    <3>1. /\ answer.from \in Flow!Ids
          /\ answer.set = {b \in Flow!Ids \ {answer.from} : PathIn(Arcs, answer.from, b)}
      BY <2>1, <2>5 DEF AnswerInv
    <3>2. \A b \in Flow!Ids : Flow!Path(answer.from, b) <=> PathIn(Arcs, answer.from, b)
      BY <2>1, <3>1, PathsAgree
    <3>3. answer.set = {b \in Flow!Ids \ {answer.from} : Flow!Path(answer.from, b)}
      BY <3>1, <3>2
    <3> QED
      BY <2>5, <3>3 DEF AnswersRight, Flow!AnswersRight
  <2> QED
    BY <2>3, <2>4, <2>5 DEF AnswersRight, Flow!AnswersRight
<1> QED
  BY FlowInit, FlowStep, <1>1, PTL DEF Flow!Spec

------------------------------------------------------------------------------
(* Overlays: the keyboard focus.                                             *)

(* What stands for the body, the palette's input, a part of the dialog or no *)
(* element is not an element of the page.                                    *)
OutsideAssumption ==
    PageElements \cap {"body", "input", "overlay", "panel", "first", "last", "none", "gone"} = {}

Outside == PageElements \cup {Ui!Body, Ui!Input}

(* As long as no dialog is shown the focus is outside it; the dialog's       *)
(* effect will find it where it was when the dialog was opened, for nothing  *)
(* else runs before the flush and an opening palette would have been flushed *)
(* already.  Once it is shown, returnFocus is that element; if none of the    *)
(* page had the focus, none gets it before the dialog closes.                *)
FocusTypeOK ==
    /\ inner \in {<<>>, <<"first", "last">>}
    /\ dialog \in BOOLEAN
    /\ shown = [open |-> shown.open, dialog |-> shown.dialog, query |-> shown.query]
    /\ focus \in Outside \cup {Ui!Overlay, Ui!Panel, "first", "last"}
    /\ before \in Outside \cup {Ui!Overlay, Ui!Panel, "first", "last"}
Hidden ==
    /\ ~shown.dialog => focus \in Outside /\ ~landing
    /\ dialog /\ ~shown.dialog => before = focus /\ (open => shown.open)
Held ==
    /\ landing => shown = [open |-> open, dialog |-> dialog, query |-> query]
                  /\ dialog /\ shown.dialog
    /\ shown.dialog =>
           IF before \in PageElements THEN returnFocus = before
           ELSE returnFocus \in {Ui!Body, Ui!Input, "gone"} /\ focus \notin PageElements
    /\ shown.dialog /\ dialog /\ ~landing /\ ~strayed => Ui!InDialog(focus)
FocusInv == FocusTypeOK /\ Hidden /\ Held

LEMMA FocusInit == Ui!Init => FocusInv
<1> SUFFICES ASSUME Ui!Init PROVE FocusInv
  OBVIOUS
<1>1. /\ inner \in {<<>>, <<"first", "last">>} /\ dialog = FALSE /\ landing = FALSE
      /\ shown = [open |-> FALSE, dialog |-> FALSE, query |-> Blank]
      /\ focus = Ui!Body /\ before = Ui!Body
  BY DEF Ui!Init
<1>2. FocusTypeOK
  BY <1>1 DEF FocusTypeOK, Outside
<1>3. Hidden /\ Held
  BY <1>1 DEF Hidden, Held, Outside
<1> QED
  BY <1>2, <1>3 DEF FocusInv

LEMMA FocusStep == OutsideAssumption /\ FocusInv /\ [Ui!Next]_Ui!vars => FocusInv'
<1> SUFFICES ASSUME OutsideAssumption, FocusInv, [Ui!Next]_Ui!vars
             PROVE  FocusInv'
  OBVIOUS
<1> USE DEF FocusInv, Ui!Body, Ui!Input, Ui!Overlay, Ui!Panel, Outside, OutsideAssumption
<1>1. CASE Ui!Flush
  <2>1. /\ shown' = [open |-> open, dialog |-> dialog, query |-> query]
        /\ UNCHANGED <<inner, open, dialog, query, before>>
        /\ strayed' = (strayed \/ (dialog /\ open /\ ~shown.open))
    BY <1>1 DEF Ui!Flush, Ui!constVars
  <2>2. shown'.open = open /\ shown'.dialog = dialog /\ shown'.query = query
    BY <2>1
  <2>3. ~landing
    BY <1>1 DEF Ui!Flush, Held
  <2>4. PICK f \in Ui!AfterMarkup :
            \/ dialog /\ ~shown.dialog /\ Ui!OpenEffect(f)
            \/ ~dialog /\ shown.dialog /\ Ui!CloseEffect(f)
            \/ /\ dialog = shown.dialog
               /\ focus' = f
               /\ returnFocus' = IF returnFocus = Ui!Input /\ ~open THEN "gone" ELSE returnFocus
               /\ UNCHANGED landing
    BY <1>1 DEF Ui!Flush
  <2>5. /\ f \in {focus, Ui!Body, Ui!Input}
        /\ ~(open /\ ~shown.open) => f = IF Ui!Rendered(focus) THEN focus ELSE Ui!Body
        /\ ~dialog => f \in Outside
    BY DEF Ui!AfterMarkup, Ui!Rendered, FocusTypeOK, Ui!InDialog
  <2>6. CASE dialog /\ ~shown.dialog /\ Ui!OpenEffect(f)
    <3>1. focus' = f /\ returnFocus' = f /\ landing' = TRUE
      BY <2>6 DEF Ui!OpenEffect
    <3>2. before = focus /\ focus \in Outside /\ f = IF Ui!Rendered(focus) THEN focus ELSE Ui!Body
      BY <2>5, <2>6 DEF Hidden
    <3>3. before \in PageElements => f = before
      BY <3>2 DEF Ui!Rendered
    <3>4. FocusTypeOK'
      BY <2>1, <2>2, <2>5, <3>1 DEF FocusTypeOK
    <3>5. Hidden'
      BY <2>1, <2>2, <2>6 DEF Hidden
    <3>6. shown.dialog' /\ dialog' /\ landing' /\ f \in Outside
          /\ f \in {before, Ui!Body}
      BY <2>1, <2>2, <2>5, <2>6, <3>1, <3>2
    <3>7. before \notin PageElements => focus' \notin PageElements /\ f \in {Ui!Body, Ui!Input}
      BY <3>1, <3>6
    <3>8. Held'
      BY <2>1, <2>2, <3>1, <3>3, <3>6, <3>7 DEF Held
    <3> QED
      BY <3>4, <3>5, <3>8
  <2>7. CASE ~dialog /\ shown.dialog /\ Ui!CloseEffect(f)
    <3>1. focus' \in Outside /\ landing' = landing
      BY <2>5, <2>7 DEF Ui!CloseEffect
    <3>2. FocusTypeOK'
      BY <2>1, <2>2, <3>1 DEF FocusTypeOK
    <3> QED
      BY <2>1, <2>2, <2>3, <2>7, <3>1, <3>2 DEF Hidden, Held
  <2>8. CASE /\ dialog = shown.dialog
             /\ focus' = f
             /\ returnFocus' = IF returnFocus = Ui!Input /\ ~open THEN "gone" ELSE returnFocus
             /\ UNCHANGED landing
    <3>1. FocusTypeOK'
      BY <2>1, <2>2, <2>5, <2>8 DEF FocusTypeOK
    <3>2. Hidden'
      BY <2>1, <2>2, <2>3, <2>5, <2>8 DEF Hidden
    <3>3. shown.dialog /\ ~strayed' => Ui!InDialog(focus) /\ ~(open /\ ~shown.open)
      BY <2>1, <2>3, <2>8 DEF Held
    <3>4. shown.dialog /\ ~strayed' => Ui!InDialog(focus)'
      BY <2>1, <2>5, <2>8, <3>3 DEF Ui!Rendered, Ui!InDialog
    <3>5. Held'
      BY <2>1, <2>2, <2>3, <2>5, <2>8, <3>4 DEF Held
    <3> QED
      BY <3>1, <3>2, <3>5
  <2> QED
    BY <2>4, <2>6, <2>7, <2>8
<1>2. CASE Ui!Land
  <2>1. /\ landing /\ ~landing' /\ UNCHANGED <<inner, open, dialog, query, shown, returnFocus, before, strayed>>
        /\ focus' = IF ~shown.dialog THEN focus ELSE IF inner = <<>> THEN Ui!Panel ELSE Head(inner)
    BY <1>2 DEF Ui!Land, Ui!constVars
  <2>2. shown.dialog /\ dialog
    BY <2>1 DEF Held
  <2>3. focus' \in {Ui!Panel, "first"} /\ Ui!InDialog(focus)'
    <3>1. CASE inner = <<>>
      BY <2>1, <2>2, <3>1 DEF Ui!InDialog
    <3>2. CASE inner = <<"first", "last">>
      <4>1. focus' = "first" /\ inner[1] = "first" /\ 1 \in DOMAIN inner
        BY <2>1, <2>2, <3>2
      <4> QED
        BY <2>1, <4>1 DEF Ui!InDialog
    <3> QED
      BY <3>1, <3>2 DEF FocusTypeOK
  <2> QED
    BY <2>1, <2>2, <2>3 DEF FocusTypeOK, Hidden, Held
(* The other handlers wait for the flush.                                    *)
<1>3. CASE /\ Ui!Settled /\ UNCHANGED <<inner, shown, returnFocus, landing>>
           /\ UNCHANGED <<focus, before, strayed, dialog>>
  <2>1. Ui!InDialog(focus)' <=> Ui!InDialog(focus)
    BY <1>3 DEF Ui!InDialog
  <2> QED
    BY <1>3, <2>1 DEF Ui!Settled, FocusTypeOK, Hidden, Held
<1>4. CASE /\ Ui!Settled /\ UNCHANGED <<inner, shown, returnFocus, landing, focus>>
           /\ UNCHANGED <<before, strayed>> /\ dialog' = FALSE
  BY <1>4 DEF Ui!Settled, FocusTypeOK, Hidden, Held
<1>5. CASE /\ Ui!Settled /\ UNCHANGED <<inner, shown, returnFocus, landing, focus>>
           /\ Ui!Opening(TRUE) /\ (open' => open)
  <2>1. Ui!InDialog(focus)' <=> Ui!InDialog(focus)
    BY <1>5 DEF Ui!InDialog
  <2> QED
    BY <1>5, <2>1 DEF Ui!Settled, FocusTypeOK, Hidden, Held, Ui!Opening
<1>6. CASE /\ Ui!Settled /\ UNCHANGED <<inner, shown, returnFocus, landing, open, query>>
           /\ UNCHANGED <<before, dialog>>
           /\ \/ focus' \in PageElements /\ ~dialog /\ strayed' = strayed
              \/ focus' = Ui!Input /\ strayed' = (strayed \/ dialog)
              \/ dialog /\ Ui!InDialog(focus)' /\ focus' \in {Ui!Panel, "first", "last"}
                 /\ strayed' = strayed
  BY <1>6 DEF Ui!Settled, FocusTypeOK, Hidden, Held
<1>7. CASE Ui!ClickOverlay
  <2>1. /\ Ui!Settled /\ dialog /\ UNCHANGED <<inner, shown, returnFocus, landing, open, query, before>>
        /\ focus' = Ui!Overlay /\ strayed' /\ dialog' \in BOOLEAN
    BY <1>7 DEF Ui!ClickOverlay, Ui!Close, Ui!constVars
  <2> QED
    BY <2>1 DEF Ui!Settled, FocusTypeOK, Hidden, Held
<1>8. CASE Ui!Shortcut
  BY <1>3, <1>8 DEF Ui!Shortcut, Ui!constVars, Ui!focusVars
<1>9. CASE Ui!Escape
  <2>1. /\ Ui!Settled /\ UNCHANGED <<inner, shown, returnFocus, landing, focus, before, strayed>>
        /\ dialog' = dialog \/ dialog' = FALSE
    BY <1>9 DEF Ui!Escape, Ui!Close, Ui!constVars, Ui!focusVars, FocusTypeOK
  <2> QED
    BY <1>3, <1>4, <2>1
<1>10. CASE Ui!ArrowDown \/ Ui!ArrowUp \/ Ui!Type \/ Ui!Hover \/ Ui!Dismiss
  BY <1>3, <1>10 DEF Ui!ArrowDown, Ui!ArrowUp, Ui!Type, Ui!Hover, Ui!Dismiss, Ui!constVars, Ui!focusVars
<1>11. CASE Ui!Enter \/ Ui!ClickOption
  <2>1. /\ Ui!Settled /\ UNCHANGED <<inner, shown, returnFocus, landing, focus>>
        /\ \E i : Ui!RunAt(i)
    BY <1>11 DEF Ui!Enter, Ui!ClickOption, Ui!constVars
  <2>2. \/ UNCHANGED <<dialog, before, strayed>>
        \/ ~open' /\ \E b \in BOOLEAN : Ui!Opening(b)
    <3>1. PICK i : Ui!RunAt(i)
      BY <2>1
    <3>2. CASE ~Ui!Results0(i)
      BY <3>1, <3>2 DEF Ui!RunAt
    <3>3. CASE Ui!Results0(i)
      <4> DEFINE b == Ui!Results[i + 1] \in Opens
      <4>1. b \in BOOLEAN /\ ~open' /\ Ui!Opening(b)
        BY <3>1, <3>3 DEF Ui!RunAt
      <4> QED
        BY <4>1
    <3> QED
      BY <3>2, <3>3
  <2>3. Ui!Opening(FALSE) => UNCHANGED <<dialog, before, strayed>>
    BY DEF Ui!Opening, FocusTypeOK
  <2> QED
    BY <1>3, <1>5, <2>1, <2>2, <2>3
<1>12. CASE Ui!ClickInput
  BY <1>6, <1>12 DEF Ui!ClickInput, Ui!constVars
<1>13. CASE Ui!Tab
  <2>1. /\ Ui!Settled /\ dialog /\ Ui!InDialog(focus)
        /\ UNCHANGED <<inner, shown, returnFocus, landing, open, query, before, dialog, strayed>>
        /\ \E shift \in BOOLEAN : focus' = Ui!NextTrapTarget(shift)
    BY <1>13 DEF Ui!Tab, Ui!constVars
  <2>2. Ui!InDialog(focus)' /\ focus' \in {Ui!Panel, "first", "last"}
    <3>1. CASE inner = <<>>
      BY <2>1, <3>1 DEF Ui!InDialog, Ui!NextTrapTarget
    <3>2. CASE inner = <<"first", "last">>
      <4>1. Len(inner) = 2 /\ inner[1] = "first" /\ inner[2] = "last" /\ DOMAIN inner = 1..2
        BY <3>2
      <4>2. inner # <<>>
        BY <3>2
      <4>3. ASSUME NEW shift \in BOOLEAN PROVE Ui!NextTrapTarget(shift) \in {"first", "last"}
        BY <4>1, <4>2 DEF Ui!NextTrapTarget
      <4>4. focus' \in {"first", "last"}
        BY <2>1, <4>3
      <4> QED
        BY <2>1, <4>1, <4>4 DEF Ui!InDialog
    <3> QED
      BY <3>1, <3>2 DEF FocusTypeOK
  <2> QED
    BY <1>6, <2>1, <2>2
<1>14. CASE Ui!Application
  <2>1. /\ Ui!Settled /\ UNCHANGED <<inner, shown, returnFocus, landing, focus, open>>
        /\ \/ UNCHANGED <<dialog, before, strayed>>
           \/ Ui!Opening(TRUE)
           \/ dialog' = FALSE /\ UNCHANGED <<before, strayed>>
    BY <1>14 DEF Ui!Application, Ui!constVars
  <2> QED
    BY <1>3, <1>4, <1>5, <2>1
<1>15. CASE Ui!UsePage
  BY <1>6, <1>15 DEF Ui!UsePage, Ui!constVars
<1>16. CASE UNCHANGED Ui!vars
  <2>1. Ui!InDialog(focus)' <=> Ui!InDialog(focus)
    BY <1>16 DEF Ui!InDialog, Ui!vars, Ui!constVars, Ui!focusVars
  <2> QED
    BY <1>16, <2>1 DEF Ui!vars, Ui!constVars, Ui!focusVars, FocusTypeOK, Hidden, Held
<1> QED
  BY <1>1, <1>2, <1>7, <1>8, <1>9, <1>10, <1>11, <1>12, <1>13, <1>14, <1>15, <1>16 DEF Ui!Next

(* An open dialog has the focus, whatever else happens on the page, unless   *)
(* the palette was opened over it or a click on the backdrop left it.        *)
THEOREM FocusIsKeptCorrect == ASSUME OutsideAssumption PROVE Ui!Spec => []Ui!FocusIsKept
<1>1. FocusInv => Ui!FocusIsKept
  BY DEF FocusInv, FocusTypeOK, Held, Ui!FocusIsKept, Ui!Settled
<1> QED
  BY FocusInit, FocusStep, <1>1, PTL DEF Ui!Spec

(* When it closes, the page element that had the focus when it was opened    *)
(* has it again; if none had, the body or the palette's input has it.        *)
THEOREM FocusReturnsCorrect == ASSUME OutsideAssumption PROVE Ui!Spec => Ui!FocusReturns
<1>1. ASSUME FocusInv, Ui!Flush, shown.dialog, ~dialog
      PROVE  focus' \in IF before \in PageElements THEN {before} ELSE {Ui!Body, Ui!Input}
  <2>1. PICK f \in Ui!AfterMarkup : Ui!CloseEffect(f)
    BY <1>1 DEF Ui!Flush
  <2>2. f \in {focus, Ui!Body, Ui!Input} /\ f \in Outside
    BY <1>1 DEF Ui!AfterMarkup, Ui!Rendered, FocusInv, FocusTypeOK, Ui!InDialog, Outside,
       Ui!Body, Ui!Input, Ui!Overlay, Ui!Panel
  <2>3. (before \notin PageElements => focus \notin PageElements) /\ Ui!Body \notin PageElements /\ Ui!Input \notin PageElements
    BY <1>1 DEF FocusInv, Held, OutsideAssumption, Ui!Body, Ui!Input
  <2>4. CASE before \in PageElements
    BY <1>1, <2>1, <2>4 DEF Ui!CloseEffect, FocusInv, Held
  <2>5. CASE before \notin PageElements
    <3>1. returnFocus \in {Ui!Body, Ui!Input, "gone"}
      BY <1>1, <2>5 DEF FocusInv, Held
    <3>2. "gone" \notin PageElements \cup {Ui!Body, Ui!Input}
      BY DEF OutsideAssumption, Ui!Body, Ui!Input
    <3> QED
      BY <2>1, <2>2, <2>3, <2>5, <3>1, <3>2 DEF Ui!CloseEffect, Outside
  <2> QED
    BY <2>4, <2>5
<1>2. FocusInv /\ [Ui!Next]_Ui!vars =>
          [(Ui!Flush /\ shown.dialog /\ ~dialog) =>
              focus' \in (IF before \in PageElements THEN {before} ELSE {Ui!Body, Ui!Input})]_Ui!vars
  BY <1>1
<1> QED
  BY FocusInit, FocusStep, <1>2, PTL DEF Ui!Spec, Ui!FocusReturns

------------------------------------------------------------------------------
(* A function may be defined on 0..n by recursion, for any n: the step takes *)
(* the number and the value before it.                                       *)
IsRecursive(f, base, step, n) ==
    \A i \in 0..n : f[i] = IF i = 0 THEN base ELSE step[<<i, f[i - 1]>>]

LEMMA Recursion ==
    ASSUME NEW V, NEW base \in V, NEW step \in [Nat \X V -> V]
    PROVE  \A n \in Nat : \E f \in [0..n -> V] : IsRecursive(f, base, step, n)
<1> DEFINE T == {n \in Nat : ~ \E f \in [0..n -> V] : IsRecursive(f, base, step, n)}
<1> SUFFICES ASSUME T # {} PROVE FALSE
  OBVIOUS
<1>1. PICK n \in T : \A k \in T : n <= k
  BY LeastNumber, Zenon
<1>2. n # 0
  <2>1. [i \in 0..0 |-> base] \in [0..0 -> V] /\ IsRecursive([i \in 0..0 |-> base], base, step, 0)
    BY DEF IsRecursive
  <2> QED
    BY <2>1
<1>3. n \in Nat /\ n - 1 \in Nat /\ n - 1 \notin T
  BY <1>1, <1>2
<1>4. PICK g \in [0..(n - 1) -> V] : IsRecursive(g, base, step, n - 1)
  BY <1>3
<1> DEFINE f == [i \in 0..n |-> IF i = n THEN step[<<n, g[n - 1]>>] ELSE g[i]]
<1>5. f \in [0..n -> V]
  <2>1. n - 1 \in 0..(n - 1)
    BY <1>3
  <2>2. g[n - 1] \in V /\ step[<<n, g[n - 1]>>] \in V
    BY <1>3, <1>4, <2>1
  <2>3. \A i \in 0..n : i # n => i \in 0..(n - 1)
    BY <1>3
  <2> QED
    BY <1>4, <2>2, <2>3
<1>6. ASSUME NEW i \in 0..n PROVE f[i] = IF i = 0 THEN base ELSE step[<<i, f[i - 1]>>]
  <2>1. CASE i = n
    <3>1. n \in 0..n /\ n - 1 \in 0..n /\ n - 1 # n
      BY <1>2, <1>3
    <3>2. f[n] = step[<<n, g[n - 1]>>] /\ f[n - 1] = g[n - 1]
      BY <3>1
    <3> QED
      BY <1>2, <2>1, <3>2
  <2>2. CASE i # n
    <3>1. i \in 0..(n - 1) /\ (i # 0 => i - 1 \in 0..(n - 1))
      BY <1>3, <2>2
    <3>2. g[i] = IF i = 0 THEN base ELSE step[<<i, g[i - 1]>>]
      BY <1>4, <3>1 DEF IsRecursive
    <3>3. f[i] = g[i] /\ (i # 0 => f[i - 1] = g[i - 1])
      BY <1>3, <2>2, <3>1
    <3> QED
      BY <3>2, <3>3
  <2> QED
    BY <2>1, <2>2
<1>7. IsRecursive(f, base, step, n)
  <2> HIDE DEF f
  <2> QED
    BY <1>6 DEF IsRecursive
<1> QED
  BY <1>1, <1>5, <1>7

\* In a finite set that is ordered each member has as many before it as its
\* place says, and each place is taken: what filter() and sort() rely on here.
LEMMA Places ==
    ASSUME NEW S, IsFiniteSet(S), NEW below \in [S -> SUBSET S],
           \A x \in S : x \notin below[x],
           \A x \in S : \A y \in S : x # y => x \in below[y] \/ y \in below[x],
           \A x \in S : \A y \in S : x \in below[y] => below[x] \subseteq below[y]
    PROVE  /\ Cardinality(S) \in Nat
           /\ \A x \in S : Cardinality(below[x]) \in 0..(Cardinality(S) - 1)
           /\ \A k \in 0..(Cardinality(S) - 1) : \E x \in S : Cardinality(below[x]) = k
           /\ \A x \in S : \A y \in S : x \in below[y] <=> Cardinality(below[x]) < Cardinality(below[y])
<1> DEFINE n == Cardinality(S)
           rank == [x \in S |-> Cardinality(below[x])]
<1>1. n \in Nat
  BY FS_CardinalityType
<1>2. ASSUME NEW x \in S
      PROVE  rank[x] \in Nat /\ IsFiniteSet(below[x]) /\ rank[x] = Cardinality(below[x]) /\ below[x] \subseteq S
  <2>1. below[x] \in SUBSET S
    OBVIOUS
  <2>2. IsFiniteSet(below[x])
    BY <2>1, FS_Subset
  <2> QED
    BY <2>1, <2>2, FS_CardinalityType
<1>3. ASSUME NEW x \in S PROVE rank[x] <= n - 1
  <2>1. IsFiniteSet(S \ {x}) /\ Cardinality(S \ {x}) = n - 1
    BY FS_RemoveElement
  <2>2. below[x] \in SUBSET (S \ {x})
    BY <1>2
  <2>3. Cardinality(below[x]) <= Cardinality(S \ {x})
    BY <2>1, <2>2, FS_Subset
  <2> QED
    BY <1>2, <2>1, <2>3
<1>4. ASSUME NEW x \in S, NEW y \in S, x \in below[y] PROVE rank[x] < rank[y]
  <2>1. below[x] \in SUBSET below[y] /\ below[x] # below[y]
    BY <1>4
  <2>2. Cardinality(below[x]) <= Cardinality(below[y]) /\ Cardinality(below[x]) # Cardinality(below[y])
    BY <1>2, <2>1, FS_Subset
  <2> QED
    BY <1>2, <2>2
<1> HIDE DEF rank, n
<1>5. ASSUME NEW x \in S, NEW y \in S PROVE x \in below[y] <=> rank[x] < rank[y]
  <2>1. CASE x = y
    BY <1>2, <2>1
  <2>2. CASE x # y
    BY <1>2, <1>4, <2>2
  <2> QED
    BY <2>1, <2>2
<1>6. rank \in Injection(S, 0..(n - 1))
  <2>1. rank \in [S -> 0..(n - 1)]
    BY <1>1, <1>2, <1>3 DEF rank
  <2>2. \A x \in S : \A y \in S : rank[x] = rank[y] => x = y
    BY <1>2, <1>5
  <2> QED
    BY <2>1, <2>2 DEF Injection, IsInjective
<1>7. IsFiniteSet(0..(n - 1)) /\ Cardinality(0..(n - 1)) = n
  <2>1. 0 \in Int /\ n - 1 \in Int /\ (IF 0 > n - 1 THEN 0 ELSE (n - 1) - 0 + 1) = n
    BY <1>1
  <2> QED
    BY <2>1, FS_Interval
<1>8. rank \in Surjection(S, 0..(n - 1))
  BY <1>6, <1>7, FS_Injection DEF n
<1>9. \A k \in 0..(n - 1) : \E x \in S : rank[x] = k
  BY <1>8 DEF Surjection
<1> QED
  BY <1>1, <1>2, <1>3, <1>5, <1>9 DEF n

\* A sequence of the members by their places is in their order, and has them all.
LEMMA Ranked ==
    ASSUME NEW S, IsFiniteSet(S), NEW below \in [S -> SUBSET S],
           \A x \in S : x \notin below[x],
           \A x \in S : \A y \in S : x # y => x \in below[y] \/ y \in below[x],
           \A x \in S : \A y \in S : x \in below[y] => below[x] \subseteq below[y],
           NEW c, \A k \in 1..Cardinality(S) : c[k] \in S /\ Cardinality(below[c[k]]) = k - 1
    PROVE  /\ \A i, j \in 1..Cardinality(S) : i < j <=> c[i] \in below[c[j]]
           /\ \A x \in S : \E k \in 1..Cardinality(S) : c[k] = x
<1> DEFINE n == Cardinality(S)
<1>1. /\ n \in Nat
      /\ \A x \in S : Cardinality(below[x]) \in 0..(n - 1)
      /\ \A x \in S : \A y \in S : x \in below[y] <=> Cardinality(below[x]) < Cardinality(below[y])
  BY Places, Zenon
<1> HIDE DEF n
<1>2. \A k \in 1..n : c[k] \in S /\ Cardinality(below[c[k]]) = k - 1
  BY DEF n
<1>3. ASSUME NEW i \in 1..n, NEW j \in 1..n PROVE i < j <=> c[i] \in below[c[j]]
  BY <1>1, <1>2
<1>4. ASSUME NEW x \in S PROVE \E k \in 1..n : c[k] = x
  <2> DEFINE k == Cardinality(below[x]) + 1
  <2>1. k \in 1..n /\ Cardinality(below[c[k]]) = Cardinality(below[x]) /\ c[k] \in S
    BY <1>1, <1>2
  <2>2. c[k] \notin below[x] /\ x \notin below[c[k]]
    BY <1>1, <2>1
  <2>3. c[k] = x
    BY <2>1, <2>2
  <2> QED
    BY <2>1, <2>3
<1> QED
  BY <1>3, <1>4 DEF n

------------------------------------------------------------------------------
(* Media: any source, renditions, widths and slides.                         *)

MediaAssumption ==
    /\ Absent \notin Int /\ Absent \notin Renditions
    /\ SeekStep \in Nat /\ MaxTime \in Nat /\ Loudest \in Nat /\ Scale \in Nat
    /\ Slides \in Nat /\ SlideWidth \in Nat /\ Gap \in Nat /\ PageWidth \in Nat
    /\ Widths \subseteq Int /\ IsFiniteSet(Widths)
    /\ \A r \in Renditions :
          r.height \in Nat \cup {Absent} /\ r.bitrate \in Nat /\ r.preferred \in BOOLEAN

\* Autoplay that was on at the mount is silent, and would be after an effect.
MuteInv ==
    /\ silent \in BOOLEAN /\ muted \in BOOLEAN /\ native \in BOOLEAN /\ unmuted \in BOOLEAN
    /\ rewired \in BOOLEAN /\ late \in BOOLEAN /\ autoplay \in BOOLEAN
    /\ Film!Plays => muted = silent \/ native
    /\ Film!Plays => Film!CaptionsContract \/ rewired
    /\ Film!Plays /\ autoplay => (silent /\ muted) \/ unmuted \/ late
TimeInv ==
    /\ time \in Nat /\ duration \in Nat \cup {Absent}
    /\ duration # Absent => time <= duration
    /\ volume \in 0..Loudest
PlayerInv == MuteInv /\ TimeInv

\* The carousel is, or will be, as many pages on as "next" found it at rest, or
\* at its end; it glides no further than a page.
Bound == IF aim = Absent THEN offset ELSE aim
CarouselInv ==
    /\ offset \in 0..Film!End /\ presses \in Nat
    /\ aim \in (0..Film!End) \cup {Absent}
    /\ aim # Absent => aim <= offset + PageWidth
    /\ presses * PageWidth <= Bound \/ Bound = Film!End

MediaInv ==
    /\ PlayerInv
    /\ pictured => loaded
    /\ widths \subseteq Widths
    /\ CarouselInv
    /\ status = "idle" => renditionId = Absent
    /\ offered \in Seq(Renditions)

LEMMA EndIsNat == ASSUME MediaAssumption PROVE Film!End \in Nat
<1>1. Film!ScrollWidth - PageWidth \in Int
  BY DEF Film!ScrollWidth, MediaAssumption
<1> QED
  BY <1>1 DEF Film!End, Film!Larger

LEMMA MediaInit == ASSUME MediaAssumption, Film!Init PROVE MediaInv
<1>1. PlayerInv
  <2>1. MuteInv
    BY Zenon DEF Film!Init, MuteInv, Film!Plays
  <2>2. TimeInv
    <3>1. time = 0 /\ duration = Absent /\ volume = Loudest /\ Loudest \in Nat
      BY Zenon DEF Film!Init, MediaAssumption
    <3> QED
      BY <3>1 DEF TimeInv
  <2> QED
    BY <2>1, <2>2 DEF PlayerInv
<1>2. Film!End \in Nat
  BY EndIsNat
<1>3. CarouselInv
  BY <1>2 DEF Film!Init, CarouselInv, Bound, MediaAssumption
<1>4. offered \in Seq(Renditions)
  <2>1. CASE offered = <<>>
    BY <2>1
  <2>2. CASE offered \in UNION {[1..n -> Renditions] : n \in 0..3}
    <3>1. PICK m \in 0..3 : offered \in [1..m -> Renditions]
      BY <2>2
    <3> QED
      BY <3>1
  <2> QED
    BY <2>1, <2>2 DEF Film!Init
<1> QED
  BY <1>1, <1>3, <1>4 DEF Film!Init, MediaInv

\* An element that plays on, or is set by a key, is where its source is.
LEMMA ElementSet ==
    ASSUME MediaAssumption, PlayerInv, NEW halted, NEW at \in Nat, NEW loudness \in 0..Loudest,
           duration # Absent => at <= duration, Film!SetElement(halted, at, loudness)
    PROVE  PlayerInv'
<1>1. MuteInv'
  BY Zenon DEF PlayerInv, MuteInv, Film!SetElement, Film!Plays, Film!CaptionsContract
<1>2. TimeInv'
  <2>1. time' = at /\ volume' = loudness /\ duration' = duration
    BY DEF Film!SetElement
  <2> QED
    BY <2>1 DEF PlayerInv, TimeInv
<1> QED
  BY <1>1, <1>2 DEF PlayerInv

LEMMA PlayerKeeps == ASSUME MediaAssumption, PlayerInv, Film!Next PROVE PlayerInv'
<1>1. CASE Film!MountPlayer
  <2>1. TimeInv'
    BY <1>1 DEF Film!MountPlayer, PlayerInv, TimeInv
  <2>2. /\ UNCHANGED <<viewType, tracks, autoplay, native, unmuted, rewired, late>>
        /\ \/ Film!CaptionsContract /\ muted' = autoplay /\ silent' = autoplay
           \/ player' = "refused" /\ muted' = muted /\ silent' = silent
    BY <1>1, Zenon DEF Film!MountPlayer
  <2>3. "refused" # "yes"
    OBVIOUS
  <2>4. MuteInv'
    BY <2>2, <2>3, Zenon DEF PlayerInv, MuteInv, Film!Plays, Film!CaptionsContract
  <2> QED
    BY <2>1, <2>4 DEF PlayerInv
<1>2. CASE Film!SetProps
  <2>1. /\ autoplay' \in BOOLEAN
        /\ rewired' = (rewired \/ viewType' # viewType \/ tracks' # tracks)
        /\ late' = (late \/ (autoplay' /\ ~autoplay))
    <3>1. autoplay' \in BOOLEAN
      BY <1>2, Zenon DEF Film!SetProps
    <3>2. rewired' = (rewired \/ viewType' # viewType \/ tracks' # tracks)
      BY <1>2, Zenon DEF Film!SetProps
    <3>3. late' = (late \/ (autoplay' /\ ~autoplay))
      <4>1. PICK auto \in BOOLEAN : autoplay' = auto /\ late' = (late \/ (auto /\ ~autoplay))
        BY <1>2, Zenon DEF Film!SetProps
      <4>2. CASE auto
        BY <4>1, <4>2
      <4>3. CASE ~ auto
        BY <4>1, <4>3
      <4> QED
        BY <4>2, <4>3
    <3> QED
      BY <3>1, <3>2, <3>3
  <2>10. \/ silent' = muted /\ native' = FALSE
         \/ silent' = silent /\ native' = native
    BY <1>2 DEF Film!SetProps
  <2>9. /\ \/ time' = 0 /\ duration' = Absent
           \/ time' = time /\ duration' = duration
        /\ volume' = Loudest \/ volume' = volume
    BY <1>2, Zenon DEF Film!SetProps
  <2>2. UNCHANGED <<medium, player, muted, unmuted>> /\ Film!Plays
    BY <1>2, Zenon DEF Film!SetProps
  <2>3. TimeInv'
    <3>1. Loudest \in Nat
      BY DEF MediaAssumption
    <3> QED
      BY <2>9, <3>1 DEF PlayerInv, TimeInv
  <2>11. /\ silent \in BOOLEAN /\ muted \in BOOLEAN /\ native \in BOOLEAN
         /\ muted = silent \/ native
         /\ autoplay => (silent /\ muted) \/ unmuted \/ late
    BY <2>2, Zenon DEF PlayerInv, MuteInv
  <2>4. silent' \in BOOLEAN /\ native' \in BOOLEAN /\ (muted = silent' \/ native')
    <3>1. CASE silent' = muted /\ native' = FALSE
      BY <2>11, <3>1, Zenon
    <3>2. CASE silent' = silent /\ native' = native
      BY <2>11, <3>2
    <3> QED
      BY <2>10, <3>1, <3>2, Zenon
  <2>5. autoplay' => (silent' /\ muted) \/ unmuted \/ late'
    <3>1. ASSUME autoplay', ~ autoplay PROVE late'
      BY <2>1, <3>1, Zenon
    <3>2. ASSUME autoplay, ~ unmuted, ~ late PROVE silent' /\ muted
      <4>1. silent /\ muted
        BY <2>11, <3>2, Zenon
      <4>2. silent = TRUE /\ muted = TRUE
        BY <2>11, <4>1, Zenon
      <4>3. silent' = TRUE
        BY <2>10, <4>2
      <4> QED
        BY <4>1, <4>3, Zenon
    <3>3. late => late'
      BY <2>1, Zenon
    <3> QED
      BY <3>1, <3>2, <3>3, Zenon
  <2>6. Film!CaptionsContract' \/ rewired'
    BY <2>1, <2>2, Zenon DEF PlayerInv, MuteInv, Film!CaptionsContract
  <2>7. rewired' \in BOOLEAN /\ late' \in BOOLEAN
    BY <2>1, Zenon
  <2>8. MuteInv'
    BY <2>1, <2>2, <2>4, <2>5, <2>6, <2>7, Zenon DEF PlayerInv, MuteInv
  <2> QED
    BY <2>3, <2>8 DEF PlayerInv
<1>3. CASE Film!LoadMetadata
  <2>1. MuteInv'
    BY <1>3, Zenon DEF Film!LoadMetadata, PlayerInv, MuteInv, Film!Plays, Film!CaptionsContract
  <2>2. TimeInv'
    BY <1>3 DEF Film!LoadMetadata, PlayerInv, TimeInv, Film!Smaller, MediaAssumption
  <2> QED
    BY <2>1, <2>2 DEF PlayerInv
<1>4. CASE Film!Autoplay
  BY <1>4, ElementSet DEF Film!Autoplay, PlayerInv, TimeInv
<1>5. CASE Film!Elapse
  <2>1. CASE time < duration
    <3>1. time + 1 \in Nat /\ (duration # Absent => time + 1 <= duration)
      BY <2>1 DEF PlayerInv, TimeInv
    <3> QED
      BY <1>5, <2>1, <3>1, ElementSet DEF Film!Elapse, PlayerInv, TimeInv
  <2>2. CASE ~ (time < duration)
    BY <1>5, <2>2, ElementSet DEF Film!Elapse, PlayerInv, TimeInv
  <2> QED
    BY <2>1, <2>2
<1>6. CASE Film!TogglePlay
  BY <1>6, ElementSet DEF Film!TogglePlay, PlayerInv, TimeInv
<1>7. CASE Film!SeekBack
  <2>1. Film!Larger(0, time - SeekStep) \in Nat /\ Film!Larger(0, time - SeekStep) <= time
    BY DEF Film!Larger, PlayerInv, TimeInv, MediaAssumption
  <2>2. duration # Absent => Film!Larger(0, time - SeekStep) <= duration
    BY <2>1 DEF PlayerInv, TimeInv, MediaAssumption
  <2> QED
    BY <1>7, <2>1, <2>2, ElementSet DEF Film!SeekBack, PlayerInv, TimeInv
<1>8. CASE Film!SeekForward
  <2>1. Film!Ahead \in Nat
    BY DEF Film!Ahead, Film!Smaller, PlayerInv, TimeInv, MediaAssumption
  <2>2. Film!Reachable(Film!Ahead) \in Nat /\ (duration # Absent => Film!Reachable(Film!Ahead) <= duration)
    BY <2>1 DEF Film!Reachable, Film!Smaller, PlayerInv, TimeInv
  <2> QED
    BY <1>8, <2>2, ElementSet DEF Film!SeekForward, PlayerInv, TimeInv
<1>9. CASE Film!ChangeVolume
  <2>1. PICK step \in {-1, 1} : Film!SetElement(paused, time, Film!ClampVolume(volume, step))
    BY <1>9 DEF Film!ChangeVolume
  <2>2. Film!ClampVolume(volume, step) \in 0..Loudest
    BY DEF Film!ClampVolume, Film!Larger, Film!Smaller, PlayerInv, TimeInv, MediaAssumption
  <2> QED
    BY <2>1, <2>2, ElementSet DEF PlayerInv, TimeInv
<1>10. CASE Film!ToggleMute
  <2>1. /\ silent' = ~silent /\ muted' = silent' /\ native' = FALSE /\ unmuted' = (unmuted \/ silent)
        /\ UNCHANGED <<medium, player, viewType, tracks, autoplay, time, duration, volume, rewired, late>>
    BY <1>10, Zenon DEF Film!ToggleMute, Film!Mirrored
  <2>2. MuteInv'
    BY <2>1, Zenon DEF PlayerInv, MuteInv, Film!Plays, Film!CaptionsContract
  <2>3. TimeInv'
    BY <2>1 DEF PlayerInv, TimeInv
  <2> QED
    BY <2>2, <2>3 DEF PlayerInv
<1>11. CASE Film!NativeMute
  <2>1. /\ silent' = ~silent /\ native' = (silent' # muted) /\ unmuted' = (unmuted \/ silent)
        /\ UNCHANGED <<medium, player, viewType, tracks, autoplay, time, duration, volume, muted, rewired, late>>
    BY <1>11, Zenon DEF Film!NativeMute
  <2>2. MuteInv'
    BY <2>1, Zenon DEF PlayerInv, MuteInv, Film!Plays, Film!CaptionsContract
  <2>3. TimeInv'
    BY <2>1 DEF PlayerInv, TimeInv
  <2> QED
    BY <2>2, <2>3 DEF PlayerInv
<1>12. CASE UNCHANGED <<medium, player, Film!playerVars>>
  <2>1. MuteInv'
    BY <1>12, Zenon DEF Film!playerVars, PlayerInv, MuteInv, Film!Plays, Film!CaptionsContract
  <2>2. TimeInv'
    BY <1>12 DEF Film!playerVars, PlayerInv, TimeInv
  <2> QED
    BY <2>1, <2>2 DEF PlayerInv
<1>13. \/ Film!Load \/ Film!ChangeSrc \/ Film!ScrollByPage(-1) \/ Film!ScrollByPage(1)
      \/ Film!Glide \/ Film!Drag
       \/ Film!Dispatch \/ Film!SelectQuality \/ Film!Reset \/ Film!Attach \/ Film!Destroy
       => UNCHANGED <<medium, player, Film!playerVars>>
  BY DEF Film!Load, Film!ChangeSrc, Film!ScrollByPage, Film!Glide, Film!Drag, Film!Scrolled,
         Film!Headless, Film!Dispatch, Film!SelectQuality, Film!Reset, Film!Attach, Film!Destroy
<1> QED
  BY <1>1, <1>2, <1>3, <1>4, <1>5, <1>6, <1>7, <1>8, <1>9, <1>10, <1>11, <1>12, <1>13 DEF Film!Next

\* The actions of the player, and those of the headless machine, leave the rest.
LEMMA OthersRest ==
    /\ \/ Film!MountPlayer \/ Film!SetProps \/ Film!LoadMetadata \/ Film!Autoplay \/ Film!Elapse
       \/ Film!TogglePlay \/ Film!SeekBack \/ Film!SeekForward \/ Film!ChangeVolume
       \/ Film!ToggleMute \/ Film!NativeMute
       => UNCHANGED <<Film!imageVars, Film!carouselVars, Film!headlessVars, Film!pickVars>>
    /\ Film!Dispatch \/ Film!SelectQuality \/ Film!Reset \/ Film!Attach \/ Film!Destroy
       => UNCHANGED <<Film!imageVars, Film!carouselVars, Film!pickVars>>
  BY DEF Film!MountPlayer, Film!SetProps, Film!LoadMetadata, Film!Autoplay, Film!Elapse, Film!SetElement,
         Film!TogglePlay, Film!SeekBack, Film!SeekForward, Film!ChangeVolume, Film!ToggleMute,
         Film!NativeMute, Film!Headless, Film!Dispatch, Film!SelectQuality, Film!Reset, Film!Attach,
         Film!Destroy

LEMMA TimesGrows ==
    ASSUME NEW a \in Nat, NEW b \in Nat, NEW c \in Nat, a <= b
    PROVE  a * c \in Nat /\ b * c \in Nat /\ a * c <= b * c
<1>1. PICK d \in Nat : b = a + d
  <2>1. b - a \in Nat /\ b = a + (b - a)
    OBVIOUS
  <2> QED
    BY <2>1
<1>2. (a + d) * c = a * c + d * c
  OBVIOUS
<1>3. a * c \in Nat /\ d * c \in Nat
  OBVIOUS
<1> QED
  BY <1>1, <1>2, <1>3

\* What the next page is, for one that stops at the end.
LEMMA PagesOn ==
    ASSUME NEW e \in Nat, NEW o \in 0..e, NEW w \in Nat
    PROVE  /\ Film!Larger(0, Film!Smaller(e, o + w)) = Film!Smaller(e, o + w)
           /\ Film!Smaller(e, o + w) \in 0..e
           /\ Film!Smaller(e, o + w) <= o + w
           /\ Film!Larger(0, Film!Smaller(e, o - w)) \in 0..e
           /\ Film!Larger(0, Film!Smaller(e, o - w)) <= o + w
  BY DEF Film!Larger, Film!Smaller

\* What a carousel that glides may have got to.
LEMMA Glides ==
    ASSUME NEW e \in Nat, NEW o \in 0..e, NEW a \in 0..e, NEW w \in Nat, a <= o + w,
           NEW x \in Film!Smaller(o, a)..Film!Larger(o, a)
    PROVE  x \in 0..e /\ a <= x + w
<1>1. CASE o <= a
  <2>1. x \in o..a
    BY <1>1 DEF Film!Smaller, Film!Larger
  <2> QED
    BY <2>1
<1>2. CASE ~(o <= a)
  <2>1. x \in a..o
    BY <1>2 DEF Film!Smaller, Film!Larger
  <2> QED
    BY <2>1
<1> QED
  BY <1>1, <1>2

LEMMA CarouselKeeps == ASSUME MediaAssumption, CarouselInv, Film!Next PROVE CarouselInv'
<1> DEFINE e == Film!End
           w == PageWidth
<1>1. e \in Nat /\ w \in Nat /\ Absent \notin Int
  BY EndIsNat DEF MediaAssumption
<1>2. /\ offset \in 0..e /\ presses \in Nat /\ aim \in (0..e) \cup {Absent}
      /\ aim # Absent => aim <= offset + w
      /\ presses * w <= Bound \/ Bound = e
      /\ presses * w \in Nat /\ Bound \in 0..e
  BY <1>1 DEF CarouselInv, Bound
<1>3. CASE UNCHANGED Film!carouselVars
  BY <1>3 DEF Film!carouselVars, CarouselInv, Bound
<1>4. CASE Film!ScrollByPage(1)
  <2> DEFINE page == Film!Smaller(e, offset + w)
  <2>1. Film!PageOn(1) = page /\ page \in 0..e /\ page <= offset + w
        /\ (page = e \/ page = offset + w)
    <3>1. offset + 1 * w = offset + w
      BY <1>1, <1>2
    <3> QED
      BY <1>1, <1>2, <3>1, PagesOn DEF Film!PageOn, Film!Within, Film!Smaller
  <2>2. /\ \/ offset' = page /\ aim' = Absent
           \/ offset' = offset /\ aim' = page
        /\ presses' = IF aim = Absent THEN Film!Smaller(e, presses + 1) ELSE presses
    BY <1>4, <2>1 DEF Film!ScrollByPage
  <2> HIDE DEF page, e, w
  <2>3. Bound' = page
    BY <1>1, <2>1, <2>2 DEF Bound
  <2>4. presses' * w <= page \/ page = e
    <3>1. CASE aim = Absent
      <4>1. presses' \in Nat /\ presses' <= presses + 1 /\ presses + 1 \in Nat
        BY <1>1, <1>2, <2>2, <3>1 DEF Film!Smaller
      <4>2. presses' * w \in Nat /\ presses' * w <= (presses + 1) * w
        BY <1>1, <4>1, TimesGrows
      <4>3. (presses + 1) * w = presses * w + w
        BY <1>1, <1>2
      <4>4. Bound = offset
        BY <3>1 DEF Bound
      <4> DEFINE p == presses * w
                 q == presses' * w
      <4>5. /\ p \in Nat /\ q \in Nat /\ q <= p + w
            /\ p <= offset \/ offset = e
        BY <1>2, <4>2, <4>3, <4>4
      <4> HIDE DEF p, q
      <4>6. q <= page \/ page = e
        BY <1>1, <1>2, <2>1, <4>5
      <4> QED
        BY <4>6 DEF q
    <3>2. CASE aim # Absent
      <4>1. presses' = presses /\ Bound = aim
        BY <2>2, <3>2 DEF Bound
      <4> QED
        BY <1>1, <1>2, <2>1, <3>2, <4>1
    <3> QED
      BY <3>1, <3>2
  <2>5. presses' \in Nat
    BY <1>1, <1>2, <2>2 DEF Film!Smaller
  <2>6. offset' \in 0..e /\ aim' \in (0..e) \cup {Absent} /\ (aim' # Absent => aim' <= offset' + w)
    BY <1>1, <1>2, <2>1, <2>2
  <2> QED
    BY <2>3, <2>4, <2>5, <2>6 DEF CarouselInv, e, w, Film!End, Film!ScrollWidth
<1>5. CASE Film!ScrollByPage(-1)
  <2> DEFINE page == Film!Larger(0, Film!Smaller(e, offset - w))
  <2>1. Film!PageOn(-1) = page /\ page \in 0..e /\ page <= offset + w
    <3>1. offset + (-1) * w = offset - w
      BY <1>1, <1>2
    <3> QED
      BY <1>1, <1>2, <3>1, PagesOn DEF Film!PageOn, Film!Within
  <2>2. /\ \/ offset' = page /\ aim' = Absent
           \/ offset' = offset /\ aim' = page
        /\ presses' = 0
    BY <1>5, <2>1 DEF Film!ScrollByPage
  <2> HIDE DEF page, e, w
  <2>3. Bound' = page /\ presses' * w = 0
    BY <1>1, <2>1, <2>2 DEF Bound
  <2>4. offset' \in 0..e /\ aim' \in (0..e) \cup {Absent} /\ (aim' # Absent => aim' <= offset' + w)
    BY <1>1, <1>2, <2>1, <2>2
  <2> QED
    BY <2>1, <2>2, <2>3, <2>4 DEF CarouselInv, e, w, Film!End, Film!ScrollWidth
<1>6. CASE Film!Glide
  <2>1. /\ aim \in 0..e /\ Bound = aim /\ presses' = presses
        /\ offset' \in Film!Smaller(offset, aim)..Film!Larger(offset, aim)
        /\ aim' = IF offset' = aim THEN Absent ELSE aim
    BY <1>2, <1>6 DEF Film!Glide, Bound
  <2> HIDE DEF e, w
  <2>2. /\ e \in Nat /\ w \in Nat /\ offset \in 0..e /\ aim \in 0..e
        /\ aim <= offset + w
    BY <1>1, <1>2, <2>1
  <2>4. offset' \in 0..e /\ aim <= offset' + w
    BY <2>1, <2>2, Glides
  <2>3. Bound' = aim
    BY <1>1, <2>1 DEF Bound
  <2> QED
    BY <1>2, <2>1, <2>3, <2>4 DEF CarouselInv, e, w, Film!End, Film!ScrollWidth
<1>7. CASE Film!Drag
  <2>1. offset' \in 0..e /\ aim' = Absent /\ presses' = 0 /\ presses' * w = 0
    BY <1>1, <1>7 DEF Film!Drag
  <2> HIDE DEF e, w
  <2>2. Bound' = offset'
    BY <2>1 DEF Bound
  <2> QED
    BY <1>1, <2>1, <2>2 DEF CarouselInv, e, w, Film!End, Film!ScrollWidth
<1>8. Film!Load \/ Film!ChangeSrc => UNCHANGED Film!carouselVars
  BY DEF Film!Load, Film!ChangeSrc
<1> QED
  BY <1>3, <1>4, <1>5, <1>6, <1>7, <1>8, OthersRest DEF Film!Next

LEMMA MediaNext == ASSUME MediaAssumption, MediaInv, [Film!Next]_Film!vars PROVE MediaInv'
<1>1. CASE UNCHANGED Film!vars
  BY <1>1 DEF Film!vars, Film!playerVars, Film!imageVars, Film!carouselVars, Film!headlessVars, Film!pickVars,
         MediaInv, PlayerInv, MuteInv, TimeInv, CarouselInv, Bound, Film!Plays, Film!CaptionsContract
<1>2. CASE Film!Next
  <2>1. PlayerInv' /\ CarouselInv'
    BY <1>2, PlayerKeeps, CarouselKeeps DEF MediaInv
  <2>2. UNCHANGED Film!imageVars \/ Film!Load \/ Film!ChangeSrc
    BY <1>2, OthersRest DEF Film!Next, Film!ScrollByPage, Film!Glide, Film!Drag,
       Film!Scrolled
  <2>3. (pictured => loaded)' /\ (widths \subseteq Widths)'
    BY <2>2 DEF MediaInv, Film!imageVars, Film!Load, Film!ChangeSrc
  <2>4. offered' = offered
    BY <1>2, OthersRest DEF Film!Next, Film!ScrollByPage, Film!Glide, Film!Drag,
       Film!Scrolled, Film!Load, Film!ChangeSrc, Film!pickVars
  <2>5. UNCHANGED Film!headlessVars \/ Film!Dispatch \/ Film!SelectQuality \/ Film!Reset \/ Film!Attach \/ Film!Destroy
    BY <1>2, OthersRest DEF Film!Next, Film!ScrollByPage, Film!Glide, Film!Drag,
       Film!Scrolled, Film!Load, Film!ChangeSrc
  <2>6. (status = "idle" => renditionId = Absent)'
    BY <2>5 DEF MediaInv, Film!headlessVars, Film!Dispatch, Film!Transitions, Film!SelectQuality, Film!Reset,
           Film!Attach, Film!Destroy
  <2> QED
    BY <2>1, <2>3, <2>4, <2>6 DEF MediaInv
<1> QED
  BY <1>1, <1>2

LEMMA FilmCardinality ==
    \A S : Film!Cardinality(S) = Cardinality(S)
  BY DEF Film!Cardinality, Cardinality

LEMMA Candidates ==
    ASSUME MediaAssumption, NEW ws, ws \subseteq Widths
    PROVE  LET candidates == Film!NormaliseWidths(ws)
           IN  /\ candidates \in Seq(Int)
               /\ \A i \in 1..(Len(candidates) - 1) : candidates[i] < candidates[i + 1]
               /\ \A i \in DOMAIN candidates : candidates[i] > 0 \/ \E v \in ws : v \in 1..4
               /\ candidates = <<>> <=> {w \in ws : w > 0} = {}
<1> DEFINE some == {v \in ws : v > 0}
           sizes == {Film!Rounded(w) : w \in some}
           n == Cardinality(sizes)
           below == [x \in sizes |-> {y \in sizes : y < x}]
           c == Film!NormaliseWidths(ws)
<1>1. some \subseteq Int /\ IsFiniteSet(some)
  <2>1. IsFiniteSet(Widths) /\ some \in SUBSET Widths /\ Widths \subseteq Int
    BY DEF MediaAssumption
  <2> QED
    BY <2>1, FS_Subset
<1>2. ASSUME NEW w \in some PROVE Film!Rounded(w) \in Nat /\ (w \notin 1..4 => Film!Rounded(w) > 0)
  <2>1. w \in Int /\ w > 0
    BY <1>1
  <2> QED
    BY <2>1 DEF Film!Rounded
<1>3. IsFiniteSet(sizes)
  <2> DEFINE f == [w \in some |-> Film!Rounded(w)]
  <2>1. f \in Surjection(some, sizes)
    BY DEF Surjection
  <2> QED
    BY <1>1, <2>1, FS_Surjection
<1>4. sizes \subseteq Nat
  BY <1>2
<1>5. \A x \in sizes : x > 0 \/ \E v \in ws : v \in 1..4
  BY <1>2
<1>6. sizes = {} <=> some = {}
  OBVIOUS
<1>7. c = [k \in 1..Film!Cardinality(sizes) |->
              CHOOSE x \in sizes : Film!Cardinality({y \in sizes : y < x}) = k - 1]
  BY DEF Film!NormaliseWidths
<1>17. Film!Cardinality(sizes) = n
  BY FilmCardinality
<1> HIDE DEF sizes, some
<1>8. /\ below \in [sizes -> SUBSET sizes]
      /\ \A x \in sizes : x \notin below[x]
      /\ \A x \in sizes : \A y \in sizes : x # y => x \in below[y] \/ y \in below[x]
      /\ \A x \in sizes : \A y \in sizes : x \in below[y] => below[x] \subseteq below[y]
  <2>1. ASSUME NEW x \in sizes, NEW y \in sizes PROVE x \in below[y] <=> x < y
    OBVIOUS
  <2>2. ASSUME NEW x \in sizes, NEW y \in sizes, x \in below[y] PROVE below[x] \subseteq below[y]
    <3>1. ASSUME NEW z \in below[x] PROVE z \in below[y]
      <4>1. z \in sizes /\ z < x /\ x < y
        BY <2>1, <2>2, <3>1
      <4> QED
        BY <1>4, <4>1
    <3> QED
      BY <3>1
  <2>3. ASSUME NEW x \in sizes, NEW y \in sizes, x # y PROVE x \in below[y] \/ y \in below[x]
    BY <1>4, <2>1, <2>3
  <2>4. ASSUME NEW x \in sizes PROVE x \notin below[x]
    BY <1>4, <2>1
  <2>5. below \in [sizes -> SUBSET sizes]
    OBVIOUS
  <2> HIDE DEF below
  <2> QED
    BY <2>2, <2>3, <2>4, <2>5
<1>9. /\ n \in Nat
      /\ \A k \in 0..(n - 1) : \E x \in sizes : Cardinality(below[x]) = k
  <2> HIDE DEF below
  <2> QED
    BY <1>3, <1>8, Places
<1>10. ASSUME NEW k \in 1..n PROVE c[k] \in sizes /\ Cardinality(below[c[k]]) = k - 1
  <2>1. k - 1 \in 0..(n - 1)
    BY <1>9
  <2>2. \E x \in sizes : Film!Cardinality({y \in sizes : y < x}) = k - 1
    <3>1. PICK x \in sizes : Cardinality(below[x]) = k - 1
      BY <1>9, <2>1
    <3>2. below[x] = {y \in sizes : y < x}
      OBVIOUS
    <3> QED
      BY <3>1, <3>2, FilmCardinality
  <2>3. c[k] = CHOOSE x \in sizes : Film!Cardinality({y \in sizes : y < x}) = k - 1
    <3> HIDE DEF c, n
    <3> QED
      BY <1>7, <1>17
  <2>4. c[k] \in sizes /\ Film!Cardinality({y \in sizes : y < c[k]}) = k - 1
    <3> HIDE DEF c, n
    <3> QED
      BY <2>2, <2>3
  <2>5. below[c[k]] = {y \in sizes : y < c[k]}
    <3> HIDE DEF c, n
    <3> QED
      BY <2>4
  <2> QED
    BY <2>4, <2>5, FilmCardinality
<1>11. \A i, j \in 1..n : i < j <=> c[i] \in below[c[j]]
  <2> HIDE DEF below, c
  <2> QED
    BY <1>3, <1>8, <1>10, Ranked
<1>12. c \in Seq(sizes) /\ Len(c) = n
  <2> HIDE DEF c, n
  <2>1. c \in [1..n -> sizes]
    BY <1>7, <1>10, <1>17
  <2> QED
    BY <1>9, <2>1
<1>13. ASSUME NEW i \in 1..(Len(c) - 1) PROVE c[i] < c[i + 1]
  <2>1. i \in 1..n /\ i + 1 \in 1..n /\ i < i + 1
    BY <1>9, <1>12
  <2>2. c[i] \in below[c[i + 1]] /\ c[i + 1] \in sizes
    BY <1>10, <1>11, <2>1
  <2> HIDE DEF c
  <2> QED
    BY <2>2
<1>14. \A i \in DOMAIN c : c[i] \in sizes
  <2> HIDE DEF c
  <2> QED
    BY <1>12
<1>15. c = <<>> <=> some = {}
  <2>1. n = 0 <=> sizes = {}
    BY <1>3, FS_EmptySet
  <2> HIDE DEF c, n
  <2> QED
    BY <1>6, <1>9, <1>12, <2>1
<1>16. c \in Seq(Int)
  <2> HIDE DEF c, n
  <2>1. \A i \in 1..Len(c) : c[i] \in Int
    <3>1. \A i \in 1..n : c[i] \in sizes
      BY <1>10
    <3>2. ASSUME NEW i \in 1..n PROVE c[i] \in Int
      <4>1. c[i] \in sizes
        BY <3>1
      <4>2. c[i] \in Nat
        BY <1>4, <4>1, Zenon
      <4> QED
        BY <4>2
    <3>3. Len(c) = n
      BY <1>12
    <3> QED
      BY <3>2, <3>3
  <2>2. c = [i \in 1..Len(c) |-> c[i]] /\ Len(c) \in Nat
    BY <1>12
  <2> QED
    BY <2>1, <2>2
<1> QED
  BY <1>5, <1>13, <1>14, <1>15, <1>16 DEF some

LEMMA Fallback ==
    ASSUME MediaAssumption, NEW ws, ws \subseteq Widths
    PROVE  Film!FallbackWidth(ws) = Absent <=> {w \in ws : w > 0} = {}
<1> DEFINE c == Film!NormaliseWidths(ws)
<1>1. c \in Seq(Int) /\ (c = <<>> <=> {w \in ws : w > 0} = {})
  BY Candidates, Zenon
<1>2. Film!FallbackWidth(ws) = IF c = <<>> THEN Absent ELSE c[Len(c)]
  BY DEF Film!FallbackWidth
<1> HIDE DEF c
<1>3. c # <<>> => c[Len(c)] \in Int
  BY <1>1
<1> QED
  BY <1>1, <1>2, <1>3 DEF MediaAssumption

\* pickRendition() goes through the list once and keeps the best so far.
Best(pool, rs, f, n) ==
    \A i \in 0..n :
       f[i] = IF i = 0 THEN Absent
              ELSE IF i \in pool /\ (f[i - 1] = Absent \/ Film!Better(rs[i], f[i - 1]))
              THEN rs[i] ELSE f[i - 1]

LEMMA PickIs ==
    ASSUME NEW rs \in Seq(Renditions), NEW max
    PROVE  \E f \in [0..Len(rs) -> Renditions \cup {Absent}] :
              /\ Best(Film!Pool(rs, max), rs, f, Len(rs))
              /\ Film!PickRendition(rs, max) = f[Len(rs)]
<1> DEFINE n == Len(rs)
           pool == Film!Pool(rs, max)
           V == Renditions \cup {Absent}
           Step(v, i) == IF i \in pool /\ (v = Absent \/ Film!Better(rs[i], v)) THEN rs[i] ELSE v
           step == [x \in Nat \X V |-> IF x[1] \in 1..n THEN Step(x[2], x[1]) ELSE x[2]]
           Made(f) == f = [i \in 0..n |->
                             IF i = 0 THEN Absent
                             ELSE IF i \in pool /\ (f[i - 1] = Absent \/ Film!Better(rs[i], f[i - 1]))
                             THEN rs[i] ELSE f[i - 1]]
<1>1. Film!PickRendition(rs, max) = (CHOOSE f : Made(f))[n]
  BY DEF Film!PickRendition
<1>2. n \in Nat /\ \A i \in 1..n : rs[i] \in Renditions
  OBVIOUS
<1>3. Absent \in V
  OBVIOUS
<1>4. ASSUME NEW i \in 1..n, NEW v \in V PROVE Step(v, i) \in V
  BY <1>2
<1> HIDE DEF n, V, pool
<1>5. step \in [Nat \X V -> V] /\ \A i \in 1..n, v \in V : step[<<i, v>>] = Step(v, i)
  <2> HIDE DEF Step
  <2> QED
    BY <1>2, <1>4
<1> HIDE DEF step
<1>6. PICK g \in [0..n -> V] : IsRecursive(g, Absent, step, n)
  BY <1>2, <1>3, <1>5, Recursion
<1>7. ASSUME NEW i \in 0..n
      PROVE  g[i] = IF i = 0 THEN Absent
                    ELSE IF i \in pool /\ (g[i - 1] = Absent \/ Film!Better(rs[i], g[i - 1]))
                    THEN rs[i] ELSE g[i - 1]
  <2>1. g[i] = IF i = 0 THEN Absent ELSE step[<<i, g[i - 1]>>]
    BY <1>6 DEF IsRecursive
  <2>2. CASE i = 0
    BY <2>1, <2>2
  <2>3. CASE i # 0
    <3>1. i \in 1..n /\ i - 1 \in 0..n
      BY <1>2, <2>3
    <3>2. g[i - 1] \in V
      BY <1>6, <3>1
    <3>3. g[i] = Step(g[i - 1], i)
      BY <1>5, <2>1, <2>3, <3>1, <3>2
    <3> QED
      BY <2>3, <3>3
  <2> QED
    BY <2>2, <2>3
<1>8. Made(g)
  <2>1. g = [i \in 0..n |-> g[i]]
    BY <1>6
  <2> QED
    BY <1>7, <2>1
<1>9. Made(CHOOSE f : Made(f))
  BY <1>8, Zenon
<1>10. PICK h : h = (CHOOSE f : Made(f)) /\ Made(h)
  BY <1>9, Zenon
<1>11. ASSUME NEW i \in 0..n
       PROVE  h[i] = IF i = 0 THEN Absent
                     ELSE IF i \in pool /\ (h[i - 1] = Absent \/ Film!Better(rs[i], h[i - 1]))
                     THEN rs[i] ELSE h[i - 1]
  BY <1>10
<1>12. \A i \in 0..n : h[i] = g[i]
  <2> DEFINE T == {i \in 0..n : h[i] # g[i]}
  <2> SUFFICES ASSUME T # {} PROVE FALSE
    OBVIOUS
  <2>1. T \subseteq Nat
    BY <1>2
  <2>2. PICK i \in T : \A k \in T : i <= k
    <3> HIDE DEF T
    <3> QED
      BY <2>1, LeastNumber, Zenon
  <2>3. i # 0
    BY <1>7, <1>11, <2>2
  <2>4. i - 1 \in 0..n /\ i - 1 \notin T
    BY <1>2, <2>2, <2>3
  <2>5. h[i - 1] = g[i - 1]
    BY <2>4
  <2> QED
    BY <1>7, <1>11, <2>2, <2>3, <2>5
<1>13. DOMAIN h = 0..n
  BY <1>10
<1>14. h = [i \in 0..n |-> h[i]]
  BY <1>10
<1>15. h = g
  BY <1>6, <1>12, <1>14
<1>16. Film!PickRendition(rs, max) = g[n]
  BY <1>1, <1>10, <1>15
<1> QED
  BY <1>6, <1>7, <1>16 DEF Best, n, V, pool

PreferenceOf(r) == IF r.preferred THEN 1 ELSE 0

LEMMA BetterIs ==
    ASSUME MediaAssumption, NEW r \in Renditions, NEW b \in Renditions
    PROVE  /\ PreferenceOf(r) \in 0..1 /\ PreferenceOf(b) \in 0..1
           /\ Film!Better(r, b) <=> \/ PreferenceOf(r) > PreferenceOf(b)
                                    \/ PreferenceOf(r) = PreferenceOf(b) /\ Film!Rank(r) > Film!Rank(b)
           /\ PreferenceOf(r) > PreferenceOf(b) <=> r.preferred /\ ~ b.preferred
           /\ PreferenceOf(r) = PreferenceOf(b) <=> r.preferred = b.preferred
<1>1. r.preferred \in BOOLEAN /\ b.preferred \in BOOLEAN
  BY DEF MediaAssumption
<1>2. PreferenceOf(r) \in 0..1 /\ PreferenceOf(b) \in 0..1
  BY DEF PreferenceOf
<1>3. /\ r.preferred => PreferenceOf(r) = 1
      /\ ~ r.preferred => PreferenceOf(r) = 0
      /\ b.preferred => PreferenceOf(b) = 1
      /\ ~ b.preferred => PreferenceOf(b) = 0
  BY Zenon DEF PreferenceOf
<1>4. 1 # 0 /\ 1 > 0 /\ ~ (0 > 1) /\ ~ (0 > 0) /\ ~ (1 > 1)
  OBVIOUS
<1>5. PreferenceOf(r) > PreferenceOf(b) <=> r.preferred /\ ~ b.preferred
  BY <1>3, <1>4, Zenon
<1>6. PreferenceOf(r) = PreferenceOf(b) <=> r.preferred = b.preferred
  BY <1>1, <1>3, <1>4, Zenon
<1> QED
  BY <1>2, <1>5, <1>6, Zenon DEF Film!Better

LEMMA RankIs ==
    ASSUME MediaAssumption, NEW r \in Renditions
    PROVE  /\ Film!Height(r) \in Nat /\ r.bitrate \in Nat
           /\ Film!Rank(r) = Film!Height(r) * Scale + r.bitrate /\ Film!Rank(r) \in Nat
<1>1. /\ r.height \in Nat \cup {Absent} /\ r.bitrate \in Nat /\ Scale \in Nat
      /\ Film!Height(r) = IF r.height = Absent THEN 0 ELSE r.height
      /\ Film!Rank(r) = IF r.height # Absent THEN r.height * Scale + r.bitrate ELSE r.bitrate
  BY DEF MediaAssumption, Film!Rank, Film!Height
<1>2. CASE r.height = Absent
  <2>1. 0 * Scale = 0
    BY <1>1
  <2> QED
    BY <1>1, <1>2, <2>1
<1>3. CASE r.height # Absent
  <2>1. r.height \in Nat /\ Film!Height(r) = r.height /\ Film!Rank(r) = r.height * Scale + r.bitrate
    BY <1>1, <1>3
  <2>2. r.height * Scale \in Nat
    BY <1>1, <2>1
  <2> QED
    BY <1>1, <2>1, <2>2
<1> QED
  BY <1>2, <1>3

LEMMA Trichotomy == ASSUME NEW x \in Nat, NEW y \in Nat PROVE x < y \/ x = y \/ y < x
  OBVIOUS

\* Of two heights the greater is worth more than any bitrate below a line.
LEMMA RankOrders ==
    ASSUME NEW h \in Nat, NEW g \in Nat, NEW b \in Nat, NEW c \in Nat, NEW s \in Nat,
           h * s + b <= g * s + c, b < s, c < s
    PROVE  h < g \/ (h = g /\ b <= c)
<1>1. ASSUME g < h PROVE FALSE
  <2>1. g + 1 \in Nat /\ g + 1 <= h
    BY <1>1
  <2>2. (g + 1) * s <= h * s /\ h * s \in Nat /\ (g + 1) * s \in Nat
    BY <2>1, TimesGrows, Zenon
  <2>3. (g + 1) * s = g * s + s /\ g * s \in Nat
    OBVIOUS
  <2> QED
    BY <2>2, <2>3
<1>2. ASSUME h = g PROVE b <= c
  <2>1. h * s \in Nat /\ h * s = g * s
    BY <1>2
  <2> QED
    BY <2>1
<1>3. h < g \/ h = g \/ g < h
  BY Trichotomy, Zenon
<1>4. CASE h < g
  BY <1>4, Zenon
<1>5. CASE h = g
  BY <1>2, <1>5, Zenon
<1> QED
  BY <1>1, <1>3, <1>4, <1>5, Zenon

\* The best so far: one of those that were tried, and none of them is better.
LEMMA BestSoFar ==
    ASSUME MediaAssumption, NEW rs \in Seq(Renditions), NEW pool, pool \subseteq 1..Len(rs),
           NEW f \in [0..Len(rs) -> Renditions \cup {Absent}], Best(pool, rs, f, Len(rs))
    PROVE  \A i \in 0..Len(rs) :
              /\ f[i] = Absent => \A j \in pool : j > i
              /\ f[i] # Absent => /\ \E j \in pool : f[i] = rs[j]
                                  /\ \A j \in pool : j <= i => ~ Film!Better(rs[j], f[i])
<1> DEFINE n == Len(rs)
           Good(i) == /\ f[i] = Absent => \A j \in pool : j > i
                      /\ f[i] # Absent => /\ \E j \in pool : f[i] = rs[j]
                                          /\ \A j \in pool : j <= i => ~ Film!Better(rs[j], f[i])
           T == {i \in 0..n : ~ Good(i)}
<1>1. n \in Nat /\ \A j \in 1..n : rs[j] \in Renditions
  OBVIOUS
<1>2. \A i \in 0..n : f[i] \in Renditions \cup {Absent}
  OBVIOUS
<1>3. \A i \in 0..n :
        f[i] = IF i = 0 THEN Absent
               ELSE IF i \in pool /\ (f[i - 1] = Absent \/ Film!Better(rs[i], f[i - 1]))
               THEN rs[i] ELSE f[i - 1]
  BY DEF Best
<1>4. Absent \notin Renditions
  BY DEF MediaAssumption
<1>5. \A j \in pool : j \in 1..n
  OBVIOUS
<1> SUFFICES ASSUME T # {} PROVE FALSE
  OBVIOUS
<1>6. PICK i \in T : \A k \in T : i <= k
  <2>1. T \subseteq Nat
    BY <1>1
  <2> HIDE DEF T
  <2> QED
    BY <2>1, LeastNumber, Zenon
<1> HIDE DEF n
<1>7. CASE i = 0
  <2>1. f[0] = Absent
    BY <1>1, <1>3
  <2>2. \A j \in pool : j > 0
    BY <1>1, <1>5
  <2> QED
    BY <1>6, <1>7, <2>1, <2>2
<1>8. CASE i # 0
  <2>1. i \in 1..n /\ i - 1 \in 0..n /\ i - 1 < i
    BY <1>1, <1>6, <1>8
  <2>2. Good(i - 1)
    <3>1. i - 1 \notin T
      BY SMTT(30), <1>1, <1>6, <2>1
    <3> HIDE DEF Good
    <3> QED
      BY <2>1, <3>1
  <2>3. \A j \in pool : j <= i => j = i \/ j <= i - 1
    BY <1>1, <1>5, <2>1
  <2>4. CASE i \in pool /\ (f[i - 1] = Absent \/ Film!Better(rs[i], f[i - 1]))
    <3>1. f[i] = rs[i] /\ rs[i] \in Renditions /\ f[i] # Absent
      BY <1>1, <1>3, <1>4, <1>8, <2>1, <2>4
    <3>2. ASSUME NEW j \in pool, j <= i PROVE ~ Film!Better(rs[j], f[i])
      <4>1. rs[j] \in Renditions
        BY <1>1, <1>5
      <4>2. CASE j = i
        <5>1. Film!Rank(rs[i]) \in Nat
          BY <3>1, RankIs
        <5> QED
          BY <3>1, <4>2, <5>1, BetterIs
      <4>3. CASE j # i
        <5>1. j <= i - 1 /\ f[i - 1] # Absent
          BY <1>1, <1>5, <2>1, <2>2, <2>3, <3>2, <4>3
        <5>2. f[i - 1] \in Renditions /\ ~ Film!Better(rs[j], f[i - 1]) /\ Film!Better(rs[i], f[i - 1])
          BY <1>2, <2>1, <2>2, <2>4, <5>1
        <5>3. Film!Rank(rs[i]) \in Nat /\ Film!Rank(rs[j]) \in Nat /\ Film!Rank(f[i - 1]) \in Nat
          BY <3>1, <4>1, <5>2, RankIs
        <5>4. ~ Film!Better(rs[j], rs[i])
          BY <3>1, <4>1, <5>2, <5>3, BetterIs
        <5> QED
          BY <3>1, <5>4
      <4> QED
        BY <4>2, <4>3
    <3>3. Good(i)
      BY <2>4, <3>1, <3>2
    <3> QED
      BY <1>6, <3>3
  <2>5. CASE ~ (i \in pool /\ (f[i - 1] = Absent \/ Film!Better(rs[i], f[i - 1])))
    <3>1. f[i] = f[i - 1]
      BY <1>3, <1>6, <1>8, <2>5
    <3>2. CASE f[i - 1] = Absent
      <4>1. i \notin pool
        BY <2>5, <3>2
      <4>2. \A j \in pool : j > i - 1 /\ j # i
        BY <2>2, <3>2, <4>1
      <4>3. \A j \in pool : j > i
        BY <1>1, <1>5, <2>1, <4>2
      <4> QED
        BY <1>6, <3>1, <3>2, <4>3
    <3>3. CASE f[i - 1] # Absent
      <4>1. \A j \in pool : j <= i - 1 => ~ Film!Better(rs[j], f[i - 1])
        BY <2>2, <3>3
      <4>2. i \in pool => ~ Film!Better(rs[i], f[i - 1])
        BY <2>5
      <4>3. \A j \in pool : j <= i => ~ Film!Better(rs[j], f[i])
        BY <2>3, <3>1, <4>1, <4>2
      <4>4. Good(i)
        BY <2>2, <3>1, <3>3, <4>3
      <4> QED
        BY <1>6, <4>4
    <3> QED
      BY <3>2, <3>3
  <2> QED
    BY <2>4, <2>5
<1> QED
  BY <1>7, <1>8

LEMMA PicksBest ==
    ASSUME MediaAssumption, NEW rs \in Seq(Renditions), NEW max
    PROVE  /\ rs = <<>> => Film!PickRendition(rs, max) = Absent
           /\ rs # <<>> => Film!IsBest(Film!PickRendition(rs, max), {rs[i] : i \in Film!Pool(rs, max)})
<1> DEFINE pool == Film!Pool(rs, max)
           n == Len(rs)
           pick == Film!PickRendition(rs, max)
<1>1. pool \subseteq 1..n /\ n \in Nat
  BY DEF Film!Pool
<1>2. n # 0 => pool # {}
  BY DEF Film!Pool
<1> HIDE DEF pool
<1>3. PICK f \in [0..n -> Renditions \cup {Absent}] : Best(pool, rs, f, n) /\ pick = f[n]
  BY PickIs, Zenon DEF pool
<1>4. \A i \in 0..n :
         /\ f[i] = Absent => \A j \in pool : j > i
         /\ f[i] # Absent => /\ \E j \in pool : f[i] = rs[j]
                             /\ \A j \in pool : j <= i => ~ Film!Better(rs[j], f[i])
  BY <1>1, <1>3, BestSoFar
<1> HIDE DEF pick
<1>5. ASSUME rs = <<>> PROVE pick = Absent
  <2>1. n = 0
    BY <1>5
  <2> QED
    BY <1>3, <2>1 DEF Best
<1>6. ASSUME rs # <<>> PROVE Film!IsBest(pick, {rs[i] : i \in pool})
  <2>1. n # 0 /\ n \in 0..n
    BY <1>1, <1>6
  <2>2. PICK j \in pool : j \in 1..n
    BY <1>1, <1>2, <2>1
  <2>3. pick # Absent
    BY <1>1, <1>3, <1>4, <2>1, <2>2
  <2>4. PICK k \in pool : pick = rs[k]
    BY <1>3, <1>4, <2>1, <2>3
  <2>5. pick \in Renditions
    BY <1>1, <2>4
  <2>6. ASSUME NEW other \in {rs[i] : i \in pool}
        PROVE  \/ pick.preferred /\ ~ other.preferred
               \/ /\ pick.preferred = other.preferred
                  /\ \/ Film!Height(other) < Film!Height(pick)
                     \/ Film!Height(other) = Film!Height(pick) /\ other.bitrate <= pick.bitrate
                     \/ {pick.bitrate, other.bitrate} \cap 0..(Scale - 1) # {pick.bitrate, other.bitrate}
    <3>1. PICK i \in pool : other = rs[i] /\ i \in 1..n
      BY <1>1, <2>6
    <3>2. other \in Renditions /\ ~ Film!Better(other, pick)
      BY <1>1, <1>3, <1>4, <2>1, <2>3, <3>1
    <3>3. /\ Film!Height(pick) \in Nat /\ pick.bitrate \in Nat
          /\ Film!Rank(pick) = Film!Height(pick) * Scale + pick.bitrate /\ Film!Rank(pick) \in Nat
          /\ Film!Height(other) \in Nat /\ other.bitrate \in Nat
          /\ Film!Rank(other) = Film!Height(other) * Scale + other.bitrate /\ Film!Rank(other) \in Nat
      BY <2>5, <3>2, RankIs
    <3>4. \/ PreferenceOf(pick) > PreferenceOf(other)
          \/ PreferenceOf(pick) = PreferenceOf(other) /\ Film!Rank(other) <= Film!Rank(pick)
      BY <2>5, <3>2, <3>3, BetterIs
    <3>5. CASE PreferenceOf(pick) > PreferenceOf(other)
      BY <2>5, <3>2, <3>5, BetterIs, Zenon
    <3>6. CASE PreferenceOf(pick) = PreferenceOf(other) /\ Film!Rank(other) <= Film!Rank(pick)
      <4>1. pick.preferred = other.preferred
        BY <2>5, <3>2, <3>6, BetterIs, Zenon
      <4>2. ASSUME {pick.bitrate, other.bitrate} \cap 0..(Scale - 1) = {pick.bitrate, other.bitrate}
            PROVE  \/ Film!Height(other) < Film!Height(pick)
                   \/ Film!Height(other) = Film!Height(pick) /\ other.bitrate <= pick.bitrate
        <5>1. Scale \in Nat
          BY DEF MediaAssumption
        <5>2. pick.bitrate < Scale /\ other.bitrate < Scale
          BY <3>3, <4>2, <5>1
        <5>3. Film!Height(other) * Scale + other.bitrate <= Film!Height(pick) * Scale + pick.bitrate
          BY <3>3, <3>6
        <5> QED
          <6> DEFINE h == Film!Height(other)
                     g == Film!Height(pick)
                     b == other.bitrate
                     c == pick.bitrate
          <6>1. h \in Nat /\ g \in Nat /\ b \in Nat /\ c \in Nat
            BY <3>3
          <6>2. h * Scale + b <= g * Scale + c /\ b < Scale /\ c < Scale
            BY <5>2, <5>3
          <6> HIDE DEF h, g, b, c
          <6>3. h < g \/ (h = g /\ b <= c)
            BY <5>1, <6>1, <6>2, RankOrders
          <6> QED
            BY <6>3 DEF h, g, b, c
      <4> QED
        BY <4>1, <4>2, Zenon
    <3> QED
      BY <3>4, <3>5, <3>6
  <2>7. pick \in {rs[i] : i \in pool}
    BY <2>4
  <2> QED
    BY <2>6, <2>7, Zenon DEF Film!IsBest
<1> QED
  BY <1>5, <1>6 DEF pick, pool

LEMMA MediaShown ==
    ASSUME MediaAssumption, MediaInv
    PROVE  /\ Film!Plays => (muted # silent => native)
           /\ Film!Plays => (Film!CaptionsContract \/ rewired)
           /\ duration # Absent => time <= duration
           /\ volume \in 0..Loudest
           /\ pictured => loaded
           /\ LET candidates == Film!NormaliseWidths(widths)
              IN /\ \A i \in 1..(Len(candidates) - 1) : candidates[i] < candidates[i + 1]
                 /\ \A i \in DOMAIN candidates : candidates[i] > 0 \/ \E v \in widths : v \in 1..4
                 /\ Film!FallbackWidth(widths) = Absent <=> {w \in widths : w > 0} = {}
           /\ aim = Absent => offset >= Film!Smaller(Film!End, presses * PageWidth)
           /\ status = "idle" => renditionId = Absent
           /\ LET pick == Film!PickRendition(offered, limit)
              IN IF offered = <<>> THEN pick = Absent
                 ELSE Film!IsBest(pick, {offered[i] : i \in Film!Pool(offered, limit)})
<1>1. /\ Film!Plays => (muted # silent => native)
      /\ Film!Plays => (Film!CaptionsContract \/ rewired)
  BY Zenon DEF MediaInv, PlayerInv, MuteInv
<1>2. (duration # Absent => time <= duration) /\ volume \in 0..Loudest
  BY Zenon DEF MediaInv, PlayerInv, TimeInv
<1>3. LET candidates == Film!NormaliseWidths(widths)
      IN /\ \A i \in 1..(Len(candidates) - 1) : candidates[i] < candidates[i + 1]
         /\ \A i \in DOMAIN candidates : candidates[i] > 0 \/ \E v \in widths : v \in 1..4
         /\ Film!FallbackWidth(widths) = Absent <=> {w \in widths : w > 0} = {}
  <2>1. widths \subseteq Widths
    BY DEF MediaInv
  <2> QED
    BY <2>1, Candidates, Fallback, Zenon
<1>4. aim = Absent => offset >= Film!Smaller(Film!End, presses * PageWidth)
  <2>1. /\ offset \in 0..Film!End /\ presses \in Nat
        /\ presses * PageWidth <= Bound \/ Bound = Film!End
    BY Zenon DEF MediaInv, CarouselInv
  <2>2. PageWidth \in Nat /\ Film!End \in Nat
    BY EndIsNat DEF MediaAssumption
  <2>3. presses * PageWidth \in Nat
    BY <2>1, <2>2
  <2> QED
    BY <2>1, <2>2, <2>3 DEF Bound, Film!Smaller
<1>5. LET pick == Film!PickRendition(offered, limit)
      IN IF offered = <<>> THEN pick = Absent
         ELSE Film!IsBest(pick, {offered[i] : i \in Film!Pool(offered, limit)})
  <2>1. offered \in Seq(Renditions)
    BY DEF MediaInv
  <2> QED
    BY <2>1, PicksBest, Zenon
<1> QED
  BY <1>1, <1>2, <1>3, <1>4, <1>5, Zenon DEF MediaInv

(* The player's copy of `muted` is what its element says unless the native   *)
(* controls were used, autoplay is not heard uninvited, an image comes out   *)
(* of its placeholder, "next" gets on by pages to the end, and of the renditions *)
(* the best is picked: of any length, any number of widths, slides and       *)
(* renditions.                                                               *)
THEOREM ShowsMediaCorrect == ASSUME MediaAssumption PROVE Film!Spec => ShowsMedia
<1> DEFINE Candidate == LET candidates == Film!NormaliseWidths(widths)
                        IN /\ \A i \in 1..(Len(candidates) - 1) : candidates[i] < candidates[i + 1]
                           /\ \A i \in DOMAIN candidates : candidates[i] > 0 \/ \E v \in widths : v \in 1..4
                           /\ Film!FallbackWidth(widths) = Absent <=> {w \in widths : w > 0} = {}
           Picked == LET pick == Film!PickRendition(offered, limit)
                     IN IF offered = <<>> THEN pick = Absent
                        ELSE Film!IsBest(pick, {offered[i] : i \in Film!Pool(offered, limit)})
           Muted == Film!Plays => (muted # silent => native)
           Captioned == Film!Plays => (Film!CaptionsContract \/ rewired)
           Timely == duration # Absent => time <= duration
           Loud == volume \in 0..Loudest
           Seen == pictured => loaded
           Paged == aim = Absent => offset >= Film!Smaller(Film!End, presses * PageWidth)
           Fitting == status = "idle" => renditionId = Absent
           Invited == Film!Autoplay => (silent \/ unmuted \/ late)
<1>1. MediaInv => Muted /\ Captioned /\ Timely /\ Loud /\ Seen /\ Candidate /\ Paged /\ Fitting /\ Picked
  BY MediaShown, Zenon
<1>2. MediaInv => [Invited]_Film!vars
  BY Zenon DEF Film!Autoplay, MediaInv, PlayerInv, MuteInv
<1>3. Film!Init => MediaInv
  BY MediaInit, Zenon
<1>4. MediaInv /\ [Film!Next]_Film!vars => MediaInv'
  BY MediaNext, Zenon
<1>5. Film!Spec => []MediaInv /\ [][Invited]_Film!vars
  <2> HIDE DEF Invited
  <2> QED
    BY <1>2, <1>3, <1>4, PTL DEF Film!Spec
<1>6. Film!Spec => /\ []Muted /\ []Captioned /\ []Timely /\ []Loud /\ []Seen /\ []Candidate
                   /\ []Paged /\ []Fitting /\ []Picked
  <2> HIDE DEF Muted, Captioned, Timely, Loud, Seen, Candidate, Paged, Fitting, Picked
  <2> QED
    BY <1>1, <1>5, PTL
<1> QED
  BY <1>5, <1>6, PTL DEF ShowsMedia, Film!ShowsMedia
------------------------------------------------------------------------------
(* Overlays: the palette's highlight.                                        *)

\* A title and a keyword compare in one of the ways that are scored, or not.
UiAssumption ==
    /\ Blank \in Queries
    /\ \A c \in Commands : \A q \in Queries :
          Words[c][q].keywords \in Seq({"is", "starts", "includes", "no"})

LEMMA KeywordsScore ==
    ASSUME NEW keywords \in Seq({"is", "starts", "includes", "no"})
    PROVE  Ui!ScoreKeywords(keywords) \in Nat
<1> DEFINE hits == {i \in DOMAIN keywords : keywords[i] # "no"}
           first == CHOOSE i \in hits : \A j \in hits : i <= j
           score == [is |-> 50, starts |-> 45, includes |-> 35]
<1>1. Ui!ScoreKeywords(keywords) = IF hits = {} THEN 0 ELSE score[keywords[first]]
  BY DEF Ui!ScoreKeywords
<1>2. CASE hits # {}
  <2>1. hits \subseteq Nat
    OBVIOUS
  <2>2. \E i \in hits : \A j \in hits : i <= j
    <3> HIDE DEF hits
    <3> QED
      BY <1>2, <2>1, LeastNumber, Zenon
  <2>3. first \in hits
    <3> HIDE DEF hits
    <3> QED
      BY <2>2, Zenon
  <2>4. keywords[first] \in {"is", "starts", "includes"}
    <3> HIDE DEF first
    <3> QED
      BY <2>3
  <2> HIDE DEF hits, first
  <2> QED
    BY <1>1, <1>2, <2>4
<1> QED
  BY <1>1, <1>2

LEMMA CommandScores ==
    ASSUME UiAssumption, NEW c \in Commands, NEW q \in Queries PROVE Ui!ScoreCommand(c, q) \in Nat
<1> DEFINE w == Words[c][q]
           title == [is |-> 100, starts |-> 80, includes |-> 60]
<1>1. Ui!ScoreKeywords(w.keywords) \in Nat
  BY KeywordsScore DEF UiAssumption
<1>2. w.title \in DOMAIN title => title[w.title] \in Nat
  OBVIOUS
<1>3. Ui!ScoreCommand(c, q) =
         CASE q = Blank -> 1
           [] q # Blank /\ w.title \in DOMAIN title -> title[w.title]
           [] q # Blank /\ w.title \notin DOMAIN title /\ w.subtitle -> 40
           [] OTHER -> IF Ui!ScoreKeywords(w.keywords) > 0 THEN Ui!ScoreKeywords(w.keywords)
                       ELSE IF w.title = "subsequence" THEN 20 ELSE 0
  BY DEF Ui!ScoreCommand
<1> HIDE DEF title, w
<1> QED
  BY <1>1, <1>2, <1>3

LEMMA UiCardinality ==
    \A S : Ui!Cardinality(S) = Cardinality(S)
  BY DEF Ui!Cardinality, Cardinality

\* What searchCommands() finds: commands that match, the first of them a best one.
LEMMA SearchIs ==
    ASSUME UiAssumption, NEW commands \in Seq(Commands), NEW q \in Queries
    PROVE  /\ Ui!SearchCommands(commands, q) \in Seq(Commands)
           /\ Ui!SearchCommands(commands, q) # <<>> =>
                 \E i \in DOMAIN commands :
                    /\ Ui!SearchCommands(commands, q)[1] = commands[i]
                    /\ \A j \in DOMAIN commands :
                          \/ Ui!ScoreCommand(commands[j], q) < Ui!ScoreCommand(commands[i], q)
                          \/ Ui!ScoreCommand(commands[j], q) = Ui!ScoreCommand(commands[i], q) /\ i <= j
<1> DEFINE score == [i \in DOMAIN commands |-> Ui!ScoreCommand(commands[i], q)]
           scored == {<<i, Ui!ScoreCommand(commands[i], q)>> : i \in DOMAIN commands}
           hits == {h \in scored : h[2] > 0}
           n == Cardinality(hits)
           Before(h) == {g \in hits : g[2] > h[2] \/ (g[2] = h[2] /\ g[1] < h[1])}
           below == [h \in hits |-> Before(h)]
           At(k) == CHOOSE h \in hits : Ui!Cardinality(Before(h)) = k - 1
           found == Ui!SearchCommands(commands, q)
<1>1. found = [k \in 1..Ui!Cardinality(hits) |-> commands[At(k)[1]]]
  BY DEF Ui!SearchCommands
<1>2. \A i \in DOMAIN commands : score[i] \in Nat /\ commands[i] \in Commands
  BY CommandScores
<1>3. \A i \in DOMAIN commands : i \in Nat
  OBVIOUS
<1>4. IsFiniteSet(hits) /\ n \in Nat
  <2> DEFINE pair == [i \in DOMAIN commands |-> <<i, Ui!ScoreCommand(commands[i], q)>>]
  <2>1. pair \in Surjection(DOMAIN commands, scored)
    BY DEF Surjection
  <2>2. IsFiniteSet(DOMAIN commands)
    <3>1. DOMAIN commands = 1..Len(commands) /\ IsFiniteSet(1..Len(commands))
      BY IntervalSize
    <3> QED
      BY <3>1
  <2>3. hits \in SUBSET scored
    OBVIOUS
  <2> HIDE DEF pair, scored, hits
  <2>4. IsFiniteSet(scored)
    BY <2>1, <2>2, FS_Surjection
  <2> QED
    BY <2>3, <2>4, FS_Subset, FS_CardinalityType
<1>5. \A h \in hits : h[1] \in DOMAIN commands /\ h[2] = score[h[1]] /\ h[2] > 0 /\ h = <<h[1], h[2]>>
  OBVIOUS
<1>6. \A i \in DOMAIN commands : score[i] > 0 => <<i, score[i]>> \in hits
  OBVIOUS
<1>7. \A i \in DOMAIN commands : <<i, score[i]>> \notin hits => score[i] = 0
  <2> HIDE DEF score, hits
  <2> QED
    BY <1>2, <1>6
<1> HIDE DEF score, scored, hits
<1>17. \A h \in hits : h[1] \in Nat /\ h[2] \in Nat
  BY <1>2, <1>3, <1>5
<1>8. ASSUME NEW i \in hits, NEW j \in hits
      PROVE  /\ i[1] \in Nat /\ j[1] \in Nat /\ i[2] \in Nat /\ j[2] \in Nat
             /\ i # j => i[1] # j[1]
             /\ j \in below[i] <=> j[2] > i[2] \/ (j[2] = i[2] /\ j[1] < i[1])
  <2>1. i[1] = j[1] => i = j
    BY <1>5
  <2> QED
    BY <1>17, <2>1
<1>9. below \in [hits -> SUBSET hits]
  OBVIOUS
<1> HIDE DEF below
<1>10. /\ \A i \in hits : i \notin below[i]
       /\ \A i \in hits : \A j \in hits : i # j => i \in below[j] \/ j \in below[i]
       /\ \A i \in hits : \A j \in hits : i \in below[j] => below[i] \subseteq below[j]
  <2>1. ASSUME NEW i \in hits PROVE i \notin below[i]
    BY <1>8
  <2>2. ASSUME NEW i \in hits, NEW j \in hits, i # j PROVE i \in below[j] \/ j \in below[i]
    BY <1>8, <2>2
  <2>3. ASSUME NEW i \in hits, NEW j \in hits, i \in below[j] PROVE below[i] \subseteq below[j]
    <3>1. ASSUME NEW k \in below[i] PROVE k \in below[j]
      <4>1. k \in hits
        BY <1>9, <3>1
      <4> QED
        BY <1>8, <2>3, <3>1, <4>1
    <3> QED
      BY <3>1
  <2> QED
    BY <2>1, <2>2, <2>3
<1>11. \A k \in 0..(n - 1) : \E i \in hits : Cardinality(below[i]) = k
  BY <1>4, <1>9, <1>10, Places
<1>12. ASSUME NEW k \in 1..n PROVE At(k) \in hits /\ Cardinality(below[At(k)]) = k - 1
  <2>1. k - 1 \in 0..(n - 1)
    BY <1>4
  <2>2. \A i \in hits : Ui!Cardinality(Before(i)) = Cardinality(below[i])
    BY UiCardinality DEF below
  <2>3. \E i \in hits : Ui!Cardinality(Before(i)) = k - 1
    BY <1>11, <2>1, <2>2
  <2>4. At(k) \in hits /\ Ui!Cardinality(Before(At(k))) = k - 1
    <3> HIDE DEF Before
    <3> QED
      BY <2>3
  <2> HIDE DEF At, Before
  <2> QED
    BY <2>2, <2>4
<1>13. found = [k \in 1..n |-> commands[At(k)[1]]]
  BY <1>1, UiCardinality
<1> HIDE DEF At, found, n
<1>14. found \in Seq(Commands) /\ Len(found) = n
  <2>1. \A k \in 1..n : commands[At(k)[1]] \in Commands
    BY <1>2, <1>5, <1>12
  <2> QED
    BY <1>4, <1>13, <2>1
<1>15. ASSUME found # <<>>
       PROVE  \E i \in DOMAIN commands :
                 /\ found[1] = commands[i]
                 /\ \A j \in DOMAIN commands :
                       score[j] < score[i] \/ (score[j] = score[i] /\ i <= j)
  <2>1. 1 \in 1..n
    BY <1>4, <1>14, <1>15
  <2> DEFINE h == At(1)
             i == h[1]
  <2>2. h \in hits /\ Cardinality(below[h]) = 0 /\ found[1] = commands[i]
    BY <1>12, <1>13, <2>1
  <2> HIDE DEF h
  <2>3. below[h] = {}
    <3>1. IsFiniteSet(below[h])
      <4>1. below[h] \in SUBSET hits
        BY <1>9, <2>2
      <4> QED
        BY <1>4, <4>1, FS_Subset
    <3> QED
      BY <2>2, <3>1, FS_EmptySet
  <2>5. i \in DOMAIN commands /\ i \in Nat /\ h[2] = score[i] /\ score[i] \in Nat /\ score[i] > 0
    BY <1>2, <1>3, <1>5, <2>2
  <2>4. ASSUME NEW j \in DOMAIN commands
        PROVE  score[j] < score[i] \/ (score[j] = score[i] /\ i <= j)
    <3> DEFINE g == <<j, score[j]>>
    <3>1. CASE g \in hits
      <4>1. ~ (g[2] > h[2] \/ (g[2] = h[2] /\ g[1] < h[1]))
        <5> HIDE DEF g, i
        <5> QED
          BY <1>8, <2>2, <2>3, <3>1
      <4>2. j \in Nat /\ score[j] \in Nat /\ g[1] = j /\ g[2] = score[j]
        BY <1>2, <1>3
      <4> HIDE DEF g
      <4>3. ~ (score[j] > score[i] \/ (score[j] = score[i] /\ j < i))
        BY <2>5, <4>1, <4>2
      <4> HIDE DEF i
      <4> QED
        BY <2>5, <4>2, <4>3
    <3>2. CASE g \notin hits
      <4>1. score[j] = 0
        BY <1>7, <3>2
      <4> HIDE DEF i
      <4> QED
        BY <2>5, <4>1
    <3> QED
      BY <3>1, <3>2
  <2> QED
    BY <2>2, <2>4, <2>5
<1>16. \A i \in DOMAIN commands : score[i] = Ui!ScoreCommand(commands[i], q)
  BY DEF score
<1> QED
  BY <1>14, <1>15, <1>16, Zenon DEF found

\* The registry stays a sequence of commands.
LEMMA Registers ==
    ASSUME NEW commands \in Seq(Commands), NEW c \in Commands
    PROVE  Ui!Register(commands, c) \in Seq(Commands) /\ Ui!Unregister(commands, c) \in Seq(Commands)
<1>1. Ui!Register(commands, c) \in Seq(Commands)
  BY DEF Ui!Register
<1>2. ASSUME Ui!Registered(commands, c) PROVE Ui!Unregister(commands, c) \in Seq(Commands)
  <2> DEFINE i == CHOOSE k \in DOMAIN commands : commands[k] = c
  <2>1. Ui!Unregister(commands, c) = SubSeq(commands, 1, i - 1) \o SubSeq(commands, i + 1, Len(commands))
    BY <1>2 DEF Ui!Unregister
  <2>2. i \in 1..Len(commands)
    BY <1>2 DEF Ui!Registered
  <2> HIDE DEF i
  <2>3. SubSeq(commands, 1, i - 1) \in Seq(Commands)
    <3>1. 1 \in Int /\ i - 1 \in Int /\ \A k \in 1..(i - 1) : commands[k] \in Commands
      BY <2>2
    <3> QED
      BY <3>1, SubSeqProperties
  <2>4. SubSeq(commands, i + 1, Len(commands)) \in Seq(Commands)
    <3>1. i + 1 \in Int /\ Len(commands) \in Int /\ \A k \in (i + 1)..Len(commands) : commands[k] \in Commands
      BY <2>2
    <3> QED
      BY <3>1, SubSeqProperties
  <2>5. SubSeq(commands, 1, i - 1) \o SubSeq(commands, i + 1, Len(commands)) \in Seq(Commands)
    BY <2>3, <2>4, ConcatProperties
  <2> QED
    BY <2>1, <2>5, Zenon
<1>3. ASSUME ~ Ui!Registered(commands, c) PROVE Ui!Unregister(commands, c) \in Seq(Commands)
  BY <1>3 DEF Ui!Unregister
<1> QED
  BY <1>1, <1>2, <1>3

\* The highlight is on an option, as long as there is one and what is shown
\* has been searched for; only ArrowDown in an empty list puts it before the
\* first, and only the arrows and the mouse move it from there.
HighlightInv ==
    /\ registry \in Seq(Commands) /\ query \in Queries
    /\ active \in Int /\ active >= -1
    /\ active = -1 => sunk
    /\ shown.query = query => active <= 0 \/ active < Len(Ui!Results)
    /\ ~ moved /\ shown.query = query => active = 0

LEMMA Clamped ==
    ASSUME NEW i \in Int, NEW n \in Nat, i >= -1
    PROVE  /\ Ui!ClampActive(i, n) \in Int /\ Ui!ClampActive(i, n) >= -1
           /\ Ui!ClampActive(i, n) = -1 => i = -1
           /\ Ui!ClampActive(i, n) <= 0 \/ Ui!ClampActive(i, n) < n
           /\ i = 0 => Ui!ClampActive(i, n) = 0
  BY DEF Ui!ClampActive

LEMMA HighlightInit == ASSUME UiAssumption, Ui!Init PROVE HighlightInv
<1>1. registry = <<>> /\ query = Blank /\ active = 0
  BY DEF Ui!Init
<1> QED
  BY <1>1 DEF HighlightInv, UiAssumption

\* What neither searches nor moves the highlight.
LEMMA HighlightRests ==
    ASSUME HighlightInv, UNCHANGED <<registry, query, active, moved, sunk, shown>> PROVE HighlightInv'
<1>1. Ui!Results' = Ui!Results
  BY DEF Ui!Results
<1> QED
  BY <1>1 DEF HighlightInv

LEMMA HighlightMoves ==
    ASSUME UiAssumption, HighlightInv,
           UNCHANGED <<registry, query, shown>>, moved' = TRUE,
           active' \in Int, active' >= -1, active' = -1 => sunk',
           active' <= 0 \/ active' < Len(Ui!Results)
    PROVE  HighlightInv'
<1>1. Ui!Results' = Ui!Results
  BY DEF Ui!Results
<1> QED
  BY <1>1 DEF HighlightInv

\* A new query, or none; what is shown is of the old one.
LEMMA HighlightWaits ==
    ASSUME UiAssumption, HighlightInv, shown.query = query,
           UNCHANGED <<registry, active, moved, sunk, shown>>, query' \in Queries
    PROVE  HighlightInv'
<1>1. query' = query => Ui!Results' = Ui!Results
  BY DEF Ui!Results
<1>2. shown'.query = query' => query' = query
  OBVIOUS
<1> QED
  BY <1>1, <1>2 DEF HighlightInv

LEMMA HighlightKeeps == ASSUME UiAssumption, HighlightInv, Ui!Next PROVE HighlightInv'
<1>0. Ui!Results \in Seq(Commands) /\ Len(Ui!Results) \in Nat
  <2>1. Ui!Results \in Seq(Commands)
    BY SearchIs DEF Ui!Results, HighlightInv
  <2> HIDE DEF Ui!Results
  <2> QED
    BY <2>1
<1>1. CASE Ui!Flush
  <2>1. /\ shown' = [open |-> open, dialog |-> dialog, query |-> query]
        /\ active' = Ui!ClampActive(IF query # shown.query THEN 0 ELSE active, Len(Ui!Results))
        /\ moved' = (moved /\ query = shown.query)
        /\ sunk' = (sunk /\ query = shown.query)
        /\ UNCHANGED <<registry, query>>
    BY <1>1, Zenon DEF Ui!Flush
  <2>2. Ui!Results' = Ui!Results /\ shown'.query = query'
    BY <2>1 DEF Ui!Results
  <2>3. CASE query # shown.query
    <3>1. active' = Ui!ClampActive(0, Len(Ui!Results)) /\ 0 \in Int /\ 0 >= -1 /\ 0 # -1
      BY <2>1, <2>3
    <3>2. active' = 0
      BY <1>0, <3>1, Clamped
    <3> QED
      BY <2>1, <2>2, <3>2 DEF HighlightInv
  <2>4. CASE query = shown.query
    <3>1. active' = Ui!ClampActive(active, Len(Ui!Results))
      BY <2>1, <2>4, Zenon
    <3>2. active \in Int /\ active >= -1 /\ (active = -1 => sunk) /\ (~ moved => active = 0)
      BY <2>4 DEF HighlightInv
    <3>3. /\ active' \in Int /\ active' >= -1 /\ (active' = -1 => active = -1)
          /\ active' <= 0 \/ active' < Len(Ui!Results)
          /\ active = 0 => active' = 0
      BY <1>0, <3>1, <3>2, Clamped
    <3>4. (active' = -1 => sunk') /\ (~ moved' => active' = 0)
      BY <2>1, <2>4, <3>2, <3>3, Zenon
    <3>5. registry' \in Seq(Commands) /\ query' \in Queries
      BY <2>1 DEF HighlightInv
    <3> QED
      BY <2>2, <3>3, <3>4, <3>5, Zenon DEF HighlightInv
  <2> QED
    BY <2>3, <2>4
<1>2. CASE \/ Ui!Land \/ Ui!Shortcut \/ Ui!Escape \/ Ui!ClickInput \/ Ui!Dismiss
           \/ Ui!Tab \/ Ui!ClickOverlay \/ Ui!UsePage
  <2>1. UNCHANGED <<registry, query, active, moved, sunk, shown>>
    BY <1>2 DEF Ui!Land, Ui!Shortcut, Ui!Escape, Ui!ClickInput, Ui!Dismiss, Ui!Tab, Ui!ClickOverlay, Ui!UsePage
  <2> QED
    BY <2>1, HighlightRests
<1>3. CASE Ui!ArrowDown
  <2>1. /\ UNCHANGED <<registry, query, shown>> /\ moved' = TRUE /\ sunk' = (Ui!Results = <<>>)
        /\ active' = IF active + 1 < Len(Ui!Results) THEN active + 1 ELSE Len(Ui!Results) - 1
    BY <1>3 DEF Ui!ArrowDown
  <2>2. active' \in Int /\ active' >= -1 /\ (active' = -1 => Len(Ui!Results) = 0) /\ active' < Len(Ui!Results)
    BY <1>0, <2>1 DEF HighlightInv
  <2>3. Len(Ui!Results) = 0 => Ui!Results = <<>>
    BY <1>0
  <2>4. active' = -1 => sunk'
    BY <2>1, <2>2, <2>3, Zenon
  <2> QED
    BY <2>1, <2>2, <2>4, HighlightMoves
<1>4. CASE Ui!ArrowUp
  <2>1. /\ UNCHANGED <<registry, query, shown>> /\ moved' = TRUE
        /\ active' = IF active > 0 THEN active - 1 ELSE 0
        /\ shown.query = query
    BY <1>4 DEF Ui!ArrowUp, Ui!Settled
  <2>2. active' \in Int /\ active' >= 0 /\ (active' <= 0 \/ active' < Len(Ui!Results))
    BY <1>0, <2>1 DEF HighlightInv
  <2> QED
    BY <2>1, <2>2, HighlightMoves
<1>5. CASE Ui!Hover
  <2>1. PICK i \in DOMAIN Ui!Results : active' = i - 1
    BY <1>5 DEF Ui!Hover
  <2>2. UNCHANGED <<registry, query, shown>> /\ moved' = TRUE
    BY <1>5 DEF Ui!Hover
  <2>3. active' \in Int /\ active' >= 0 /\ active' < Len(Ui!Results)
    BY <1>0, <2>1
  <2> QED
    BY <2>2, <2>3, HighlightMoves
<1>6. CASE Ui!Enter \/ Ui!ClickOption \/ Ui!Type
  <2>1. shown.query = query /\ UNCHANGED <<registry, active, moved, sunk, shown>>
    BY <1>6 DEF Ui!Enter, Ui!ClickOption, Ui!Type, Ui!Settled
  <2>2. query' \in Queries
    BY <1>6 DEF Ui!Enter, Ui!ClickOption, Ui!Type, Ui!RunAt, UiAssumption, HighlightInv
  <2> QED
    BY <2>1, <2>2, HighlightWaits
<1>7. CASE Ui!Application
  <2>1. shown.query = query /\ UNCHANGED <<query, moved, sunk, shown>>
    BY <1>7 DEF Ui!Application, Ui!Settled
  <2>2. CASE UNCHANGED <<registry, active>>
    BY <2>1, <2>2, HighlightRests
  <2>3. CASE /\ \E c \in Commands : registry' \in {Ui!Register(registry, c), Ui!Unregister(registry, c)}
             /\ active' = Ui!ClampActive(active, Len(Ui!SearchCommands(registry', query)))
    <3>1. registry' \in Seq(Commands)
      BY <2>3, Registers DEF HighlightInv
    <3>2. Ui!Results' \in Seq(Commands) /\ active' = Ui!ClampActive(active, Len(Ui!Results'))
      BY <2>1, <2>3, <3>1, SearchIs DEF Ui!Results, HighlightInv
    <3>3. Len(Ui!Results') \in Nat
      <4> HIDE DEF Ui!Results
      <4> QED
        BY <3>2
    <3>4. active \in Int /\ active >= -1 /\ (active = -1 => sunk) /\ (~ moved => active = 0)
      BY <2>1 DEF HighlightInv
    <3>5. /\ active' \in Int /\ active' >= -1 /\ (active' = -1 => active = -1)
          /\ active' <= 0 \/ active' < Len(Ui!Results')
          /\ active = 0 => active' = 0
      BY <3>2, <3>3, <3>4, Clamped
    <3>6. (active' = -1 => sunk') /\ (~ moved' => active' = 0) /\ query' \in Queries
      BY <2>1, <3>4, <3>5 DEF HighlightInv
    <3> QED
      BY <3>1, <3>5, <3>6, Zenon DEF HighlightInv
  <2> QED
    BY <1>7, <2>2, <2>3 DEF Ui!Application
<1> QED
  BY <1>1, <1>2, <1>3, <1>4, <1>5, <1>6, <1>7 DEF Ui!Next

LEMMA HighlightStep == ASSUME UiAssumption, HighlightInv, [Ui!Next]_Ui!vars PROVE HighlightInv'
<1>1. ASSUME UNCHANGED Ui!vars PROVE HighlightInv'
  BY <1>1, HighlightRests DEF Ui!vars
<1> QED
  BY <1>1, HighlightKeeps

LEMMA OptionHighlighted == ASSUME UiAssumption, HighlightInv PROVE Ui!Highlighted
<1> SUFFICES ASSUME Ui!Settled, Ui!Results # <<>>
             PROVE  Ui!Results0(active) \/ (active = -1 /\ sunk)
  BY DEF Ui!Highlighted
<1>1. shown.query = query
  BY DEF Ui!Settled
<1>2. Ui!Results \in Seq(Commands)
  BY SearchIs DEF Ui!Results, HighlightInv
<1>3. active \in Int /\ active >= -1 /\ (active = -1 => sunk) /\ (active <= 0 \/ active < Len(Ui!Results))
  BY <1>1 DEF HighlightInv
<1> HIDE DEF Ui!Results
<1>4. Len(Ui!Results) \in Nat /\ Len(Ui!Results) > 0 /\ DOMAIN Ui!Results = 1..Len(Ui!Results)
  BY <1>2
<1>5. active # -1 => active + 1 \in DOMAIN Ui!Results
  BY <1>3, <1>4
<1> QED
  BY <1>3, <1>5, Zenon DEF Ui!Results0

LEMMA BestHighlighted == ASSUME UiAssumption, HighlightInv PROVE Ui!BestFirst
<1> SUFFICES ASSUME Ui!Settled, ~ moved, Ui!Results # <<>>, NEW i \in DOMAIN registry
             PROVE  /\ active = 0
                    /\ Ui!ScoreCommand(registry[i], query) <= Ui!ScoreCommand(Ui!Results[1], query)
                    /\ Ui!ScoreCommand(registry[i], query) = Ui!ScoreCommand(Ui!Results[1], query)
                          => \E j \in 1..i : registry[j] = Ui!Results[1]
  BY Zenon DEF Ui!BestFirst
<1>1. active = 0
  BY DEF Ui!Settled, HighlightInv
<1>2. registry \in Seq(Commands) /\ query \in Queries
  BY DEF HighlightInv
<1>3. PICK k \in DOMAIN registry :
         /\ Ui!Results[1] = registry[k]
         /\ \A j \in DOMAIN registry :
               \/ Ui!ScoreCommand(registry[j], query) < Ui!ScoreCommand(registry[k], query)
               \/ Ui!ScoreCommand(registry[j], query) = Ui!ScoreCommand(registry[k], query) /\ k <= j
  BY <1>2, SearchIs, Zenon DEF Ui!Results
<1>4. Ui!ScoreCommand(registry[i], query) \in Nat /\ Ui!ScoreCommand(registry[k], query) \in Nat
  BY <1>2, CommandScores
<1>5. i \in Nat /\ k \in Nat /\ k >= 1
  BY <1>2
<1> HIDE DEF Ui!Results, Ui!ScoreCommand
<1>6. Ui!ScoreCommand(registry[i], query) <= Ui!ScoreCommand(registry[k], query)
  BY <1>3, <1>4
<1>7. Ui!ScoreCommand(registry[i], query) = Ui!ScoreCommand(registry[k], query) => k \in 1..i
  BY <1>3, <1>4, <1>5
<1> QED
  BY <1>1, <1>3, <1>6, <1>7, Zenon

(* What a key acts on is what the user sees: the highlight is on an option,  *)
(* and until the user moves it on the earliest registered of the commands    *)
(* that match best; an open dialog has the focus and gives it back.  For any *)
(* commands, queries, ways in which they compare and elements of the page.   *)
THEOREM RightTargetCorrect == ASSUME OutsideAssumption, UiAssumption PROVE Ui!Spec => RightTarget
<1>1. Ui!Init => HighlightInv
  BY HighlightInit
<1>2. HighlightInv /\ [Ui!Next]_Ui!vars => HighlightInv'
  BY HighlightStep
<1>3. HighlightInv => Ui!Highlighted /\ Ui!BestFirst
  BY OptionHighlighted, BestHighlighted
<1>4. Ui!Spec => [](Ui!Highlighted /\ Ui!BestFirst)
  BY <1>1, <1>2, <1>3, PTL DEF Ui!Spec
<1>5. Ui!Spec => []Ui!FocusIsKept
  BY FocusIsKeptCorrect
<1>6. Ui!Spec => Ui!FocusReturns
  BY FocusReturnsCorrect
<1> QED
  BY <1>4, <1>5, <1>6, PTL DEF RightTarget, Ui!RightTarget

------------------------------------------------------------------------------
(* DataViews: the virtual list, of any length and with rows of any height.   *)

DataAssumption ==
    /\ Cell \in [Rows -> [Columns -> Nat]] /\ "none" \notin Columns /\ Sortable \subseteq Columns
    /\ RowHeight \in Nat \ {0} /\ ClientHeight \in Nat /\ MaxItems \in Nat /\ MaxPages \in Nat

LEMMA Divides ==
    ASSUME NEW n \in Nat, NEW d \in Nat \ {0}
    PROVE  n \div d \in Nat /\ (n \div d) * d <= n /\ n < (n \div d + 1) * d
  OBVIOUS

LEMMA TimesOrders ==
    ASSUME NEW a \in Nat, NEW b \in Nat, NEW c \in Nat, a * c < b * c
    PROVE  a < b
<1>1. ASSUME b <= a PROVE FALSE
  <2>1. a * c \in Nat /\ b * c \in Nat /\ b * c <= a * c
    BY <1>1, TimesGrows, Zenon
  <2> QED
    BY <2>1
<1> QED
  BY <1>1

LEMMA RoundsUp ==
    ASSUME NEW n \in Nat, NEW d \in Nat \ {0}
    PROVE  /\ Data!Ceiling(n, d) \in Nat /\ n <= Data!Ceiling(n, d) * d
           /\ n > 0 => Data!Ceiling(n, d) > 0
           /\ \A k \in Nat : k < Data!Ceiling(n, d) => k * d < n
<1> DEFINE m == n + d - 1
           q == m \div d
<1>1. m \in Nat /\ Data!Ceiling(n, d) = q
  BY DEF Data!Ceiling
<1>2. q \in Nat /\ q * d <= m /\ m < (q + 1) * d
  <2> HIDE DEF m
  <2> QED
    BY <1>1, Divides
<1>3. m + 1 = n + d
  OBVIOUS
<1> HIDE DEF q, m
<1>4. (q + 1) * d = q * d + d /\ q * d \in Nat
  BY <1>2
<1>5. n <= q * d
  BY <1>1, <1>2, <1>3, <1>4
<1>6. n > 0 => q > 0
  <2>1. q = 0 => q * d = 0
    OBVIOUS
  <2> QED
    BY <1>2, <1>5, <2>1
<1>7. ASSUME NEW k \in Nat, k < q PROVE k * d < n
  <2>1. k + 1 \in Nat /\ k + 1 <= q
    BY <1>2, <1>7
  <2>2. (k + 1) * d <= q * d
    BY <1>2, <2>1, TimesGrows, Zenon
  <2>3. (k + 1) * d = k * d + d /\ k * d \in Nat
    OBVIOUS
  <2> QED
    BY <1>1, <1>2, <1>3, <1>4, <2>2, <2>3
<1> QED
  BY <1>1, <1>2, <1>5, <1>6, <1>7

\* A row reached with a key was scrolled to the top, or as far as there is.
ListInv ==
    /\ count \in Nat /\ overscan \in Nat /\ focusIndex \in Nat
    /\ position \in Nat /\ scrollTop \in Nat
    /\ viewportHeight \in {0, ClientHeight}
    /\ followed => /\ focusIndex < count
                   /\ position = Data!Least(focusIndex * RowHeight, Data!Scrollable(count * RowHeight))

LEMMA Scrolls ==
    ASSUME DataAssumption, NEW n \in Nat
    PROVE  n * RowHeight \in Nat /\ Data!Scrollable(n * RowHeight) \in Nat
<1>1. RowHeight \in Nat /\ ClientHeight \in Nat
  BY DEF DataAssumption
<1>2. n * RowHeight \in Nat
  BY <1>1
<1> QED
  BY <1>1, <1>2 DEF Data!Scrollable, Data!Most

LEMMA KeysMove ==
    ASSUME DataAssumption, ListInv, count > 0,
           NEW key \in {"ArrowDown", "ArrowUp", "PageDown", "PageUp", "Home", "End"}
    PROVE  Data!NextFocusIndex(key) \in 0..(count - 1)
<1> DEFINE pageRows == Data!Most(1, viewportHeight \div RowHeight)
<1>1. viewportHeight \in Nat /\ RowHeight \in Nat \ {0}
  BY DEF DataAssumption, ListInv
<1>2. viewportHeight \div RowHeight \in Nat
  BY <1>1, Divides
<1>3. pageRows \in Nat
  BY <1>2 DEF Data!Most
<1>4. \A n \in Int : Data!Clamp(n) \in 0..(count - 1)
  BY DEF Data!Clamp, Data!Least, Data!Most, ListInv
<1>5. Data!NextFocusIndex(key) =
        CASE key = "ArrowDown" -> Data!Clamp(focusIndex + 1)
          [] key = "ArrowUp" -> Data!Clamp(focusIndex - 1)
          [] key = "PageDown" -> Data!Clamp(focusIndex + pageRows)
          [] key = "PageUp" -> Data!Clamp(focusIndex - pageRows)
          [] key = "Home" -> 0
          [] key = "End" -> count - 1
  BY DEF Data!NextFocusIndex
<1> HIDE DEF pageRows
<1>6. /\ focusIndex + 1 \in Int /\ focusIndex - 1 \in Int
      /\ focusIndex + pageRows \in Int /\ focusIndex - pageRows \in Int
  BY <1>3 DEF ListInv
<1>7. 0 \in 0..(count - 1) /\ count - 1 \in 0..(count - 1)
  BY DEF ListInv
<1> QED
  BY <1>4, <1>5, <1>6, <1>7

LEMMA ListInit == ASSUME DataAssumption, Data!Init PROVE ListInv
  BY DEF Data!Init, ListInv

LEMMA ListKeeps == ASSUME DataAssumption, ListInv, Data!Next PROVE ListInv'
<1>1. \/ Data!SetRows \/ Data!ToggleSort \/ Data!SetFilter \/ Data!SetPageSize \/ Data!SetPageIndex
      => UNCHANGED Data!listVars
  BY DEF Data!SetRows, Data!ToggleSort, Data!SetFilter, Data!SetPageSize, Data!SetPageIndex, Data!InTable
<1>2. ASSUME UNCHANGED Data!listVars PROVE ListInv'
  BY <1>2 DEF Data!listVars, ListInv
<1>3. CASE Data!Measure
  BY <1>3 DEF Data!Measure, Data!InList, ListInv
<1>4. CASE Data!SetItems
  <2>1. /\ count' \in Nat /\ followed' = FALSE
        /\ UNCHANGED <<overscan, scrollTop, viewportHeight, focusIndex>>
        /\ position' = Data!Least(position, Data!Scrollable(count' * RowHeight))
    BY <1>4 DEF Data!SetItems, Data!InList, DataAssumption
  <2>2. Data!Scrollable(count' * RowHeight) \in Nat
    BY <2>1, Scrolls
  <2>3. position' \in Nat
    BY <2>1, <2>2 DEF Data!Least, ListInv
  <2> QED
    BY <2>1, <2>3 DEF ListInv
<1>5. CASE Data!Wheel
  <2>1. /\ position' \in 0..Data!Scrollable(count * RowHeight) /\ followed' = FALSE
        /\ UNCHANGED <<count, overscan, scrollTop, viewportHeight, focusIndex>>
    BY <1>5 DEF Data!Wheel, Data!InList, Data!TotalSize
  <2>2. Data!Scrollable(count * RowHeight) \in Nat
    BY Scrolls DEF ListInv
  <2>3. position' \in Nat
    BY <2>1, <2>2
  <2> QED
    BY <2>1, <2>3 DEF ListInv
<1>6. CASE Data!OnScroll
  <2>1. scrollTop' = position /\ UNCHANGED <<count, overscan, viewportHeight, focusIndex, position, followed>>
    BY <1>6 DEF Data!OnScroll, Data!InList
  <2> QED
    BY <2>1 DEF ListInv
<1>7. CASE Data!OnKeydown
  <2>1. UNCHANGED <<count, overscan, scrollTop, viewportHeight>> /\ count > 0
    BY <1>7 DEF Data!OnKeydown, Data!InList
  <2>2. PICK key \in {"ArrowDown", "ArrowUp", "PageDown", "PageUp", "Home", "End"} :
               /\ focusIndex' = Data!NextFocusIndex(key)
               /\ position' = Data!Least(focusIndex' * RowHeight, Data!Scrollable(count * RowHeight))
    BY <1>7 DEF Data!OnKeydown, Data!OffsetForIndex, Data!TotalSize
  <2>3. focusIndex' \in 0..(count - 1)
    BY <2>1, <2>2, KeysMove
  <2>4. focusIndex' \in Nat /\ focusIndex' < count /\ count \in Nat
    BY <2>3 DEF ListInv
  <2>5. focusIndex' * RowHeight \in Nat /\ Data!Scrollable(count * RowHeight) \in Nat
    BY <2>4, Scrolls
  <2>6. position' \in Nat
    BY <2>2, <2>5 DEF Data!Least
  <2> QED
    BY <2>1, <2>2, <2>4, <2>6 DEF ListInv
<1> QED
  BY <1>1, <1>2, <1>3, <1>4, <1>5, <1>6, <1>7 DEF Data!Next

LEMMA WholeList == ASSUME DataAssumption, ListInv PROVE Data!ListIsWhole
<1> SUFFICES ASSUME viewportHeight > 0, scrollTop = position
             PROVE  /\ {i \in 0..(count - 1) : Data!InViewport(i)} \subseteq Data!ComputeVirtualWindow
                    /\ followed => focusIndex \in Data!ComputeVirtualWindow /\ Data!InViewport(focusIndex)
  BY Zenon DEF Data!ListIsWhole
<1> DEFINE first == position \div RowHeight
           page == Data!Ceiling(ClientHeight, RowHeight)
<1>1. /\ count \in Nat /\ overscan \in Nat /\ position \in Nat /\ viewportHeight = ClientHeight
      /\ ClientHeight \in Nat /\ ClientHeight > 0 /\ RowHeight \in Nat \ {0}
  BY DEF ListInv, DataAssumption
<1>2. first \in Nat /\ first * RowHeight <= position /\ position < (first + 1) * RowHeight
  BY <1>1, Divides
<1>3. page \in Nat /\ ClientHeight <= page * RowHeight
  BY <1>1, RoundsUp
<1>4. count # 0 => Data!ComputeVirtualWindow = Data!Most(0, first - overscan) .. Data!Least(count - 1, first + page + overscan)
  BY <1>1 DEF Data!ComputeVirtualWindow, Data!FirstVisible, Data!LastVisible
<1> HIDE DEF first, page
<1>5. ASSUME NEW i \in 0..(count - 1), Data!InViewport(i) PROVE i \in Data!ComputeVirtualWindow
  <2>1. i \in Nat /\ i * RowHeight < position + ClientHeight /\ position < (i + 1) * RowHeight
    BY <1>1, <1>5 DEF Data!InViewport
  <2>2. i \in Nat /\ i + 1 \in Nat /\ first + 1 \in Nat /\ first + 1 + page \in Nat
    BY <1>2, <1>3, <2>1
  <2>3. /\ i * RowHeight \in Nat /\ (i + 1) * RowHeight \in Nat /\ first * RowHeight \in Nat
        /\ (first + 1) * RowHeight \in Nat /\ page * RowHeight \in Nat
        /\ (first + 1 + page) * RowHeight = (first + 1) * RowHeight + page * RowHeight
    BY <1>1, <1>2, <1>3, <2>1
  <2>4. first * RowHeight < (i + 1) * RowHeight
    BY <1>1, <1>2, <2>1, <2>3
  <2>5. i * RowHeight < (first + 1 + page) * RowHeight
    BY <1>1, <1>2, <1>3, <2>1, <2>3
  <2>6. first < i + 1
    BY <1>1, <1>2, <2>2, <2>4, TimesOrders
  <2>7. i < first + 1 + page
    BY <1>1, <2>2, <2>5, TimesOrders
  <2>8. i >= Data!Most(0, first - overscan) /\ i <= Data!Least(count - 1, first + page + overscan)
    BY <1>1, <1>2, <1>3, <2>1, <2>6, <2>7, <1>5 DEF Data!Most, Data!Least
  <2>9. count # 0 /\ Data!Most(0, first - overscan) \in Int /\ Data!Least(count - 1, first + page + overscan) \in Int
    BY <1>1, <1>2, <1>3, <1>5 DEF Data!Most, Data!Least
  <2> QED
    BY <1>4, <2>1, <2>8, <2>9
<1>6. ASSUME followed PROVE focusIndex \in 0..(count - 1) /\ Data!InViewport(focusIndex)
  <2> DEFINE at == focusIndex * RowHeight
             size == count * RowHeight
  <2>1. focusIndex \in Nat /\ focusIndex < count /\ position = Data!Least(at, Data!Scrollable(size))
    BY <1>6 DEF ListInv
  <2>2. at \in Nat /\ size \in Nat /\ (focusIndex + 1) * RowHeight = at + RowHeight
    BY <1>1, <2>1
  <2>3. at + RowHeight <= size
    <3>1. focusIndex + 1 \in Nat /\ focusIndex + 1 <= count
      BY <1>1, <2>1
    <3>2. (focusIndex + 1) * RowHeight <= size
      BY <1>1, <3>1, TimesGrows
    <3> QED
      BY <2>2, <3>2
  <2> HIDE DEF at, size
  <2>4. at < position + ClientHeight /\ at + RowHeight > position
    BY <1>1, <2>1, <2>2, <2>3 DEF Data!Least, Data!Most, Data!Scrollable
  <2>5. Data!InViewport(focusIndex)
    BY <2>2, <2>4 DEF Data!InViewport, at
  <2> QED
    BY <1>1, <2>1, <2>5
<1> QED
  BY <1>5, <1>6

(* DataViews: the table, of any rows and columns.                            *)

LEMMA DataCardinality ==
    \A S : Data!Cardinality(S) = Cardinality(S)
  BY DEF Data!Cardinality, Cardinality

\* found is source[at[1]], source[at[2]] and so on, of the indices in hits.
IsPickedBy(found, source, at, hits) ==
    /\ at \in [1..Len(found) -> hits]
    /\ \A k \in 1..Len(found) : found[k] = source[at[k]]
    /\ \A i \in hits : \E k \in 1..Len(found) : at[k] = i

Matching(source, needle) == {i \in DOMAIN source : needle = 0 \/ Data!MatchesFilter(source[i], needle)}

\* filter() keeps the rows that match, in the order in which they came.
LEMMA FilterIs ==
    ASSUME NEW source \in Seq(Rows), NEW needle
    PROVE  /\ Data!Filtered(source, needle) \in Seq(Rows)
           /\ \E at : /\ IsPickedBy(Data!Filtered(source, needle), source, at, Matching(source, needle))
                      /\ \A i, j \in 1..Len(Data!Filtered(source, needle)) : i < j <=> at[i] < at[j]
<1> DEFINE found == Data!Filtered(source, needle)
<1>1. CASE needle = 0
  <2> DEFINE at == [i \in 1..Len(source) |-> i]
  <2>1. found = source
    BY <1>1 DEF Data!Filtered
  <2>2. Matching(source, needle) = 1..Len(source)
    BY <1>1 DEF Matching
  <2> HIDE DEF found
  <2>3. IsPickedBy(found, source, at, Matching(source, needle))
    BY <2>1, <2>2 DEF IsPickedBy
  <2>4. \A i, j \in 1..Len(found) : i < j <=> at[i] < at[j]
    BY <2>1
  <2> HIDE DEF at
  <2> QED
    BY <2>1, <2>3, <2>4 DEF found
<1>2. CASE needle # 0
  <2> DEFINE hits == {i \in DOMAIN source : Data!MatchesFilter(source[i], needle)}
             n == Cardinality(hits)
             below == [i \in hits |-> {j \in hits : j < i}]
             Hit(k) == CHOOSE i \in hits : Data!Cardinality({j \in hits : j < i}) = k - 1
             at == [k \in 1..n |-> Hit(k)]
  <2>1. found = [k \in 1..Data!Cardinality(hits) |-> source[Hit(k)]]
    BY <1>2 DEF Data!Filtered
  <2>2. Matching(source, needle) = hits
    BY <1>2 DEF Matching
  <2>3. IsFiniteSet(hits) /\ n \in Nat
    <3>1. hits \in SUBSET (1..Len(source)) /\ IsFiniteSet(1..Len(source))
      BY IntervalSize
    <3> HIDE DEF hits
    <3> QED
      BY <3>1, FS_Subset, FS_CardinalityType
  <2>4. \A i \in hits : i \in Nat /\ i \in DOMAIN source /\ source[i] \in Rows
    OBVIOUS
  <2> HIDE DEF hits
  <2>5. below \in [hits -> SUBSET hits] /\ \A i \in hits : \A j \in hits : i \in below[j] <=> i < j
    OBVIOUS
  <2> HIDE DEF below
  <2>6. /\ \A i \in hits : i \notin below[i]
        /\ \A i \in hits : \A j \in hits : i # j => i \in below[j] \/ j \in below[i]
        /\ \A i \in hits : \A j \in hits : i \in below[j] => below[i] \subseteq below[j]
    <3>1. ASSUME NEW i \in hits PROVE i \notin below[i]
      BY <2>4, <2>5
    <3>2. ASSUME NEW i \in hits, NEW j \in hits, i # j PROVE i \in below[j] \/ j \in below[i]
      BY <2>4, <2>5, <3>2
    <3>3. ASSUME NEW i \in hits, NEW j \in hits, i \in below[j] PROVE below[i] \subseteq below[j]
      <4>1. ASSUME NEW k \in below[i] PROVE k \in below[j]
        <5>1. k \in hits
          BY <2>5, <4>1
        <5> QED
          BY <2>4, <2>5, <3>3, <4>1, <5>1
      <4> QED
        BY <4>1
    <3> QED
      BY <3>1, <3>2, <3>3
  <2>7. \A k \in 0..(n - 1) : \E i \in hits : Cardinality(below[i]) = k
    BY <2>3, <2>5, <2>6, Places
  <2>8. ASSUME NEW k \in 1..n PROVE Hit(k) \in hits /\ Cardinality(below[Hit(k)]) = k - 1
    <3>1. k - 1 \in 0..(n - 1)
      BY <2>3
    <3>2. \A i \in hits : Data!Cardinality({j \in hits : j < i}) = Cardinality(below[i])
      BY DataCardinality DEF below
    <3>3. \E i \in hits : Data!Cardinality({j \in hits : j < i}) = k - 1
      BY <2>7, <3>1, <3>2
    <3>4. Hit(k) \in hits /\ Data!Cardinality({j \in hits : j < Hit(k)}) = k - 1
      BY <3>3
    <3> HIDE DEF Hit
    <3> QED
      BY <3>2, <3>4
  <2>9. found = [k \in 1..n |-> source[Hit(k)]]
    BY <2>1, DataCardinality
  <2> HIDE DEF Hit, found, n
  <2>10. \A k \in 1..n : at[k] \in hits /\ Cardinality(below[at[k]]) = k - 1
    BY <2>8
  <2>11. at \in [1..n -> hits] /\ \A k \in 1..n : found[k] = source[at[k]]
    BY <2>8, <2>9
  <2>12. found \in Seq(Rows) /\ Len(found) = n
    BY <2>3, <2>4, <2>8, <2>9
  <2> HIDE DEF at
  <2>13. /\ \A i, j \in 1..n : i < j <=> at[i] \in below[at[j]]
         /\ \A i \in hits : \E k \in 1..n : at[k] = i
    BY SMTT(30), <2>3, <2>5, <2>6, <2>10, Ranked DEF n
  <2>14. IsPickedBy(found, source, at, hits)
    BY <2>11, <2>12, <2>13 DEF IsPickedBy
  <2>15. \A i, j \in 1..n : i < j <=> at[i] < at[j]
    BY <2>5, <2>10, <2>13
  <2> QED
    BY <2>2, <2>12, <2>14, <2>15 DEF found
<1> QED
  BY <1>1, <1>2

\* In the order of a table a row is before another if its cell is, and a row
\* with an equal cell if it came earlier; unsorted all cells are equal.
CellIn(row, sort) == IF sort.column \in Sortable THEN Cell[row][sort.column] ELSE 0
Ahead(found, sort, i, j) ==
    IF CellIn(found[i], sort) = CellIn(found[j], sort) THEN i < j
    ELSE (CellIn(found[i], sort) < CellIn(found[j], sort)) = (sort.direction = "asc")

LEMMA SortIs ==
    ASSUME DataAssumption, NEW found \in Seq(Rows), NEW sort,
           sort.column \in Sortable => sort.direction \in {"asc", "desc"}
    PROVE  /\ Data!Sorted(found, sort) \in Seq(Rows) /\ Len(Data!Sorted(found, sort)) = Len(found)
           /\ \E at : /\ IsPickedBy(Data!Sorted(found, sort), found, at, 1..Len(found))
                      /\ \A i, j \in 1..Len(found) : i < j <=> Ahead(found, sort, at[i], at[j])
<1> DEFINE sorted == Data!Sorted(found, sort)
           n == Len(found)
<1>0. n \in Nat /\ \A i \in 1..n : found[i] \in Rows
  OBVIOUS
<1>1. CASE sort.column \notin Sortable
  <2> DEFINE at == [i \in 1..n |-> i]
  <2>1. sorted = found
    BY <1>1 DEF Data!Sorted
  <2> HIDE DEF sorted
  <2>2. IsPickedBy(sorted, found, at, 1..n)
    BY <2>1 DEF IsPickedBy
  <2>3. \A i, j \in 1..n : i < j <=> Ahead(found, sort, at[i], at[j])
    BY <1>1 DEF Ahead, CellIn
  <2> HIDE DEF at
  <2> QED
    BY <2>1, <2>2, <2>3 DEF sorted
<1>2. CASE sort.column \in Sortable
  <2> DEFINE sign == IF sort.direction = "asc" THEN 1 ELSE -1
             Compare(i, j) == sign * (Cell[found[i]][sort.column] - Cell[found[j]][sort.column])
             Before(i) == {j \in DOMAIN found : Compare(j, i) < 0 \/ (Compare(j, i) = 0 /\ j < i)}
             At(k) == CHOOSE i \in DOMAIN found : Data!Cardinality(Before(i)) = k - 1
             S == 1..n
             below == [i \in S |-> Before(i)]
             at == [k \in 1..n |-> At(k)]
  <2>1. sorted = [k \in DOMAIN found |-> found[At(k)]]
    BY <1>2, Zenon DEF Data!Sorted
  <2>2. DOMAIN found = S /\ S \subseteq Nat
    OBVIOUS
  <2>3. \A i \in S : CellIn(found[i], sort) = Cell[found[i]][sort.column] /\ CellIn(found[i], sort) \in Nat
    BY <1>0, <1>2 DEF CellIn, DataAssumption
  <2>4. ASSUME NEW i \in S, NEW j \in S
        PROVE  Compare(i, j) < 0 \/ (Compare(i, j) = 0 /\ i < j) <=> Ahead(found, sort, i, j)
    <3> DEFINE x == Cell[found[i]][sort.column]
               y == Cell[found[j]][sort.column]
    <3>1. /\ x \in Nat /\ y \in Nat
          /\ Ahead(found, sort, i, j) <=> IF x = y THEN i < j ELSE (x < y) = (sort.direction = "asc")
      BY <2>3 DEF Ahead
    <3> HIDE DEF x, y
    <3>2. CASE sort.direction = "asc"
      <4>1. Compare(i, j) = x - y
        BY <3>1, <3>2 DEF x, y
      <4> HIDE DEF Compare
      <4>2. x < y \/ x = y \/ y < x
        BY <3>1
      <4> QED
        BY <3>1, <3>2, <4>1, <4>2
    <3>3. CASE sort.direction # "asc"
      <4>1. Compare(i, j) = y - x
        BY <3>1, <3>3 DEF x, y
      <4> HIDE DEF Compare
      <4> QED
        BY <3>1, <3>3, <4>1
    <3> QED
      BY <3>2, <3>3
  <2>5. \A i \in S : \A j \in S : j \in Before(i) <=> Ahead(found, sort, j, i)
    <3> HIDE DEF Compare, S
    <3> QED
      BY <2>2, <2>4
  <2>6. \A i \in S : Before(i) \subseteq S
    BY <2>2
  <2> HIDE DEF Before, Compare
  <2>7. below \in [S -> SUBSET S] /\ \A i \in S : \A j \in S : i \in below[j] <=> Ahead(found, sort, i, j)
    BY <2>5, <2>6
  <2>8. \A i \in S : below[i] = Before(i)
    OBVIOUS
  <2> HIDE DEF below, S
  <2>9. ASSUME NEW i \in S, NEW j \in S
        PROVE  /\ i \in Nat /\ j \in Nat /\ CellIn(found[i], sort) \in Nat /\ CellIn(found[j], sort) \in Nat
               /\ i \in below[j] <=>
                     IF CellIn(found[i], sort) = CellIn(found[j], sort) THEN i < j
                     ELSE (CellIn(found[i], sort) < CellIn(found[j], sort)) = (sort.direction = "asc")
    BY <2>2, <2>3, <2>7 DEF Ahead
  <2>10. \A i \in S : i \notin below[i]
    <3>1. ASSUME NEW i \in S PROVE i \notin below[i]
      BY <2>9
    <3> QED
      BY <3>1
  <2>11. ASSUME NEW i \in S, NEW j \in S, i # j PROVE i \in below[j] \/ j \in below[i]
    BY <2>9, <2>11
  <2>12. ASSUME NEW i \in S, NEW j \in S, i \in below[j] PROVE below[i] \subseteq below[j]
    <3>1. ASSUME NEW k \in below[i] PROVE k \in below[j]
      <4>1. k \in S
        BY <2>7, <3>1
      <4> DEFINE x == CellIn(found[k], sort)
                 y == CellIn(found[i], sort)
                 z == CellIn(found[j], sort)
                 up == sort.direction = "asc"
      <4>2. /\ k \in Nat /\ i \in Nat /\ j \in Nat /\ x \in Nat /\ y \in Nat /\ z \in Nat
            /\ IF x = y THEN k < i ELSE (x < y) = up
            /\ IF y = z THEN i < j ELSE (y < z) = up
            /\ k \in below[j] <=> IF x = z THEN k < j ELSE (x < z) = up
        BY <2>9, <2>12, <3>1, <4>1
      <4> HIDE DEF x, y, z
      <4>3. CASE up
        BY <4>2, <4>3
      <4>4. CASE ~ up
        BY <4>2, <4>4
      <4> QED
        BY <4>3, <4>4
    <3> QED
      BY <3>1
  <2>13. IsFiniteSet(S) /\ Cardinality(S) = n
    BY <1>0, IntervalSize DEF S
  <2>14. \A k \in 0..(n - 1) : \E i \in S : Cardinality(below[i]) = k
    BY <2>7, <2>10, <2>11, <2>12, <2>13, Places
  <2>15. ASSUME NEW k \in 1..n PROVE At(k) \in S /\ Cardinality(below[At(k)]) = k - 1
    <3>1. k - 1 \in 0..(n - 1)
      BY <1>0
    <3>2. \A i \in S : Data!Cardinality(Before(i)) = Cardinality(below[i])
      BY <2>8, DataCardinality
    <3>3. \E i \in S : Data!Cardinality(Before(i)) = k - 1
      BY <2>14, <3>1, <3>2
    <3>4. At(k) \in S /\ Data!Cardinality(Before(At(k))) = k - 1
      BY <2>2, <3>3
    <3> HIDE DEF At
    <3> QED
      BY <3>2, <3>4
  <2>16. sorted = [k \in 1..n |-> found[At(k)]]
    BY <2>1, <2>2 DEF S
  <2> HIDE DEF At, sorted, n
  <2>17. \A k \in 1..n : at[k] \in S /\ Cardinality(below[at[k]]) = k - 1 /\ sorted[k] = found[at[k]]
    BY <2>15, <2>16
  <2>18. at \in [1..n -> S]
    BY <2>15
  <2>19. sorted \in Seq(Rows) /\ Len(sorted) = n
    <3>1. \A k \in 1..n : found[At(k)] \in Rows
      BY <1>0, <2>15 DEF S
    <3> QED
      BY <1>0, <2>16, <3>1
  <2> HIDE DEF at
  <2>20. /\ \A i, j \in 1..n : i < j <=> at[i] \in below[at[j]]
         /\ \A i \in S : \E k \in 1..n : at[k] = i
    <3>1. \A k \in 1..Cardinality(S) : at[k] \in S /\ Cardinality(below[at[k]]) = k - 1
      BY <2>13, <2>17, Zenon
    <3>2. /\ \A i, j \in 1..Cardinality(S) : i < j <=> at[i] \in below[at[j]]
          /\ \A i \in S : \E k \in 1..Cardinality(S) : at[k] = i
      BY SMTT(30), <2>7, <2>10, <2>11, <2>12, <2>13, <3>1, Ranked
    <3> QED
      BY <2>13, <3>2, Zenon
  <2>21. IsPickedBy(sorted, found, at, S)
    BY <2>17, <2>18, <2>19, <2>20 DEF IsPickedBy
  <2>22. \A i, j \in 1..n : i < j <=> Ahead(found, sort, at[i], at[j])
    BY <2>7, <2>17, <2>20
  <2> QED
    BY <2>19, <2>21, <2>22 DEF sorted, n, S
<1> QED
  BY <1>1, <1>2

\* Counting up to a number, one at a time.
LEMMA CountUp ==
    ASSUME NEW n \in Nat, NEW T, 0 \in T, \A i \in 1..n : i - 1 \in T => i \in T
    PROVE  \A i \in 0..n : i \in T
<1> DEFINE U == {i \in 0..n : i \notin T}
<1> SUFFICES ASSUME U # {} PROVE FALSE
  OBVIOUS
<1>1. U \subseteq Nat
  OBVIOUS
<1>2. PICK i \in U : \A j \in U : i <= j
  BY <1>1, LeastNumber, Zenon
<1>3. i \in 1..n /\ i - 1 \in 0..n /\ ~(i <= i - 1)
  BY <1>2
<1>4. i - 1 \in T
  BY <1>2, <1>3
<1> QED
  BY <1>2, <1>3, <1>4

LEMMA FlattenIs ==
    ASSUME NEW X, NEW seqs \in Seq(Seq(X)), seqs # <<>>
    PROVE  \E f \in [1..Len(seqs) -> Seq(X)] :
              /\ f[1] = seqs[1]
              /\ \A i \in 2..Len(seqs) : f[i] = f[i - 1] \o seqs[i]
              /\ Data!FlattenSeq(seqs) = f[Len(seqs)]
<1> DEFINE n == Len(seqs)
           V == Seq(X)
           Step(v, i) == v \o seqs[i]
           step == [x \in Nat \X V |-> IF x[1] \in 1..n THEN Step(x[2], x[1]) ELSE x[2]]
           Made(f) == f = [i \in 1..n |-> IF i = 1 THEN seqs[i] ELSE f[i - 1] \o seqs[i]]
<1>1. Data!FlattenSeq(seqs) = (CHOOSE f : Made(f))[n]
  <2>1. Len(seqs) # 0
    OBVIOUS
  <2> QED
    BY <2>1 DEF Data!FlattenSeq
<1>2. n \in Nat /\ n >= 1 /\ \A i \in 1..n : seqs[i] \in V
  OBVIOUS
<1>3. ASSUME NEW i \in 1..n, NEW v \in V PROVE Step(v, i) \in V
  OBVIOUS
<1>4. <<>> \in V /\ \A v \in V : <<>> \o v = v
  OBVIOUS
<1> HIDE DEF n, V
<1>5. step \in [Nat \X V -> V] /\ \A i \in 1..n, v \in V : step[<<i, v>>] = Step(v, i)
  <2> HIDE DEF Step
  <2> QED
    BY <1>2, <1>3
<1> HIDE DEF step
<1>6. PICK g \in [0..n -> V] : IsRecursive(g, <<>>, step, n)
  BY <1>2, <1>4, <1>5, Recursion
<1> DEFINE h == [i \in 1..n |-> g[i]]
<1>7. \A i \in 1..n : i \in 0..n /\ h[i] = g[i] /\ g[i] \in V /\ g[i - 1] \in V /\ i - 1 \in 0..n
  BY <1>2, <1>6
<1>8. \A i \in 1..n : g[i] = g[i - 1] \o seqs[i]
  <2> SUFFICES ASSUME NEW i \in 1..n PROVE g[i] = g[i - 1] \o seqs[i]
    OBVIOUS
  <2>1. g[i] = Step(g[i - 1], i)
    <3> HIDE DEF Step
    <3>1. i # 0
      BY <1>2
    <3> QED
      BY <1>5, <1>6, <1>7, <3>1 DEF IsRecursive
  <2> QED
    BY <2>1
<1>9. \A i \in 1..n : h[i] = IF i = 1 THEN seqs[i] ELSE h[i - 1] \o seqs[i]
  <2> SUFFICES ASSUME NEW i \in 1..n PROVE h[i] = IF i = 1 THEN seqs[i] ELSE h[i - 1] \o seqs[i]
    OBVIOUS
  <2>1. CASE i = 1
    <3>1. 0 \in 0..n /\ i - 1 = 0
      BY <1>2, <2>1
    <3>3. g[0] = IF 0 = 0 THEN <<>> ELSE step[<<0, g[0 - 1]>>]
      BY <1>6, <3>1, Zenon DEF IsRecursive
    <3>4. g[0] = <<>>
      BY <3>3
    <3>2. g[i] = <<>> \o seqs[i]
      BY <1>8, <3>1, <3>4
    <3> QED
      BY <1>2, <1>4, <1>7, <2>1, <3>2
  <2>2. CASE i # 1
    <3>1. i - 1 \in 1..n
      BY <1>2, <2>2
    <3> QED
      BY <1>7, <1>8, <2>2, <3>1
  <2> QED
    BY <2>1, <2>2
<1>10. Made(h)
  BY <1>9, Zenon
<1>11. PICK f : Made(f) /\ Data!FlattenSeq(seqs) = f[n]
  BY <1>1, <1>10
<1>12. f = [i \in 1..n |-> IF i = 1 THEN seqs[i] ELSE f[i - 1] \o seqs[i]]
  BY <1>11
<1>13. \A i \in 1..n : f[i] = IF i = 1 THEN seqs[i] ELSE f[i - 1] \o seqs[i]
  BY <1>12
<1> HIDE DEF Made
<1> DEFINE T == {i \in 0..n : i > 0 => f[i] = h[i]}
<1>14. 0 \in T
  BY <1>2
<1>15. ASSUME NEW i \in 1..n, i - 1 \in T PROVE i \in T
  <2>1. i \in 0..n /\ (i # 1 => i - 1 > 0)
    BY <1>2
  <2> HIDE DEF h
  <2> QED
    BY <1>9, <1>13, <1>15, <2>1
<1>16. \A i \in 1..n : f[i] = h[i]
  <2>1. \A i \in 0..n : i \in T
    <3> HIDE DEF T
    <3> QED
      BY <1>2, <1>14, <1>15, CountUp
  <2> HIDE DEF h
  <2>2. \A i \in 1..n : i \in 0..n /\ i > 0
    BY <1>2
  <2> QED
    BY <2>1, <2>2
<1>17. h \in [1..n -> V]
  BY <1>7
<1>18. h[1] = seqs[1] /\ \A i \in 2..n : h[i] = h[i - 1] \o seqs[i]
  <2>1. 1 \in 1..n /\ \A i \in 2..n : i \in 1..n /\ i # 1
    BY <1>2
  <2> HIDE DEF h
  <2> QED
    BY <1>9, <2>1
<1>19. Data!FlattenSeq(seqs) = h[n]
  <2> HIDE DEF h
  <2> QED
    BY <1>2, <1>11, <1>16
<1> HIDE DEF h
<1> QED
  BY <1>17, <1>18, <1>19 DEF n, V

LEMMA PageStarts ==
    ASSUME NEW n \in Nat, NEW size \in Nat \ {0}
    PROVE  /\ Data!PageCount(n, size) \in Nat /\ Data!PageCount(n, size) >= 1
           /\ n <= Data!PageCount(n, size) * size
           /\ \A p \in 0..(Data!PageCount(n, size) - 1) :
                 p * size \in Nat /\ p * size <= n /\ (n > 0 => p * size < n)
<1> DEFINE c == Data!Ceiling(n, size)
           pages == Data!PageCount(n, size)
<1>1. c \in Nat /\ n <= c * size /\ (n > 0 => c > 0) /\ \A k \in Nat : k < c => k * size < n
  BY RoundsUp
<1>2. pages = Data!Most(1, c)
  BY DEF Data!PageCount
<1> HIDE DEF c, pages
<1>3. pages \in Nat /\ pages >= 1 /\ c <= pages /\ (c > 0 => pages = c) /\ (c = 0 => pages = 1)
  BY <1>1, <1>2 DEF Data!Most
<1>4. c * size <= pages * size /\ c * size \in Nat /\ pages * size \in Nat
  BY <1>1, <1>3, TimesGrows
<1>5. n <= pages * size
  BY <1>1, <1>4
<1>6. ASSUME NEW p \in 0..(pages - 1)
      PROVE  p * size \in Nat /\ p * size <= n /\ (n > 0 => p * size < n)
  <2>1. p \in Nat /\ p * size \in Nat
    BY <1>3
  <2>2. CASE c > 0
    <3>1. p < c
      BY <1>1, <1>3, <1>6, <2>1, <2>2
    <3>2. p * size < n
      BY <1>1, <2>1, <3>1
    <3> QED
      BY <2>1, <3>2
  <2>3. CASE c = 0
    <3>1. p = 0 /\ ~ (n > 0)
      BY <1>1, <1>3, <1>6, <2>3
    <3>2. 0 * size = 0
      OBVIOUS
    <3> QED
      BY <2>1, <3>1, <3>2
  <2> QED
    BY <1>1, <2>2, <2>3
<1> QED
  BY <1>3, <1>5, <1>6 DEF pages

\* One page after the other is the whole.
LEMMA PagesJoin ==
    ASSUME NEW X, NEW all \in Seq(X), NEW size \in Nat \ {0}, NEW pages, NEW seqs \in Seq(Seq(X)),
           pages = Data!PageCount(Len(all), size), Len(seqs) = pages,
           \A p \in 1..pages :
              seqs[p] = SubSeq(all, (p - 1) * size + 1, Data!Least(Len(all), (p - 1) * size + size))
    PROVE  Data!FlattenSeq(seqs) = all
<1> DEFINE n == Len(all)
           upto(p) == Data!Least(n, p * size)
<1>1. n \in Nat /\ pages \in Nat /\ pages >= 1 /\ n <= pages * size
      /\ \A p \in 0..(pages - 1) : p * size \in Nat /\ p * size <= n
  <2>1. n \in Nat
    OBVIOUS
  <2> HIDE DEF n
  <2> QED
    BY <2>1, PageStarts DEF n
<1>2. seqs # <<>>
  BY <1>1
<1>3. PICK f \in [1..pages -> Seq(X)] :
         /\ f[1] = seqs[1]
         /\ \A i \in 2..pages : f[i] = f[i - 1] \o seqs[i]
         /\ Data!FlattenSeq(seqs) = f[pages]
  <2>1. \E f \in [1..Len(seqs) -> Seq(X)] :
           /\ f[1] = seqs[1]
           /\ \A i \in 2..Len(seqs) : f[i] = f[i - 1] \o seqs[i]
           /\ Data!FlattenSeq(seqs) = f[Len(seqs)]
    BY <1>2, FlattenIs, Zenon
  <2>2. Len(seqs) = pages
    OBVIOUS
  <2> QED
    BY <2>1, <2>2, Zenon
<1>4. ASSUME NEW p \in 1..pages
      PROVE  /\ (p - 1) * size \in Nat /\ (p - 1) * size <= n /\ p - 1 \in Nat
             /\ (p - 1) * size + size = p * size /\ p * size \in Nat
             /\ upto(p) \in Nat /\ (p - 1) * size <= upto(p) /\ upto(p) <= n
             /\ seqs[p] = SubSeq(all, (p - 1) * size + 1, upto(p))
             /\ upto(p - 1) = (p - 1) * size
  <2>1. p - 1 \in 0..(pages - 1) /\ p \in Nat
    BY <1>1
  <2>2. (p - 1) * size \in Nat /\ (p - 1) * size <= n
    BY <1>1, <2>1
  <2>3. p * size = (p - 1) * size + size
    BY <2>1
  <2>4. seqs[p] = SubSeq(all, (p - 1) * size + 1, Data!Least(n, (p - 1) * size + size))
    OBVIOUS
  <2> HIDE DEF n
  <2>5. upto(p) = IF n < p * size THEN n ELSE p * size
    BY DEF Data!Least
  <2>6. upto(p - 1) = IF n < (p - 1) * size THEN n ELSE (p - 1) * size
    BY DEF Data!Least
  <2>7. seqs[p] = SubSeq(all, (p - 1) * size + 1, upto(p))
    BY <2>3, <2>4
  <2> HIDE DEF upto
  <2>8. p * size \in Nat /\ p - 1 \in Nat
    BY <2>1, <2>2, <2>3
  <2>9. upto(p) \in Nat /\ (p - 1) * size <= upto(p) /\ upto(p) <= n
    BY <1>1, <2>2, <2>3, <2>5, <2>8
  <2>10. upto(p - 1) = (p - 1) * size
    BY <1>1, <2>2, <2>6
  <2> QED
    BY <2>2, <2>3, <2>7, <2>8, <2>9, <2>10
<1> HIDE DEF upto
<1> DEFINE T == {i \in 0..pages : i > 0 => f[i] = SubSeq(all, 1, upto(i))}
<1>5. 0 \in T
  BY <1>1
<1>6. ASSUME NEW i \in 1..pages, i - 1 \in T PROVE i \in T
  <2>1. CASE i = 1
    <3>1. (i - 1) * size = 0
      <4>1. 0 * size = 0
        OBVIOUS
      <4> QED
        BY <2>1, <4>1
    <3>2. seqs[i] = SubSeq(all, (i - 1) * size + 1, upto(i))
      BY <1>4
    <3>3. f[i] = SubSeq(all, 1, upto(i))
      BY <1>3, <2>1, <3>1, <3>2
    <3> QED
      BY <3>3
  <2>2. CASE i # 1
    <3>1. i \in 2..pages /\ i - 1 \in 1..pages /\ i - 1 > 0
      BY <1>1, <2>2
    <3>2. f[i - 1] = SubSeq(all, 1, upto(i - 1))
      BY <1>6, <3>1
    <3>3. f[i] = SubSeq(all, 1, (i - 1) * size) \o SubSeq(all, (i - 1) * size + 1, upto(i))
      <4>1. f[i] = f[i - 1] \o seqs[i]
        BY <1>3, <3>1, Zenon
      <4>2. seqs[i] = SubSeq(all, (i - 1) * size + 1, upto(i)) /\ upto(i - 1) = (i - 1) * size
        BY <1>4
      <4> QED
        BY <3>2, <4>1, <4>2, Zenon
    <3> DEFINE k == (i - 1) * size
    <3>4. 1 \in 1..(Len(all) + 1) /\ k \in (1 - 1)..Len(all) /\ upto(i) \in k..Len(all)
      <4>1. k \in Nat /\ k <= n /\ upto(i) \in Nat /\ k <= upto(i) /\ upto(i) <= n /\ n \in Nat
        BY <1>1, <1>4
      <4> HIDE DEF k
      <4> QED
        BY <4>1
    <3>5. SubSeq(all, 1, k) \o SubSeq(all, k + 1, upto(i)) = SubSeq(all, 1, upto(i))
      <4> HIDE DEF k
      <4> QED
        BY <3>4, ConcatAdjacentSubSeq
    <3>6. f[i] = SubSeq(all, 1, upto(i))
      BY <3>3, <3>5, Zenon
    <3> QED
      BY <3>6
  <2> QED
    BY <2>1, <2>2
<1>7. \A i \in 0..pages : i \in T
  <2> HIDE DEF T
  <2> QED
    BY <1>1, <1>5, <1>6, CountUp
<1>8. f[pages] = SubSeq(all, 1, upto(pages)) /\ upto(pages) = n
  <2>1. pages \in T /\ pages > 0
    BY <1>1, <1>7
  <2>2. f[pages] = SubSeq(all, 1, upto(pages))
    BY <2>1
  <2>3. pages \in 1..pages
    BY <1>1
  <2>4. pages * size \in Nat
    BY <1>4, <2>3
  <2>5. upto(pages) = n
    BY <1>1, <2>4 DEF upto, Data!Least
  <2> QED
    BY <2>2, <2>5
<1>9. SubSeq(all, 1, n) = all
  BY SubSeqFull
<1> QED
  BY <1>3, <1>8, <1>9

\* A row is in the data once, and a column that sorts does so in a direction.
Sorts == {Data!Unsorted} \cup [column : Columns, direction : {"asc", "desc"}]
TableInv ==
    /\ rows \in Seq(Rows)
    /\ \A i, j \in DOMAIN rows : rows[i] = rows[j] => i = j
    /\ tableState \in [sort : Sorts, filter : Needles \cup {0}, pageIndex : Nat, pageSize : Nat]

LEMMA TableInit == ASSUME DataAssumption, Data!Init PROVE TableInv
<1>1. rows = <<>> /\ tableState = [sort |-> Data!Unsorted, filter |-> 0, pageIndex |-> 0, pageSize |-> 0]
  BY DEF Data!Init
<1> QED
  BY <1>1 DEF TableInv, Sorts

LEMMA OneOfEach ==
    ASSUME NEW n \in Nat, NEW s \in [1..n -> Rows],
           Data!Cardinality({s[i] : i \in DOMAIN s}) = n
    PROVE  \A i, j \in 1..n : s[i] = s[j] => i = j
<1> DEFINE T == {s[i] : i \in DOMAIN s}
<1>1. s \in Surjection(1..n, T)
  BY DEF Surjection
<1>2. IsFiniteSet(1..n) /\ Cardinality(1..n) = n
  BY IntervalSize
<1>3. Cardinality(T) = n
  BY DataCardinality
<1> HIDE DEF T
<1>4. s \in Injection(1..n, T)
  BY <1>1, <1>2, <1>3, FS_Surjection
<1> QED
  BY <1>4 DEF Injection, IsInjective

LEMMA TableKeeps == ASSUME DataAssumption, TableInv, Data!Next PROVE TableInv'
<1>1. ASSUME UNCHANGED Data!tableVars PROVE TableInv'
  BY <1>1 DEF Data!tableVars, TableInv
<1>2. Data!Measure \/ Data!SetItems \/ Data!Wheel \/ Data!OnScroll \/ Data!OnKeydown => UNCHANGED Data!tableVars
  BY DEF Data!Measure, Data!SetItems, Data!Wheel, Data!OnScroll, Data!OnKeydown, Data!InList
<1>3. CASE Data!SetRows
  <2>1. PICK s \in UNION {[1..n -> Rows] : n \in 0..Data!Cardinality(Rows)} :
               Data!Cardinality({s[i] : i \in DOMAIN s}) = Len(s) /\ rows' = s
    BY <1>3 DEF Data!SetRows
  <2>2. PICK n \in 0..Data!Cardinality(Rows) : s \in [1..n -> Rows]
    BY <2>1
  <2>3. n \in Nat
    OBVIOUS
  <2>4. s \in Seq(Rows) /\ Len(s) = n /\ DOMAIN s = 1..n
    BY <2>2, <2>3
  <2>5. \A i, j \in 1..n : s[i] = s[j] => i = j
    BY <2>1, <2>2, <2>3, <2>4, OneOfEach
  <2>6. tableState' = tableState
    BY <1>3 DEF Data!SetRows
  <2> QED
    BY <2>1, <2>4, <2>5, <2>6 DEF TableInv
<1>4. CASE Data!ToggleSort
  <2>1. PICK c \in Columns :
               /\ tableState' = [tableState EXCEPT !.sort = Data!NextSort(tableState.sort, c), !.pageIndex = 0]
               /\ rows' = rows
    BY <1>4 DEF Data!ToggleSort
  <2>2. Data!NextSort(tableState.sort, c) \in Sorts
    BY DEF Data!NextSort, Sorts
  <2> DEFINE sort == Data!NextSort(tableState.sort, c)
  <2>3. tableState' = [tableState EXCEPT !.sort = sort, !.pageIndex = 0] /\ rows' = rows
    BY <2>1
  <2> HIDE DEF sort
  <2>4. tableState \in [sort : Sorts, filter : Needles \cup {0}, pageIndex : Nat, pageSize : Nat]
    BY DEF TableInv
  <2>5. sort \in Sorts
    BY <2>2 DEF sort
  <2>6. tableState' \in [sort : Sorts, filter : Needles \cup {0}, pageIndex : Nat, pageSize : Nat]
    BY <2>3, <2>4, <2>5
  <2>7. rows' = rows
    BY <2>3
  <2> QED
    BY <2>6, <2>7, Zenon DEF TableInv
<1>5. CASE Data!SetFilter
  <2>1. PICK needle \in Needles :
               tableState' = [tableState EXCEPT !.filter = needle, !.pageIndex = 0] /\ rows' = rows
    BY <1>5 DEF Data!SetFilter
  <2> QED
    BY <2>1 DEF TableInv
<1>6. CASE Data!SetPageSize
  <2>1. PICK size \in -1..MaxPages :
               /\ tableState' = [tableState EXCEPT !.pageSize = Data!Most(0, size), !.pageIndex = 0]
               /\ rows' = rows
    BY <1>6 DEF Data!SetPageSize
  <2>2. Data!Most(0, size) \in Nat
    BY DEF Data!Most, DataAssumption
  <2> QED
    BY <2>1, <2>2 DEF TableInv
<1>7. CASE Data!SetPageIndex
  <2>1. PICK index \in -1..MaxPages :
               tableState' = [tableState EXCEPT !.pageIndex = Data!Most(0, index)] /\ rows' = rows
    BY <1>7 DEF Data!SetPageIndex
  <2>2. Data!Most(0, index) \in Nat
    BY DEF Data!Most, DataAssumption
  <2> QED
    BY <2>1, <2>2 DEF TableInv
<1> QED
  BY <1>1, <1>2, <1>3, <1>4, <1>5, <1>6, <1>7 DEF Data!Next

\* What computeRows() shows of all the rows that match, in their order.
LEMMA ViewIs ==
    ASSUME NEW s \in [sort : Sorts, filter : Needles \cup {0}, pageIndex : Nat, pageSize : Nat], NEW all,
           all \in Seq(Rows), all = Data!Sorted(Data!Filtered(rows, s.filter), s.sort)
    PROVE  LET view == Data!ComputeRows(rows, s)
           IN /\ view.filteredCount = Len(all)
              /\ s.pageSize = 0 => view.rows = all /\ view.pageCount = 1 /\ view.pageIndex = 0
              /\ s.pageSize # 0 =>
                    /\ view.pageCount = Data!PageCount(Len(all), s.pageSize)
                    /\ view.pageIndex = Data!Least(s.pageIndex, view.pageCount - 1)
                    /\ view.rows = SubSeq(all, view.pageIndex * s.pageSize + 1,
                                          Data!Least(Len(all), view.pageIndex * s.pageSize + s.pageSize))
  BY DEF Data!ComputeRows

LEMMA PagesAre ==
    ASSUME DataAssumption, TableInv, NEW all \in Seq(Rows),
           all = Data!Sorted(Data!Filtered(rows, tableState.filter), tableState.sort)
    PROVE  Data!Pages = all
<1> DEFINE view == Data!ComputeRows(rows, tableState)
           turned(p) == [tableState EXCEPT !.pageIndex = p - 1]
           seqs == [p \in 1..view.pageCount |-> Data!ComputeRows(rows, turned(p)).rows]
           size == tableState.pageSize
           n == Len(all)
<1>0. n \in Nat /\ size \in Nat
  BY DEF TableInv
<1>1. Data!Pages = Data!FlattenSeq(seqs)
  BY DEF Data!Pages
<1>2. /\ size = 0 => view.pageCount = 1
      /\ size # 0 => view.pageCount = Data!PageCount(n, size)
  BY ViewIs DEF TableInv
<1>3. ASSUME NEW p \in Nat, p >= 1
      PROVE  /\ size = 0 => Data!ComputeRows(rows, turned(p)).rows = all
             /\ size # 0 => LET index == Data!Least(p - 1, Data!PageCount(n, size) - 1)
                            IN Data!ComputeRows(rows, turned(p)).rows =
                                  SubSeq(all, index * size + 1, Data!Least(n, index * size + size))
  <2>1. /\ turned(p) \in [sort : Sorts, filter : Needles \cup {0}, pageIndex : Nat, pageSize : Nat]
        /\ turned(p).sort = tableState.sort /\ turned(p).filter = tableState.filter
        /\ turned(p).pageSize = size /\ turned(p).pageIndex = p - 1
    <3>1. p - 1 \in Nat
      BY <1>3
    <3> QED
      BY <3>1 DEF TableInv
  <2>2. all = Data!Sorted(Data!Filtered(rows, turned(p).filter), turned(p).sort)
    BY <2>1
  <2> HIDE DEF turned, size, n
  <2> QED
    BY <2>1, <2>2, ViewIs DEF n
<1> HIDE DEF view, turned, size, n
<1>4. CASE size = 0
  <2>1. view.pageCount = 1
    BY <1>2, <1>4
  <2>2. seqs[1] = all /\ Len(seqs) = 1 /\ seqs \in Seq(Seq(Rows)) /\ seqs # <<>>
    <3>1. Data!ComputeRows(rows, turned(1)).rows = all
      BY <1>3, <1>4
    <3>2. seqs = [p \in 1..1 |-> Data!ComputeRows(rows, turned(p)).rows]
      BY <2>1
    <3>3. seqs = [p \in 1..1 |-> all]
      BY <3>1, <3>2
    <3> HIDE DEF seqs
    <3> QED
      BY <3>3
  <2> HIDE DEF seqs
  <2>3. \E f \in [1..Len(seqs) -> Seq(Rows)] : f[1] = seqs[1] /\ Data!FlattenSeq(seqs) = f[Len(seqs)]
    BY <2>2, FlattenIs, Zenon
  <2> QED
    BY <1>1, <2>2, <2>3
<1>5. CASE size # 0
  <2> DEFINE pages == Data!PageCount(n, size)
  <2>1. view.pageCount = pages
    BY <1>2, <1>5
  <2>2. pages \in Nat /\ pages >= 1
    BY <1>0, <1>5, PageStarts
  <2> HIDE DEF pages
  <2>3. ASSUME NEW p \in 1..pages
        PROVE  seqs[p] = SubSeq(all, (p - 1) * size + 1, Data!Least(n, (p - 1) * size + size))
    <3>1. Data!Least(p - 1, pages - 1) = p - 1 /\ p \in Nat /\ p >= 1
      BY <2>2 DEF Data!Least
    <3>2. seqs[p] = Data!ComputeRows(rows, turned(p)).rows
      BY <2>1
    <3> HIDE DEF seqs
    <3> QED
      BY <1>3, <1>5, <3>1, <3>2 DEF pages
  <2>4. ASSUME NEW p \in 1..pages PROVE seqs[p] \in Seq(Rows)
    <3> DEFINE a == (p - 1) * size + 1
               b == Data!Least(n, (p - 1) * size + size)
    <3>1. a \in Nat /\ a >= 1 /\ b \in Int /\ b <= n
      <4>1. (p - 1) * size \in Nat
        <5>1. p - 1 \in Nat
          BY <2>2
        <5> QED
          BY <1>0, <5>1
      <4> QED
        BY <1>0, <4>1 DEF Data!Least
    <3>2. seqs[p] = SubSeq(all, a, b)
      BY <2>3
    <3> HIDE DEF a, b, seqs
    <3>3. \A i \in a..b : all[i] \in Rows
      <4>1. \A i \in a..b : i \in 1..n
        BY <1>0, <3>1
      <4> QED
        BY <4>1 DEF n
    <3>4. a \in Int
      BY <3>1
    <3>5. SubSeq(all, a, b) \in Seq(Rows)
      BY <3>1, <3>3, <3>4, SubSeqProperties
    <3> QED
      BY <3>2, <3>5
  <2>5. seqs \in [1..pages -> Seq(Rows)]
    <3>1. seqs = [p \in 1..pages |-> Data!ComputeRows(rows, turned(p)).rows]
      BY <2>1
    <3>2. seqs = [p \in 1..pages |-> seqs[p]]
      BY <3>1
    <3> HIDE DEF seqs
    <3> QED
      BY <2>4, <3>2
  <2> HIDE DEF seqs
  <2>6. seqs \in Seq(Seq(Rows)) /\ Len(seqs) = pages
    BY <2>2, <2>5
  <2>7. size \in Nat \ {0}
    BY <1>0, <1>5
  <2>8. Data!FlattenSeq(seqs) = all
    BY ZenonT(50), <2>3, <2>6, <2>7, PagesJoin DEF pages, n
  <2> QED
    BY <1>1, <2>8
<1> QED
  BY <1>4, <1>5

\* The rows that match, in the order of the table, each at its place in the data.
LEMMA AllAre ==
    ASSUME DataAssumption, TableInv, NEW found, NEW all,
           found = Data!Filtered(rows, tableState.filter),
           all = Data!Sorted(found, tableState.sort)
    PROVE  /\ all \in Seq(Rows)
           /\ \E at : /\ IsPickedBy(all, rows, at, Matching(rows, tableState.filter))
                      /\ \A i, j \in 1..Len(all) : i < j => Ahead(rows, tableState.sort, at[i], at[j])
<1> DEFINE hits == Matching(rows, tableState.filter)
           sort == tableState.sort
<1>1. rows \in Seq(Rows)
  BY DEF TableInv
<1>2. /\ found \in Seq(Rows)
      /\ \E at : /\ IsPickedBy(found, rows, at, hits)
                 /\ \A i, j \in 1..Len(found) : i < j <=> at[i] < at[j]
  BY <1>1, FilterIs
<1>3. sort.column \in Sortable => sort.direction \in {"asc", "desc"}
  <2>1. sort \in Sorts
    BY DEF TableInv
  <2>2. sort = Data!Unsorted \/ sort.direction \in {"asc", "desc"}
    BY <2>1 DEF Sorts
  <2>3. Data!Unsorted.column = "none"
    BY DEF Data!Unsorted
  <2>4. "none" \notin Sortable
    BY DEF DataAssumption
  <2> QED
    BY <2>2, <2>3, <2>4
<1>4. /\ all \in Seq(Rows) /\ Len(all) = Len(found)
      /\ \E at : /\ IsPickedBy(all, found, at, 1..Len(found))
                 /\ \A i, j \in 1..Len(found) : i < j <=> Ahead(found, sort, at[i], at[j])
  BY <1>2, <1>3, SortIs
<1>5. PICK kept : /\ IsPickedBy(found, rows, kept, hits)
                  /\ \A i, j \in 1..Len(found) : i < j <=> kept[i] < kept[j]
  BY <1>2
<1>6. PICK placing : /\ IsPickedBy(all, found, placing, 1..Len(found))
                   /\ \A i, j \in 1..Len(found) : i < j <=> Ahead(found, sort, placing[i], placing[j])
  BY <1>4
<1> DEFINE n == Len(all)
           at == [k \in 1..n |-> kept[placing[k]]]
<1> HIDE DEF hits, sort
<1>7. /\ n = Len(found) /\ placing \in [1..n -> 1..n] /\ kept \in [1..n -> hits]
      /\ \A k \in 1..n : all[k] = found[placing[k]] /\ found[k] = rows[kept[k]]
      /\ \A k \in 1..n : \E i \in 1..n : placing[i] = k
      /\ \A i \in hits : \E k \in 1..n : kept[k] = i
  BY <1>4, <1>5, <1>6 DEF IsPickedBy
<1>8. \A i, j \in 1..n : (i < j <=> kept[i] < kept[j]) /\ (i < j <=> Ahead(found, sort, placing[i], placing[j]))
  BY <1>5, <1>6, <1>7
<1> HIDE DEF n
<1>9. IsPickedBy(all, rows, at, hits)
  <2>1. \A k \in 1..n : placing[k] \in 1..n /\ kept[placing[k]] \in hits /\ all[k] = rows[kept[placing[k]]]
    <3>1. \A k \in 1..n : placing[k] \in 1..n
      BY <1>7
    <3> QED
      <4>1. \A k \in 1..n : kept[k] \in hits /\ found[k] = rows[kept[k]]
        BY <1>7
      <4>2. \A k \in 1..n : all[k] = found[placing[k]]
        BY <1>7
      <4> QED
        BY <3>1, <4>1, <4>2, Zenon
  <2>3. at \in [1..n -> hits] /\ \A k \in 1..n : all[k] = rows[at[k]]
    BY <2>1
  <2>2. ASSUME NEW i \in hits PROVE \E k \in 1..n : at[k] = i
    <3>1. PICK k \in 1..n : kept[k] = i
      BY <1>7
    <3>2. PICK j \in 1..n : placing[j] = k
      BY <1>7
    <3> QED
      BY <3>1, <3>2
  <2> HIDE DEF at
  <2> QED
    BY <2>2, <2>3 DEF IsPickedBy, n
<1>10. ASSUME NEW i \in 1..n, NEW j \in 1..n, i < j PROVE Ahead(rows, sort, at[i], at[j])
  <2> DEFINE a == placing[i]
             b == placing[j]
  <2>1. a \in 1..n /\ b \in 1..n /\ Ahead(found, sort, a, b) /\ at[i] = kept[a] /\ at[j] = kept[b]
    BY <1>7, <1>8, <1>10
  <2> HIDE DEF a, b, at
  <2>2. found[a] = rows[kept[a]] /\ found[b] = rows[kept[b]] /\ (a < b <=> kept[a] < kept[b])
    BY <1>7, <1>8, <2>1
  <2> QED
    BY <2>1, <2>2 DEF Ahead
<1> HIDE DEF at
<1> QED
  BY <1>4, <1>9, <1>10 DEF n, hits, sort

LEMMA WholeTable == ASSUME DataAssumption, TableInv PROVE Data!TableIsWhole
<1> DEFINE view == Data!ComputeRows(rows, tableState)
           hits == Matching(rows, tableState.filter)
           wanted == {rows[i] : i \in hits}
           found == Data!Filtered(rows, tableState.filter)
           all == Data!Sorted(found, tableState.sort)
           n == Len(all)
           sort == tableState.sort
           size == tableState.pageSize
<1>1. all \in Seq(Rows) /\ n \in Nat /\ DOMAIN all = 1..n
  BY AllAre
<1>2. PICK at : /\ IsPickedBy(all, rows, at, hits)
                /\ \A i, j \in 1..n : i < j => Ahead(rows, sort, at[i], at[j])
  BY AllAre
<1>3. Data!Pages = all
  BY <1>1, PagesAre
<1>4. /\ rows \in Seq(Rows) /\ size \in Nat /\ tableState.pageIndex \in Nat
      /\ tableState \in [sort : Sorts, filter : Needles \cup {0}, pageIndex : Nat, pageSize : Nat]
      /\ \A i, j \in DOMAIN rows : rows[i] = rows[j] => i = j
  BY DEF TableInv
<1>5. /\ view.filteredCount = n
      /\ size = 0 => view.rows = all /\ view.pageCount = 1 /\ view.pageIndex = 0
      /\ size # 0 =>
            /\ view.pageCount = Data!PageCount(n, size)
            /\ view.pageIndex = Data!Least(tableState.pageIndex, view.pageCount - 1)
            /\ view.rows = SubSeq(all, view.pageIndex * size + 1,
                                  Data!Least(n, view.pageIndex * size + size))
  BY <1>1, <1>4, ViewIs
<1>6. hits \subseteq DOMAIN rows /\ hits \subseteq Nat
  BY <1>4 DEF Matching
<1>7. wanted = {rows[i] : i \in {j \in DOMAIN rows :
                  tableState.filter = 0 \/ Data!MatchesFilter(rows[j], tableState.filter)}}
  BY DEF Matching
<1> HIDE DEF view, hits, all, n, sort, size
<1>8. /\ at \in [1..n -> hits] /\ \A k \in 1..n : all[k] = rows[at[k]]
      /\ \A i \in hits : \E k \in 1..n : at[k] = i
  BY <1>2 DEF IsPickedBy, n
<1>9. {all[i] : i \in DOMAIN all} = wanted
  BY <1>1, <1>8
<1>10. Cardinality(wanted) = n
  <2>1. \A i, j \in 1..n : i < j => at[i] # at[j]
    <3>1. ASSUME NEW i \in 1..n, NEW j \in 1..n, i < j PROVE at[i] # at[j]
      <4>1. Ahead(rows, sort, at[i], at[j]) /\ at[i] \in Nat /\ at[j] \in Nat
        BY <1>2, <1>6, <1>8, <3>1
      <4>2. at[i] = at[j] => at[i] < at[i]
        BY <4>1 DEF Ahead
      <4> QED
        BY <4>1, <4>2
    <3> QED
      BY <3>1
  <2>2. \A i, j \in 1..n : i = j \/ i < j \/ j < i
    BY <1>1
  <2>3. \A i, j \in 1..n : all[i] = all[j] => at[i] = at[j]
    BY <1>4, <1>6, <1>8
  <2>4. \A i, j \in 1..n : all[i] = all[j] => i = j
    BY <2>1, <2>2, <2>3
  <2>5. all \in [1..n -> wanted] /\ \A r \in wanted : \E i \in 1..n : all[i] = r
    <3>1. all = [i \in 1..n |-> all[i]]
      BY <1>1
    <3> QED
      BY <1>1, <1>9, <3>1
  <2> HIDE DEF wanted
  <2>6. all \in Surjection(1..n, wanted) /\ all \in Injection(1..n, wanted)
    BY <2>4, <2>5 DEF Surjection, Injection, IsInjective
  <2>7. IsFiniteSet(1..n) /\ Cardinality(1..n) = n
    BY <1>1, IntervalSize
  <2> QED
    BY <2>6, <2>7, FS_Surjection
<1>11. ASSUME NEW i \in 1..n, NEW j \in 1..n, i < j PROVE Data!InOrder(all[i], all[j])
  <2> DEFINE a == at[i]
             b == at[j]
             x == CellIn(rows[a], sort)
             y == CellIn(rows[b], sort)
             Place(r) == CHOOSE m \in DOMAIN rows : rows[m] = r
  <2>1. a \in DOMAIN rows /\ b \in DOMAIN rows /\ all[i] = rows[a] /\ all[j] = rows[b]
    BY <1>6, <1>8
  <2>2. IF x = y THEN a < b ELSE (x < y) = (sort.direction = "asc")
    BY <1>2, <1>11 DEF Ahead
  <2> HIDE DEF a, b
  <2>3. Place(rows[a]) = a /\ Place(rows[b]) = b
    <3>1. \A m \in DOMAIN rows : Place(rows[m]) \in DOMAIN rows /\ rows[Place(rows[m])] = rows[m]
      OBVIOUS
    <3> HIDE DEF Place
    <3> QED
      BY <1>4, <2>1, <3>1
  <2>4. Data!InOrder(rows[a], rows[b]) <=>
           IF x = y THEN Place(rows[a]) < Place(rows[b]) ELSE (x < y) = (sort.direction = "asc")
    BY Zenon DEF Data!InOrder, CellIn, sort
  <2> HIDE DEF x, y, Place
  <2> QED
    BY <2>1, <2>2, <2>3, <2>4
<1>12. view.rows = <<>> => n = 0
  <2>1. CASE size = 0
    BY <1>1, <1>5, <2>1 DEF n
  <2>2. CASE size # 0
    <3> DEFINE p == view.pageIndex
               last == Data!Least(n, p * size + size)
    <3>1. p \in 0..(Data!PageCount(n, size) - 1) /\ size \in Nat \ {0}
      <4>1. Data!PageCount(n, size) \in Nat /\ Data!PageCount(n, size) >= 1 /\ size \in Nat \ {0}
        BY <1>1, <1>4, <2>2, PageStarts
      <4>2. p = Data!Least(tableState.pageIndex, Data!PageCount(n, size) - 1)
        BY <1>5, <2>2
      <4> HIDE DEF p
      <4> QED
        BY <1>4, <4>1, <4>2 DEF Data!Least
    <3>2. p * size \in Nat /\ (n > 0 => p * size < n)
      BY <1>1, <3>1, PageStarts
    <3>3. view.rows = SubSeq(all, p * size + 1, last)
      BY <1>5, <2>2
    <3> DEFINE skipped == p * size
    <3>4. n > 0 => skipped + 1 <= last /\ last \in Int
      <4>1. last = Data!Least(n, skipped + size) /\ skipped \in Nat /\ (n > 0 => skipped < n)
        BY <3>2
      <4> HIDE DEF skipped, last
      <4> QED
        BY <1>1, <3>1, <4>1 DEF Data!Least
    <3>5. view.rows = SubSeq(all, skipped + 1, last) /\ skipped \in Nat
      BY <3>2, <3>3
    <3> HIDE DEF skipped, last
    <3>6. n > 0 => view.rows # <<>>
      <4>1. ASSUME n > 0 PROVE Len(SubSeq(all, skipped + 1, last)) = last - skipped /\ last - skipped > 0
        BY <1>1, <3>4, <3>5, <4>1
      <4>2. Len(<<>>) = 0
        OBVIOUS
      <4>3. ASSUME n > 0, view.rows = <<>> PROVE FALSE
        <5>1. Len(<<>>) = last - skipped /\ last - skipped > 0
          BY <3>5, <4>1, <4>3
        <5> QED
          BY <4>2, <5>1
      <4> QED
        BY <4>3
    <3> QED
      BY <1>1, <3>6
  <2> QED
    BY <2>1, <2>2
<1>13. ASSUME view.pageIndex = 0, NEW k \in DOMAIN view.rows
       PROVE  all[Data!AriaRowIndex(k) - 1] = view.rows[k]
  <2>1. CASE size = 0
    <3>1. view.rows = all /\ k \in Int
      BY <1>1, <1>5, <1>13, <2>1
    <3> QED
      BY <3>1 DEF Data!AriaRowIndex
  <2>2. CASE size # 0
    <3> DEFINE last == Data!Least(n, size)
    <3>1. 0 * size = 0 /\ 0 * size + size = size
      BY <1>4
    <3>2. view.rows = SubSeq(all, 1, last)
      BY <1>5, <1>13, <2>2, <3>1
    <3>3. last \in Nat /\ last <= n
      BY <1>1, <1>4 DEF Data!Least
    <3> HIDE DEF last
    <3>4. k \in 1..last /\ view.rows[k] = all[k]
      <4>1. view.rows = [i \in 1..last |-> all[i]]
        BY <1>1, <3>2, <3>3
      <4> QED
        BY <1>13, <4>1
    <3> QED
      BY <3>3, <3>4 DEF Data!AriaRowIndex
  <2> QED
    BY <2>1, <2>2
<1>15. n = 0 => wanted = {}
  <2>1. n = 0 => {all[i] : i \in DOMAIN all} = {}
    BY <1>1
  <2> HIDE DEF wanted
  <2> QED
    BY <1>9, <2>1
<1> HIDE DEF wanted
<1>14. Data!Cardinality(wanted) = n
  BY <1>10, DataCardinality, Zenon
<1>16. /\ {all[i] : i \in DOMAIN all} = wanted
       /\ Len(all) = Data!Cardinality(wanted) /\ view.filteredCount = Data!Cardinality(wanted)
       /\ \A i, j \in DOMAIN all : i < j => Data!InOrder(all[i], all[j])
       /\ view.rows = <<>> => wanted = {}
       /\ view.pageIndex = 0 => \A k \in DOMAIN view.rows : all[Data!AriaRowIndex(k) - 1] = view.rows[k]
  BY <1>1, <1>5, <1>9, <1>11, <1>12, <1>13, <1>14, <1>15 DEF n
<1> QED
  BY <1>3, <1>7, <1>16, ZenonT(50) DEF Data!TableIsWhole, view

\* The table shows every row that matches, once, in the order asked for, and
\* the list shows every row in the viewport: store, DataTable, VirtualList.
THEOREM ShowsEveryRowCorrect == ASSUME DataAssumption PROVE Data!Spec => []ShowsEveryRow
<1>1. Data!Init => TableInv /\ ListInv
  BY TableInit, ListInit
<1>2. TableInv /\ ListInv /\ [Data!Next]_(Data!vars) => TableInv' /\ ListInv'
  <2>1. TableInv /\ ListInv /\ UNCHANGED Data!vars => TableInv' /\ ListInv'
    BY DEF Data!vars, Data!tableVars, Data!listVars, TableInv, ListInv
  <2> QED
    BY <2>1, TableKeeps, ListKeeps
<1>3. TableInv /\ ListInv => ShowsEveryRow
  BY WholeTable, WholeList DEF ShowsEveryRow, Data!ShowsEveryRow
<1> QED
  BY <1>1, <1>2, <1>3, PTL DEF Data!Spec
==============================================================================
