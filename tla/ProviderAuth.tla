----------------------------- MODULE ProviderAuth ----------------------------
(***************************************************************************)
(* The token of a collaboration provider (packages/collab, provider.ts):   *)
(* connectProvider resolves it, hands it to the y-websocket provider as a  *)
(* query parameter and as a subprotocol, and resolves it again each time a *)
(* connection closes.  y-websocket reads both when it dials, which is      *)
(* after a backoff.                                                        *)
(*                                                                         *)
(* All the subprotocols the caller asks for are named by one constant.     *)
(***************************************************************************)

CONSTANTS
    Tokens,       \* what the caller's resolver may return
    None,         \* no token: null, undefined or ''
    Callers       \* the subprotocols in the caller's options

ASSUME TokenAssumption == None \notin Tokens /\ Callers \notin Tokens

VARIABLES
    session,      \* what the resolver returns now
    phase,        \* of the provider: not made, idle, up, in backoff or destroyed
    params,       \* provider.params: the token under the binding's key
    protocols,    \* provider.protocols
    bound,        \* is the connection-close listener attached?
    usesProtocol, \* does the binding carry the token as a subprotocol too?
    stale,        \* history: has the token changed since it was resolved, with
                  \* nothing connected?
    dialed        \* what the last dial carried, and the resolver's token then

vars == <<session, phase, params, protocols, bound, usesProtocol, stale, dialed>>

MaybeToken == Tokens \cup {None}
Protocols == SUBSET (Tokens \cup {Callers})

TypeOK ==
    /\ session \in MaybeToken
    /\ phase \in {"none", "idle", "up", "backoff", "destroyed"}
    /\ params \in MaybeToken
    /\ protocols \in Protocols
    /\ bound \in BOOLEAN /\ usesProtocol \in BOOLEAN /\ stale \in BOOLEAN
    /\ dialed \in [session : MaybeToken, stale : BOOLEAN,
                   params : MaybeToken, protocols : Protocols]

\* resolveAuthParams().protocols: the token's entry, if there is a token.
TokenEntry == IF usesProtocol THEN {session} \ {None} ELSE {}

Init ==
    /\ session \in MaybeToken
    /\ phase = "none"
    /\ params = None
    /\ protocols = {}
    /\ bound = FALSE
    /\ usesProtocol \in BOOLEAN
    /\ stale = FALSE
    /\ dialed = [session |-> session, stale |-> FALSE,
                 params |-> session, protocols |-> {Callers} \cup TokenEntry]

------------------------------------------------------------------------------
(* A definition marked "mistake" is what the code could have said in place  *)
(* of the next; no action uses it.                                          *)

\* Object.assign(provider.params, params): a missing token assigns nothing.
Once == params                  \* mistake: resolved at construction only
Assigned == IF session = None THEN params ELSE session

\* provider.protocols is replaced, if there is something to replace it with.
Replaced(list) == IF TokenEntry = {} THEN list ELSE TokenEntry

\* apply() of bindProviderAuth.
Apply == params' = Assigned /\ protocols' = Replaced(protocols) /\ stale' = FALSE

\* connection-close, as far as the binding listens to it.
ConnectionClose == IF bound THEN Apply ELSE UNCHANGED <<params, protocols, stale>>

\* setupWS(): the parameters and protocols as they are now.
Dial == dialed' = [session |-> session, stale |-> stale,
                   params |-> params, protocols |-> protocols]

------------------------------------------------------------------------------
\* connectProvider(): the options are resolved and merged, the constructor
\* dials with them unless `connect' is false, then the binding applies the
\* token once more.
ConnectProvider ==
    /\ phase = "none"
    /\ LET merged == {Callers} \cup TokenEntry
       IN  /\ \/ /\ phase' = "up"
                 /\ dialed' = [session |-> session, stale |-> FALSE,
                               params |-> session, protocols |-> merged]
              \/ phase' = "idle" /\ UNCHANGED dialed
           /\ protocols' = Replaced(merged)
    /\ params' = Assigned
    /\ bound' = TRUE
    /\ UNCHANGED <<session, usesProtocol, stale>>

\* disconnect(): the listener goes first, so closing resolves nothing.
Disconnect ==
    /\ phase \in {"idle", "up", "backoff"}
    /\ phase' = "destroyed"
    /\ bound' = FALSE
    /\ UNCHANGED <<session, params, protocols, usesProtocol, stale, dialed>>

\* The caller connects and disconnects the y-websocket provider it was given.
Connect ==
    /\ phase = "idle"
    /\ phase' = "up"
    /\ Dial
    /\ UNCHANGED <<session, params, protocols, bound, usesProtocol, stale>>

Pause ==
    /\ phase \in {"up", "backoff"}
    /\ phase' = "idle"
    /\ IF phase = "up" THEN ConnectionClose ELSE UNCHANGED <<params, protocols, stale>>
    /\ UNCHANGED <<session, bound, usesProtocol, dialed>>

\* A connection is lost or a dial fails; y-websocket dials again later.
Drop ==
    /\ phase = "up"
    /\ phase' = "backoff"
    /\ ConnectionClose
    /\ UNCHANGED <<session, bound, usesProtocol, dialed>>

Redial ==
    /\ phase = "backoff"
    /\ phase' = "up"
    /\ Dial
    /\ UNCHANGED <<session, params, protocols, bound, usesProtocol, stale>>

\* The resolver starts to return another token, or none.
Rotate ==
    /\ session' \in MaybeToken \ {session}
    /\ stale' = (stale \/ phase \in {"idle", "backoff"})
    /\ UNCHANGED <<phase, params, protocols, bound, usesProtocol, dialed>>

Next ==
    \/ ConnectProvider \/ Disconnect
    \/ Connect \/ Pause \/ Drop \/ Redial \/ Rotate

Spec == Init /\ [][Next]_vars

------------------------------------------------------------------------------
(* Properties.                                                             *)

(* "The token is resolved at connect time": a dial carries the token the     *)
(* resolver returns when it is made, as a parameter and as a subprotocol.    *)
(* It is in fact resolved when the connection before it closed, so this      *)
(* holds unless the token has changed between the two; and where there is    *)
(* no token any more, the old one is still carried.                         *)
DialsWithCurrentToken ==
    dialed.session # None /\ ~dialed.stale =>
        /\ dialed.params = dialed.session
        /\ usesProtocol => dialed.protocols \cap Tokens = {dialed.session}
==============================================================================
