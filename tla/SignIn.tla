-------------------------------- MODULE SignIn -------------------------------
(* packages/auth in one browser with several tabs: the OIDC code flow of     *)
(* oidc.ts behind the login-nonce cookie, the session hook and the CSRF hook *)
(* of the server, and the tokens of csrf.ts.                                 *)
(*                                                                           *)
(* The tabs share one cookie jar.  The application's parts are external:     *)
(* its callback route compares `state` with the cookie before it exchanges   *)
(* the code, sets __Host-session when that succeeds, and its pages carry a   *)
(* token bound to their session, issued anew unless the cookie's still is    *)
(* good.  Sessions, tokens and sign-ins are numbers; 0 is none.              *)
EXTENDS Naturals, Sequences

CONSTANTS
    Tabs,
    MaxSignIns,     \* bound: createAuthorizationRequest() calls
    MaxTokens       \* bound: issueCsrfToken() calls

VARIABLES
    rethrows,       \* onResolveError = 'rethrow'
    signIns,        \* authorization requests made so far
    live,           \* the sessions the server would resolve
    tokens,         \* tokens issued so far: the session each is bound to
    expired,        \* tokens past their exp
    jar,            \* the cookies
    tab,            \* what each tab shows
    request         \* the unsafe request each tab has sent

vars == <<rethrows, signIns, live, tokens, expired, jar, tab, request>>

Sessions == 1..MaxSignIns       \* the session a completed sign-in gets
Reasons == {"no-session", "cookie-missing", "header-missing", "token-mismatch", "token-invalid"}
Idle == [step |-> "none", session |-> 0, cookie |-> 0, header |-> 0, locals |-> 0]

Init ==
    /\ rethrows \in BOOLEAN
    /\ signIns = 0
    /\ live = {}
    /\ tokens = <<>>
    /\ expired = {}
    /\ jar = [session |-> 0, csrf |-> 0, login |-> 0]
    /\ tab = [t \in Tabs |-> [shows |-> "nothing", login |-> 0, session |-> 0, header |-> 0]]
    /\ request = [t \in Tabs |-> Idle]

Shows(t, what) == tab[t].shows = what

(* createAuthorizationRequest(): a fresh state, nonce and verifier, kept in  *)
(* the login-nonce cookie; the tab leaves for the provider.                  *)
BeginSignIn(t) ==
    /\ request[t] = Idle
    /\ signIns < MaxSignIns
    /\ signIns' = signIns + 1
    /\ jar' = [jar EXCEPT !.login = signIns + 1]
    /\ tab' = [tab EXCEPT ![t] = [@ EXCEPT !.shows = "provider", !.login = signIns + 1, !.header = 0]]
    /\ UNCHANGED <<rethrows, live, tokens, expired, request>>

(* The provider redirects back: the state matches the cookie, unless another *)
(* tab has begun a sign-in since.                                            *)
Return(t) ==
    /\ Shows(t, "provider")
    /\ tab' = [tab EXCEPT ![t].shows = IF jar.login = tab[t].login THEN "exchange" ELSE "error"]
    /\ UNCHANGED <<rethrows, signIns, live, tokens, expired, jar, request>>

(* exchangeAuthorizationCode(): tokens whose id_token is valid for the nonce *)
(* of this sign-in.                                                          *)
Exchange(t) ==
    /\ Shows(t, "exchange")
    /\ live' = live \cup {tab[t].login}
    /\ jar' = [jar EXCEPT !.session = tab[t].login, !.login = 0]
    /\ tab' = [tab EXCEPT ![t].shows = "nothing"]
    /\ UNCHANGED <<rethrows, signIns, tokens, expired, request>>

(* The endpoint is unreachable, refuses (also a code that was used), or      *)
(* answers with something that is not a valid token response: ProblemError.  *)
ExchangeFails(t) ==
    /\ Shows(t, "exchange")
    /\ tab' = [tab EXCEPT ![t].shows = "error"]
    /\ UNCHANGED <<rethrows, signIns, live, tokens, expired, jar, request>>

\* mistake: the payload that is signed leaves out the session.
Unbound(token, session) == session > 0

(* The payload hmac() signs: the nonce, the session and exp.                 *)
BoundTo(token, session) == tokens[token] = session

(* verifyCsrfToken().                                                        *)
Verifies(token, session) == token \notin expired /\ BoundTo(token, session)

(* A page is loaded: handleSession() resolves the cookie, and the page gets  *)
(* a token for its session.                                                  *)
LoadPage(t) ==
    LET session == IF jar.session \in live THEN jar.session ELSE 0
        good == jar.csrf # 0 /\ tokens[jar.csrf] = session /\ jar.csrf \notin expired
    IN  /\ request[t] = Idle
        /\ ~Shows(t, "provider") /\ ~Shows(t, "exchange")
        /\ \/ /\ session = 0 \/ good
              /\ tab' = [tab EXCEPT ![t] = [@ EXCEPT !.shows = "page", !.session = session,
                            !.header = IF session = 0 THEN 0 ELSE jar.csrf]]
              /\ UNCHANGED <<tokens, jar>>
           \/ /\ session # 0 /\ ~good
              /\ Len(tokens) < MaxTokens
              /\ tokens' = Append(tokens, session)
              /\ jar' = [jar EXCEPT !.csrf = Len(tokens) + 1]
              /\ tab' = [tab EXCEPT ![t] = [@ EXCEPT !.shows = "page", !.session = session,
                            !.header = Len(tokens) + 1]]
        /\ UNCHANGED <<rethrows, signIns, live, expired, request>>

(* The page sends a mutation, with the jar's cookies of that moment.         *)
Submit(t) ==
    /\ Shows(t, "page")
    /\ request[t] = Idle
    /\ request' = [request EXCEPT ![t] =
            [step |-> "session", session |-> jar.session, cookie |-> jar.csrf,
             header |-> tab[t].header, locals |-> 0]]
    /\ UNCHANGED <<rethrows, signIns, live, tokens, expired, jar, tab>>

(* resolveSessionLocals(): no cookie, what the resolver finds, or its throw  *)
(* taken for no session.                                                     *)
ResolveSession(t) ==
    /\ request[t].step = "session"
    /\ \E found \in {0, IF request[t].session \in live THEN request[t].session ELSE 0} :
        /\ found = 0 => request[t].session \notin live \/ ~rethrows
        /\ request' = [request EXCEPT ![t] = [@ EXCEPT !.step = "csrf", !.locals = found]]
    /\ UNCHANGED <<rethrows, signIns, live, tokens, expired, jar, tab>>

(* The resolver throws a ProblemError, or anything with 'rethrow'.           *)
ResolveThrows(t) ==
    /\ request[t].step = "session"
    /\ request[t].session # 0
    /\ request' = [request EXCEPT ![t].step = "failed"]
    /\ UNCHANGED <<rethrows, signIns, live, tokens, expired, jar, tab>>

(* evaluateCsrf(): the first reason that applies, or accepted.               *)
Verdict(r) ==
    IF r.locals = 0 THEN "no-session"
    ELSE IF r.cookie = 0 THEN "cookie-missing"
    ELSE IF r.header = 0 THEN "header-missing"
    ELSE IF r.header # r.cookie THEN "token-mismatch"
    ELSE IF ~Verifies(r.header, r.locals) THEN "token-invalid"
    ELSE "accepted"

(* handleCsrf(): the application's handler runs, or a 403 is answered.       *)
HandleCsrf(t) ==
    /\ request[t].step = "csrf"
    /\ request' = [request EXCEPT ![t].step = Verdict(request[t])]
    /\ UNCHANGED <<rethrows, signIns, live, tokens, expired, jar, tab>>

Answered(t) ==
    /\ request[t].step \in Reasons \cup {"accepted", "failed"}
    /\ request' = [request EXCEPT ![t] = Idle]
    /\ UNCHANGED <<rethrows, signIns, live, tokens, expired, jar, tab>>

(* The server ends a session: it runs out, or the user signs out.            *)
EndSession(s) ==
    /\ s \in live
    /\ live' = live \ {s}
    /\ UNCHANGED <<rethrows, signIns, tokens, expired, jar, tab, request>>

ExpireToken(k) ==
    /\ expired' = expired \cup {k}
    /\ expired' # expired
    /\ UNCHANGED <<rethrows, signIns, live, tokens, jar, tab, request>>

Next ==
    \/ \E t \in Tabs :
        \/ BeginSignIn(t) \/ Return(t) \/ Exchange(t) \/ ExchangeFails(t)
        \/ LoadPage(t) \/ Submit(t) \/ ResolveSession(t) \/ ResolveThrows(t)
        \/ HandleCsrf(t) \/ Answered(t)
    \/ \E s \in Sessions : EndSession(s)
    \/ \E k \in DOMAIN tokens : ExpireToken(k)

Spec == Init /\ [][Next]_vars

-------------------------------------------------------------------------------
(* A mutation is carried out only for the session whose page it was made on: *)
(* a tab left open while another signs in as somebody else does not act for  *)
(* them, although the browser sends the new session's cookie with its        *)
(* request (csrf-hook.ts:50-54, "verify (HMAC) against the session id").     *)
ActsForItsPage ==
    \A t \in Tabs : request[t].step = "accepted" =>
        /\ request[t].session = tab[t].session
        /\ request[t].locals = request[t].session
==============================================================================
