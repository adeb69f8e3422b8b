---------------------------- MODULE TokenRotation ----------------------------
(***************************************************************************)
(* The session of one browser: login, refresh and logout of internal/auth, *)
(* and apiFetch of api/http.ts, which refreshes and retries when it gets a *)
(* 401.  All tabs share one cookie jar and each may have a fetch under     *)
(* way; the server runs every statement of a request as a step.            *)
(*                                                                         *)
(* Abstracted: the password check of a login (it succeeds), token hashes   *)
(* (a token is its own hash), users (all tokens belong to the one user),   *)
(* audit entries, the attributes of the cookies.  A request reads the jar  *)
(* when it is sent; an answer changes the jar when it arrives.             *)
(***************************************************************************)
EXTENDS Naturals, FiniteSets

CONSTANTS
    Calls,        \* fetches that may be under way at once, in any tabs
    Tokens,       \* bound: refresh tokens that are ever made
    NoToken,
    DBErrors,     \* TRUE: statements on refresh_tokens may fail
    NetworkLoss   \* TRUE: requests and answers may be lost

ASSUME NoTokenFresh == NoToken \notin Tokens
ASSUME FlagsType    == DBErrors \in BOOLEAN /\ NetworkLoss \in BOOLEAN

VARIABLES
    row,      \* refresh_tokens: the state of each token
    heir,     \* refresh_tokens.replaced_by_token_hash
    cookie,   \* the refresh_token cookie
    access,   \* the access_token cookie is there and not expired
    session,  \* what the user believes: logged in or not
    pc,       \* next step of each call
    held,     \* the refresh token a call has sent
    minted,   \* the token the server has made for a call
    result,   \* how the last request of each call ended
    parent,   \* history: the token each token was exchanged for
    lost,     \* history: tokens whose answer never arrived
    calm      \* history: no two requests overlapped and no statement failed

tables  == <<row, heir, parent>>
jar     == <<cookie, access>>
history == <<lost, calm>>
vars    == <<tables, jar, session, pc, held, minted, result, history>>

MaybeToken == Tokens \cup {NoToken}
Step    == {"idle", "login", "refresh", "lookup", "create", "revoke", "reply",
            "refused", "retry", "logout", "clear"}
\* A caller that the network failed gets an exception, or the 401 it had.
Outcome == {"none", "ok", "unauthorized", "unreachable",
            "logged_in", "logged_out", "logout_failed"}

TypeOK ==
    /\ row \in [Tokens -> {"none", "live", "expired", "revoked"}]
    /\ heir \in [Tokens -> MaybeToken]
    /\ parent \in [Tokens -> MaybeToken]
    /\ cookie \in MaybeToken /\ access \in BOOLEAN
    /\ session \in {"none", "open"}
    /\ pc \in [Calls -> Step]
    /\ held \in [Calls -> MaybeToken]
    /\ minted \in [Calls -> MaybeToken]
    /\ result \in [Calls -> Outcome]
    /\ lost \subseteq Tokens /\ calm \in BOOLEAN

Init ==
    /\ row = [t \in Tokens |-> "none"]
    /\ heir = [t \in Tokens |-> NoToken]
    /\ parent = [t \in Tokens |-> NoToken]
    /\ cookie = NoToken /\ access = FALSE
    /\ session = "none"
    /\ pc = [c \in Calls |-> "idle"]
    /\ held = [c \in Calls |-> NoToken]
    /\ minted = [c \in Calls |-> NoToken]
    /\ result = [c \in Calls |-> "none"]
    /\ lost = {} /\ calm = TRUE

Goto(c, step) == pc' = [pc EXCEPT ![c] = step]

Finish(c, outcome) ==
    /\ Goto(c, "idle")
    /\ result' = [result EXCEPT ![c] = outcome]

Begin(c, step) ==
    /\ pc[c] = "idle"
    /\ Goto(c, step)
    /\ held' = [held EXCEPT ![c] = NoToken]
    /\ minted' = [minted EXCEPT ![c] = NoToken]
    /\ result' = [result EXCEPT ![c] = "none"]
    /\ calm' = (calm /\ \A d \in Calls : pc[d] = "idle")
    /\ UNCHANGED <<tables, jar, session, lost>>

\* Bound: a request begins while a token is left for it.
TokenLeft ==
    Cardinality({t \in Tokens : row[t] = "none"}) > Cardinality({c \in Calls : pc[c] # "idle"})

-----------------------------------------------------------------------------
(* The server *)

\* CreateRefreshToken for a login (IssueTokens) or for the holder of a token.
Store(c, t) ==
    /\ row[t] = "none"
    /\ row' = [row EXCEPT ![t] = "live"]
    /\ minted' = [minted EXCEPT ![c] = t]
    /\ parent' = [parent EXCEPT ![t] = held[c]]

IssueTokens(c) ==
    /\ pc[c] = "login"
    /\ \/ /\ \E t \in Tokens : Store(c, t)
          /\ Goto(c, "reply")
          /\ UNCHANGED result
       \/ /\ DBErrors
          /\ Finish(c, "none")
          /\ UNCHANGED <<row, parent, minted>>
    /\ UNCHANGED <<heir, jar, session, held, history>>

\* The statement fails: it changes nothing, and the history remembers.
Fails == DBErrors /\ calm' = FALSE

Usable(t) == t \in Tokens /\ row[t] = "live"

\* MUTANT of Lookup: Refresh looks at the expiry of the token only.
Lookup_IgnoresRevoked(c) ==
    /\ pc[c] = "lookup"
    /\ \/ row[held[c]] \in {"live", "revoked"} /\ Goto(c, "create")
       \/ row[held[c]] = "expired" /\ Goto(c, "refused")
    /\ UNCHANGED <<tables, jar, session, held, minted, result, history>>

Lookup(c) ==
    /\ pc[c] = "lookup"
    /\ \/ Usable(held[c]) /\ Goto(c, "create") /\ UNCHANGED calm
       \/ ~Usable(held[c]) /\ Goto(c, "refused") /\ UNCHANGED calm
       \/ Fails /\ Goto(c, "refused")
    /\ UNCHANGED <<tables, jar, session, held, minted, result, lost>>

Create(c) ==
    /\ pc[c] = "create"
    /\ \/ /\ \E t \in Tokens : Store(c, t)
          /\ Goto(c, "revoke")
          /\ UNCHANGED calm
       \/ /\ Fails
          /\ Goto(c, "refused")
          /\ UNCHANGED <<row, parent, minted>>
    /\ UNCHANGED <<heir, jar, session, held, result, lost>>

\* RevokeRefreshToken, whatever the state of the row by now; its error is dropped.
Revoke(c) ==
    /\ pc[c] = "revoke"
    /\ \/ /\ row' = [row EXCEPT ![held[c]] = "revoked"]
          /\ heir' = [heir EXCEPT ![held[c]] = minted[c]]
          /\ UNCHANGED calm
       \/ Fails /\ UNCHANGED <<row, heir>>
    /\ Goto(c, "reply")
    /\ UNCHANGED <<parent, jar, session, held, minted, result, lost>>

-----------------------------------------------------------------------------
(* The browser *)

Login(c) == session = "none" /\ TokenLeft /\ Begin(c, "login")

\* The request carries the access token; without one RequireAuth answers 401.
Request(c) ==
    /\ session = "open" /\ TokenLeft
    /\ \/ ~access /\ Begin(c, "refresh")
       \/ /\ access /\ pc[c] = "idle"
          /\ Finish(c, "ok")
          /\ UNCHANGED <<tables, jar, session, held, minted, history>>

SendRefresh(c) ==
    /\ pc[c] = "refresh"
    /\ held' = [held EXCEPT ![c] = cookie]
    /\ Goto(c, IF cookie = NoToken THEN "refused" ELSE "lookup")
    /\ UNCHANGED <<tables, jar, session, minted, result, history>>

\* setTokenCookies takes effect; a login is over, a refresh goes on to retry.
Reply(c) ==
    /\ pc[c] = "reply"
    /\ cookie' = minted[c] /\ access' = TRUE
    /\ IF held[c] = NoToken
       THEN Finish(c, "logged_in") /\ session' = "open"
       ELSE Goto(c, "retry") /\ UNCHANGED <<result, session>>
    /\ UNCHANGED <<tables, held, minted, history>>

\* MUTANT of Retry: apiFetch refreshes, but returns the answer it had.
Retry_Forgotten(c) ==
    /\ pc[c] = "retry"
    /\ Finish(c, "unauthorized")
    /\ UNCHANGED <<tables, jar, session, held, minted, history>>

Retry(c) ==
    /\ pc[c] = "retry"
    /\ Finish(c, IF access THEN "ok" ELSE "unauthorized")
    /\ UNCHANGED <<tables, jar, session, held, minted, history>>

\* MUTANT of Refused: apiFetch drops the cookies when a refresh is refused.
Refused_ClearsCookies(c) ==
    /\ pc[c] = "refused"
    /\ Finish(c, "unauthorized")
    /\ cookie' = NoToken /\ access' = FALSE
    /\ UNCHANGED <<tables, session, held, minted, history>>

\* MUTANT of Refused: apiFetch tries to refresh again and again.
Refused_TriesAgain(c) ==
    /\ pc[c] = "refused"
    /\ Goto(c, "refresh")
    /\ UNCHANGED <<tables, jar, session, held, minted, result, history>>

\* The refresh did not succeed: apiFetch returns the 401 it had.
Refused(c) ==
    /\ pc[c] = "refused"
    /\ Finish(c, "unauthorized")
    /\ UNCHANGED <<tables, jar, session, held, minted, history>>

\* A lost request, or a lost answer to a request the server has carried out.
Lose(c) ==
    /\ NetworkLoss
    /\ pc[c] \in {"login", "refresh", "reply", "retry"}
    /\ Finish(c, "unreachable")
    /\ lost' = IF pc[c] = "reply" THEN lost \cup {minted[c]} ELSE lost
    /\ UNCHANGED <<tables, jar, session, held, minted, calm>>

Logout(c) == session = "open" /\ Begin(c, "logout")

\* RequireAuth guards /auth/logout, and apiFetch does not refresh for /auth/
\* paths: without an access token the answer is 401.  handleLogout forgets the
\* user in either case.
SendLogout(c) ==
    /\ pc[c] = "logout"
    /\ IF access THEN Goto(c, "clear") /\ UNCHANGED <<result, session>>
                 ELSE Finish(c, "logout_failed") /\ session' = "none"
    /\ UNCHANGED <<tables, jar, held, minted, history>>

\* MUTANT of ClearCookies: clearTokenCookies empties the cookies and does not remove them.
ClearCookies_EmptyValue(c) ==
    /\ pc[c] = "clear"
    /\ session' = "none"
    /\ cookie' = "" /\ access' = FALSE
    /\ Finish(c, "logged_out")
    /\ UNCHANGED <<tables, held, minted, history>>

\* clearTokenCookies takes effect, or the answer is lost.
ClearCookies(c) ==
    /\ pc[c] = "clear"
    /\ session' = "none"
    /\ \/ cookie' = NoToken /\ access' = FALSE /\ Finish(c, "logged_out")
       \/ NetworkLoss /\ Finish(c, "logout_failed") /\ UNCHANGED jar
    /\ UNCHANGED <<tables, held, minted, history>>

-----------------------------------------------------------------------------
(* Time *)

\* accessTTL, 15 minutes, is longer than the round trip of a retry.
AccessExpires ==
    /\ access
    /\ \A c \in Calls : pc[c] # "retry"
    /\ access' = FALSE
    /\ UNCHANGED <<tables, cookie, session, pc, held, minted, result, history>>

\* refreshTTL, 7 days, is longer than any request takes.
Expire(t) ==
    /\ row[t] = "live"
    /\ \A c \in Calls : pc[c] = "idle"
    /\ row' = [row EXCEPT ![t] = "expired"]
    /\ UNCHANGED <<heir, parent, jar, session, pc, held, minted, result, history>>

Serve(c)  == IssueTokens(c) \/ Lookup(c) \/ Create(c) \/ Revoke(c)
Browse(c) == SendRefresh(c) \/ Reply(c) \/ Retry(c) \/ Refused(c) \/ Lose(c)
                \/ SendLogout(c) \/ ClearCookies(c)

Next ==
    \/ \E c \in Calls : Login(c) \/ Request(c) \/ Logout(c) \/ Serve(c) \/ Browse(c)
    \/ AccessExpires
    \/ \E t \in Tokens : Expire(t)

Spec     == Init /\ [][Next]_vars
FairSpec == Spec /\ \A c \in Calls : WF_vars(Serve(c) \/ Browse(c))

-----------------------------------------------------------------------------
(* Properties *)

\* However the refreshes of several tabs overlap and whatever statements fail,
\* the browser of a logged-in user holds a token it can refresh with, unless the
\* session has expired: if the token in its jar has been rotated out, the last
\* token that replaced it (Refresh, service.go) is on its way to the jar, or its
\* answer was lost.
Replaced(t) ==
    \/ heir[t] \in lost
    \/ \E c \in Calls : pc[c] = "reply" /\ minted[c] = heir[t]
SessionSurvives ==
    session = "open" =>
        /\ cookie \in Tokens /\ row[cookie] # "none"
        /\ row[cookie] = "revoked" => Replaced(cookie)

\* Refused in this step, although the jar holds a token to refresh with.
RefusedAlive(c) ==
    /\ result'[c] = "unauthorized" /\ result[c] # "unauthorized"
    /\ held[c] # NoToken /\ Usable(cookie)

\* As long as requests do not overlap and the database answers, a request that
\* has sent a refresh token ends with 401 only if the jar holds nothing to refresh
\* with, whatever answers were lost before.
RefusedOnlyIfDead == [][calm => \A c \in Calls : ~RefusedAlive(c)]_vars

\* "Try refresh once, then retry original request" (http.ts): the same of
\* requests that overlap.
NeverRefusedAlive == [][\A c \in Calls : ~RefusedAlive(c)]_vars

\* Refresh exchanges a token for at most one other, as long as refreshes do not
\* overlap and the revocation reaches the database; whatever answers were lost.
RotatedOnce ==
    calm => \A t, u \in Tokens :
        parent[t] = parent[u] /\ parent[t] \in Tokens => t = u

\* Every fetch is answered after at most one refresh and one retry.
Answered == \A c \in Calls : pc[c] # "idle" ~> pc[c] = "idle"

=============================================================================
