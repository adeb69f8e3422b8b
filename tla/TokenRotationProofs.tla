------------------------ MODULE TokenRotationProofs ------------------------
(***************************************************************************)
(* TokenRotation proved for any number of overlapping calls and of tokens, *)
(* with failing statements and lost messages: the types, and that a        *)
(* logged-in browser does not lose its session (SessionSurvives).          *)
(*                                                                         *)
(* A rotation is safe because the token it mints is known to nobody until  *)
(* its answer arrives (MintedFresh), so no other call can revoke it        *)
(* (MintedLive), and what the answer puts into the jar is live.  While     *)
(* requests do not overlap and statements do not fail, a token is also     *)
(* exchanged once (RotatedOnce) and a live session is never refused        *)
(* (RefusedOnlyIfDead).                                                    *)
(***************************************************************************)
EXTENDS TokenRotation, TLAPS

Exchanging == {"lookup", "create", "revoke"}
Carrying   == {"revoke", "reply"}

HeldStored ==
    \A c \in Calls : pc[c] \in Exchanging => held[c] \in Tokens /\ row[held[c]] # "none"

MintedLive ==
    \A c \in Calls : pc[c] \in Carrying => minted[c] \in Tokens /\ row[minted[c]] = "live"

MintedFresh ==
    \A c \in Calls : pc[c] \in Carrying =>
        /\ cookie # minted[c]
        /\ \A d \in Calls :
              /\ pc[d] \in Exchanging => held[d] # minted[c]
              /\ d # c /\ pc[d] \in Carrying => minted[d] # minted[c]

JarGood ==
    /\ session = "open" => cookie \in Tokens
    /\ cookie \in Tokens =>
         /\ row[cookie] # "none"
         /\ row[cookie] = "revoked" => Replaced(cookie)

IInv == TypeOK /\ HeldStored /\ MintedLive /\ MintedFresh /\ JarGood

-----------------------------------------------------------------------------

\* The initial state satisfies the invariant.
LEMMA InitIInv == Init => IInv
<1> SUFFICES ASSUME Init PROVE IInv
  OBVIOUS
<1>1. TypeOK
  BY DEF Init, TypeOK, MaybeToken, Step, Outcome
<1>2. HeldStored /\ MintedLive /\ MintedFresh
  BY DEF Init, HeldStored, MintedLive, MintedFresh, Exchanging, Carrying
<1>3. JarGood
  BY NoTokenFresh DEF Init, JarGood
<1>4. QED
  BY <1>1, <1>2, <1>3 DEF IInv

\* A request that begins keeps the types.
LEMMA BeginType ==
    ASSUME TypeOK, NEW c \in Calls, NEW step \in Step, Begin(c, step)
    PROVE  TypeOK'
<1>1. calm' \in BOOLEAN
  BY DEF Begin
<1>2. /\ pc' = [pc EXCEPT ![c] = step]
      /\ held' = [held EXCEPT ![c] = NoToken]
      /\ minted' = [minted EXCEPT ![c] = NoToken]
      /\ result' = [result EXCEPT ![c] = "none"]
      /\ UNCHANGED <<tables, jar, session, lost>>
  BY DEF Begin, Goto
<1>3. QED
  BY <1>1, <1>2 DEF TypeOK, MaybeToken, Outcome, tables, jar

\* Every step keeps the types: in particular a call at "reply" has a token to deliver.
LEMMA TypeStep == TypeOK /\ HeldStored /\ MintedLive /\ [Next]_vars => TypeOK'
<1> SUFFICES ASSUME TypeOK /\ HeldStored /\ MintedLive,
                    [Next]_vars
             PROVE  TypeOK'
  OBVIOUS
<1>0. ASSUME NEW c \in Calls, NEW step \in {"login", "refresh", "logout"}, Begin(c, step)
      PROVE  TypeOK'
  BY <1>0, BeginType DEF Step
<1>1. ASSUME NEW c \in Calls, Login(c) PROVE TypeOK'
  BY <1>0, <1>1 DEF Login
<1>3. ASSUME NEW c \in Calls, Logout(c) PROVE TypeOK'
  BY <1>0, <1>3 DEF Logout
<1> USE NoTokenFresh DEF TypeOK, MaybeToken, Step, Outcome, vars, tables,
             jar, history, HeldStored, MintedLive, Exchanging, Carrying
<1>2. ASSUME NEW c \in Calls, Request(c) PROVE TypeOK'
  <2>1. CASE Begin(c, "refresh")
    BY <1>0, <2>1
  <2>2. CASE /\ Finish(c, "ok")
             /\ UNCHANGED <<tables, jar, session, held, minted, history>>
    BY <2>2 DEF Finish, Goto
  <2>3. QED
    BY <1>2, <2>1, <2>2 DEF Request
<1>4. ASSUME NEW c \in Calls, IssueTokens(c) PROVE TypeOK'
  BY <1>4 DEF IssueTokens, Store, Finish, Goto
<1>5. ASSUME NEW c \in Calls, Lookup(c) PROVE TypeOK'
  BY <1>5 DEF Lookup, Usable, Fails, Goto
<1>6. ASSUME NEW c \in Calls, Create(c) PROVE TypeOK'
  <2>1. \/ calm' = calm /\ \E t \in Tokens : Store(c, t) /\ Goto(c, "revoke")
        \/ /\ calm' = FALSE /\ Goto(c, "refused")
           /\ UNCHANGED <<row, parent, minted>>
    BY <1>6 DEF Create, Fails
  <2>2. UNCHANGED <<heir, jar, session, held, result, lost>>
    BY <1>6 DEF Create
  <2>3. calm' \in BOOLEAN
    BY <2>1
  <2>4. /\ row' \in [Tokens -> {"none", "live", "expired", "revoked"}]
        /\ parent' \in [Tokens -> MaybeToken]
        /\ minted' \in [Calls -> MaybeToken]
        /\ pc' \in [Calls -> Step]
    BY <2>1 DEF Store, Goto
  <2>5. QED
    BY <2>2, <2>3, <2>4
<1>7. ASSUME NEW c \in Calls, Revoke(c) PROVE TypeOK'
  BY <1>7 DEF Revoke, Fails, Goto
<1>8. ASSUME NEW c \in Calls, SendRefresh(c) PROVE TypeOK'
  BY <1>8 DEF SendRefresh, Goto
<1>9. ASSUME NEW c \in Calls, Reply(c) PROVE TypeOK'
  BY <1>9 DEF Reply, Finish, Goto
<1>10. ASSUME NEW c \in Calls, Retry(c) PROVE TypeOK'
  BY <1>10 DEF Retry, Finish, Goto
<1>11. ASSUME NEW c \in Calls, Refused(c) PROVE TypeOK'
  BY <1>11 DEF Refused, Finish, Goto
<1>12. ASSUME NEW c \in Calls, Lose(c) PROVE TypeOK'
  BY <1>12 DEF Lose, Finish, Goto
<1>13. ASSUME NEW c \in Calls, SendLogout(c) PROVE TypeOK'
  BY <1>13 DEF SendLogout, Finish, Goto
<1>14. ASSUME NEW c \in Calls, ClearCookies(c) PROVE TypeOK'
  BY <1>14 DEF ClearCookies, Finish, Goto
<1>15. CASE AccessExpires
  BY <1>15 DEF AccessExpires
<1>16. ASSUME NEW t \in Tokens, Expire(t) PROVE TypeOK'
  BY <1>16 DEF Expire
<1>17. CASE UNCHANGED vars
  BY <1>17
<1>18. QED
  BY <1>1, <1>2, <1>3, <1>4, <1>5, <1>6, <1>7, <1>8, <1>9,
     <1>10, <1>11, <1>12, <1>13, <1>14, <1>15, <1>16, <1>17 DEF Next, Serve, Browse

\* A call that exchanges a token holds one that has a row.
LEMMA HeldStep ==
    TypeOK /\ TypeOK' /\ HeldStored /\ JarGood /\ [Next]_vars => HeldStored'
<1> SUFFICES ASSUME TypeOK /\ TypeOK' /\ HeldStored /\ JarGood,
                    [Next]_vars
             PROVE  HeldStored'
  OBVIOUS
<1> USE NoTokenFresh DEF TypeOK, MaybeToken, Step, Outcome, vars, tables,
             jar, history, HeldStored, JarGood, Exchanging
<1>1. ASSUME NEW c \in Calls, Login(c) PROVE HeldStored'
  BY <1>1 DEF Login, Begin, Goto
<1>2. ASSUME NEW c \in Calls, Request(c) PROVE HeldStored'
  BY <1>2 DEF Request, Begin, Finish, Goto
<1>3. ASSUME NEW c \in Calls, Logout(c) PROVE HeldStored'
  BY <1>3 DEF Logout, Begin, Goto
<1>4. ASSUME NEW c \in Calls, IssueTokens(c) PROVE HeldStored'
  BY <1>4 DEF IssueTokens, Store, Finish, Goto
<1>5. ASSUME NEW c \in Calls, Lookup(c) PROVE HeldStored'
  BY <1>5 DEF Lookup, Usable, Fails, Goto
<1>6. ASSUME NEW c \in Calls, Create(c) PROVE HeldStored'
  BY <1>6 DEF Create, Store, Fails, Goto
<1>7. ASSUME NEW c \in Calls, Revoke(c) PROVE HeldStored'
  BY <1>7 DEF Revoke, Fails, Goto
<1>8. ASSUME NEW c \in Calls, SendRefresh(c) PROVE HeldStored'
  BY <1>8 DEF SendRefresh, Goto
<1>9. ASSUME NEW c \in Calls, Reply(c) PROVE HeldStored'
  BY <1>9 DEF Reply, Finish, Goto
<1>10. ASSUME NEW c \in Calls, Retry(c) PROVE HeldStored'
  BY <1>10 DEF Retry, Finish, Goto
<1>11. ASSUME NEW c \in Calls, Refused(c) PROVE HeldStored'
  BY <1>11 DEF Refused, Finish, Goto
<1>12. ASSUME NEW c \in Calls, Lose(c) PROVE HeldStored'
  BY <1>12 DEF Lose, Finish, Goto
<1>13. ASSUME NEW c \in Calls, SendLogout(c) PROVE HeldStored'
  BY <1>13 DEF SendLogout, Finish, Goto
<1>14. ASSUME NEW c \in Calls, ClearCookies(c) PROVE HeldStored'
  BY <1>14 DEF ClearCookies, Finish, Goto
<1>15. CASE AccessExpires
  BY <1>15 DEF AccessExpires
<1>16. ASSUME NEW t \in Tokens, Expire(t) PROVE HeldStored'
  BY <1>16 DEF Expire
<1>17. CASE UNCHANGED vars
  BY <1>17
<1>18. QED
  BY <1>1, <1>2, <1>3, <1>4, <1>5, <1>6, <1>7, <1>8, <1>9,
     <1>10, <1>11, <1>12, <1>13, <1>14, <1>15, <1>16, <1>17 DEF Next, Serve, Browse

\* A minted token stays live until it is delivered: nobody else can revoke it.
LEMMA MintedLiveStep ==
    TypeOK /\ TypeOK' /\ MintedFresh /\ MintedLive /\ HeldStored /\ [Next]_vars => MintedLive'
<1> SUFFICES ASSUME TypeOK /\ TypeOK' /\ MintedFresh /\ MintedLive /\ HeldStored,
                    [Next]_vars
             PROVE  MintedLive'
  OBVIOUS
<1> USE NoTokenFresh DEF TypeOK, MaybeToken, Step, Outcome, vars, tables,
             jar, history, MintedFresh, MintedLive, HeldStored, Exchanging, Carrying
<1>1. ASSUME NEW c \in Calls, Login(c) PROVE MintedLive'
  BY <1>1 DEF Login, Begin, Goto
<1>2. ASSUME NEW c \in Calls, Request(c) PROVE MintedLive'
  BY <1>2 DEF Request, Begin, Finish, Goto
<1>3. ASSUME NEW c \in Calls, Logout(c) PROVE MintedLive'
  BY <1>3 DEF Logout, Begin, Goto
<1>4. ASSUME NEW c \in Calls, IssueTokens(c) PROVE MintedLive'
  BY <1>4 DEF IssueTokens, Store, Finish, Goto
<1>5. ASSUME NEW c \in Calls, Lookup(c) PROVE MintedLive'
  BY <1>5 DEF Lookup, Usable, Fails, Goto
<1>6. ASSUME NEW c \in Calls, Create(c) PROVE MintedLive'
  BY <1>6 DEF Create, Store, Fails, Goto
<1>7. ASSUME NEW c \in Calls, Revoke(c) PROVE MintedLive'
  BY <1>7 DEF Revoke, Fails, Goto
<1>8. ASSUME NEW c \in Calls, SendRefresh(c) PROVE MintedLive'
  BY <1>8 DEF SendRefresh, Goto
<1>9. ASSUME NEW c \in Calls, Reply(c) PROVE MintedLive'
  BY <1>9 DEF Reply, Finish, Goto
<1>10. ASSUME NEW c \in Calls, Retry(c) PROVE MintedLive'
  BY <1>10 DEF Retry, Finish, Goto
<1>11. ASSUME NEW c \in Calls, Refused(c) PROVE MintedLive'
  BY <1>11 DEF Refused, Finish, Goto
<1>12. ASSUME NEW c \in Calls, Lose(c) PROVE MintedLive'
  BY <1>12 DEF Lose, Finish, Goto
<1>13. ASSUME NEW c \in Calls, SendLogout(c) PROVE MintedLive'
  BY <1>13 DEF SendLogout, Finish, Goto
<1>14. ASSUME NEW c \in Calls, ClearCookies(c) PROVE MintedLive'
  BY <1>14 DEF ClearCookies, Finish, Goto
<1>15. CASE AccessExpires
  BY <1>15 DEF AccessExpires
<1>16. ASSUME NEW t \in Tokens, Expire(t) PROVE MintedLive'
  BY <1>16 DEF Expire
<1>17. CASE UNCHANGED vars
  BY <1>17
<1>18. QED
  BY <1>1, <1>2, <1>3, <1>4, <1>5, <1>6, <1>7, <1>8, <1>9,
     <1>10, <1>11, <1>12, <1>13, <1>14, <1>15, <1>16, <1>17 DEF Next, Serve, Browse

\* A minted token is known to nobody until it is delivered.
LEMMA MintedFreshStep ==
    TypeOK /\ TypeOK' /\ HeldStored /\ MintedLive /\ MintedFresh /\ JarGood /\ [Next]_vars => MintedFresh'
<1> SUFFICES ASSUME TypeOK /\ TypeOK' /\ HeldStored /\ MintedLive /\ MintedFresh /\ JarGood,
                    [Next]_vars
             PROVE  MintedFresh'
  OBVIOUS
<1> USE NoTokenFresh DEF TypeOK, MaybeToken, Step, Outcome, vars, tables,
             jar, history, HeldStored, MintedLive, MintedFresh, JarGood, Exchanging, Carrying
<1>1. ASSUME NEW c \in Calls, Login(c) PROVE MintedFresh'
  BY <1>1 DEF Login, Begin, Goto
<1>2. ASSUME NEW c \in Calls, Request(c) PROVE MintedFresh'
  BY <1>2 DEF Request, Begin, Finish, Goto
<1>3. ASSUME NEW c \in Calls, Logout(c) PROVE MintedFresh'
  BY <1>3 DEF Logout, Begin, Goto
<1>4. ASSUME NEW c \in Calls, IssueTokens(c) PROVE MintedFresh'
  BY <1>4 DEF IssueTokens, Store, Finish, Goto
<1>5. ASSUME NEW c \in Calls, Lookup(c) PROVE MintedFresh'
  BY <1>5 DEF Lookup, Usable, Fails, Goto
<1>6. ASSUME NEW c \in Calls, Create(c) PROVE MintedFresh'
  BY <1>6 DEF Create, Store, Fails, Goto
<1>7. ASSUME NEW c \in Calls, Revoke(c) PROVE MintedFresh'
  BY <1>7 DEF Revoke, Fails, Goto
<1>8. ASSUME NEW c \in Calls, SendRefresh(c) PROVE MintedFresh'
  BY <1>8 DEF SendRefresh, Goto
<1>9. ASSUME NEW c \in Calls, Reply(c) PROVE MintedFresh'
  BY <1>9 DEF Reply, Finish, Goto
<1>10. ASSUME NEW c \in Calls, Retry(c) PROVE MintedFresh'
  BY <1>10 DEF Retry, Finish, Goto
<1>11. ASSUME NEW c \in Calls, Refused(c) PROVE MintedFresh'
  BY <1>11 DEF Refused, Finish, Goto
<1>12. ASSUME NEW c \in Calls, Lose(c) PROVE MintedFresh'
  BY <1>12 DEF Lose, Finish, Goto
<1>13. ASSUME NEW c \in Calls, SendLogout(c) PROVE MintedFresh'
  BY <1>13 DEF SendLogout, Finish, Goto
<1>14. ASSUME NEW c \in Calls, ClearCookies(c) PROVE MintedFresh'
  BY <1>14 DEF ClearCookies, Finish, Goto
<1>15. CASE AccessExpires
  BY <1>15 DEF AccessExpires
<1>16. ASSUME NEW t \in Tokens, Expire(t) PROVE MintedFresh'
  BY <1>16 DEF Expire
<1>17. CASE UNCHANGED vars
  BY <1>17
<1>18. QED
  BY <1>1, <1>2, <1>3, <1>4, <1>5, <1>6, <1>7, <1>8, <1>9,
     <1>10, <1>11, <1>12, <1>13, <1>14, <1>15, <1>16, <1>17 DEF Next, Serve, Browse

\* The jar of a logged-in browser holds a stored token, and one that was rotated
\* out only while its replacement is on its way or after that was lost.
LEMMA JarStep ==
    TypeOK /\ TypeOK' /\ HeldStored /\ MintedLive /\ MintedFresh /\ JarGood /\ [Next]_vars => JarGood'
<1> SUFFICES ASSUME TypeOK /\ TypeOK' /\ HeldStored /\ MintedLive /\ MintedFresh /\ JarGood,
                    [Next]_vars
             PROVE  JarGood'
  OBVIOUS
<1> USE NoTokenFresh DEF TypeOK, MaybeToken, Step, Outcome, vars, tables,
             jar, history, HeldStored, MintedLive, MintedFresh, JarGood, Replaced, Exchanging, Carrying
<1>1. ASSUME NEW c \in Calls, Login(c) PROVE JarGood'
  BY <1>1 DEF Login, Begin, Goto
<1>2. ASSUME NEW c \in Calls, Request(c) PROVE JarGood'
  BY <1>2 DEF Request, Begin, Finish, Goto
<1>3. ASSUME NEW c \in Calls, Logout(c) PROVE JarGood'
  BY <1>3 DEF Logout, Begin, Goto
<1>4. ASSUME NEW c \in Calls, IssueTokens(c) PROVE JarGood'
  BY <1>4 DEF IssueTokens, Store, Finish, Goto
<1>5. ASSUME NEW c \in Calls, Lookup(c) PROVE JarGood'
  BY <1>5 DEF Lookup, Usable, Fails, Goto
<1>6. ASSUME NEW c \in Calls, Create(c) PROVE JarGood'
  BY <1>6 DEF Create, Store, Fails, Goto
<1>7. ASSUME NEW c \in Calls, Revoke(c) PROVE JarGood'
  BY <1>7 DEF Revoke, Fails, Goto
<1>8. ASSUME NEW c \in Calls, SendRefresh(c) PROVE JarGood'
  BY <1>8 DEF SendRefresh, Goto
<1>9. ASSUME NEW c \in Calls, Reply(c) PROVE JarGood'
  BY <1>9 DEF Reply, Finish, Goto
<1>10. ASSUME NEW c \in Calls, Retry(c) PROVE JarGood'
  BY <1>10 DEF Retry, Finish, Goto
<1>11. ASSUME NEW c \in Calls, Refused(c) PROVE JarGood'
  BY <1>11 DEF Refused, Finish, Goto
<1>12. ASSUME NEW c \in Calls, Lose(c) PROVE JarGood'
  BY <1>12 DEF Lose, Finish, Goto
<1>13. ASSUME NEW c \in Calls, SendLogout(c) PROVE JarGood'
  BY <1>13 DEF SendLogout, Finish, Goto
<1>14. ASSUME NEW c \in Calls, ClearCookies(c) PROVE JarGood'
  BY <1>14 DEF ClearCookies, Finish, Goto
<1>15. CASE AccessExpires
  BY <1>15 DEF AccessExpires
<1>16. ASSUME NEW t \in Tokens, Expire(t) PROVE JarGood'
  BY <1>16 DEF Expire
<1>17. CASE UNCHANGED vars
  BY <1>17
<1>18. QED
  BY <1>1, <1>2, <1>3, <1>4, <1>5, <1>6, <1>7, <1>8, <1>9,
     <1>10, <1>11, <1>12, <1>13, <1>14, <1>15, <1>16, <1>17 DEF Next, Serve, Browse

-----------------------------------------------------------------------------

\* IInv holds in every reachable state.
THEOREM Invariance == Spec => []IInv
<1>1. IInv /\ [Next]_vars => IInv'
  BY TypeStep, HeldStep, MintedLiveStep, MintedFreshStep, JarStep DEF IInv
<1>2. QED
  BY InitIInv, <1>1, PTL DEF Spec

\* Type correctness of the tables, the jar and the calls.
THEOREM TypeCorrect == Spec => []TypeOK
<1>1. IInv => TypeOK
  BY DEF IInv
<1>2. QED
  BY Invariance, <1>1, PTL

\* Overlapping refreshes, failing statements and logins never cost a logged-in
\* user the session: only a lost answer or the expiry of the token can (Refresh of
\* service.go with apiFetch of http.ts).
THEOREM SessionNeverRotatedAway == Spec => []SessionSurvives
<1>1. IInv => SessionSurvives
  BY DEF IInv, JarGood, SessionSurvives
<1>2. QED
  BY Invariance, <1>1, PTL

-----------------------------------------------------------------------------
(* One token, one successor *)

\* In a calm history one call at a time is under way.
OneAtATime == calm => \A c, d \in Calls : pc[c] # "idle" /\ pc[d] # "idle" => c = d

LoginHoldsNothing == \A c \in Calls : pc[c] = "login" => held[c] = NoToken

\* What Lookup has found still holds when Create runs.
StillLive == calm => \A c \in Calls : pc[c] = "create" => row[held[c]] = "live"

\* A token that has a successor is revoked, or about to be.
Spent ==
    calm => \A t \in Tokens : parent[t] \in Tokens =>
        \/ row[parent[t]] = "revoked"
        \/ \E c \in Calls : pc[c] = "revoke" /\ held[c] = parent[t]

CalmInv == OneAtATime /\ LoginHoldsNothing /\ StillLive /\ Spent /\ RotatedOnce

\* A call that begins while another is under way ends the calm.
LEMMA OneAtATimeStep ==
    TypeOK /\ OneAtATime /\ [Next]_vars => OneAtATime'
<1> SUFFICES ASSUME TypeOK /\ OneAtATime,
                    [Next]_vars
             PROVE  OneAtATime'
  OBVIOUS
<1> USE NoTokenFresh DEF TypeOK, MaybeToken, Step, Outcome, vars, tables,
             jar, history, OneAtATime
<1>1. ASSUME NEW c \in Calls, Login(c) PROVE OneAtATime'
  BY <1>1 DEF Login, Begin, Goto
<1>2. ASSUME NEW c \in Calls, Request(c) PROVE OneAtATime'
  <2>1. CASE Begin(c, "refresh")
    BY <2>1 DEF Begin, Goto
  <2>2. CASE /\ pc[c] = "idle" /\ Finish(c, "ok")
             /\ UNCHANGED <<tables, jar, session, held, minted, history>>
    BY <2>2 DEF Finish, Goto
  <2>3. QED
    BY <1>2, <2>1, <2>2 DEF Request
<1>3. ASSUME NEW c \in Calls, Logout(c) PROVE OneAtATime'
  BY <1>3 DEF Logout, Begin, Goto
<1>4. ASSUME NEW c \in Calls, IssueTokens(c) PROVE OneAtATime'
  BY <1>4 DEF IssueTokens, Store, Finish, Goto
<1>5. ASSUME NEW c \in Calls, Lookup(c) PROVE OneAtATime'
  BY <1>5 DEF Lookup, Usable, Fails, Goto
<1>6. ASSUME NEW c \in Calls, Create(c) PROVE OneAtATime'
  BY <1>6 DEF Create, Store, Fails, Goto
<1>7. ASSUME NEW c \in Calls, Revoke(c) PROVE OneAtATime'
  BY <1>7 DEF Revoke, Fails, Goto
<1>8. ASSUME NEW c \in Calls, SendRefresh(c) PROVE OneAtATime'
  BY <1>8 DEF SendRefresh, Goto
<1>9. ASSUME NEW c \in Calls, Reply(c) PROVE OneAtATime'
  BY <1>9 DEF Reply, Finish, Goto
<1>10. ASSUME NEW c \in Calls, Retry(c) PROVE OneAtATime'
  BY <1>10 DEF Retry, Finish, Goto
<1>11. ASSUME NEW c \in Calls, Refused(c) PROVE OneAtATime'
  BY <1>11 DEF Refused, Finish, Goto
<1>12. ASSUME NEW c \in Calls, Lose(c) PROVE OneAtATime'
  BY <1>12 DEF Lose, Finish, Goto
<1>13. ASSUME NEW c \in Calls, SendLogout(c) PROVE OneAtATime'
  BY <1>13 DEF SendLogout, Finish, Goto
<1>14. ASSUME NEW c \in Calls, ClearCookies(c) PROVE OneAtATime'
  BY <1>14 DEF ClearCookies, Finish, Goto
<1>15. CASE AccessExpires
  BY <1>15 DEF AccessExpires
<1>16. ASSUME NEW t \in Tokens, Expire(t) PROVE OneAtATime'
  BY <1>16 DEF Expire
<1>17. CASE UNCHANGED vars
  BY <1>17
<1>18. QED
  BY <1>1, <1>2, <1>3, <1>4, <1>5, <1>6, <1>7, <1>8, <1>9,
     <1>10, <1>11, <1>12, <1>13, <1>14, <1>15, <1>16, <1>17 DEF Next, Serve, Browse

\* A login sends no refresh token.
LEMMA LoginStep ==
    TypeOK /\ LoginHoldsNothing /\ [Next]_vars => LoginHoldsNothing'
<1> SUFFICES ASSUME TypeOK /\ LoginHoldsNothing,
                    [Next]_vars
             PROVE  LoginHoldsNothing'
  OBVIOUS
<1> USE NoTokenFresh DEF TypeOK, MaybeToken, Step, Outcome, vars, tables,
             jar, history, LoginHoldsNothing
<1>1. ASSUME NEW c \in Calls, Login(c) PROVE LoginHoldsNothing'
  BY <1>1 DEF Login, Begin, Goto
<1>2. ASSUME NEW c \in Calls, Request(c) PROVE LoginHoldsNothing'
  <2>1. CASE Begin(c, "refresh")
    BY <2>1 DEF Begin, Goto
  <2>2. CASE /\ pc[c] = "idle" /\ Finish(c, "ok")
             /\ UNCHANGED <<tables, jar, session, held, minted, history>>
    BY <2>2 DEF Finish, Goto
  <2>3. QED
    BY <1>2, <2>1, <2>2 DEF Request
<1>3. ASSUME NEW c \in Calls, Logout(c) PROVE LoginHoldsNothing'
  BY <1>3 DEF Logout, Begin, Goto
<1>4. ASSUME NEW c \in Calls, IssueTokens(c) PROVE LoginHoldsNothing'
  BY <1>4 DEF IssueTokens, Store, Finish, Goto
<1>5. ASSUME NEW c \in Calls, Lookup(c) PROVE LoginHoldsNothing'
  BY <1>5 DEF Lookup, Usable, Fails, Goto
<1>6. ASSUME NEW c \in Calls, Create(c) PROVE LoginHoldsNothing'
  BY <1>6 DEF Create, Store, Fails, Goto
<1>7. ASSUME NEW c \in Calls, Revoke(c) PROVE LoginHoldsNothing'
  BY <1>7 DEF Revoke, Fails, Goto
<1>8. ASSUME NEW c \in Calls, SendRefresh(c) PROVE LoginHoldsNothing'
  BY <1>8 DEF SendRefresh, Goto
<1>9. ASSUME NEW c \in Calls, Reply(c) PROVE LoginHoldsNothing'
  BY <1>9 DEF Reply, Finish, Goto
<1>10. ASSUME NEW c \in Calls, Retry(c) PROVE LoginHoldsNothing'
  BY <1>10 DEF Retry, Finish, Goto
<1>11. ASSUME NEW c \in Calls, Refused(c) PROVE LoginHoldsNothing'
  BY <1>11 DEF Refused, Finish, Goto
<1>12. ASSUME NEW c \in Calls, Lose(c) PROVE LoginHoldsNothing'
  BY <1>12 DEF Lose, Finish, Goto
<1>13. ASSUME NEW c \in Calls, SendLogout(c) PROVE LoginHoldsNothing'
  BY <1>13 DEF SendLogout, Finish, Goto
<1>14. ASSUME NEW c \in Calls, ClearCookies(c) PROVE LoginHoldsNothing'
  BY <1>14 DEF ClearCookies, Finish, Goto
<1>15. CASE AccessExpires
  BY <1>15 DEF AccessExpires
<1>16. ASSUME NEW t \in Tokens, Expire(t) PROVE LoginHoldsNothing'
  BY <1>16 DEF Expire
<1>17. CASE UNCHANGED vars
  BY <1>17
<1>18. QED
  BY <1>1, <1>2, <1>3, <1>4, <1>5, <1>6, <1>7, <1>8, <1>9,
     <1>10, <1>11, <1>12, <1>13, <1>14, <1>15, <1>16, <1>17 DEF Next, Serve, Browse

\* Nobody else is there to revoke the token between Lookup and Create.
LEMMA StillLiveStep ==
    TypeOK /\ OneAtATime /\ StillLive /\ [Next]_vars => StillLive'
<1> SUFFICES ASSUME TypeOK /\ OneAtATime /\ StillLive,
                    [Next]_vars
             PROVE  StillLive'
  OBVIOUS
<1> USE NoTokenFresh DEF TypeOK, MaybeToken, Step, Outcome, vars, tables,
             jar, history, OneAtATime, StillLive
<1>1. ASSUME NEW c \in Calls, Login(c) PROVE StillLive'
  BY <1>1 DEF Login, Begin, Goto
<1>2. ASSUME NEW c \in Calls, Request(c) PROVE StillLive'
  <2>1. CASE Begin(c, "refresh")
    BY <2>1 DEF Begin, Goto
  <2>2. CASE /\ pc[c] = "idle" /\ Finish(c, "ok")
             /\ UNCHANGED <<tables, jar, session, held, minted, history>>
    BY <2>2 DEF Finish, Goto
  <2>3. QED
    BY <1>2, <2>1, <2>2 DEF Request
<1>3. ASSUME NEW c \in Calls, Logout(c) PROVE StillLive'
  BY <1>3 DEF Logout, Begin, Goto
<1>4. ASSUME NEW c \in Calls, IssueTokens(c) PROVE StillLive'
  BY <1>4 DEF IssueTokens, Store, Finish, Goto
<1>5. ASSUME NEW c \in Calls, Lookup(c) PROVE StillLive'
  BY <1>5 DEF Lookup, Usable, Fails, Goto
<1>6. ASSUME NEW c \in Calls, Create(c) PROVE StillLive'
  BY <1>6 DEF Create, Store, Fails, Goto
<1>7. ASSUME NEW c \in Calls, Revoke(c) PROVE StillLive'
  BY <1>7 DEF Revoke, Fails, Goto
<1>8. ASSUME NEW c \in Calls, SendRefresh(c) PROVE StillLive'
  BY <1>8 DEF SendRefresh, Goto
<1>9. ASSUME NEW c \in Calls, Reply(c) PROVE StillLive'
  BY <1>9 DEF Reply, Finish, Goto
<1>10. ASSUME NEW c \in Calls, Retry(c) PROVE StillLive'
  BY <1>10 DEF Retry, Finish, Goto
<1>11. ASSUME NEW c \in Calls, Refused(c) PROVE StillLive'
  BY <1>11 DEF Refused, Finish, Goto
<1>12. ASSUME NEW c \in Calls, Lose(c) PROVE StillLive'
  BY <1>12 DEF Lose, Finish, Goto
<1>13. ASSUME NEW c \in Calls, SendLogout(c) PROVE StillLive'
  BY <1>13 DEF SendLogout, Finish, Goto
<1>14. ASSUME NEW c \in Calls, ClearCookies(c) PROVE StillLive'
  BY <1>14 DEF ClearCookies, Finish, Goto
<1>15. CASE AccessExpires
  BY <1>15 DEF AccessExpires
<1>16. ASSUME NEW t \in Tokens, Expire(t) PROVE StillLive'
  BY <1>16 DEF Expire
<1>17. CASE UNCHANGED vars
  BY <1>17
<1>18. QED
  BY <1>1, <1>2, <1>3, <1>4, <1>5, <1>6, <1>7, <1>8, <1>9,
     <1>10, <1>11, <1>12, <1>13, <1>14, <1>15, <1>16, <1>17 DEF Next, Serve, Browse

\* A successor is stored for a live token, which is then revoked for good.
LEMMA SpentStep ==
    TypeOK /\ HeldStored /\ OneAtATime /\ LoginHoldsNothing /\ Spent /\ [Next]_vars => Spent'
<1> SUFFICES ASSUME TypeOK /\ HeldStored /\ OneAtATime /\ LoginHoldsNothing /\ Spent,
                    [Next]_vars
             PROVE  Spent'
  OBVIOUS
<1> USE NoTokenFresh DEF TypeOK, MaybeToken, Step, Outcome, vars, tables,
             jar, history, HeldStored, Exchanging, OneAtATime, LoginHoldsNothing, Spent
<1>1. ASSUME NEW c \in Calls, Login(c) PROVE Spent'
  BY <1>1 DEF Login, Begin, Goto
<1>2. ASSUME NEW c \in Calls, Request(c) PROVE Spent'
  <2>1. CASE Begin(c, "refresh")
    BY <2>1 DEF Begin, Goto
  <2>2. CASE /\ pc[c] = "idle" /\ Finish(c, "ok")
             /\ UNCHANGED <<tables, jar, session, held, minted, history>>
    BY <2>2 DEF Finish, Goto
  <2>3. QED
    BY <1>2, <2>1, <2>2 DEF Request
<1>3. ASSUME NEW c \in Calls, Logout(c) PROVE Spent'
  BY <1>3 DEF Logout, Begin, Goto
<1>4. ASSUME NEW c \in Calls, IssueTokens(c) PROVE Spent'
  BY <1>4 DEF IssueTokens, Store, Finish, Goto
<1>5. ASSUME NEW c \in Calls, Lookup(c) PROVE Spent'
  BY <1>5 DEF Lookup, Usable, Fails, Goto
<1>6. ASSUME NEW c \in Calls, Create(c) PROVE Spent'
  <2>1. ASSUME NEW t \in Tokens, Store(c, t), calm' = calm, calm,
               NEW u \in Tokens, parent'[u] \in Tokens
        PROVE  \/ row'[parent'[u]] = "revoked"
               \/ pc'[c] = "revoke" /\ held'[c] = parent'[u]
    <3>1. pc[c] = "create" /\ (pc'[c] = "revoke" \/ calm' = FALSE) /\ held' = held
      BY <1>6 DEF Create, Goto, Fails
    <3>2. /\ parent' = [parent EXCEPT ![t] = held[c]]
          /\ row' = [row EXCEPT ![t] = "live"] /\ row[t] = "none"
      BY <2>1 DEF Store
    <3>3. CASE u = t
      BY <2>1, <3>1, <3>2, <3>3
    <3>4. CASE u # t
      <4>1. parent'[u] = parent[u]
        BY <3>2, <3>4
      <4>2. row[parent[u]] = "revoked"
        BY <2>1, <3>1, <4>1
      <4>3. QED
        BY <2>1, <3>2, <4>1, <4>2
    <3>5. QED
      BY <3>3, <3>4
  <2>2. CASE ~calm'
    BY <2>2
  <2>3. QED
    BY <1>6, <2>1, <2>2 DEF Create, Fails
<1>7. ASSUME NEW c \in Calls, Revoke(c) PROVE Spent'
  <2>1. CASE ~calm'
    BY <2>1
  <2>2. ASSUME calm, NEW u \in Tokens, parent[u] \in Tokens,
               row' = [row EXCEPT ![held[c]] = "revoked"]
        PROVE  row'[parent[u]] = "revoked"
    <3>1. pc[c] = "revoke" /\ held[c] \in Tokens
      BY <1>7 DEF Revoke
    <3>2. row[parent[u]] = "revoked" \/ held[c] = parent[u]
      BY <2>2, <3>1
    <3>3. QED
      BY <2>2, <3>1, <3>2
  <2>3. QED
    BY <1>7, <2>1, <2>2 DEF Revoke, Fails
<1>8. ASSUME NEW c \in Calls, SendRefresh(c) PROVE Spent'
  BY <1>8 DEF SendRefresh, Goto
<1>9. ASSUME NEW c \in Calls, Reply(c) PROVE Spent'
  BY <1>9 DEF Reply, Finish, Goto
<1>10. ASSUME NEW c \in Calls, Retry(c) PROVE Spent'
  BY <1>10 DEF Retry, Finish, Goto
<1>11. ASSUME NEW c \in Calls, Refused(c) PROVE Spent'
  BY <1>11 DEF Refused, Finish, Goto
<1>12. ASSUME NEW c \in Calls, Lose(c) PROVE Spent'
  BY <1>12 DEF Lose, Finish, Goto
<1>13. ASSUME NEW c \in Calls, SendLogout(c) PROVE Spent'
  BY <1>13 DEF SendLogout, Finish, Goto
<1>14. ASSUME NEW c \in Calls, ClearCookies(c) PROVE Spent'
  BY <1>14 DEF ClearCookies, Finish, Goto
<1>15. CASE AccessExpires
  BY <1>15 DEF AccessExpires
<1>16. ASSUME NEW t \in Tokens, Expire(t) PROVE Spent'
  BY <1>16 DEF Expire
<1>17. CASE UNCHANGED vars
  BY <1>17
<1>18. QED
  BY <1>1, <1>2, <1>3, <1>4, <1>5, <1>6, <1>7, <1>8, <1>9,
     <1>10, <1>11, <1>12, <1>13, <1>14, <1>15, <1>16, <1>17 DEF Next, Serve, Browse

\* The token Create stores a successor for is live and not about to be revoked, so it has none yet.
LEMMA RotatedOnceStep ==
    TypeOK /\ HeldStored /\ CalmInv /\ [Next]_vars => RotatedOnce'
<1> SUFFICES ASSUME TypeOK /\ HeldStored /\ CalmInv,
                    [Next]_vars
             PROVE  RotatedOnce'
  OBVIOUS
<1> USE NoTokenFresh DEF TypeOK, MaybeToken, Step, Outcome, vars, tables,
             jar, history, HeldStored, Exchanging, CalmInv, OneAtATime, LoginHoldsNothing, StillLive, Spent, RotatedOnce
<1>1. ASSUME NEW c \in Calls, Login(c) PROVE RotatedOnce'
  BY <1>1 DEF Login, Begin, Goto
<1>2. ASSUME NEW c \in Calls, Request(c) PROVE RotatedOnce'
  <2>1. CASE Begin(c, "refresh")
    BY <2>1 DEF Begin, Goto
  <2>2. CASE /\ pc[c] = "idle" /\ Finish(c, "ok")
             /\ UNCHANGED <<tables, jar, session, held, minted, history>>
    BY <2>2 DEF Finish, Goto
  <2>3. QED
    BY <1>2, <2>1, <2>2 DEF Request
<1>3. ASSUME NEW c \in Calls, Logout(c) PROVE RotatedOnce'
  BY <1>3 DEF Logout, Begin, Goto
<1>4. ASSUME NEW c \in Calls, IssueTokens(c) PROVE RotatedOnce'
  BY <1>4 DEF IssueTokens, Store, Finish, Goto
<1>5. ASSUME NEW c \in Calls, Lookup(c) PROVE RotatedOnce'
  BY <1>5 DEF Lookup, Usable, Fails, Goto
<1>6. ASSUME NEW c \in Calls, Create(c) PROVE RotatedOnce'
  <2>1. CASE Fails /\ UNCHANGED parent
    BY <2>1 DEF Fails
  <2>2. ASSUME NEW t \in Tokens, Store(c, t), calm' = calm, calm
        PROVE  RotatedOnce'
    <3>1. pc[c] = "create" /\ row[held[c]] = "live" /\ held[c] \in Tokens
      BY <1>6, <2>2 DEF Create
    <3>2. \A u \in Tokens : parent[u] # held[c]
      BY <2>2, <3>1
    <3>3. parent' = [parent EXCEPT ![t] = held[c]]
      BY <2>2 DEF Store
    <3>4. QED
      BY <2>2, <3>2, <3>3
  <2>3. CASE ~calm'
    BY <2>3
  <2>4. QED
    BY <1>6, <2>1, <2>2, <2>3 DEF Create, Fails
<1>7. ASSUME NEW c \in Calls, Revoke(c) PROVE RotatedOnce'
  BY <1>7 DEF Revoke, Fails, Goto
<1>8. ASSUME NEW c \in Calls, SendRefresh(c) PROVE RotatedOnce'
  BY <1>8 DEF SendRefresh, Goto
<1>9. ASSUME NEW c \in Calls, Reply(c) PROVE RotatedOnce'
  BY <1>9 DEF Reply, Finish, Goto
<1>10. ASSUME NEW c \in Calls, Retry(c) PROVE RotatedOnce'
  BY <1>10 DEF Retry, Finish, Goto
<1>11. ASSUME NEW c \in Calls, Refused(c) PROVE RotatedOnce'
  BY <1>11 DEF Refused, Finish, Goto
<1>12. ASSUME NEW c \in Calls, Lose(c) PROVE RotatedOnce'
  BY <1>12 DEF Lose, Finish, Goto
<1>13. ASSUME NEW c \in Calls, SendLogout(c) PROVE RotatedOnce'
  BY <1>13 DEF SendLogout, Finish, Goto
<1>14. ASSUME NEW c \in Calls, ClearCookies(c) PROVE RotatedOnce'
  BY <1>14 DEF ClearCookies, Finish, Goto
<1>15. CASE AccessExpires
  BY <1>15 DEF AccessExpires
<1>16. ASSUME NEW t \in Tokens, Expire(t) PROVE RotatedOnce'
  BY <1>16 DEF Expire
<1>17. CASE UNCHANGED vars
  BY <1>17
<1>18. QED
  BY <1>1, <1>2, <1>3, <1>4, <1>5, <1>6, <1>7, <1>8, <1>9,
     <1>10, <1>11, <1>12, <1>13, <1>14, <1>15, <1>16, <1>17 DEF Next, Serve, Browse

\* RotatedOnce: as long as requests do not overlap and statements do not fail, no
\* token is exchanged for two, whatever answers were lost and tokens expired.
THEOREM EachTokenRotatedOnce == Spec => []RotatedOnce
<1>1. Init => CalmInv
  BY NoTokenFresh DEF Init, CalmInv, OneAtATime, LoginHoldsNothing, StillLive, Spent, RotatedOnce
<1>2. IInv /\ CalmInv /\ [Next]_vars => CalmInv'
  BY OneAtATimeStep, LoginStep, StillLiveStep, SpentStep, RotatedOnceStep DEF IInv, CalmInv
<1>3. CalmInv => RotatedOnce
  BY DEF CalmInv
<1>4. QED
  BY <1>1, <1>2, <1>3, Invariance, PTL DEF Spec

-----------------------------------------------------------------------------
(* A live session is not refused *)

\* What the calls know of the jar in a calm history: a refresh that is looked up
\* was sent with the token of the jar, one that is refused leaves a jar that
\* cannot refresh, one that is retried an access token.
JarKnown ==
    calm => \A c \in Calls :
        /\ pc[c] = "lookup" => held[c] = cookie
        /\ pc[c] = "refused" /\ held[c] # NoToken => ~Usable(cookie)
        /\ pc[c] = "retry" => access

\* Nobody else changes the jar or the table while a call is under way.
LEMMA JarKnownStep ==
    TypeOK /\ OneAtATime /\ JarKnown /\ [Next]_vars => JarKnown'
<1> SUFFICES ASSUME TypeOK /\ OneAtATime /\ JarKnown,
                    [Next]_vars
             PROVE  JarKnown'
  OBVIOUS
<1> USE NoTokenFresh DEF TypeOK, MaybeToken, Step, Outcome, vars, tables,
             jar, history, OneAtATime, JarKnown, Usable
<1>1. ASSUME NEW c \in Calls, Login(c) PROVE JarKnown'
  BY <1>1 DEF Login, Begin, Goto
<1>2. ASSUME NEW c \in Calls, Request(c) PROVE JarKnown'
  <2>1. CASE Begin(c, "refresh")
    BY <2>1 DEF Begin, Goto
  <2>2. CASE /\ pc[c] = "idle" /\ Finish(c, "ok")
             /\ UNCHANGED <<tables, jar, session, held, minted, history>>
    BY <2>2 DEF Finish, Goto
  <2>3. QED
    BY <1>2, <2>1, <2>2 DEF Request
<1>3. ASSUME NEW c \in Calls, Logout(c) PROVE JarKnown'
  BY <1>3 DEF Logout, Begin, Goto
<1>4. ASSUME NEW c \in Calls, IssueTokens(c) PROVE JarKnown'
  BY <1>4 DEF IssueTokens, Store, Finish, Goto
<1>5. ASSUME NEW c \in Calls, Lookup(c) PROVE JarKnown'
  <2>1. CASE ~calm'
    BY <2>1
  <2>2. CASE Usable(held[c]) /\ Goto(c, "create") /\ UNCHANGED calm
    BY <1>5, <2>2 DEF Lookup, Goto
  <2>3. CASE ~Usable(held[c]) /\ Goto(c, "refused") /\ UNCHANGED calm
    BY <1>5, <2>3 DEF Lookup, Goto
  <2>4. QED
    BY <1>5, <2>1, <2>2, <2>3 DEF Lookup, Fails
<1>6. ASSUME NEW c \in Calls, Create(c) PROVE JarKnown'
  <2>1. CASE ~calm'
    BY <2>1
  <2>2. CASE calm /\ pc[c] = "create" /\ Goto(c, "revoke")
    BY <2>2 DEF Goto
  <2>3. calm' => calm
    BY <1>6 DEF Create, Fails
  <2>4. QED
    BY <1>6, <2>1, <2>2, <2>3 DEF Create, Fails
<1>7. ASSUME NEW c \in Calls, Revoke(c) PROVE JarKnown'
  <2>1. CASE ~calm'
    BY <2>1
  <2>2. CASE calm /\ pc[c] = "revoke" /\ Goto(c, "reply")
    BY <2>2 DEF Goto
  <2>3. calm' => calm
    BY <1>7 DEF Revoke, Fails
  <2>4. QED
    BY <1>7, <2>1, <2>2, <2>3 DEF Revoke, Fails
<1>8. ASSUME NEW c \in Calls, SendRefresh(c) PROVE JarKnown'
  BY <1>8 DEF SendRefresh, Goto
<1>9. ASSUME NEW c \in Calls, Reply(c) PROVE JarKnown'
  BY <1>9 DEF Reply, Finish, Goto
<1>10. ASSUME NEW c \in Calls, Retry(c) PROVE JarKnown'
  BY <1>10 DEF Retry, Finish, Goto
<1>11. ASSUME NEW c \in Calls, Refused(c) PROVE JarKnown'
  BY <1>11 DEF Refused, Finish, Goto
<1>12. ASSUME NEW c \in Calls, Lose(c) PROVE JarKnown'
  BY <1>12 DEF Lose, Finish, Goto
<1>13. ASSUME NEW c \in Calls, SendLogout(c) PROVE JarKnown'
  BY <1>13 DEF SendLogout, Finish, Goto
<1>14. ASSUME NEW c \in Calls, ClearCookies(c) PROVE JarKnown'
  BY <1>14 DEF ClearCookies, Finish, Goto
<1>15. CASE AccessExpires
  BY <1>15 DEF AccessExpires
<1>16. ASSUME NEW t \in Tokens, Expire(t) PROVE JarKnown'
  BY <1>16 DEF Expire
<1>17. CASE UNCHANGED vars
  BY <1>17
<1>18. QED
  BY <1>1, <1>2, <1>3, <1>4, <1>5, <1>6, <1>7, <1>8, <1>9,
     <1>10, <1>11, <1>12, <1>13, <1>14, <1>15, <1>16, <1>17 DEF Next, Serve, Browse

\* RefusedOnlyIfDead: without overlap and failing statements a request that sent a
\* refresh token is answered 401 only when the jar holds nothing to refresh with.
THEOREM LiveSessionNotRefused == Spec => RefusedOnlyIfDead
<1>1. Init => JarKnown
  BY DEF Init, JarKnown
<1>2. TypeOK /\ OneAtATime /\ JarKnown /\ [Next]_vars => JarKnown'
  BY JarKnownStep
<1>3. TypeOK /\ JarKnown /\ [Next]_vars => [calm => \A c \in Calls : ~RefusedAlive(c)]_vars
  <2> SUFFICES ASSUME TypeOK, JarKnown, Next, calm, NEW d \in Calls, RefusedAlive(d)
               PROVE  FALSE
    BY DEF RefusedAlive, vars
  <2>1. pc[d] = "refused" \/ (pc[d] = "retry" /\ ~access)
    BY DEF RefusedAlive, TypeOK, Next, Serve, Browse, Login, Request, Logout,
       IssueTokens, Lookup, Create, Revoke, SendRefresh, Reply, Retry, Refused, Lose,
       SendLogout, ClearCookies, AccessExpires, Expire, Begin, Finish
  <2>2. QED
    BY <2>1 DEF JarKnown, RefusedAlive
<1>4. Init => CalmInv
  BY NoTokenFresh DEF Init, CalmInv, OneAtATime, LoginHoldsNothing, StillLive, Spent, RotatedOnce
<1>5. Init => OneAtATime
  BY <1>4 DEF CalmInv
<1>6. TypeOK /\ OneAtATime /\ [Next]_vars => OneAtATime'
  BY OneAtATimeStep
<1>7. QED
  BY <1>1, <1>2, <1>3, <1>5, <1>6, TypeCorrect, PTL DEF Spec, RefusedOnlyIfDead
=============================================================================
