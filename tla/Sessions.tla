------------------------------ MODULE Sessions ------------------------------
(***************************************************************************)
(* Sign-in sessions: the refresh tokens of auth-svc, the cookie handlers   *)
(* of the gateway, and the web client that keeps a page signed in.         *)
(*                                                                         *)
(* A tab is one loaded page with its own store and its own inflight        *)
(* promise; the tabs of a browser share one cookie jar.  A reply comes in  *)
(* two parts: the browser obeys Set-Cookie when the headers arrive, the    *)
(* page goes on when it has read the body.  The connection may be lost at  *)
(* any time, while the server goes on to execute the request.              *)
(***************************************************************************)
EXTENDS Integers, FiniteSets

CONSTANTS
  Users, NoUser,
  Tabs, Jars, JarOf, UserOf,      \* the jar of a tab, the person in front of it
  Tokens, NoToken, Keep,          \* refresh tokens, in the order they are issued
  Reqs, NoReq,                    \* requests that may be under way at once
  Calls,                          \* concurrent api() calls of a page
  MaxEvents                       \* bound: what users and clocks do

ASSUME SessionsConstantsOK ==
  /\ JarOf \in [Tabs -> Jars] /\ UserOf \in [Tabs -> Users]
  /\ NoUser \notin Users
  /\ Tokens \subseteq Nat /\ NoToken \notin Tokens /\ Keep \notin Tokens \cup {NoToken}
  /\ Reqs \subseteq Nat /\ NoReq \notin Reqs
  /\ MaxEvents \in Nat

VARIABLES
  users,          \* who has an account
  row, owner,     \* refresh_tokens: none, live, expired or revoked; user_id
  req,            \* requests to the cookie endpoints, from browser to auth-svc
  cookie,         \* per jar, the refresh cookie
  status, access, \* per tab, the auth store; access is the age of the token in it
  inflight,       \* per tab, the refresh that everyone waits for
  call,           \* per tab and call, where api() stands: idle, sent with a good or
                  \* an old token, waiting for the refresh, resent, ok, failed
  heirs,          \* history: the tokens issued in exchange for a token
  reused,         \* history: tokens on which reuse detection fired
  caught,         \* history: tokens that reuse detection has reported revoked
  signed_out,     \* history: tokens presented to Logout
  trouble,        \* history: whether a reply was lost or a request failed
  events

serverVars == <<users, row, owner>>
tabVars == <<status, access, inflight, call>>
history == <<heirs, reused, caught, signed_out>>
sessionVars == <<serverVars, req, cookie, tabVars, history, trouble, events>>

\* A reply carries what the page gets to know and what Set-Cookie does to the jar.
NoReply == [code |-> "none", set |-> Keep]
Unused == [stage |-> "unused", op |-> "none", tab |-> NoReq, token |-> NoToken,
           snap |-> {}, awaited |-> FALSE, reply |-> NoReply]

SessionsInit ==
  /\ users = {}
  /\ row = [t \in Tokens |-> "none"] /\ owner = [t \in Tokens |-> NoUser]
  /\ req = [r \in Reqs |-> Unused]
  /\ cookie = [j \in Jars |-> NoToken]
  /\ status = [t \in Tabs |-> "unknown"] /\ access = [t \in Tabs |-> "none"]
  /\ inflight = [t \in Tabs |-> NoReq]
  /\ call = [x \in Tabs \X Calls |-> "idle"]
  /\ heirs = [t \in Tokens |-> {}]
  /\ reused = {} /\ caught = {} /\ signed_out = {}
  /\ trouble = FALSE /\ events = 0

Event == events < MaxEvents /\ events' = events + 1

-----------------------------------------------------------------------------
(* The page.                                                               *)

\* send: the browser adds the cookie its jar holds now.
Send(r, op, tab) ==
  /\ req[r] = Unused /\ \A q \in Reqs : q < r => req[q] # Unused
  /\ req' = [req EXCEPT ![r] = [Unused EXCEPT !.stage = "sent", !.op = op, !.tab = tab,
                                 !.token = cookie[JarOf[tab]], !.awaited = TRUE]]

UnderWay(tab, op) == \E r \in Reqs : req[r].op = op /\ req[r].tab = tab /\ req[r].awaited

\* Variant: every request that failed starts its own refresh.
NeedsRefresh_Always(tab) == TRUE

\* refreshSession: inflight ??= ...
NeedsRefresh(tab) == inflight[tab] = NoReq

RefreshSession(tab) ==
  IF NeedsRefresh(tab)
  THEN \E r \in Reqs : Send(r, "refresh", tab) /\ inflight' = [inflight EXCEPT ![tab] = r]
  ELSE UNCHANGED <<req, inflight>>

\* App: one silent refresh when the page loads.
Boot(tab) ==
  /\ status[tab] = "unknown" /\ inflight[tab] = NoReq
  /\ RefreshSession(tab)
  /\ UNCHANGED <<serverVars, cookie, status, access, call, history, trouble, events>>

\* AuthPage: the form is hidden only from those who are signed in, so it is there
\* during the silent refresh; it is disabled while it is being submitted.
MaySubmit(tab) == status[tab] # "authenticated" /\ ~UnderWay(tab, "login")

\* Register in auth-svc: one account per address.
AccountMade(u) == u \notin users /\ users' = users \cup {u}

\* register in the client goes on to log in, unless it gets no answer.
GoesOnToLogin(tab) == UNCHANGED req \/ \E r \in Reqs : Send(r, "login", tab)

Register(tab) ==
  /\ MaySubmit(tab) /\ Event
  /\ AccountMade(UserOf[tab])
  /\ GoesOnToLogin(tab)
  /\ UNCHANGED <<row, owner, cookie, tabVars, history, trouble>>

Login(tab) ==
  /\ MaySubmit(tab) /\ Event
  /\ \E r \in Reqs : Send(r, "login", tab)
  /\ UNCHANGED <<serverVars, cookie, tabVars, history, trouble>>

Logout(tab) ==
  /\ status[tab] = "authenticated" /\ ~UnderWay(tab, "logout") /\ Event
  /\ \E r \in Reqs : Send(r, "logout", tab)
  /\ UNCHANGED <<serverVars, cookie, tabVars, history, trouble>>

\* api: the first attempt, with the token the store holds now.
StartCall(tab, k) ==
  /\ status[tab] = "authenticated" /\ call[tab, k] = "idle"
  /\ call' = [call EXCEPT ![<<tab, k>>] =
                IF access[tab] = "good" THEN "sent_good" ELSE "sent_old"]
  /\ UNCHANGED <<serverVars, req, cookie, status, access, inflight, history, trouble, events>>

\* An attempt ends: authenticate accepts a token that is still valid; any attempt may
\* end with another error, and the second one with a real 401.
CallEnds(tab, k) ==
  /\ call[tab, k] \in {"sent_good", "sent_old", "resent"}
  /\ \/ call' = [call EXCEPT ![<<tab, k>>] = "failed"]
     \/ call[tab, k] # "sent_old" /\ call' = [call EXCEPT ![<<tab, k>>] = "ok"]
  /\ UNCHANGED <<serverVars, req, cookie, status, access, inflight, history, trouble, events>>

\* authenticate answers 401: the call waits for the one refresh of the page.
CallRejected(tab, k) ==
  /\ call[tab, k] = "sent_old"
  /\ call' = [call EXCEPT ![<<tab, k>>] = "waiting"]
  /\ RefreshSession(tab)
  /\ UNCHANGED <<serverVars, cookie, status, access, history, trouble, events>>

\* Those who wait for the refresh of tab go on with its outcome.
Resume(tab, st) ==
  call' = [x \in Tabs \X Calls |->
             IF x[1] = tab /\ call[x] = "waiting" THEN st ELSE call[x]]

SetStore(tab, st, age) ==
  /\ status' = [status EXCEPT ![tab] = st]
  /\ access' = [access EXCEPT ![tab] = age]

\* Variant: the promise is not forgotten.
Settle_Kept(tab) == UNCHANGED inflight

\* finally { inflight = null }
Settle(tab) == inflight' = [inflight EXCEPT ![tab] = NoReq]

\* What send's outcome does to the page, by operation.
Outcome(r, code) ==
  LET tab == req[r].tab IN
  \/ /\ req[r].op = "refresh"
     /\ CASE code = "ok" -> SetStore(tab, "authenticated", "good") /\ Resume(tab, "resent")
          [] code = "unauthenticated" -> SetStore(tab, "anonymous", "none") /\ Resume(tab, "failed")
          [] OTHER -> /\ IF status[tab] = "unknown" THEN SetStore(tab, "anonymous", "none")
                         ELSE UNCHANGED <<status, access>>
                      /\ Resume(tab, "failed")
     /\ Settle(tab)
  \/ /\ req[r].op = "login"
     /\ IF code = "ok" THEN SetStore(tab, "authenticated", "good")
                       ELSE UNCHANGED <<status, access>>
     /\ UNCHANGED <<inflight, call>>
  \/ /\ req[r].op = "logout"
     /\ SetStore(tab, "anonymous", "none")
     /\ UNCHANGED <<inflight, call>>

\* The headers arrive: the browser obeys Set-Cookie and fetch resolves.
Headers(r) ==
  /\ req[r].stage = "answered" /\ req[r].awaited
  /\ cookie' = IF req[r].reply.set = Keep THEN cookie
               ELSE [cookie EXCEPT ![JarOf[req[r].tab]] = req[r].reply.set]
  /\ req' = [req EXCEPT ![r].stage = "headers"]
  /\ UNCHANGED <<serverVars, tabVars, history, trouble, events>>

\* res.text() resolves (a 204 has no body to wait for), and the page goes on.
Body(r) ==
  /\ req[r].stage = "headers" /\ req[r].awaited
  /\ Outcome(r, req[r].reply.code)
  /\ req' = [req EXCEPT ![r] = Unused]
  /\ UNCHANGED <<serverVars, cookie, history, trouble, events>>

\* Nobody waits any more; the server may not have finished, or even not have begun.
Abandoned(S) ==
  [r \in Reqs |-> IF r \notin S THEN req[r]
                  ELSE IF req[r].stage \in {"answered", "headers"} THEN Unused
                  ELSE [req[r] EXCEPT !.awaited = FALSE]]

\* fetch rejects, or res.text() does: then the cookie has changed already.
Drop(r) ==
  /\ req[r].awaited
  /\ Outcome(r, "error")
  /\ \/ req' = Abandoned({r})
     \/ req[r].stage = "sent" /\ req' = [req EXCEPT ![r] = Unused]
  /\ trouble' = TRUE
  /\ UNCHANGED <<serverVars, cookie, history, events>>

\* The page is loaded again.
Reload(tab) ==
  /\ Event
  /\ SetStore(tab, "unknown", "none")
  /\ inflight' = [inflight EXCEPT ![tab] = NoReq]
  /\ call' = [x \in Tabs \X Calls |-> IF x[1] = tab THEN "idle" ELSE call[x]]
  /\ LET mine == {r \in Reqs : req[r].awaited /\ req[r].tab = tab}
     IN  /\ req' = Abandoned(mine)
         /\ trouble' = (trouble \/ mine # {})
  /\ UNCHANGED <<serverVars, cookie, history>>

\* accessTokenTTL is over.  A call under way may have been verified before or not.
AccessExpires(tab) ==
  /\ access[tab] = "good" /\ Event
  /\ access' = [access EXCEPT ![tab] = "expired"]
  /\ \/ UNCHANGED call
     \/ call' = [x \in Tabs \X Calls |->
                   IF x[1] = tab /\ call[x] = "sent_good" THEN "sent_old" ELSE call[x]]
  /\ UNCHANGED <<serverVars, req, cookie, status, inflight, history, trouble>>

\* refreshTokenTTL is over.
TokenExpires(t) ==
  /\ row[t] = "live" /\ Event
  /\ row' = [row EXCEPT ![t] = "expired"]
  /\ UNCHANGED <<users, owner, req, cookie, tabVars, history, trouble>>

-----------------------------------------------------------------------------
(* The gateway's handlers and auth-svc behind them.                        *)

\* The reply leaves; without a reader the request is over.
Answer(r, code, set) ==
  req' = [req EXCEPT ![r] = IF @.awaited
            THEN [@ EXCEPT !.stage = "answered", !.snap = {}, !.reply = [code |-> code, set |-> set]]
            ELSE Unused]

\* issueTokens: a new random token, here the next number.
IsFresh(t) == row[t] = "none" /\ \A s \in Tokens : s < t => row[s] # "none"

\* findUser.
Found(u) == u \in users

ServeLogin(r) ==
  /\ req[r].stage = "sent" /\ req[r].op = "login"
  /\ LET u == UserOf[req[r].tab] IN
     \/ /\ Found(u)                             \* and the password is right
        /\ \E t \in Tokens :
             /\ IsFresh(t)
             /\ row' = [row EXCEPT ![t] = "live"]
             /\ owner' = [owner EXCEPT ![t] = u]
             /\ Answer(r, "ok", t)
     \/ Answer(r, "unauthenticated", Keep) /\ UNCHANGED <<row, owner>>
  /\ UNCHANGED <<users, cookie, tabVars, history, trouble, events>>

\* refresh without a cookie does not reach auth-svc.
RefreshWithoutCookie(r) ==
  /\ req[r].stage = "sent" /\ req[r].op = "refresh" /\ req[r].token = NoToken
  /\ Answer(r, "unauthenticated", Keep)
  /\ UNCHANGED <<serverVars, cookie, tabVars, history, trouble, events>>

\* Variant: SELECT without FOR UPDATE.
LockedByOther_Never(r, t) == FALSE

LockedByOther(r, t) ==
  \E q \in Reqs \ {r} : req[q].stage \in {"rotating", "revoking"} /\ req[q].token = t

\* Unauthenticated from auth-svc: the gateway clears the cookie.
Refuse(r) == Answer(r, "unauthenticated", NoToken)

\* SELECT ... FOR UPDATE, and what Refresh decides on the row it read.
LockToken(r) ==
  LET t == req[r].token IN
  /\ req[r].stage = "sent" /\ req[r].op = "refresh" /\ t # NoToken
  /\ ~LockedByOther(r, t)
  /\ CASE row[t] = "live" -> req' = [req EXCEPT ![r].stage = "rotating"]
       [] row[t] = "revoked" ->      \* UPDATE ... WHERE user_id sees what is committed now
            req' = [req EXCEPT ![r].stage = "revoking",
                      ![r].snap = {s \in Tokens : row[s] # "none" /\ owner[s] = owner[t]}]
       [] row[t] = "expired" -> Refuse(r)
  /\ UNCHANGED <<serverVars, cookie, tabVars, history, trouble, events>>

\* The rotation commits: the presented token is revoked, a new one inserted.
CommitRotation(r) ==
  /\ req[r].stage = "rotating"
  /\ \E t \in Tokens :
       /\ IsFresh(t)
       /\ row' = [row EXCEPT ![req[r].token] = "revoked", ![t] = "live"]
       /\ owner' = [owner EXCEPT ![t] = owner[req[r].token]]
       /\ heirs' = [heirs EXCEPT ![req[r].token] = @ \cup {t}]
       /\ Answer(r, "ok", t)
  /\ UNCHANGED <<users, cookie, tabVars, reused, caught, signed_out, trouble, events>>

\* Variant: the error rolls the revocation back.
Revoke_RolledBack(S) == UNCHANGED row

Revoke(S) == row' = [s \in Tokens |-> IF s \in S THEN "revoked" ELSE row[s]]

\* Reuse detection commits once no other transaction holds a row it has to revoke.
CommitRevocation(r) ==
  /\ req[r].stage = "revoking"
  /\ \A s \in req[r].snap : ~LockedByOther(r, s)
  /\ Revoke(req[r].snap)
  /\ reused' = reused \cup {req[r].token}
  /\ caught' = caught \cup req[r].snap
  /\ Refuse(r)
  /\ UNCHANGED <<users, owner, cookie, tabVars, heirs, signed_out, trouble, events>>

\* logout: a failing revocation is only logged, the cookie is cleared in any case.
ServeLogout(r) ==
  LET t == req[r].token IN
  /\ req[r].stage = "sent" /\ req[r].op = "logout"
  /\ Answer(r, "ok", NoToken)
  /\ \/ t = NoToken /\ UNCHANGED <<row, signed_out, trouble>>
     \/ /\ t # NoToken /\ ~LockedByOther(r, t)
        /\ Revoke({t})
        /\ signed_out' = signed_out \cup {t}
        /\ UNCHANGED trouble
     \/ t # NoToken /\ trouble' = TRUE /\ UNCHANGED <<row, signed_out>>
  /\ UNCHANGED <<users, owner, cookie, tabVars, heirs, reused, caught, events>>

\* Variant: every error of auth-svc is passed on as a refusal.
RequestFails_AsRefusal(r) ==
  /\ req[r].stage \in {"sent", "rotating", "revoking"}
  /\ Refuse(r)
  /\ trouble' = TRUE
  /\ UNCHANGED <<serverVars, cookie, tabVars, history, events>>

\* Too many requests, a deadline, a database error, a lock cycle that Postgres breaks:
\* nothing is changed, and the client gets an error that is no 401.
RequestFails(r) ==
  /\ req[r].stage \in {"sent", "rotating", "revoking"}
  /\ Answer(r, "error", Keep)
  /\ trouble' = TRUE
  /\ UNCHANGED <<serverVars, cookie, tabVars, history, events>>

-----------------------------------------------------------------------------
Serve(r) ==
  \/ ServeLogin(r) \/ RefreshWithoutCookie(r) \/ LockToken(r) \/ CommitRotation(r)
  \/ CommitRevocation(r) \/ ServeLogout(r) \/ RequestFails(r)

\* What goes on without the user: pages and servers do what they have begun.
SessionsProgress ==
  \/ \E tab \in Tabs : Boot(tab) \/ \E k \in Calls : CallEnds(tab, k) \/ CallRejected(tab, k)
  \/ \E r \in Reqs : Serve(r) \/ Headers(r) \/ Body(r)

SessionsNext ==
  \/ SessionsProgress
  \/ \E tab \in Tabs :
       \/ Register(tab) \/ Login(tab) \/ Logout(tab) \/ Reload(tab) \/ AccessExpires(tab)
       \/ \E k \in Calls : StartCall(tab, k)
  \/ \E r \in Reqs : Drop(r)
  \/ \E t \in Tokens : TokenExpires(t)

SessionsSpec ==
  SessionsInit /\ [][SessionsNext]_sessionVars /\ WF_sessionVars(SessionsProgress)

-----------------------------------------------------------------------------
(* Properties.                                                             *)

\* "Without the lock both would be issued a live session" (Refresh): a refresh token is
\* exchanged at most once, also when the reply was lost and the page asks again while
\* the first request is still executing.
OneSuccessor == \A t \in Tokens : Cardinality(heirs[t]) <= 1

\* "The revocation must survive this request's error" (Refresh): what a reuse found in
\* the table stays revoked.
ReuseEndsSessions == \A t \in caught : row[t] = "revoked"

\* "Everyone waiting shares the one in-flight promise" (refreshSession): as long as no
\* reply is lost, a browser with one page never trips reuse detection by itself, only
\* with a token that was signed out or revoked before.
HonestTabNotCaught ==
  [][~trouble /\ (\A a, b \in Tabs : JarOf[a] = JarOf[b] => a = b)
       => reused' \ reused \subseteq signed_out \cup caught]_sessionVars

\* A token that the table holds for no session.
Dead(t) == t = NoToken \/ row[t] \in {"expired", "revoked"}

\* The request is a sign-out, or a refresh with such a token.
EndsSession(r) ==
  req[r].awaited /\ (req[r].op = "logout" \/ (req[r].op = "refresh" /\ Dead(req[r].token)))

\* "Only a definite 'no' ends the session. A dropped connection must not log the user
\* out" (refreshSession), read against the table: a page goes from signed in to signed
\* out, and a browser loses its refresh cookie, only through the reply to a sign-out or
\* to a refresh whose own token is dead, whatever is lost, fails or overlaps on the way.
OnlyADefiniteNo ==
  [][\A tab \in Tabs :
       /\ status[tab] = "authenticated" /\ status'[tab] = "anonymous"
            => \E r \in Reqs : EndsSession(r) /\ req[r].tab = tab /\ req'[r] # req[r]
       /\ cookie[JarOf[tab]] # NoToken /\ cookie'[JarOf[tab]] = NoToken
            => \E r \in Reqs : /\ EndsSession(r) /\ JarOf[req[r].tab] = JarOf[tab]
                              /\ req'[r] # req[r]]_sessionVars

\* Every api() call comes to an end, and every page leaves "loading", even when the
\* refresh they wait for is refused, fails or waits for a lock.
EveryCallSettles ==
  \A tab \in Tabs :
    /\ (status[tab] = "unknown") ~> (status[tab] # "unknown")
    /\ \A k \in Calls : (call[tab, k] = "waiting") ~> (call[tab, k] # "waiting")
=============================================================================
