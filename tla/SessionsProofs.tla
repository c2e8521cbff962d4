--------------------------- MODULE SessionsProofs ---------------------------
(* Theorems about refresh tokens, cookies and pages, for any users, browsers, *)
(* pages, tokens, concurrent requests and calls.                              *)
EXTENDS Sessions, FiniteSetTheorems, TLAPS

Request ==
  [stage : {"unused", "sent", "rotating", "revoking", "answered", "headers"},
   op : {"none", "login", "refresh", "logout"}, tab : Tabs \cup {NoReq},
   token : Tokens \cup {NoToken}, snap : SUBSET Tokens, awaited : BOOLEAN,
   reply : [code : {"none", "ok", "unauthenticated", "error"},
            set : Tokens \cup {NoToken, Keep}]]

SessionsTypes ==
  /\ row \in [Tokens -> {"none", "live", "expired", "revoked"}]
  /\ req \in [Reqs -> Request]
  /\ cookie \in [Jars -> Tokens \cup {NoToken}]
  /\ status \in [Tabs -> {"unknown", "authenticated", "anonymous"}]
  /\ inflight \in [Tabs -> Reqs \cup {NoReq}]
  /\ heirs \in [Tokens -> SUBSET Tokens]
  /\ reused \subseteq Tokens /\ caught \subseteq Tokens /\ signed_out \subseteq Tokens
  /\ trouble \in BOOLEAN

-----------------------------------------------------------------------------
(* What one step does to the requests.                                     *)

\* Only request r may have changed.
Puts(r) ==
  req' \in [Reqs -> Request] /\ \A p \in Reqs : p # r => req'[p] = req[p]

\* Request q is as a page sends it, with the cookie of its browser.
IsSent(q, op, tab) ==
  /\ q.stage = "sent" /\ q.op = op /\ q.tab = tab /\ q.token = cookie[JarOf[tab]]
  /\ q.awaited

\* Request q is p with an answer.
IsAnswered(q, p, code, set) ==
  /\ q.stage = "answered" /\ q.op = p.op /\ q.tab = p.tab /\ q.token = p.token
  /\ q.awaited
  /\ q.reply.code = code /\ q.reply.set = set

\* An unused slot is a request.
LEMMA UnusedType == Unused \in Request
  BY SessionsConstantsOK, Zenon DEF Unused, NoReply, Request

\* send fills one slot.
LEMMA SendEffect ==
  ASSUME SessionsTypes, NEW r \in Reqs, NEW tab \in Tabs,
         NEW op \in {"login", "refresh", "logout"}, Send(r, op, tab)
  PROVE  req[r] = Unused /\ Puts(r) /\ IsSent(req'[r], op, tab)
<1> DEFINE k == cookie[JarOf[tab]]
           e == [Unused EXCEPT !.stage = "sent", !.op = op, !.tab = tab, !.token = k,
                   !.awaited = TRUE]
<1>1. k \in Tokens \cup {NoToken}
  BY SessionsConstantsOK, Zenon DEF SessionsTypes
<1>2. req' = [req EXCEPT ![r] = e] /\ req[r] = Unused /\ req \in [Reqs -> Request]
  BY Zenon DEF Send, SessionsTypes
<1> HIDE DEF k
<1>3. e \in Request
  BY <1>1, UnusedType, Zenon DEF Request
<1>4. e.stage = "sent" /\ e.op = op /\ e.tab = tab /\ e.token = k
  BY UnusedType, Zenon DEF Request
<1>5. e.awaited = TRUE
  BY UnusedType, Zenon DEF Request
<1> HIDE DEF e
<1>6. Puts(r) /\ req'[r] = e
  BY <1>2, <1>3, Zenon DEF Puts
<1>7. QED
  BY <1>2, <1>4, <1>5, <1>6, Zenon DEF IsSent, k

\* The gateway's reply goes to the page that waits for it, if one does.
LEMMA AnswerEffect ==
  ASSUME SessionsTypes, NEW r \in Reqs, NEW code \in {"ok", "unauthenticated", "error"},
         NEW set \in Tokens \cup {NoToken, Keep}, Answer(r, code, set)
  PROVE  /\ Puts(r)
         /\ req[r].awaited => IsAnswered(req'[r], req[r], code, set)
         /\ ~req[r].awaited => req'[r] = Unused
<1> DEFINE reply == [code |-> code, set |-> set]
           e == [req[r] EXCEPT !.stage = "answered", !.snap = {}, !.reply = reply]
<1>1. req \in [Reqs -> Request] /\ req[r] \in Request
  BY Zenon DEF SessionsTypes
<1>2. reply \in [code : {"none", "ok", "unauthenticated", "error"},
                 set : Tokens \cup {NoToken, Keep}] /\ reply.code = code /\ reply.set = set
  OBVIOUS
<1>3. req' = [req EXCEPT ![r] = IF req[r].awaited THEN e ELSE Unused]
  BY <1>1, Zenon DEF Answer
<1> HIDE DEF reply
<1>4. e \in Request
  BY <1>1, <1>2, Zenon DEF Request
<1>5. /\ e.stage = "answered" /\ e.op = req[r].op /\ e.tab = req[r].tab
      /\ e.token = req[r].token /\ e.reply = reply
  BY <1>1, Zenon DEF Request
<1>6. e.awaited = req[r].awaited
  BY <1>1, Zenon DEF Request
<1> HIDE DEF e
<1>7. Puts(r) /\ req'[r] = IF req[r].awaited THEN e ELSE Unused
  BY <1>1, <1>3, <1>4, UnusedType, Zenon DEF Puts
<1>8. QED
  BY <1>2, <1>5, <1>6, <1>7, Zenon DEF IsAnswered

\* A request that nobody waits for any more is over once the server has answered it.
LEMMA AbandonedEffect ==
  ASSUME SessionsTypes, NEW S \in SUBSET Reqs, req' = Abandoned(S)
  PROVE  /\ req' \in [Reqs -> Request]
         /\ \A r \in Reqs : \/ req'[r] = req[r] /\ r \notin S
                            \/ req'[r] = Unused /\ r \in S
                            \/ /\ r \in S /\ req[r].stage \notin {"answered", "headers"}
                               /\ req'[r] = [req[r] EXCEPT !.awaited = FALSE]
<1>1. req \in [Reqs -> Request]
  BY Zenon DEF SessionsTypes
<1>2. \A r \in Reqs : \/ req'[r] = req[r] /\ r \notin S
                      \/ req'[r] = Unused /\ r \in S
                      \/ /\ r \in S /\ req[r].stage \notin {"answered", "headers"}
                         /\ req'[r] = [req[r] EXCEPT !.awaited = FALSE]
  BY <1>1, Zenon DEF Abandoned
<1>3. \A r \in Reqs : [req[r] EXCEPT !.awaited = FALSE] \in Request
  BY <1>1 DEF Request
<1>4. \A r \in Reqs : req'[r] \in Request
  BY <1>1, <1>2, <1>3, UnusedType, Zenon
<1>5. DOMAIN req' = Reqs /\ req' = [r \in Reqs |-> req'[r]]
  BY Zenon DEF Abandoned
<1>6. QED
  BY <1>2, <1>4, <1>5, Zenon

\* The headers arrive: the request is the same one, closer to its end.
LEMMA HeadersEffect ==
  ASSUME SessionsTypes, NEW r \in Reqs, Headers(r)
  PROVE  /\ Puts(r) /\ req[r].stage = "answered" /\ req'[r].stage = "headers"
         /\ req'[r].op = req[r].op /\ req'[r].tab = req[r].tab /\ req'[r].token = req[r].token
         /\ req'[r].reply = req[r].reply /\ req'[r].awaited = req[r].awaited
<1> DEFINE e == [req[r] EXCEPT !.stage = "headers"]
<1>1. req \in [Reqs -> Request] /\ req[r] \in Request
  BY Zenon DEF SessionsTypes
<1>2. req' = [req EXCEPT ![r].stage = "headers"] /\ req[r].stage = "answered"
  BY Zenon DEF Headers
<1>3. req' = [req EXCEPT ![r] = e]
  BY <1>1, <1>2, Zenon
<1>4. /\ e \in Request /\ e.stage = "headers" /\ e.op = req[r].op /\ e.tab = req[r].tab
      /\ e.token = req[r].token /\ e.reply = req[r].reply
  BY <1>1, Zenon DEF Request
<1>5. e.awaited = req[r].awaited
  BY <1>1, Zenon DEF Request
<1> HIDE DEF e
<1>6. Puts(r) /\ req'[r] = e
  BY <1>1, <1>3, <1>4, Zenon DEF Puts
<1>7. QED
  BY <1>2, <1>4, <1>5, <1>6, Zenon

Issued(t) == t \in Tokens => row[t] # "none"

\* Refresh locks the row of the presented token, and goes on as the row says.
LEMMA LockEffect ==
  ASSUME SessionsTypes, NEW r \in Reqs, LockToken(r), Issued(req[r].token)
  PROVE  /\ Puts(r) /\ req[r].stage = "sent" /\ req[r].op = "refresh" /\ req[r].token \in Tokens
         /\ ~LockedByOther(r, req[r].token)
         /\ \/ /\ \/ req'[r].stage = "rotating" /\ row[req[r].token] = "live"
                  \/ req'[r].stage = "revoking" /\ row[req[r].token] = "revoked"
               /\ req'[r].op = req[r].op /\ req'[r].tab = req[r].tab
               /\ req'[r].token = req[r].token /\ req'[r].awaited = req[r].awaited
            \/ Refuse(r) /\ row[req[r].token] = "expired"
<1> DEFINE t == req[r].token
           S == {s \in Tokens : row[s] # "none" /\ owner[s] = owner[t]}
           rot == [req[r] EXCEPT !.stage = "rotating"]
           rev == [req[r] EXCEPT !.stage = "revoking", !.snap = S]
<1>1. req \in [Reqs -> Request] /\ req[r] \in Request
  BY Zenon DEF SessionsTypes
<1>2. req[r].stage = "sent" /\ req[r].op = "refresh" /\ t # NoToken /\ ~LockedByOther(r, t)
  BY Zenon DEF LockToken
<1>3. t \in Tokens
  BY <1>1, <1>2, Zenon DEF Request
<1>4. row[t] \in {"live", "revoked", "expired"}
  BY <1>3, Zenon DEF SessionsTypes, Issued
<1>5. S \in SUBSET Tokens
  OBVIOUS
<1>6. \/ row[t] = "live" /\ req' = [req EXCEPT ![r].stage = "rotating"]
      \/ row[t] = "revoked" /\ req' = [req EXCEPT ![r].stage = "revoking", ![r].snap = S]
      \/ Refuse(r) /\ row[t] = "expired"
  BY <1>4, Zenon DEF LockToken
<1> HIDE DEF S
<1>7. ASSUME req' = [req EXCEPT ![r].stage = "rotating"]
      PROVE  /\ Puts(r) /\ req'[r].stage = "rotating"
             /\ req'[r].op = req[r].op /\ req'[r].tab = req[r].tab
             /\ req'[r].token = req[r].token /\ req'[r].awaited = req[r].awaited
  <2>1. /\ rot \in Request /\ rot.stage = "rotating" /\ rot.op = req[r].op
        /\ rot.tab = req[r].tab /\ rot.token = req[r].token
    BY <1>1, Zenon DEF Request
  <2>2. rot.awaited = req[r].awaited
    BY <1>1, Zenon DEF Request
  <2>3. req' = [req EXCEPT ![r] = rot]
    BY <1>1, <1>7, Zenon
  <2> HIDE DEF rot
  <2>4. Puts(r) /\ req'[r] = rot
    BY <1>1, <2>1, <2>3, Zenon DEF Puts
  <2>5. QED
    BY <2>1, <2>2, <2>4, Zenon
<1>8. ASSUME req' = [req EXCEPT ![r].stage = "revoking", ![r].snap = S]
      PROVE  /\ Puts(r) /\ req'[r].stage = "revoking"
             /\ req'[r].op = req[r].op /\ req'[r].tab = req[r].tab
             /\ req'[r].token = req[r].token /\ req'[r].awaited = req[r].awaited
  <2>1. /\ rev \in Request /\ rev.stage = "revoking" /\ rev.op = req[r].op
        /\ rev.tab = req[r].tab /\ rev.token = req[r].token
    BY <1>1, <1>5, Zenon DEF Request
  <2>2. rev.awaited = req[r].awaited
    BY <1>1, Zenon DEF Request
  <2>3. req' = [req EXCEPT ![r] = rev]
    BY <1>1, <1>8, Zenon
  <2> HIDE DEF rev
  <2>4. Puts(r) /\ req'[r] = rev
    BY <1>1, <2>1, <2>3, Zenon DEF Puts
  <2>5. QED
    BY <2>1, <2>2, <2>4, Zenon
<1>9. ASSUME Refuse(r) PROVE Puts(r)
  BY <1>9, AnswerEffect, Zenon DEF Refuse
<1>10. QED
  BY <1>2, <1>3, <1>6, <1>7, <1>8, <1>9, Zenon

\* A page sends a request of its own; refreshSession remembers it.
Sends(r, op, tab) ==
  /\ Send(r, op, tab)
  /\ \/ op = "refresh" /\ inflight[tab] = NoReq /\ inflight' = [inflight EXCEPT ![tab] = r]
     \/ op # "refresh" /\ UNCHANGED inflight
  /\ UNCHANGED <<row, owner, cookie, status, history, trouble>>

\* Every step sends a request, serves or ends one, reloads a page, lets a token expire,
\* or changes nothing that matters here.
LEMMA SessionSteps ==
  ASSUME [SessionsNext]_sessionVars
  PROVE  \/ UNCHANGED <<row, owner, req, cookie, status, inflight, history, trouble>>
         \/ \E r \in Reqs, tab \in Tabs, op \in {"login", "refresh", "logout"} : Sends(r, op, tab)
         \/ \E r \in Reqs : Serve(r) \/ Headers(r) \/ Body(r) \/ Drop(r)
         \/ \E tab \in Tabs : Reload(tab)
         \/ \E t \in Tokens : TokenExpires(t)
<1> DEFINE Goal ==
         \/ UNCHANGED <<row, owner, req, cookie, status, inflight, history, trouble>>
         \/ \E r \in Reqs, tab \in Tabs, op \in {"login", "refresh", "logout"} : Sends(r, op, tab)
         \/ \E r \in Reqs : Serve(r) \/ Headers(r) \/ Body(r) \/ Drop(r)
         \/ \E tab \in Tabs : Reload(tab)
         \/ \E t \in Tokens : TokenExpires(t)
<1>1. ASSUME NEW tab \in Tabs, RefreshSession(tab),
             UNCHANGED <<row, owner, cookie, status, history, trouble>>
      PROVE  Goal
  <2>1. CASE NeedsRefresh(tab)
    <3>1. PICK r \in Reqs : Send(r, "refresh", tab) /\ inflight' = [inflight EXCEPT ![tab] = r]
      BY <1>1, <2>1, Zenon DEF RefreshSession
    <3>2. Sends(r, "refresh", tab)
      BY <1>1, <2>1, <3>1, Zenon DEF Sends, NeedsRefresh
    <3>3. QED
      BY <3>2, Zenon
  <2>2. CASE ~NeedsRefresh(tab)
    BY <1>1, <2>2, Zenon DEF RefreshSession
  <2>3. QED
    BY <2>1, <2>2, Zenon
<1>2. ASSUME NEW tab \in Tabs, NEW r \in Reqs, NEW op \in {"login", "logout"}, Send(r, op, tab),
             UNCHANGED <<row, owner, cookie, status, inflight, history, trouble>>
      PROVE  Goal
  <2>1. Sends(r, op, tab)
    BY <1>2, Zenon DEF Sends
  <2>2. QED
    BY <2>1, Zenon
<1>3. ASSUME NEW tab \in Tabs, Boot(tab) PROVE Goal
  BY <1>1, <1>3, Zenon DEF Boot, serverVars
<1>4. ASSUME NEW tab \in Tabs, NEW k, CallEnds(tab, k) \/ StartCall(tab, k) PROVE Goal
  BY <1>4, Zenon DEF CallEnds, StartCall, serverVars
<1>5. ASSUME NEW tab \in Tabs, NEW k, CallRejected(tab, k) PROVE Goal
  BY <1>1, <1>5, Zenon DEF CallRejected, serverVars
<1>6. ASSUME NEW tab \in Tabs, Login(tab) PROVE Goal
  <2>1. UNCHANGED <<row, owner, cookie, status, inflight, history, trouble>>
    BY <1>6, Zenon DEF Login, serverVars, tabVars
  <2>2. PICK r \in Reqs : Send(r, "login", tab)
    BY <1>6, Zenon DEF Login
  <2>3. QED
    BY <1>2, <2>1, <2>2, Zenon
<1>7. ASSUME NEW tab \in Tabs, Logout(tab) PROVE Goal
  <2>1. UNCHANGED <<row, owner, cookie, status, inflight, history, trouble>>
    BY <1>7, Zenon DEF Logout, serverVars, tabVars
  <2>2. PICK r \in Reqs : Send(r, "logout", tab)
    BY <1>7, Zenon DEF Logout
  <2>3. QED
    BY <1>2, <2>1, <2>2, Zenon
<1>8. ASSUME NEW tab \in Tabs, Register(tab) PROVE Goal
  <2>1. UNCHANGED <<row, owner, cookie, status, inflight, history, trouble>>
    BY <1>8, Zenon DEF Register, tabVars
  <2>2. UNCHANGED req \/ \E r \in Reqs : Send(r, "login", tab)
    BY <1>8, Zenon DEF Register, GoesOnToLogin
  <2>3. QED
    BY <1>2, <2>1, <2>2, Zenon
<1>9. ASSUME NEW tab \in Tabs, AccessExpires(tab) PROVE Goal
  BY <1>9, Zenon DEF AccessExpires, serverVars
<1>10. ASSUME UNCHANGED sessionVars PROVE Goal
  BY <1>10, Zenon DEF sessionVars, serverVars, tabVars
<1>11. ASSUME NEW tab \in Tabs, Reload(tab) PROVE Goal
  BY <1>11, Zenon
<1>12. ASSUME NEW r \in Reqs, Serve(r) \/ Headers(r) \/ Body(r) \/ Drop(r) PROVE Goal
  BY <1>12, Zenon
<1>13. ASSUME NEW t \in Tokens, TokenExpires(t) PROVE Goal
  BY <1>13, Zenon
<1> HIDE DEF Goal
<1>14. Goal
  BY <1>3, <1>4, <1>5, <1>6, <1>7, <1>8, <1>9, <1>10, <1>11, <1>12, <1>13, Zenon
     DEF SessionsNext, SessionsProgress
<1>15. QED
  BY <1>14, Zenon DEF Goal

-----------------------------------------------------------------------------
(* The invariants.                                                         *)

\* A reply that takes the cookie away, or that tells a refresh that it is refused,
\* answers a sign-out or a refresh with a dead token.
ReplyFits(q) ==
  /\ Issued(q.reply.set)
  /\ q.reply.set = NoToken \/ (q.op = "refresh" /\ q.reply.code = "unauthenticated")
       => q.op = "logout" \/ (q.op = "refresh" /\ Dead(q.token))

\* The transaction of q has the row of its token locked.
Holds(q) == q.stage \in {"rotating", "revoking"}

\* A request is used by a page, knows tokens that exist, and while it holds the lock the
\* row of its token is as it read it, or has expired since.
RequestInv(r) ==
  /\ req[r].stage = "unused" => req[r] = Unused
  /\ req[r].stage # "unused" => req[r].tab \in Tabs /\ req[r].op # "none"
  /\ Holds(req[r]) => req[r].op = "refresh" /\ req[r].token \in Tokens
  /\ req[r].stage = "rotating" => row[req[r].token] \in {"live", "expired"}
  /\ req[r].stage = "revoking" => row[req[r].token] = "revoked"
  /\ Issued(req[r].token)
  /\ req[r].stage \in {"answered", "headers"} => req[r].awaited /\ ReplyFits(req[r])

\* A token that was exchanged is revoked, and a token is revoked for one of three reasons.
RowInv(t) ==
  /\ heirs[t] # {} => row[t] = "revoked"
  /\ heirs[t] = {} \/ \E s \in Tokens : heirs[t] = {s}
  /\ row[t] = "revoked" => t \in signed_out \/ t \in caught \/ heirs[t] # {}
  /\ t \in caught => row[t] = "revoked"

TokenInv ==
  /\ \A r \in Reqs : RequestInv(r)
  /\ \A r, q \in Reqs : r # q /\ Holds(req[r]) /\ Holds(req[q]) => req[r].token # req[q].token
  /\ \A j \in Jars : Issued(cookie[j])
  /\ \A t \in Tokens : RowInv(t)

\* The lock of FOR UPDATE as the invariant sees it.
LEMMA LockedFact ==
  ASSUME NEW r \in Reqs, NEW q \in Reqs, q # r, Holds(req[q])
  PROVE  LockedByOther(r, req[q].token)
  BY Zenon DEF LockedByOther, Holds

\* What a request's step does to the table of refresh tokens.
LEMMA ServeRows ==
  ASSUME SessionsTypes, TokenInv, NEW r \in Reqs, Serve(r)
  PROVE  \/ UNCHANGED <<row, heirs, caught, signed_out>>
         \/ ServeLogin(r) /\ \E t \in Tokens : /\ IsFresh(t) /\ row' = [row EXCEPT ![t] = "live"]
                                               /\ UNCHANGED <<heirs, caught, signed_out>>
         \/ CommitRotation(r)
         \/ CommitRevocation(r)
         \/ /\ ServeLogout(r) /\ UNCHANGED <<heirs, caught>>
            /\ req[r].token # NoToken /\ ~LockedByOther(r, req[r].token)
            /\ Revoke({req[r].token}) /\ signed_out' = signed_out \cup {req[r].token}
<1>1. CASE ServeLogin(r)
  BY <1>1, Zenon DEF ServeLogin, history
<1>2. CASE RefreshWithoutCookie(r) \/ RequestFails(r) \/ LockToken(r)
  BY <1>2, Zenon DEF RefreshWithoutCookie, RequestFails, LockToken, serverVars, history
<1>3. CASE ServeLogout(r)
  BY <1>3, Zenon DEF ServeLogout
<1>4. QED
  BY <1>1, <1>2, <1>3, Zenon DEF Serve

\* Rows are never taken back: an issued token stays issued, a revoked one revoked, and
\* what one transaction has locked no other one revokes.
LEMMA RowSteps ==
  ASSUME SessionsTypes, TokenInv, [SessionsNext]_sessionVars
  PROVE  /\ row' \in [Tokens -> {"none", "live", "expired", "revoked"}]
         /\ \A t : Issued(t) => Issued(t)'
         /\ \A t \in Tokens : row[t] = "revoked" => row'[t] = "revoked"
         /\ \A t \in Tokens : row[t] = "expired" => row'[t] \in {"expired", "revoked"}
         /\ \A q \in Reqs : req[q].stage = "rotating" /\ req'[q] = req[q] =>
              row'[req[q].token] \in {"live", "expired"}
<1> DEFINE Goal ==
         /\ row' \in [Tokens -> {"none", "live", "expired", "revoked"}]
         /\ \A t \in Tokens : row[t] # "none" => row'[t] # "none"
         /\ \A t \in Tokens : row[t] = "revoked" => row'[t] = "revoked"
         /\ \A t \in Tokens : row[t] = "expired" => row'[t] \in {"expired", "revoked"}
         /\ \A q \in Reqs : req[q].stage = "rotating" /\ req'[q] = req[q] =>
              row'[req[q].token] \in {"live", "expired"}
<1>0. row \in [Tokens -> {"none", "live", "expired", "revoked"}]
  BY Zenon DEF SessionsTypes
<1>1. \A q \in Reqs : req[q].stage = "rotating" =>
        req[q].token \in Tokens /\ row[req[q].token] \in {"live", "expired"} /\ Holds(req[q])
  BY Zenon DEF TokenInv, RequestInv, Holds
<1>2. ASSUME UNCHANGED row PROVE Goal
  BY <1>0, <1>1, <1>2, Zenon
<1>3. ASSUME NEW t \in Tokens, TokenExpires(t) PROVE Goal
  BY <1>0, <1>1, <1>3, Zenon DEF TokenExpires
<1>4. ASSUME NEW t \in Tokens, IsFresh(t), row' = [row EXCEPT ![t] = "live"] PROVE Goal
  BY <1>0, <1>1, <1>4, Zenon DEF IsFresh
<1>5. ASSUME NEW r \in Reqs, CommitRotation(r) PROVE Goal
  <2>1. req[r].stage = "rotating" /\ req[r].token \in Tokens
    BY <1>1, <1>5, Zenon DEF CommitRotation
  <2>2. PICK t \in Tokens : /\ IsFresh(t) /\ Answer(r, "ok", t)
                            /\ row' = [row EXCEPT ![req[r].token] = "revoked", ![t] = "live"]
    BY <1>5, Zenon DEF CommitRotation
  <2>3. req'[r].stage # "rotating"
    <3>1. req'[r] = Unused \/ IsAnswered(req'[r], req[r], "ok", t)
      BY <2>2, AnswerEffect, Zenon
    <3>2. QED
      BY <3>1 DEF IsAnswered, Unused
  <2>4. \A q \in Reqs : req[q].stage = "rotating" /\ req'[q] = req[q] =>
          q # r /\ req[q].token # req[r].token /\ req[q].token # t
    BY <1>1, <2>1, <2>2, <2>3, Zenon DEF TokenInv, IsFresh
  <2>5. req[r].token # t /\ row[t] = "none"
    BY <1>1, <2>1, <2>2, Zenon DEF IsFresh
  <2>6. /\ row' \in [Tokens -> {"none", "live", "expired", "revoked"}]
        /\ row'[req[r].token] = "revoked" /\ row'[t] = "live"
        /\ \A s \in Tokens : s # t /\ s # req[r].token => row'[s] = row[s]
    BY <1>0, <2>1, <2>2, <2>5, Zenon
  <2>7. QED
    BY <1>1, <2>4, <2>5, <2>6, Zenon
<1>6. ASSUME NEW S, Revoke(S), \A q \in Reqs : req[q].stage = "rotating" /\ req'[q] = req[q] =>
                                 req[q].token \notin S
      PROVE  Goal
  BY <1>0, <1>1, <1>6, Zenon DEF Revoke
<1>7. ASSUME NEW r \in Reqs, CommitRevocation(r) PROVE Goal
  <2>1. req[r].stage = "revoking" /\ \A s \in req[r].snap : ~LockedByOther(r, s)
    BY <1>7, Zenon DEF CommitRevocation
  <2>2. \A q \in Reqs : req[q].stage = "rotating" => q # r /\ req[q].token \notin req[r].snap
    BY <1>1, <2>1, LockedFact, Zenon
  <2>3. Revoke(req[r].snap)
    BY <1>7, Zenon DEF CommitRevocation
  <2>4. QED
    BY <1>6, <2>2, <2>3, Zenon
<1>8. ASSUME NEW r \in Reqs, ServeLogout(r), ~LockedByOther(r, req[r].token),
             Revoke({req[r].token})
      PROVE  Goal
  <2>1. req[r].stage = "sent"
    BY <1>8, Zenon DEF ServeLogout
  <2>2. \A q \in Reqs : req[q].stage = "rotating" => q # r /\ req[q].token # req[r].token
    BY <1>1, <1>8, <2>1, LockedFact, Zenon
  <2>3. QED
    BY <1>6, <1>8, <2>2, Zenon
<1>9. ASSUME NEW r \in Reqs, Headers(r) \/ Body(r) \/ Drop(r) PROVE UNCHANGED row
  BY <1>9, Zenon DEF Headers, Body, Drop, serverVars
<1>10. ASSUME NEW tab \in Tabs, Reload(tab) PROVE UNCHANGED row
  BY <1>10, Zenon DEF Reload, serverVars
<1>11. ASSUME NEW r \in Reqs, NEW tab, NEW op, Sends(r, op, tab) PROVE UNCHANGED row
  BY <1>11, Zenon DEF Sends
<1> HIDE DEF Goal
<1>12. ASSUME NEW r \in Reqs, Serve(r) PROVE Goal
  BY <1>2, <1>4, <1>5, <1>7, <1>8, <1>12, ServeRows, Zenon
<1>13. Goal
  BY <1>2, <1>3, <1>9, <1>10, <1>11, <1>12, SessionSteps, Zenon
<1>14. QED
  BY <1>13, Zenon DEF Goal, Issued

-----------------------------------------------------------------------------
(* Requests and tokens.                                                    *)

\* A token that is dead stays dead.
LEMMA DeadStays ==
  ASSUME SessionsTypes, TokenInv, [SessionsNext]_sessionVars, NEW t \in Tokens \cup {NoToken},
         Dead(t)
  PROVE  Dead(t)'
<1>1. CASE t = NoToken
  BY <1>1, Zenon DEF Dead
<1>2. CASE t \in Tokens
  BY <1>2, RowSteps, SessionsConstantsOK, Zenon DEF Dead
<1>3. QED
  BY <1>1, <1>2, Zenon

\* A request that a step leaves alone keeps its invariant, whatever happens to the rows.
LEMMA BystanderReq ==
  ASSUME SessionsTypes, TokenInv, [SessionsNext]_sessionVars, NEW q \in Reqs, req'[q] = req[q]
  PROVE  RequestInv(q)'
<1>1. RequestInv(q)
  BY Zenon DEF TokenInv
<1>2. req[q].stage = "revoking" => row'[req[q].token] = "revoked"
  BY <1>1, RowSteps, Zenon DEF RequestInv, Holds
<1>3. req[q].stage = "rotating" => row'[req[q].token] \in {"live", "expired"}
  BY RowSteps, Zenon
<1>4. \A t : Issued(t) => Issued(t)'
  BY RowSteps, Zenon
<1>5. Issued(req[q].token)' /\ (Issued(req[q].reply.set) => Issued(req[q].reply.set)')
  <2>1. \A t : Issued(t) => (t \in Tokens => row'[t] # "none")
    BY <1>4, Zenon DEF Issued
  <2>2. Issued(req[q].token)
    BY <1>1, Zenon DEF RequestInv
  <2>3. QED
    BY <2>1, <2>2, Zenon DEF Issued
<1>6. Dead(req[q].token) => Dead(req[q].token)'
  BY DeadStays, Zenon DEF SessionsTypes, Request
<1>7. QED
  BY <1>1, <1>2, <1>3, <1>5, <1>6, Zenon DEF RequestInv, ReplyFits, Holds, Issued

\* A free slot satisfies the invariant.
LEMMA UnusedReq ==
  ASSUME NEW q \in Reqs, req'[q] = Unused
  PROVE  RequestInv(q)' /\ ~Holds(req'[q])
<1>1. Unused.stage = "unused" /\ Unused.token = NoToken /\ NoToken \notin Tokens
  BY SessionsConstantsOK, Zenon DEF Unused
<1>2. QED
  BY <1>1, Zenon DEF RequestInv, Holds, Issued

\* A request whose page has gone goes on as it was.
LEMMA AbandonedReq ==
  ASSUME SessionsTypes, TokenInv, [SessionsNext]_sessionVars, NEW q \in Reqs, UNCHANGED row,
         req[q].stage \notin {"answered", "headers"}, req[q].awaited,
         req'[q] = [req[q] EXCEPT !.awaited = FALSE]
  PROVE  /\ req'[q].stage = req[q].stage /\ req'[q].op = req[q].op /\ req'[q].tab = req[q].tab
         /\ req'[q].token = req[q].token /\ req'[q].reply = req[q].reply
         /\ RequestInv(q)'
<1>1. req[q] \in Request /\ RequestInv(q)
  BY Zenon DEF SessionsTypes, TokenInv
<1>2. /\ req'[q].stage = req[q].stage /\ req'[q].op = req[q].op /\ req'[q].tab = req[q].tab
      /\ req'[q].token = req[q].token /\ req'[q].reply = req[q].reply
  BY <1>1, Zenon DEF Request
<1>3. req[q].stage # "unused"
  BY <1>1 DEF RequestInv, Unused
<1>4. QED
  BY <1>1, <1>2, <1>3, Zenon DEF RequestInv, Holds, Issued

\* An answer that fits leaves a request that fits.
LEMMA AnsweredReq ==
  ASSUME SessionsTypes, TokenInv, [SessionsNext]_sessionVars, NEW r \in Reqs,
         NEW code \in {"ok", "unauthenticated", "error"}, NEW set \in Tokens \cup {NoToken, Keep},
         Answer(r, code, set), req[r].stage # "unused", set \in Tokens => row'[set] # "none",
         set = NoToken \/ (req[r].op = "refresh" /\ code = "unauthenticated")
           => req[r].op = "logout" \/ (req[r].op = "refresh" /\ Dead(req[r].token))
  PROVE  /\ Puts(r) /\ RequestInv(r)' /\ ~Holds(req'[r])
<1>0. Puts(r) /\ RequestInv(r)
  BY AnswerEffect, Zenon DEF TokenInv
<1>1. CASE ~req[r].awaited
  BY <1>0, <1>1, AnswerEffect, UnusedReq, Zenon
<1>2. CASE req[r].awaited
  <2>1. IsAnswered(req'[r], req[r], code, set)
    BY <1>2, AnswerEffect, Zenon
  <2>2. Issued(req[r].token)' /\ req[r].tab \in Tabs /\ req[r].op # "none"
    <3>1. Issued(req[r].token) /\ \A t : Issued(t) => (t \in Tokens => row'[t] # "none")
      BY <1>0, RowSteps, Zenon DEF RequestInv, Issued
    <3>2. QED
      BY <1>0, <2>1, <3>1, Zenon DEF RequestInv, Issued, IsAnswered
  <2>3. /\ req'[r].stage = "answered" /\ req'[r].op = req[r].op /\ req'[r].tab = req[r].tab
        /\ req'[r].token = req[r].token /\ req'[r].reply.code = code /\ req'[r].reply.set = set
    BY <2>1, Zenon DEF IsAnswered
  <2>4. req'[r].awaited
    BY <2>1, Zenon DEF IsAnswered
  <2>5. ReplyFits(req[r])'
    <3>1. Dead(req[r].token) => Dead(req[r].token)'
      <4>1. Dead(req[r].token) =>
              req[r].token = NoToken \/ row'[req[r].token] \in {"expired", "revoked"}
        BY DeadStays, Zenon DEF SessionsTypes, Request, Dead
      <4>2. QED
        BY <2>3, <4>1, Zenon DEF Dead
    <3>2. QED
      BY <2>3, <3>1, Zenon DEF ReplyFits, Issued
  <2>6. Issued(req[r].token)'
    BY <2>2, Zenon
  <2>7. QED
    BY <1>0, <2>2, <2>3, <2>4, <2>5, <2>6, Zenon DEF RequestInv, Holds
<1>3. QED
  BY <1>1, <1>2, Zenon

\* What serving a request leaves of it.
LEMMA ServeReq ==
  ASSUME SessionsTypes, TokenInv, [SessionsNext]_sessionVars, NEW r \in Reqs, Serve(r)
  PROVE  /\ Puts(r) /\ RequestInv(r)'
         /\ Holds(req'[r]) => /\ req'[r].token = req[r].token
                              /\ Holds(req[r]) \/ ~LockedByOther(r, req[r].token)
<1>0. RequestInv(r) /\ NoToken \notin Tokens /\ Keep \notin Tokens /\ Keep # NoToken
      /\ row \in [Tokens -> {"none", "live", "expired", "revoked"}]
  BY SessionsConstantsOK, Zenon DEF TokenInv, SessionsTypes
<1>1. CASE ServeLogin(r)
  <2>1. req[r].stage = "sent" /\ req[r].op = "login"
    BY <1>1, Zenon DEF ServeLogin
  <2>2. CASE Answer(r, "unauthenticated", Keep)
    BY <1>0, <2>1, <2>2, AnsweredReq, Zenon
  <2>3. ASSUME NEW t \in Tokens, row' = [row EXCEPT ![t] = "live"], Answer(r, "ok", t)
        PROVE  Puts(r) /\ RequestInv(r)' /\ ~Holds(req'[r])
    <3>1. row'[t] # "none"
      BY <1>0, <2>3, Zenon
    <3>2. QED
      BY <1>0, <2>1, <2>3, <3>1, AnsweredReq, Zenon
  <2>4. QED
    BY <1>1, <2>2, <2>3, Zenon DEF ServeLogin
<1>2. CASE RefreshWithoutCookie(r)
  BY <1>0, <1>2, AnsweredReq, Zenon DEF RefreshWithoutCookie, Dead
<1>3. CASE RequestFails(r)
  BY <1>0, <1>3, AnsweredReq, Zenon DEF RequestFails
<1>4. CASE ServeLogout(r)
  BY <1>0, <1>4, AnsweredReq, Zenon DEF ServeLogout
<1>5. CASE CommitRevocation(r)
  <2>1. /\ Answer(r, "unauthenticated", NoToken) /\ req[r].stage = "revoking"
        /\ req[r].op = "refresh" /\ Dead(req[r].token)
    BY <1>0, <1>5, Zenon DEF CommitRevocation, Refuse, RequestInv, Holds, Dead
  <2>2. QED
    BY <1>0, <2>1, AnsweredReq, Zenon
<1>6. CASE CommitRotation(r)
  <2>1. req[r].stage = "rotating" /\ req[r].op = "refresh" /\ req[r].token \in Tokens
    BY <1>0, <1>6, Zenon DEF CommitRotation, RequestInv, Holds
  <2>2. PICK t \in Tokens : /\ Answer(r, "ok", t)
                            /\ row' = [row EXCEPT ![req[r].token] = "revoked", ![t] = "live"]
    BY <1>6, Zenon DEF CommitRotation
  <2>3. row'[t] # "none"
    BY <1>0, <2>1, <2>2, Zenon
  <2>4. QED
    BY <1>0, <2>1, <2>2, <2>3, AnsweredReq, Zenon
<1>7. CASE LockToken(r)
  <2>0. UNCHANGED row /\ Issued(req[r].token)
    BY <1>0, <1>7, Zenon DEF LockToken, serverVars, RequestInv
  <2>1. /\ Puts(r) /\ req[r].stage = "sent" /\ req[r].op = "refresh" /\ req[r].token \in Tokens
        /\ ~LockedByOther(r, req[r].token)
    BY <1>7, <2>0, LockEffect, Zenon
  <2>2. CASE Refuse(r) /\ row[req[r].token] = "expired"
    BY <1>0, <2>1, <2>2, AnsweredReq, Zenon DEF Refuse, Dead
  <2>3. CASE /\ \/ req'[r].stage = "rotating" /\ row[req[r].token] = "live"
                \/ req'[r].stage = "revoking" /\ row[req[r].token] = "revoked"
             /\ req'[r].op = req[r].op /\ req'[r].tab = req[r].tab
             /\ req'[r].token = req[r].token
    <3>1. Issued(req[r].token)'
      BY <2>0, <2>3, Zenon DEF Issued
    <3>2. req'[r].tab \in Tabs /\ req'[r].op = "refresh"
      BY <1>0, <2>1, <2>3, Zenon DEF RequestInv
    <3>3. RequestInv(r)'
      BY <2>0, <2>1, <2>3, <3>1, <3>2, Zenon DEF RequestInv, Holds
    <3>4. QED
      BY <2>1, <2>3, <3>3, Zenon
  <2>4. QED
    BY <1>7, <2>0, <2>2, <2>3, LockEffect, Zenon
<1>8. QED
  BY <1>1, <1>2, <1>3, <1>4, <1>5, <1>6, <1>7, Zenon DEF Serve

\* The pages' part of the life of a request.
LEMMA PageReq ==
  ASSUME SessionsTypes, TokenInv, [SessionsNext]_sessionVars
  PROVE  /\ \A r \in Reqs, tab \in Tabs, op \in {"login", "refresh", "logout"} :
              Sends(r, op, tab) => Puts(r) /\ RequestInv(r)' /\ ~Holds(req'[r])
         /\ \A r \in Reqs : Headers(r) => Puts(r) /\ RequestInv(r)' /\ ~Holds(req'[r])
         /\ \A r \in Reqs : Body(r) => Puts(r) /\ req'[r] = Unused
         /\ \A r \in Reqs : Drop(r) => Puts(r) /\ \/ req'[r] = Unused
                                                  \/ /\ req[r].awaited /\ req[r].stage \notin {"answered", "headers"}
                                                     /\ req'[r] = [req[r] EXCEPT !.awaited = FALSE]
         /\ \A tab \in Tabs : Reload(tab) =>
              /\ req' \in [Reqs -> Request]
              /\ \A r \in Reqs : \/ req'[r] = req[r]
                                 \/ req'[r] = Unused
                                 \/ /\ req[r].awaited /\ req[r].stage \notin {"answered", "headers"}
                                    /\ req'[r] = [req[r] EXCEPT !.awaited = FALSE]
<1>0. req \in [Reqs -> Request]
  BY Zenon DEF SessionsTypes
<1>1. ASSUME NEW r \in Reqs, NEW tab \in Tabs, NEW op \in {"login", "refresh", "logout"},
             Sends(r, op, tab)
      PROVE  Puts(r) /\ RequestInv(r)' /\ ~Holds(req'[r])
  <2>1. UNCHANGED row /\ Send(r, op, tab)
    BY <1>1, Zenon DEF Sends
  <2>2. Puts(r) /\ IsSent(req'[r], op, tab)
    BY <2>1, SendEffect, Zenon
  <2>3. Issued(cookie[JarOf[tab]])
    BY SessionsConstantsOK, Zenon DEF TokenInv
  <2>4. Issued(req[r].token)'
    BY <2>1, <2>2, <2>3, Zenon DEF IsSent, Issued
  <2>5. QED
    BY <2>2, <2>4, Zenon DEF IsSent, RequestInv, Holds
<1>2. ASSUME NEW r \in Reqs, req' = [req EXCEPT ![r] = Unused] PROVE Puts(r) /\ req'[r] = Unused
  BY <1>0, <1>2, UnusedType, Zenon DEF Puts
<1>3. ASSUME NEW r \in Reqs, Drop(r), req' = Abandoned({r})
      PROVE  /\ Puts(r)
             /\ \/ req'[r] = Unused
                \/ /\ req[r].awaited /\ req[r].stage \notin {"answered", "headers"}
                   /\ req'[r] = [req[r] EXCEPT !.awaited = FALSE]
  <2>1. {r} \in SUBSET Reqs /\ req[r].awaited
    BY <1>3, Zenon DEF Drop
  <2>2. QED
    BY <1>3, <2>1, AbandonedEffect, Zenon DEF Puts
<1>4. ASSUME NEW tab \in Tabs, Reload(tab)
      PROVE  /\ req' \in [Reqs -> Request]
             /\ \A r \in Reqs : \/ req'[r] = req[r]
                                \/ req'[r] = Unused
                                \/ /\ req[r].awaited /\ req[r].stage \notin {"answered", "headers"}
                                   /\ req'[r] = [req[r] EXCEPT !.awaited = FALSE]
  <2> DEFINE mine == {r \in Reqs : req[r].awaited /\ req[r].tab = tab}
  <2>1. mine \in SUBSET Reqs /\ req' = Abandoned(mine)
    BY <1>4, Zenon DEF Reload
  <2>2. \A r \in mine : req[r].awaited
    OBVIOUS
  <2> HIDE DEF mine
  <2>3. QED
    BY <2>1, <2>2, AbandonedEffect, Zenon
<1>5. ASSUME NEW r \in Reqs, Headers(r) PROVE Puts(r) /\ RequestInv(r)' /\ ~Holds(req'[r])
  <2>1. /\ Puts(r) /\ req[r].stage = "answered" /\ req'[r].stage = "headers"
        /\ req'[r].op = req[r].op /\ req'[r].tab = req[r].tab /\ req'[r].token = req[r].token
        /\ req'[r].reply = req[r].reply /\ req'[r].awaited = req[r].awaited
    BY <1>5, HeadersEffect, Zenon
  <2>2. RequestInv(r) /\ UNCHANGED row
    BY <1>5, Zenon DEF TokenInv, Headers, serverVars
  <2>3. ReplyFits(req[r])'
    BY <2>1, <2>2, Zenon DEF RequestInv, ReplyFits, Issued, Dead
  <2>4. Issued(req[r].token)'
    BY <2>1, <2>2, Zenon DEF RequestInv, Issued
  <2>5. QED
    BY <2>1, <2>2, <2>3, <2>4, Zenon DEF RequestInv, Holds
<1>6. QED
  BY <1>1, <1>2, <1>3, <1>4, <1>5, Zenon DEF Body, Drop

\* Every request keeps its type and its invariant, and no two hold the same token's row.
LEMMA RequestStep ==
  ASSUME SessionsTypes, TokenInv, [SessionsNext]_sessionVars
  PROVE  /\ req' \in [Reqs -> Request]
         /\ \A q \in Reqs : RequestInv(q)'
         /\ \A r, q \in Reqs : r # q /\ Holds(req'[r]) /\ Holds(req'[q])
              => req'[r].token # req'[q].token
<1> DEFINE Takes(q) == Holds(req'[q]) =>
             /\ req'[q].token = req[q].token
             /\ Holds(req[q]) \/ (Puts(q) /\ ~LockedByOther(q, req[q].token))
           Goal == /\ req' \in [Reqs -> Request]
                   /\ \A q \in Reqs : RequestInv(q)' /\ Takes(q)
<1>1. ASSUME NEW q \in Reqs, req'[q] = req[q] PROVE RequestInv(q)' /\ Takes(q)
  BY <1>1, BystanderReq, Zenon
<1>2. ASSUME NEW q \in Reqs, req'[q] = Unused PROVE RequestInv(q)' /\ Takes(q)
  BY <1>2, UnusedReq, Zenon
<1>3. ASSUME NEW q \in Reqs, UNCHANGED row, req[q].stage \notin {"answered", "headers"},
             req[q].awaited, req'[q] = [req[q] EXCEPT !.awaited = FALSE]
      PROVE  RequestInv(q)' /\ Takes(q)
  BY <1>3, AbandonedReq, Zenon DEF Holds
<1> HIDE DEF Takes
<1>4. ASSUME NEW r \in Reqs, Puts(r), RequestInv(r)', Takes(r) PROVE Goal
  BY <1>1, <1>4, Zenon DEF Puts
<1>5. ASSUME NEW r \in Reqs, Serve(r) PROVE Goal
  BY <1>4, <1>5, ServeReq, Zenon DEF Takes
<1>6. ASSUME NEW r \in Reqs, NEW tab \in Tabs, NEW op \in {"login", "refresh", "logout"},
             Sends(r, op, tab)
      PROVE  Goal
  BY <1>4, <1>6, PageReq DEF Takes
<1>7. ASSUME NEW r \in Reqs, Headers(r) \/ Body(r) \/ Drop(r) PROVE Goal
  <2>1. UNCHANGED row
    BY <1>7, Zenon DEF Headers, Body, Drop, serverVars
  <2>2. CASE Headers(r)
    BY <1>4, <2>2, PageReq, Zenon DEF Takes
  <2>3. CASE Body(r) \/ Drop(r)
    BY <1>2, <1>3, <1>4, <2>1, <2>3, PageReq, Zenon
  <2>4. QED
    BY <1>7, <2>2, <2>3, Zenon
<1>8. ASSUME NEW tab \in Tabs, Reload(tab) PROVE Goal
  <2>1. UNCHANGED row
    BY <1>8, Zenon DEF Reload, serverVars
  <2>2. QED
    BY <1>1, <1>2, <1>3, <1>8, <2>1, PageReq, Zenon
<1>9. ASSUME UNCHANGED req PROVE Goal
  BY <1>1, <1>9, Zenon DEF SessionsTypes
<1>10. ASSUME NEW t \in Tokens, TokenExpires(t) PROVE UNCHANGED req
  BY <1>10, Zenon DEF TokenExpires
<1> HIDE DEF Goal
<1>11. Goal
  BY <1>5, <1>6, <1>7, <1>8, <1>9, <1>10, SessionSteps, Zenon
<1>12. ASSUME NEW r \in Reqs, NEW q \in Reqs, r # q, Holds(req'[r]), Holds(req'[q]), Holds(req[q])
       PROVE  req'[r].token # req'[q].token
  <2>1. /\ req'[r].token = req[r].token /\ req'[q].token = req[q].token
        /\ Holds(req[r]) \/ ~LockedByOther(r, req[r].token)
    BY <1>11, <1>12, Zenon DEF Goal, Takes
  <2>2. CASE Holds(req[r])
    BY <1>12, <2>1, <2>2, Zenon DEF TokenInv
  <2>3. CASE ~LockedByOther(r, req[r].token)
    BY <1>12, <2>1, <2>3, LockedFact, Zenon
  <2>4. QED
    BY <2>1, <2>2, <2>3, Zenon
<1>13. ASSUME NEW r \in Reqs, NEW q \in Reqs, r # q, Holds(req'[r]), Holds(req'[q])
       PROVE  Holds(req[r]) \/ Holds(req[q])
  <2>1. CASE ~Holds(req[q])
    <3>1. Puts(q)
      BY <1>11, <1>13, <2>1, Zenon DEF Goal, Takes
    <3>2. QED
      BY <1>13, <3>1, Zenon DEF Puts
  <2>2. QED
    BY <2>1, Zenon
<1>14. QED
  BY <1>11, <1>12, <1>13, Zenon DEF Goal

\* A page's step leaves the table of refresh tokens and its history alone.
LEMMA PageRows ==
  ASSUME [SessionsNext]_sessionVars
  PROVE  \/ UNCHANGED <<row, heirs, reused, caught, signed_out>>
         \/ \E r \in Reqs : Serve(r)
         \/ \E t \in Tokens : TokenExpires(t)
<1>1. ASSUME NEW r \in Reqs, NEW tab, NEW op, Sends(r, op, tab)
      PROVE  UNCHANGED <<row, heirs, reused, caught, signed_out>>
  BY <1>1, Zenon DEF Sends, history
<1>2. ASSUME NEW r \in Reqs, Headers(r) \/ Body(r) \/ Drop(r)
      PROVE  UNCHANGED <<row, heirs, reused, caught, signed_out>>
  BY <1>2, Zenon DEF Headers, Body, Drop, serverVars, history
<1>3. ASSUME NEW tab \in Tabs, Reload(tab)
      PROVE  UNCHANGED <<row, heirs, reused, caught, signed_out>>
  BY <1>3, Zenon DEF Reload, serverVars, history
<1>4. ASSUME UNCHANGED <<row, owner, req, cookie, status, inflight, history, trouble>>
      PROVE  UNCHANGED <<row, heirs, reused, caught, signed_out>>
  BY <1>4, Zenon DEF history
<1>5. QED
  BY <1>1, <1>2, <1>3, <1>4, SessionSteps, Zenon

\* A commit of Refresh exchanges the token it holds, which was never exchanged before,
\* for one that nobody had.
LEMMA RotationEffect ==
  ASSUME SessionsTypes, TokenInv, NEW r \in Reqs, CommitRotation(r)
  PROVE  \E t \in Tokens :
           /\ req[r].stage = "rotating" /\ req[r].op = "refresh" /\ req[r].token \in Tokens
           /\ t # req[r].token /\ row[t] = "none" /\ heirs[t] = {} /\ heirs[req[r].token] = {}
           /\ row' = [row EXCEPT ![req[r].token] = "revoked", ![t] = "live"]
           /\ heirs' = [heirs EXCEPT ![req[r].token] = {t}]
           /\ Answer(r, "ok", t)
<1> DEFINE old == req[r].token
<1>1. /\ req[r].stage = "rotating" /\ req[r].op = "refresh" /\ old \in Tokens
      /\ row[old] \in {"live", "expired"}
  BY Zenon DEF CommitRotation, TokenInv, RequestInv, Holds
<1>2. PICK t \in Tokens : /\ IsFresh(t) /\ Answer(r, "ok", t)
                          /\ row' = [row EXCEPT ![old] = "revoked", ![t] = "live"]
                          /\ heirs' = [heirs EXCEPT ![old] = @ \cup {t}]
  BY Zenon DEF CommitRotation
<1>3. row[t] = "none"
  BY <1>2, Zenon DEF IsFresh
<1>4. RowInv(t) /\ RowInv(old)
  BY <1>1, Zenon DEF TokenInv
<1>5. heirs[t] = {} /\ heirs[old] = {}
  BY <1>1, <1>3, <1>4, Zenon DEF RowInv
<1>6. heirs' = [heirs EXCEPT ![old] = {t}]
  BY <1>1, <1>2, <1>5, Zenon DEF SessionsTypes
<1>7. QED
  BY <1>1, <1>2, <1>3, <1>5, <1>6, Zenon

\* The table and its history keep agreeing.
LEMMA RowInvStep ==
  ASSUME SessionsTypes, TokenInv, [SessionsNext]_sessionVars
  PROVE  /\ heirs' \in [Tokens -> SUBSET Tokens]
         /\ reused' \subseteq Tokens /\ caught' \subseteq Tokens /\ signed_out' \subseteq Tokens
         /\ \A t \in Tokens : RowInv(t)'
<1> DEFINE Goal ==
         /\ heirs' \in [Tokens -> SUBSET Tokens]
         /\ reused' \subseteq Tokens /\ caught' \subseteq Tokens /\ signed_out' \subseteq Tokens
         /\ \A t \in Tokens : RowInv(t)'
<1>0. /\ row \in [Tokens -> {"none", "live", "expired", "revoked"}]
      /\ heirs \in [Tokens -> SUBSET Tokens]
      /\ reused \subseteq Tokens /\ caught \subseteq Tokens /\ signed_out \subseteq Tokens
  BY Zenon DEF SessionsTypes
<1>1. \A t \in Tokens : RowInv(t)
  BY Zenon DEF TokenInv
<1>2. ASSUME UNCHANGED <<row, heirs, reused, caught, signed_out>> PROVE Goal
  BY <1>0, <1>1, <1>2, Zenon DEF RowInv
<1>3. ASSUME NEW t \in Tokens, TokenExpires(t) PROVE Goal
  <2>1. row[t] = "live" /\ row' = [row EXCEPT ![t] = "expired"]
    BY <1>3, Zenon DEF TokenExpires
  <2>2. UNCHANGED <<heirs, reused, caught, signed_out>>
    BY <1>3, Zenon DEF TokenExpires, history
  <2>3. \A s \in Tokens : row'[s] = "revoked" <=> row[s] = "revoked"
    BY <1>0, <2>1, Zenon
  <2>4. QED
    BY <1>0, <1>1, <2>2, <2>3, Zenon DEF RowInv
<1>4. ASSUME NEW r \in Reqs, ServeLogin(r) PROVE Goal
  <2>1. UNCHANGED <<heirs, reused, caught, signed_out>>
    BY <1>4, Zenon DEF ServeLogin, history
  <2>2. UNCHANGED row \/ \E t \in Tokens : row[t] = "none" /\ row' = [row EXCEPT ![t] = "live"]
    BY <1>4, Zenon DEF ServeLogin, IsFresh
  <2>3. \A s \in Tokens : row'[s] = "revoked" <=> row[s] = "revoked"
    BY <1>0, <2>2, Zenon
  <2>4. QED
    BY <1>0, <1>1, <2>1, <2>3, Zenon DEF RowInv
<1>5. ASSUME NEW r \in Reqs, CommitRotation(r) PROVE Goal
  <2> DEFINE old == req[r].token
  <2>1. PICK t \in Tokens :
          /\ old \in Tokens /\ t # old /\ row[t] = "none" /\ heirs[t] = {}
          /\ row' = [row EXCEPT ![old] = "revoked", ![t] = "live"]
          /\ heirs' = [heirs EXCEPT ![old] = {t}]
    BY <1>5, RotationEffect, Zenon
  <2>2. UNCHANGED <<reused, caught, signed_out>>
    BY <1>5, Zenon DEF CommitRotation
  <2> HIDE DEF old
  <2>3. /\ row'[old] = "revoked" /\ heirs'[old] = {t} /\ row'[t] = "live" /\ heirs'[t] = {}
        /\ \A s \in Tokens : s # t /\ s # old => row'[s] = row[s] /\ heirs'[s] = heirs[s]
        /\ heirs' \in [Tokens -> SUBSET Tokens]
    BY <1>0, <2>1, Zenon
  <2>4. t \notin caught
    BY <1>1, <2>1, Zenon DEF RowInv
  <2>5. ASSUME NEW s \in Tokens PROVE RowInv(s)'
    <3>1. CASE s = t
      BY <2>2, <2>3, <2>4, <3>1, Zenon DEF RowInv
    <3>2. CASE s = old
      BY <2>1, <2>3, <3>2, Zenon DEF RowInv
    <3>3. CASE s # t /\ s # old
      <4>1. RowInv(s) /\ row'[s] = row[s] /\ heirs'[s] = heirs[s]
        BY <1>1, <2>3, <3>3, Zenon
      <4>2. QED
        BY <2>2, <4>1, Zenon DEF RowInv
    <3>4. QED
      BY <3>1, <3>2, <3>3, Zenon
  <2>6. QED
    BY <1>0, <2>2, <2>3, <2>5, Zenon
<1>6. ASSUME NEW r \in Reqs, CommitRevocation(r) PROVE Goal
  <2>1. /\ row' = [s \in Tokens |-> IF s \in req[r].snap THEN "revoked" ELSE row[s]]
        /\ reused' = reused \cup {req[r].token} /\ caught' = caught \cup req[r].snap
        /\ UNCHANGED <<heirs, signed_out>>
    BY <1>6, Zenon DEF CommitRevocation, Revoke
  <2>2. req[r].token \in Tokens /\ req[r].snap \subseteq Tokens
    BY <1>6, Zenon DEF CommitRevocation, TokenInv, RequestInv, Holds, SessionsTypes, Request
  <2>3. \A s \in Tokens : RowInv(s)'
    BY <1>1, <2>1, Zenon DEF RowInv
  <2>4. QED
    BY <1>0, <2>1, <2>2, <2>3, Zenon
<1>7. ASSUME NEW r \in Reqs, ServeLogout(r) PROVE Goal
  <2>0. UNCHANGED <<heirs, reused, caught>>
    BY <1>7, Zenon DEF ServeLogout
  <2>1. CASE UNCHANGED <<row, signed_out>>
    BY <1>2, <2>0, <2>1, Zenon
  <2>2. CASE /\ req[r].token # NoToken /\ Revoke({req[r].token})
             /\ signed_out' = signed_out \cup {req[r].token}
    <3>1. row' = [s \in Tokens |-> IF s = req[r].token THEN "revoked" ELSE row[s]]
      BY <2>2, Zenon DEF Revoke
    <3>2. req[r].token \in Tokens
      BY <2>2, Zenon DEF SessionsTypes, Request
    <3>3. \A s \in Tokens : RowInv(s)'
      BY <1>1, <2>0, <2>2, <3>1, Zenon DEF RowInv
    <3>4. QED
      BY <1>0, <2>0, <2>2, <3>2, <3>3, Zenon
  <2>3. QED
    BY <1>7, <2>1, <2>2, Zenon DEF ServeLogout
<1>8. ASSUME NEW r \in Reqs, RefreshWithoutCookie(r) \/ RequestFails(r) \/ LockToken(r) PROVE Goal
  BY <1>2, <1>8, Zenon DEF RefreshWithoutCookie, RequestFails, LockToken, serverVars, history
<1> HIDE DEF Goal
<1>9. Goal
  BY <1>2, <1>3, <1>4, <1>5, <1>6, <1>7, <1>8, PageRows, Zenon DEF Serve
<1>10. QED
  BY <1>9, Zenon DEF Goal

\* Only a reply with Set-Cookie changes a jar, and it is the jar of the page that asked.
LEMMA CookieStep ==
  ASSUME SessionsTypes, TokenInv, [SessionsNext]_sessionVars
  PROVE  \/ UNCHANGED cookie
         \/ \E r \in Reqs : /\ Headers(r) /\ req[r].reply.set \in Tokens \cup {NoToken}
                            /\ req[r].tab \in Tabs
                            /\ cookie' = [cookie EXCEPT ![JarOf[req[r].tab]] = req[r].reply.set]
<1>1. ASSUME NEW r \in Reqs, Headers(r)
      PROVE  \/ UNCHANGED cookie
             \/ /\ req[r].reply.set \in Tokens \cup {NoToken} /\ req[r].tab \in Tabs
                /\ cookie' = [cookie EXCEPT ![JarOf[req[r].tab]] = req[r].reply.set]
  <2>1. req[r].reply.set \in Tokens \cup {NoToken, Keep}
    BY Zenon DEF SessionsTypes, Request
  <2>2. req[r].tab \in Tabs
    BY <1>1, Zenon DEF Headers, TokenInv, RequestInv
  <2>3. QED
    BY <1>1, <2>1, <2>2, Zenon DEF Headers
<1>2. ASSUME NEW r \in Reqs, Body(r) \/ Drop(r) \/ Serve(r) PROVE UNCHANGED cookie
  BY <1>2, Zenon DEF Body, Drop, Serve, ServeLogin, RefreshWithoutCookie, LockToken, CommitRotation,
                     CommitRevocation, ServeLogout, RequestFails
<1>3. ASSUME NEW tab \in Tabs, Reload(tab) PROVE UNCHANGED cookie
  BY <1>3, Zenon DEF Reload
<1>4. ASSUME NEW t \in Tokens, TokenExpires(t) PROVE UNCHANGED cookie
  BY <1>4, Zenon DEF TokenExpires
<1>5. ASSUME NEW r \in Reqs, NEW tab, NEW op, Sends(r, op, tab) PROVE UNCHANGED cookie
  BY <1>5, Zenon DEF Sends
<1>6. QED
  BY <1>1, <1>2, <1>3, <1>4, <1>5, SessionSteps, Zenon

\* What each kind of step does to the pages.
LEMMA PageStep ==
  ASSUME SessionsTypes, TokenInv, [SessionsNext]_sessionVars
  PROVE  /\ status' \in [Tabs -> {"unknown", "authenticated", "anonymous"}]
         /\ inflight' \in [Tabs -> Reqs \cup {NoReq}]
         /\ trouble' \in BOOLEAN
<1> DEFINE Goal == /\ status' \in [Tabs -> {"unknown", "authenticated", "anonymous"}]
                   /\ inflight' \in [Tabs -> Reqs \cup {NoReq}]
                   /\ trouble' \in BOOLEAN
<1>0. /\ status \in [Tabs -> {"unknown", "authenticated", "anonymous"}]
      /\ inflight \in [Tabs -> Reqs \cup {NoReq}]
      /\ trouble \in BOOLEAN
  BY Zenon DEF SessionsTypes
<1>1. ASSUME UNCHANGED <<status, inflight>>, trouble' = trouble \/ trouble' = TRUE PROVE Goal
  BY <1>0, <1>1, Zenon
<1>2. ASSUME NEW r \in Reqs, NEW code, Outcome(r, code)
      PROVE  /\ status' \in [Tabs -> {"unknown", "authenticated", "anonymous"}]
             /\ inflight' \in [Tabs -> Reqs \cup {NoReq}]
  <2>1. \/ UNCHANGED status
        \/ status' = [status EXCEPT ![req[r].tab] = "authenticated"]
        \/ status' = [status EXCEPT ![req[r].tab] = "anonymous"]
    BY <1>2, Zenon DEF Outcome, SetStore
  <2>2. UNCHANGED inflight \/ inflight' = [inflight EXCEPT ![req[r].tab] = NoReq]
    BY <1>2, Zenon DEF Outcome, Settle
  <2>3. status' \in [Tabs -> {"unknown", "authenticated", "anonymous"}]
    BY <1>0, <2>1, Zenon
  <2>4. inflight' \in [Tabs -> Reqs \cup {NoReq}]
    BY <1>0, <2>2, Zenon
  <2>5. QED
    BY <2>3, <2>4, Zenon
<1>3. ASSUME NEW r \in Reqs, Body(r) PROVE Goal
  <2>1. Outcome(r, req[r].reply.code) /\ UNCHANGED trouble
    BY <1>3, Zenon DEF Body
  <2>2. QED
    BY <1>0, <1>2, <2>1, Zenon
<1>4. ASSUME NEW r \in Reqs, Drop(r) PROVE Goal
  <2>1. Outcome(r, "error") /\ trouble' = TRUE
    BY <1>4, Zenon DEF Drop
  <2>2. QED
    BY <1>2, <2>1, Zenon
<1>5. ASSUME NEW tab \in Tabs, Reload(tab) PROVE Goal
  <2>1. /\ status' = [status EXCEPT ![tab] = "unknown"]
        /\ inflight' = [inflight EXCEPT ![tab] = NoReq]
    BY <1>5, Zenon DEF Reload, SetStore
  <2>2. trouble' \in BOOLEAN
    BY <1>5, Zenon DEF Reload
  <2>3. /\ status' \in [Tabs -> {"unknown", "authenticated", "anonymous"}]
        /\ inflight' \in [Tabs -> Reqs \cup {NoReq}]
    BY <1>0, <2>1, Zenon
  <2>4. QED
    BY <2>2, <2>3, Zenon
<1>6. ASSUME NEW r \in Reqs, Serve(r) PROVE Goal
  <2>1. UNCHANGED <<status, inflight>> /\ (trouble' = trouble \/ trouble' = TRUE)
    BY <1>6, Zenon DEF Serve, ServeLogin, RefreshWithoutCookie, LockToken, CommitRotation,
                       CommitRevocation, ServeLogout, RequestFails, tabVars
  <2>2. QED
    BY <1>1, <2>1, Zenon
<1>7. ASSUME NEW t \in Tokens, TokenExpires(t) PROVE Goal
  BY <1>1, <1>7, Zenon DEF TokenExpires, tabVars
<1>8. ASSUME NEW r \in Reqs, NEW tab \in Tabs, NEW op, Sends(r, op, tab) PROVE Goal
  <2>1. UNCHANGED <<status, trouble>>
    BY <1>8, Zenon DEF Sends
  <2>2. inflight' \in [Tabs -> Reqs \cup {NoReq}]
    BY <1>0, <1>8, Zenon DEF Sends
  <2>3. QED
    BY <1>0, <2>1, <2>2, Zenon
<1>9. ASSUME UNCHANGED <<row, owner, req, cookie, status, inflight, history, trouble>> PROVE Goal
  BY <1>1, <1>9, Zenon
<1> HIDE DEF Goal
<1>10. ASSUME NEW r \in Reqs, Headers(r) PROVE Goal
  <2>1. UNCHANGED <<status, inflight>> /\ trouble' = trouble
    BY <1>10, Zenon DEF Headers, tabVars
  <2>2. QED
    BY <1>1, <2>1, Zenon
<1>11. Goal
  BY <1>3, <1>4, <1>5, <1>6, <1>7, <1>8, <1>9, <1>10, SessionSteps, Zenon
<1>12. QED
  BY <1>11, Zenon DEF Goal

\* The types and the invariant of the tokens are kept by every step.
LEMMA TokenStep ==
  ASSUME SessionsTypes, TokenInv, [SessionsNext]_sessionVars
  PROVE  SessionsTypes' /\ TokenInv'
<1>1. cookie' \in [Jars -> Tokens \cup {NoToken}] /\ \A j \in Jars : Issued(cookie[j])'
  <2>1. cookie \in [Jars -> Tokens \cup {NoToken}] /\ \A j \in Jars : Issued(cookie[j])
    BY Zenon DEF SessionsTypes, TokenInv
  <2>2. \A t : Issued(t) => Issued(t)'
    BY RowSteps, Zenon
  <2>3. CASE UNCHANGED cookie
    BY <2>1, <2>2, <2>3, Zenon DEF Issued
  <2>4. ASSUME NEW r \in Reqs, Headers(r), req[r].reply.set \in Tokens \cup {NoToken},
               cookie' = [cookie EXCEPT ![JarOf[req[r].tab]] = req[r].reply.set]
        PROVE  cookie' \in [Jars -> Tokens \cup {NoToken}] /\ \A j \in Jars : Issued(cookie[j])'
    <3>1. Issued(req[r].reply.set)
      BY <2>4, Zenon DEF Headers, TokenInv, RequestInv, ReplyFits
    <3>2. cookie' \in [Jars -> Tokens \cup {NoToken}]
      BY <2>1, <2>4, Zenon
    <3>3. ASSUME NEW j \in Jars PROVE Issued(cookie[j])'
      <4>1. cookie'[j] = cookie[j] \/ cookie'[j] = req[r].reply.set
        BY <2>1, <2>4, Zenon
      <4>2. QED
        BY <2>1, <2>2, <3>1, <4>1, Zenon DEF Issued
    <3>4. QED
      BY <3>2, <3>3, Zenon
  <2>5. QED
    BY <2>3, <2>4, CookieStep, Zenon
<1>2. SessionsTypes'
  BY <1>1, RowSteps, RequestStep, RowInvStep, PageStep, Zenon DEF SessionsTypes
<1>3. TokenInv'
  BY <1>1, RequestStep, RowInvStep, Zenon DEF TokenInv
<1>4. QED
  BY <1>2, <1>3, Zenon

\* At the start there is no token, no request and no history.
LEMMA TokenInit ==
  ASSUME SessionsInit
  PROVE  SessionsTypes /\ TokenInv
<1>1. SessionsTypes
  BY UnusedType, SessionsConstantsOK, Zenon DEF SessionsInit, SessionsTypes
<1>2. \A r \in Reqs : req[r] = Unused
  BY Zenon DEF SessionsInit
<1>3. Unused.stage = "unused" /\ Unused.token = NoToken
  BY Zenon DEF Unused
<1>4. ASSUME NEW r \in Reqs PROVE RequestInv(r) /\ ~Holds(req[r])
  BY <1>2, <1>3, SessionsConstantsOK, Zenon DEF RequestInv, Holds, Issued
<1>5. \A j \in Jars : Issued(cookie[j])
  BY SessionsConstantsOK, Zenon DEF SessionsInit, Issued
<1>6. \A t \in Tokens : RowInv(t)
  BY Zenon DEF SessionsInit, RowInv
<1>7. QED
  BY <1>1, <1>4, <1>5, <1>6, Zenon DEF TokenInv

\* Requests, cookies and the table of refresh tokens agree in every reachable state.
THEOREM SessionsAgree == SessionsSpec => [](SessionsTypes /\ TokenInv)
<1>1. SessionsInit => SessionsTypes /\ TokenInv
  BY TokenInit, Zenon
<1>2. SessionsTypes /\ TokenInv /\ [SessionsNext]_sessionVars => (SessionsTypes /\ TokenInv)'
  BY TokenStep, Zenon
<1>3. QED
  BY <1>1, <1>2, PTL DEF SessionsSpec

\* Refresh exchanges a token at most once, however many requests present it at the same
\* time, and whether or not their replies arrive.
THEOREM OneSuccessorCorrect == SessionsSpec => []OneSuccessor
<1>1. SessionsTypes /\ TokenInv => OneSuccessor
  <2> SUFFICES ASSUME TokenInv, NEW t \in Tokens PROVE Cardinality(heirs[t]) <= 1
    BY Zenon DEF OneSuccessor
  <2>1. CASE heirs[t] = {}
    BY <2>1, FS_EmptySet
  <2>2. CASE \E s \in Tokens : heirs[t] = {s}
    BY <2>2, FS_Singleton
  <2>3. QED
    BY <2>1, <2>2, Zenon DEF TokenInv, RowInv
<1>2. QED
  BY <1>1, SessionsAgree, PTL

\* What reuse detection revoked stays revoked: no later step of Refresh, Login or Logout
\* makes such a token usable again.
THEOREM ReuseCorrect == SessionsSpec => []ReuseEndsSessions
<1>1. SessionsTypes /\ TokenInv => ReuseEndsSessions
  BY Zenon DEF SessionsTypes, TokenInv, RowInv, ReuseEndsSessions
<1>2. QED
  BY <1>1, SessionsAgree, PTL

-----------------------------------------------------------------------------
(* How a session ends.                                                     *)

\* What the end of a request does to the page that sent it, and to no other.
LEMMA OutcomeEffect ==
  ASSUME SessionsTypes, NEW r \in Reqs, req[r].tab \in Tabs, NEW code, Outcome(r, code)
  PROVE  /\ \A tab \in Tabs : tab # req[r].tab => status'[tab] = status[tab]
         /\ status[req[r].tab] = "authenticated" /\ status'[req[r].tab] = "anonymous" =>
              req[r].op = "logout" \/ (req[r].op = "refresh" /\ code = "unauthenticated")
         /\ req[r].op = "refresh" => inflight' = [inflight EXCEPT ![req[r].tab] = NoReq]
         /\ req[r].op # "refresh" => UNCHANGED inflight
<1>0. status \in [Tabs -> {"unknown", "authenticated", "anonymous"}]
  BY Zenon DEF SessionsTypes
<1>1. CASE req[r].op = "refresh"
  <2>1. inflight' = [inflight EXCEPT ![req[r].tab] = NoReq]
    BY <1>1, Zenon DEF Outcome, Settle
  <2>2. \/ status' = [status EXCEPT ![req[r].tab] = "authenticated"]
        \/ /\ code = "unauthenticated" \/ status[req[r].tab] = "unknown"
           /\ status' = [status EXCEPT ![req[r].tab] = "anonymous"]
        \/ UNCHANGED status
    BY <1>1, Zenon DEF Outcome, SetStore
  <2>3. QED
    BY <1>0, <1>1, <2>1, <2>2, Zenon
<1>2. CASE req[r].op = "login"
  <2>1. UNCHANGED inflight
    BY <1>2, Zenon DEF Outcome
  <2>2. \/ code = "ok" /\ status' = [status EXCEPT ![req[r].tab] = "authenticated"]
        \/ UNCHANGED status
    BY <1>2, Zenon DEF Outcome, SetStore
  <2>3. QED
    BY <1>0, <1>2, <2>1, <2>2, Zenon
<1>3. CASE req[r].op = "logout"
  <2>1. UNCHANGED inflight /\ status' = [status EXCEPT ![req[r].tab] = "anonymous"]
    BY <1>3, Zenon DEF Outcome, SetStore
  <2>2. QED
    BY <1>0, <1>3, <2>1, Zenon
<1>4. QED
  BY <1>1, <1>2, <1>3, Zenon DEF Outcome

\* Only a page that reads the body of a reply, or waits for one in vain, or is loaded
\* again, gets another status.
LEMMA StatusStep ==
  ASSUME [SessionsNext]_sessionVars
  PROVE  \/ UNCHANGED status
         \/ \E r \in Reqs : Body(r) \/ Drop(r)
         \/ \E tab \in Tabs : status' = [status EXCEPT ![tab] = "unknown"]
<1>1. ASSUME NEW r \in Reqs, Serve(r) \/ Headers(r) PROVE UNCHANGED status
  BY <1>1, Zenon DEF Serve, ServeLogin, RefreshWithoutCookie, LockToken, CommitRotation,
                     CommitRevocation, ServeLogout, RequestFails, Headers, tabVars
<1>2. ASSUME NEW tab \in Tabs, Reload(tab) PROVE status' = [status EXCEPT ![tab] = "unknown"]
  BY <1>2, Zenon DEF Reload, SetStore
<1>3. ASSUME NEW t \in Tokens, TokenExpires(t) PROVE UNCHANGED status
  BY <1>3, Zenon DEF TokenExpires, tabVars
<1>4. ASSUME NEW r \in Reqs, NEW tab, NEW op, Sends(r, op, tab) PROVE UNCHANGED status
  BY <1>4, Zenon DEF Sends
<1>5. QED
  BY <1>1, <1>2, <1>3, <1>4, SessionSteps, Zenon

\* A page that was signed in is signed out by a sign-out, or by a refusal of its own token.
LEMMA PageSignedOut ==
  ASSUME SessionsTypes, TokenInv, [SessionsNext]_sessionVars, NEW tab \in Tabs,
         status[tab] = "authenticated", status'[tab] = "anonymous"
  PROVE  \E r \in Reqs : EndsSession(r) /\ req[r].tab = tab /\ req'[r] # req[r]
<1>1. PICK r \in Reqs : Body(r) \/ Drop(r)
  BY StatusStep, Zenon DEF SessionsTypes
<1>2. req[r].awaited /\ RequestInv(r)
  BY <1>1, Zenon DEF Body, Drop, TokenInv
<1>3. req[r].stage # "unused" /\ req[r].tab \in Tabs
  BY <1>2 DEF RequestInv, Unused
<1>4. CASE Body(r)
  <2>1. req[r].stage = "headers" /\ Outcome(r, req[r].reply.code)
    BY <1>4, Zenon DEF Body
  <2>2. /\ req[r].tab = tab
        /\ \/ req[r].op = "logout"
           \/ req[r].op = "refresh" /\ req[r].reply.code = "unauthenticated"
    BY <1>3, <2>1, OutcomeEffect, Zenon
  <2>3. ReplyFits(req[r])
    BY <1>2, <2>1, Zenon DEF RequestInv
  <2>4. EndsSession(r)
    BY <1>2, <2>2, <2>3, Zenon DEF EndsSession, ReplyFits
  <2>5. req'[r] = Unused
    BY <1>4, Zenon DEF Body, SessionsTypes
  <2>6. Unused.stage = "unused"
    BY Zenon DEF Unused
  <2>7. req'[r] # req[r]
    BY <1>3, <2>5, <2>6, Zenon
  <2>8. QED
    BY <2>2, <2>4, <2>7, Zenon
<1>5. CASE Drop(r)
  <2>1. Outcome(r, "error")
    BY <1>5, Zenon DEF Drop
  <2>2. req[r].tab = tab /\ req[r].op = "logout"
    BY <1>3, <2>1, OutcomeEffect
  <2>3. EndsSession(r)
    BY <1>2, <2>2, Zenon DEF EndsSession
  <2>4. req'[r] = Unused \/ req'[r] = [req[r] EXCEPT !.awaited = FALSE]
    BY <1>5, PageReq, Zenon
  <2>5. Unused.stage = "unused" /\ req[r] \in Request
    BY Zenon DEF Unused, SessionsTypes
  <2>6. [req[r] EXCEPT !.awaited = FALSE].awaited = FALSE
    BY <2>5 DEF Request
  <2>7. req'[r] # req[r]
    BY <1>2, <1>3, <2>4, <2>5, <2>6, Zenon
  <2>8. QED
    BY <2>2, <2>3, <2>7, Zenon
<1>6. QED
  BY <1>1, <1>4, <1>5, Zenon

\* A jar loses its cookie through the headers of such a reply.
LEMMA JarEmptied ==
  ASSUME SessionsTypes, TokenInv, [SessionsNext]_sessionVars, NEW tab \in Tabs,
         cookie[JarOf[tab]] # NoToken, cookie'[JarOf[tab]] = NoToken
  PROVE  \E r \in Reqs : /\ EndsSession(r) /\ JarOf[req[r].tab] = JarOf[tab]
                          /\ req'[r] # req[r]
<1>1. PICK r \in Reqs : /\ Headers(r)
                        /\ cookie' = [cookie EXCEPT ![JarOf[req[r].tab]] = req[r].reply.set]
  BY CookieStep, Zenon
<1>2. JarOf[tab] \in Jars
  BY SessionsConstantsOK, Zenon
<1>3. JarOf[req[r].tab] = JarOf[tab] /\ req[r].reply.set = NoToken
  BY <1>1, <1>2, Zenon DEF SessionsTypes
<1>4. req[r].stage = "answered" /\ req[r].awaited /\ ReplyFits(req[r])
  BY <1>1, Zenon DEF Headers, TokenInv, RequestInv
<1>5. EndsSession(r)
  BY <1>3, <1>4, Zenon DEF EndsSession, ReplyFits
<1>6. req'[r].stage = "headers"
  BY <1>1, HeadersEffect, Zenon
<1>7. req'[r] # req[r]
  BY <1>4, <1>6, Zenon
<1>8. QED
  BY <1>3, <1>5, <1>7, Zenon

\* A session ends with a definite no: a page is signed out, and a refresh cookie taken
\* away, only by the reply to a sign-out or to a refresh whose token is dead in the table,
\* in whatever order requests overlap, fail and lose their replies.
THEOREM DefiniteNoCorrect == SessionsSpec => OnlyADefiniteNo
<1> DEFINE Step ==
      \A tab \in Tabs :
        /\ status[tab] = "authenticated" /\ status'[tab] = "anonymous"
             => \E r \in Reqs : EndsSession(r) /\ req[r].tab = tab /\ req'[r] # req[r]
        /\ cookie[JarOf[tab]] # NoToken /\ cookie'[JarOf[tab]] = NoToken
             => \E r \in Reqs : /\ EndsSession(r) /\ JarOf[req[r].tab] = JarOf[tab]
                                /\ req'[r] # req[r]
<1>1. SessionsTypes /\ TokenInv /\ [SessionsNext]_sessionVars => Step
  BY PageSignedOut, JarEmptied, Zenon
<1>2. [Step]_sessionVars =>
        [\A tab \in Tabs :
           /\ status[tab] = "authenticated" /\ status'[tab] = "anonymous"
                => \E r \in Reqs : EndsSession(r) /\ req[r].tab = tab /\ req'[r] # req[r]
           /\ cookie[JarOf[tab]] # NoToken /\ cookie'[JarOf[tab]] = NoToken
                => \E r \in Reqs : /\ EndsSession(r) /\ JarOf[req[r].tab] = JarOf[tab]
                                  /\ req'[r] # req[r]]_sessionVars
  BY Zenon
<1>3. QED
  BY <1>1, <1>2, SessionsAgree, PTL DEF SessionsSpec, OnlyADefiniteNo

-----------------------------------------------------------------------------
(* Browsers with one page each, as long as no reply is lost and no request *)
(* fails: such a page never presents a token that was exchanged before.    *)

Alone == \A a, b \in Tabs : JarOf[a] = JarOf[b] => a = b

Refreshing(r) == req[r].op = "refresh" /\ req[r].stage # "unused"
JarFor(r) == JarOf[req[r].tab]
InTransit(r, t) == req[r].stage = "answered" /\ req[r].reply.set = t

\* Somebody waits for every request, and a page has one refresh under way at a time.
Waited == \A r \in Reqs : req[r].stage # "unused" => req[r].awaited
OneRefresh == \A r \in Reqs : Refreshing(r) => inflight[req[r].tab] = r

\* The server has not answered yet.
Pending(q) == q.stage \in {"sent", "rotating", "revoking"}

\* What a refresh presents was not exchanged yet.
NotExchanged ==
  \A r \in Reqs : Refreshing(r) /\ Pending(req[r]) /\ req[r].token \in Tokens
                    => heirs[req[r].token] = {}

\* A cookie that was exchanged is about to be replaced.
AboutToChange(j) ==
  \E r \in Reqs : /\ Refreshing(r) /\ JarFor(r) = j
                  /\ req[r].stage = "answered" /\ req[r].reply.set \in Tokens

CookiesCurrent ==
  \A j \in Jars : cookie[j] \in Tokens /\ heirs[cookie[j]] # {} => AboutToChange(j)

\* No token is known to two browsers.
JarsApart ==
  /\ \A i, j \in Jars : cookie[i] \in Tokens /\ cookie[i] = cookie[j] => i = j
  /\ \A r \in Reqs, j \in Jars : req[r].token \in Tokens /\ req[r].token = cookie[j]
                                   => JarFor(r) = j
  /\ \A r, q \in Reqs : req[r].token \in Tokens /\ req[r].token = req[q].token
                          => JarFor(r) = JarFor(q)

\* A token that is on its way to a browser has never been used.
Untouched(t) ==
  heirs[t] = {} /\ (\A j \in Jars : cookie[j] # t) /\ (\A q \in Reqs : req[q].token # t)

TransitFresh ==
  \A r \in Reqs, t \in Tokens :
    InTransit(r, t) => Untouched(t) /\ \A q \in Reqs : InTransit(q, t) => q = r

Honest == /\ Waited /\ OneRefresh /\ NotExchanged /\ CookiesCurrent /\ JarsApart
          /\ TransitFresh

HonestInv == ~trouble /\ Alone => Honest

\* Two pages of the same browser are one.
LEMMA AloneFact ==
  ASSUME Alone, TokenInv, NEW r \in Reqs, NEW tab \in Tabs, Refreshing(r), JarFor(r) = JarOf[tab]
  PROVE  req[r].tab = tab
  BY Zenon DEF Alone, TokenInv, RequestInv, Refreshing, JarFor

\* A page sends a request: a refresh only when it has none under way.
LEMMA HonestSend ==
  ASSUME SessionsTypes, TokenInv, Alone, Honest, NEW r \in Reqs, NEW tab \in Tabs,
         NEW op \in {"login", "refresh", "logout"}, Sends(r, op, tab)
  PROVE  Honest'
<1> DEFINE jar == JarOf[tab]
<1>1. /\ req[r] = Unused /\ Puts(r) /\ IsSent(req'[r], op, tab)
      /\ jar \in Jars /\ UNCHANGED <<cookie, heirs>>
  <2>1. Send(r, op, tab)
    BY Zenon DEF Sends
  <2>2. UNCHANGED <<cookie, heirs>>
    BY Zenon DEF Sends, history
  <2>3. QED
    BY <2>1, <2>2, SendEffect, SessionsConstantsOK, Zenon
<1>2. /\ req'[r].stage = "sent" /\ req'[r].op = op /\ req'[r].tab = tab
      /\ req'[r].token = cookie[jar] /\ JarFor(r)' = jar /\ req'[r].awaited
  BY <1>1, Zenon DEF IsSent, JarFor
<1>3. /\ req[r].stage = "unused" /\ ~Refreshing(r) /\ \A t : ~InTransit(r, t) /\ ~InTransit(r, t)'
  BY <1>1, <1>2 DEF Unused, Refreshing, InTransit
<1>4. ASSUME NEW q \in Reqs, q # r
      PROVE  /\ req'[q] = req[q] /\ (Refreshing(q)' <=> Refreshing(q)) /\ JarFor(q)' = JarFor(q)
             /\ \A t : InTransit(q, t)' <=> InTransit(q, t)
  BY <1>1, <1>4, Zenon DEF Puts, Refreshing, JarFor, InTransit
<1> HIDE DEF jar
<1>5. op = "refresh" => inflight[tab] = NoReq /\ inflight' = [inflight EXCEPT ![tab] = r]
  BY Zenon DEF Sends
<1>6. op # "refresh" => UNCHANGED inflight
  BY Zenon DEF Sends
<1>7. Waited'
  BY <1>2, <1>4, Zenon DEF Honest, Waited
<1>8. OneRefresh'
  <2>1. ASSUME NEW q \in Reqs, Refreshing(q)', q # r PROVE inflight'[req'[q].tab] = q
    <3>0. req[q].tab \in Tabs
      BY <1>4, <2>1, Zenon DEF TokenInv, RequestInv, Refreshing
    <3>1. inflight[req[q].tab] = q /\ req'[q].tab = req[q].tab
      BY <1>4, <2>1, Zenon DEF Honest, OneRefresh
    <3>2. op = "refresh" => req[q].tab # tab
      BY <1>5, <3>1, SessionsConstantsOK, Zenon
    <3>3. CASE op = "refresh"
      BY <1>5, <3>0, <3>1, <3>2, <3>3 DEF SessionsTypes
    <3>4. CASE op # "refresh"
      BY <1>6, <3>1, <3>4, Zenon
    <3>5. QED
      BY <3>3, <3>4, Zenon
  <2>2. ASSUME Refreshing(r)' PROVE inflight'[req'[r].tab] = r
    BY <1>2, <1>5, <2>2, Zenon DEF Refreshing, SessionsTypes
  <2>3. QED
    BY <2>1, <2>2, Zenon DEF OneRefresh
<1>9. NotExchanged'
  <2>1. ASSUME Refreshing(r)', req'[r].token \in Tokens PROVE heirs'[req'[r].token] = {}
    <3>1. SUFFICES ASSUME heirs[cookie[jar]] # {} PROVE FALSE
      BY <1>1, <1>2, Zenon
    <3>2. PICK p \in Reqs : Refreshing(p) /\ JarFor(p) = jar
      BY <1>1, <1>2, <2>1, <3>1, Zenon DEF Honest, CookiesCurrent, AboutToChange
    <3>3. req[p].tab = tab
      BY <3>2, AloneFact, Zenon DEF jar
    <3>4. inflight[tab] = p
      BY <3>2, <3>3, Zenon DEF Honest, OneRefresh
    <3>5. QED
      BY <1>2, <1>5, <2>1, <3>4, SessionsConstantsOK, Zenon DEF Refreshing
  <2>2. QED
    BY <1>1, <1>4, <2>1, Zenon DEF Honest, NotExchanged
<1>10. CookiesCurrent'
  <2>1. ASSUME NEW j \in Jars, AboutToChange(j) PROVE AboutToChange(j)'
    BY <1>3, <1>4, <2>1, Zenon DEF AboutToChange
  <2>2. QED
    BY <1>1, <2>1, Zenon DEF Honest, CookiesCurrent
<1>11. JarsApart'
  <2>1. ASSUME NEW q \in Reqs, NEW j \in Jars, req'[q].token \in Tokens, req'[q].token = cookie[j]
        PROVE  JarFor(q)' = j
    BY <1>1, <1>2, <1>4, <2>1 DEF Honest, JarsApart
  <2>2. ASSUME NEW p \in Reqs, NEW q \in Reqs, req'[p].token \in Tokens,
               req'[p].token = req'[q].token
        PROVE  JarFor(p)' = JarFor(q)'
    <3>1. CASE p # r /\ q # r
      BY <1>4, <2>2, <3>1 DEF Honest, JarsApart
    <3>2. CASE p = r
      BY <1>1, <1>2, <2>1, <2>2, <3>2, Zenon
    <3>3. CASE q = r
      BY <1>1, <1>2, <2>1, <2>2, <3>3, Zenon
    <3>4. QED
      BY <3>1, <3>2, <3>3, Zenon
  <2>3. QED
    BY <1>1, <2>1, <2>2, Zenon DEF Honest, JarsApart
<1>12. TransitFresh'
  <2>1. ASSUME NEW q \in Reqs, NEW t \in Tokens, InTransit(q, t)'
        PROVE  Untouched(t)' /\ \A p \in Reqs : InTransit(p, t)' => p = q
    <3>1. q # r /\ InTransit(q, t)
      BY <1>3, <1>4, <2>1, Zenon
    <3>2. Untouched(t) /\ \A p \in Reqs : InTransit(p, t) => p = q
      BY <3>1, Zenon DEF Honest, TransitFresh
    <3>3. Untouched(t)'
      BY <1>1, <1>2, <1>4, <3>2, Zenon DEF Untouched
    <3>4. QED
      BY <1>3, <1>4, <3>2, <3>3, Zenon
  <2>2. QED
    BY <2>1, Zenon DEF TransitFresh
<1>13. QED
  BY <1>7, <1>8, <1>9, <1>10, <1>11, <1>12, Zenon DEF Honest

\* Serving leaves what the request asked for alone.
SameRequest(r) ==
  /\ req'[r].op = req[r].op /\ req'[r].tab = req[r].tab /\ req'[r].token = req[r].token
  /\ req'[r].awaited

\* The four ways to serve a request that somebody waits for, when nothing fails.
LEMMA QuietServe ==
  ASSUME SessionsTypes, TokenInv, NEW r \in Reqs, Serve(r), req[r].awaited, ~trouble'
  PROVE  /\ Puts(r) /\ SameRequest(r) /\ req[r].stage \in {"sent", "rotating", "revoking"}
         /\ UNCHANGED <<cookie, inflight>>
         /\ \/ req'[r].stage \in {"rotating", "revoking"} /\ UNCHANGED heirs
            \/ req'[r].stage = "answered" /\ req'[r].reply.set \notin Tokens /\ UNCHANGED heirs
            \/ /\ req'[r].stage = "answered" /\ req'[r].reply.set \in Tokens
               /\ req[r].op = "login" /\ row[req'[r].reply.set] = "none" /\ UNCHANGED heirs
            \/ /\ req'[r].stage = "answered" /\ req'[r].reply.set \in Tokens
               /\ req[r].op = "refresh" /\ row[req'[r].reply.set] = "none"
               /\ req[r].token \in Tokens /\ req[r].token # req'[r].reply.set
               /\ heirs' = [heirs EXCEPT ![req[r].token] = {req'[r].reply.set}]
<1> DEFINE Frame == /\ Puts(r) /\ SameRequest(r) /\ req[r].stage \in {"sent", "rotating", "revoking"}
                    /\ UNCHANGED <<cookie, inflight>>
           Goal == /\ Frame
                   /\ \/ req'[r].stage \in {"rotating", "revoking"} /\ UNCHANGED heirs
                      \/ /\ req'[r].stage = "answered" /\ req'[r].reply.set \notin Tokens
                         /\ UNCHANGED heirs
                      \/ /\ req'[r].stage = "answered" /\ req'[r].reply.set \in Tokens
                         /\ req[r].op = "login" /\ row[req'[r].reply.set] = "none"
                         /\ UNCHANGED heirs
                      \/ /\ req'[r].stage = "answered" /\ req'[r].reply.set \in Tokens
                         /\ req[r].op = "refresh" /\ row[req'[r].reply.set] = "none"
                         /\ req[r].token \in Tokens /\ req[r].token # req'[r].reply.set
                         /\ heirs' = [heirs EXCEPT ![req[r].token] = {req'[r].reply.set}]
<1>1. UNCHANGED <<cookie, inflight>>
  BY Zenon DEF Serve, ServeLogin, RefreshWithoutCookie, LockToken, CommitRotation,
               CommitRevocation, ServeLogout, RequestFails, tabVars
<1>2. ASSUME NEW code \in {"ok", "unauthenticated", "error"},
             NEW set \in Tokens \cup {NoToken, Keep}, Answer(r, code, set)
      PROVE  /\ Puts(r) /\ SameRequest(r) /\ req'[r].stage = "answered"
             /\ req'[r].reply.set = set
  BY <1>2, AnswerEffect DEF IsAnswered, SameRequest
<1>3. ASSUME NEW code \in {"ok", "unauthenticated", "error"}, NEW set \in {NoToken, Keep},
             Answer(r, code, set), UNCHANGED heirs, req[r].stage \in {"sent", "rotating", "revoking"}
      PROVE  Goal
  <2>1. set \notin Tokens
    BY SessionsConstantsOK, Zenon
  <2>2. /\ Puts(r) /\ SameRequest(r) /\ req'[r].stage = "answered"
        /\ req'[r].reply.set = set
    BY <1>2, <1>3, Zenon
  <2>3. QED
    BY <1>1, <1>3, <2>1, <2>2, Zenon
<1>4. ASSUME ServeLogin(r) PROVE Goal
  <2>1. UNCHANGED heirs /\ req[r].stage = "sent" /\ req[r].op = "login"
    BY <1>4, Zenon DEF ServeLogin, history
  <2>2. CASE Answer(r, "unauthenticated", Keep)
    BY <1>3, <2>1, <2>2, Zenon
  <2>3. ASSUME NEW t \in Tokens, IsFresh(t), Answer(r, "ok", t) PROVE Goal
    BY <1>1, <1>2, <2>1, <2>3, Zenon DEF IsFresh
  <2>4. QED
    BY <1>4, <2>2, <2>3, Zenon DEF ServeLogin
<1>5. ASSUME RefreshWithoutCookie(r) PROVE Goal
  <2>1. UNCHANGED heirs /\ req[r].stage = "sent" /\ Answer(r, "unauthenticated", Keep)
    BY <1>5, Zenon DEF RefreshWithoutCookie, history
  <2>2. QED
    BY <1>3, <2>1, Zenon
<1>6. ASSUME LockToken(r) PROVE Goal
  <2>0. UNCHANGED heirs /\ req[r].stage = "sent"
    BY <1>6, Zenon DEF LockToken, history
  <2>1. Issued(req[r].token)
    BY Zenon DEF TokenInv, RequestInv
  <2>2. CASE Refuse(r)
    BY <1>3, <2>0, <2>2, Zenon DEF Refuse
  <2>3. CASE ~Refuse(r)
    <3>1. /\ Puts(r) /\ req'[r].stage \in {"rotating", "revoking"}
          /\ req'[r].op = req[r].op /\ req'[r].tab = req[r].tab /\ req'[r].token = req[r].token
          /\ req'[r].awaited = req[r].awaited
      BY <1>6, <2>1, <2>3, LockEffect, Zenon
    <3>2. SameRequest(r)
      BY <3>1, Zenon DEF SameRequest
    <3>3. QED
      BY <1>1, <2>0, <3>1, <3>2, Zenon
  <2>4. QED
    BY <2>2, <2>3, Zenon
<1>7. ASSUME CommitRotation(r) PROVE Goal
  <2>1. PICK t \in Tokens :
          /\ req[r].stage = "rotating" /\ req[r].op = "refresh" /\ req[r].token \in Tokens
          /\ t # req[r].token /\ row[t] = "none"
          /\ heirs' = [heirs EXCEPT ![req[r].token] = {t}]
          /\ Answer(r, "ok", t)
    BY <1>7, RotationEffect, Zenon
  <2>2. QED
    BY <1>1, <1>2, <2>1, Zenon
<1>8. ASSUME CommitRevocation(r) PROVE Goal
  <2>1. UNCHANGED heirs /\ req[r].stage = "revoking" /\ Answer(r, "unauthenticated", NoToken)
    BY <1>8, Zenon DEF CommitRevocation, Refuse
  <2>2. QED
    BY <1>3, <2>1, Zenon
<1>9. ASSUME ServeLogout(r) PROVE Goal
  <2>1. UNCHANGED heirs /\ req[r].stage = "sent" /\ Answer(r, "ok", NoToken)
    BY <1>9, Zenon DEF ServeLogout
  <2>2. QED
    BY <1>3, <2>1, Zenon
<1>10. ~RequestFails(r)
  BY Zenon DEF RequestFails
<1> HIDE DEF Goal
<1>11. Goal
  BY <1>4, <1>5, <1>6, <1>7, <1>8, <1>9, <1>10, Zenon DEF Serve
<1>12. QED
  BY <1>11, Zenon DEF Goal

\* Serving a request: only the exchange of a token has something to keep, and the one
\* request that presents the token is the one that gets the new one.
LEMMA HonestServe ==
  ASSUME SessionsTypes, TokenInv, Alone, Honest, NEW r \in Reqs, Serve(r), ~trouble'
  PROVE  Honest'
<1> DEFINE set == req'[r].reply.set
           Exchanged == /\ req'[r].stage = "answered" /\ set \in Tokens
                        /\ req[r].op = "refresh" /\ row[set] = "none"
                        /\ req[r].token \in Tokens /\ req[r].token # set
                        /\ heirs' = [heirs EXCEPT ![req[r].token] = {set}]
<1>1. req[r].awaited
  BY Zenon DEF Serve, ServeLogin, RefreshWithoutCookie, LockToken, CommitRotation, CommitRevocation,
         ServeLogout, RequestFails, Honest, Waited
<1>2. /\ Puts(r) /\ SameRequest(r) /\ req[r].stage \in {"sent", "rotating", "revoking"}
      /\ UNCHANGED <<cookie, inflight>>
      /\ req'[r].stage \in {"rotating", "revoking", "answered"}
      /\ UNCHANGED heirs \/ Exchanged
      /\ req'[r].stage = "answered" /\ set \in Tokens => row[set] = "none"
  BY <1>1, QuietServe, Zenon
<1>3. /\ heirs \in [Tokens -> SUBSET Tokens]
      /\ \A q \in Reqs : req[q].stage # "unused" => req[q].tab \in Tabs
  BY Zenon DEF SessionsTypes, TokenInv, RequestInv
<1> HIDE DEF set
<1>4. ASSUME NEW q \in Reqs
      PROVE  /\ req'[q].op = req[q].op /\ req'[q].tab = req[q].tab /\ req'[q].token = req[q].token
             /\ (Refreshing(q)' <=> Refreshing(q)) /\ JarFor(q)' = JarFor(q)
             /\ q # r => req'[q] = req[q]
  <2>1. CASE q = r
    BY <1>2, <2>1, Zenon DEF SameRequest, Refreshing, JarFor
  <2>2. CASE q # r
    BY <1>2, <2>2, Zenon DEF Puts, Refreshing, JarFor
  <2>3. QED
    BY <2>1, <2>2, Zenon
<1>5. \A q \in Reqs : q # r => \A t : InTransit(q, t)' <=> InTransit(q, t)
  BY <1>4, Zenon DEF InTransit
<1>6. \A t \in Tokens : InTransit(r, t)' => row[t] = "none"
  BY <1>2, Zenon DEF InTransit, set
<1>7. \A t \in Tokens : heirs'[t] = heirs[t] \/ (Exchanged /\ t = req[r].token)
  BY <1>2, <1>3, Zenon
<1>8. ASSUME NEW t \in Tokens, row[t] = "none"
      PROVE  Untouched(t) /\ \A q \in Reqs : ~InTransit(q, t)
  BY <1>8 DEF TokenInv, RequestInv, RowInv, ReplyFits, Issued, Untouched, InTransit
<1>9. Waited'
  BY <1>2, <1>4, Zenon DEF Honest, Waited, SameRequest
<1>10. OneRefresh'
  BY <1>2, <1>4, Zenon DEF Honest, OneRefresh
<1>11. NotExchanged'
  <2>1. ASSUME NEW q \in Reqs, Refreshing(q), Pending(req'[q]), req[q].token \in Tokens
        PROVE  heirs'[req[q].token] = {}
    <3>1. Pending(req[q])
      BY <1>2, <1>4, <2>1, Zenon DEF Pending
    <3>2. heirs[req[q].token] = {}
      BY <2>1, <3>1, Zenon DEF Honest, NotExchanged
    <3>3. ASSUME Exchanged, req[q].token = req[r].token PROVE FALSE
      <4>0. q # r
        BY <2>1, <3>3, Zenon DEF Pending
      <4>1. q # r /\ Refreshing(r)
        BY <1>2, <3>3, <4>0, Zenon DEF Refreshing
      <4>2. JarFor(q) = JarFor(r)
        BY <2>1, <3>3, Zenon DEF Honest, JarsApart
      <4>3. req[q].tab = req[r].tab
        BY <1>2, <1>3, <2>1, <4>2, AloneFact, Zenon DEF JarFor
      <4>4. inflight[req[q].tab] = q /\ inflight[req[r].tab] = r
        BY <2>1, <4>1, Zenon DEF Honest, OneRefresh
      <4>5. QED
        BY <4>1, <4>3, <4>4, Zenon
    <3>4. QED
      BY <1>7, <2>1, <3>2, <3>3, Zenon
  <2>2. QED
    BY <1>4, <2>1, Zenon DEF NotExchanged
<1>12. CookiesCurrent'
  <2>1. ASSUME NEW j \in Jars, AboutToChange(j) PROVE AboutToChange(j)'
    BY <1>2, <1>4, <2>1, Zenon DEF AboutToChange
  <2>2. ASSUME NEW j \in Jars, cookie[j] \in Tokens, heirs'[cookie[j]] # {}
        PROVE  AboutToChange(j)'
    <3>1. CASE heirs'[cookie[j]] = heirs[cookie[j]]
      BY <2>1, <2>2, <3>1, Zenon DEF Honest, CookiesCurrent
    <3>2. CASE Exchanged /\ cookie[j] = req[r].token
      <4>1. JarFor(r) = j
        BY <2>2, <3>2, Zenon DEF Honest, JarsApart
      <4>2. Refreshing(r)
        BY <1>2, <3>2, Zenon DEF Refreshing
      <4>3. QED
        BY <1>4, <3>2, <4>1, <4>2, Zenon DEF AboutToChange, set
    <3>3. QED
      BY <1>7, <2>2, <3>1, <3>2, Zenon
  <2>3. QED
    BY <1>2, <2>2, Zenon DEF CookiesCurrent
<1>13. JarsApart'
  BY <1>2, <1>4 DEF Honest, JarsApart
<1>14. TransitFresh'
  <2>1. ASSUME NEW t \in Tokens, Untouched(t) PROVE Untouched(t)'
    BY <1>2, <1>4, <1>7, <2>1 DEF Untouched
  <2>2. ASSUME NEW q \in Reqs, NEW t \in Tokens, InTransit(q, t)'
        PROVE  Untouched(t)' /\ \A p \in Reqs : InTransit(p, t)' => p = q
    <3>1. CASE row[t] = "none"
      BY <1>5, <1>8, <2>1, <2>2, <3>1, Zenon
    <3>2. CASE row[t] # "none"
      <4>1. q # r /\ InTransit(q, t) /\ ~InTransit(r, t)'
        BY <1>5, <1>6, <2>2, <3>2, Zenon
      <4>2. Untouched(t) /\ \A p \in Reqs : InTransit(p, t) => p = q
        BY <4>1, Zenon DEF Honest, TransitFresh
      <4>3. QED
        BY <1>5, <2>1, <4>1, <4>2, Zenon
    <3>3. QED
      BY <3>1, <3>2, Zenon
  <2>3. QED
    BY <2>2, Zenon DEF TransitFresh
<1>15. QED
  BY <1>9, <1>10, <1>11, <1>12, <1>13, <1>14, Zenon DEF Honest

\* The headers of a reply arrive: the token they bring takes the place of the one that
\* was exchanged.
LEMMA HonestHeaders ==
  ASSUME SessionsTypes, TokenInv, Alone, Honest, NEW r \in Reqs, Headers(r)
  PROVE  Honest'
<1> DEFINE set == req[r].reply.set
           jar == JarFor(r)
<1>1. /\ req[r].stage = "answered" /\ req[r].tab \in Tabs /\ jar \in Jars
      /\ cookie' = IF set = Keep THEN cookie ELSE [cookie EXCEPT ![jar] = set]
  BY SessionsConstantsOK, Zenon DEF Headers, TokenInv, RequestInv, JarFor
<1>2. UNCHANGED <<heirs, inflight>>
  BY Zenon DEF Headers, history, tabVars
<1>3. ASSUME NEW q \in Reqs
      PROVE  /\ req'[q].op = req[q].op /\ req'[q].tab = req[q].tab /\ req'[q].token = req[q].token
             /\ req'[q].awaited = req[q].awaited
             /\ (Refreshing(q)' <=> Refreshing(q)) /\ JarFor(q)' = JarFor(q)
             /\ q # r => req'[q] = req[q]
             /\ q = r => req'[q].stage = "headers"
  <2>1. CASE q = r
    BY <1>1, <2>1, HeadersEffect, Zenon DEF Refreshing, JarFor
  <2>2. CASE q # r
    BY <2>2, HeadersEffect, Zenon DEF Puts, Refreshing, JarFor
  <2>3. QED
    BY <2>1, <2>2, Zenon
<1>4. \A q \in Reqs, t \in Tokens : InTransit(q, t)' <=> q # r /\ InTransit(q, t)
  BY <1>3, Zenon DEF InTransit
<1>5. \A t \in Tokens : InTransit(r, t) <=> set = t
  BY <1>1, Zenon DEF InTransit
<1>6. /\ cookie \in [Jars -> Tokens \cup {NoToken}]
      /\ NoToken \notin Tokens /\ Keep \notin Tokens
  BY SessionsConstantsOK, Zenon DEF SessionsTypes
<1>7. /\ \A j \in Jars : cookie'[j] = cookie[j] \/ (j = jar /\ cookie'[j] = set)
      /\ set \in Tokens => cookie'[jar] = set
  BY <1>1, <1>6, Zenon
<1>8. set \in Tokens => Untouched(set) /\ \A q \in Reqs : InTransit(q, set) => q = r
  BY <1>5, Zenon DEF Honest, TransitFresh
<1> HIDE DEF set, jar
<1>9. Waited'
  <2>1. req[r].awaited
    BY <1>1, Zenon DEF Honest, Waited
  <2>2. QED
    BY <1>3, <2>1, Zenon DEF Honest, Waited
<1>10. OneRefresh'
  BY <1>2, <1>3, Zenon DEF Honest, OneRefresh
<1>11. NotExchanged'
  <2>1. ASSUME NEW q \in Reqs, Pending(req'[q]) PROVE q # r /\ req'[q] = req[q]
    BY <1>3, <2>1, Zenon DEF Pending
  <2>2. QED
    BY <1>2, <1>3, <2>1, Zenon DEF Honest, NotExchanged
<1>12. CookiesCurrent'
  <2>1. ASSUME NEW j \in Jars, cookie'[j] \in Tokens, heirs[cookie'[j]] # {}
        PROVE  AboutToChange(j)'
    <3>1. cookie'[j] = cookie[j] /\ ~(set \in Tokens /\ j = jar)
      BY <1>7, <1>8, <2>1, Zenon DEF Untouched
    <3>2. AboutToChange(j)
      BY <2>1, <3>1, Zenon DEF Honest, CookiesCurrent
    <3>3. PICK p \in Reqs : /\ Refreshing(p) /\ JarFor(p) = j
                            /\ req[p].stage = "answered" /\ req[p].reply.set \in Tokens
      BY <3>2, Zenon DEF AboutToChange
    <3>4. p # r
      BY <3>1, <3>3, Zenon DEF set, jar
    <3>5. /\ Refreshing(p)' /\ JarFor(p)' = j
          /\ req'[p].stage = "answered" /\ req'[p].reply.set \in Tokens
      BY <1>3, <3>3, <3>4, Zenon
    <3>6. QED
      BY <3>5, Zenon DEF AboutToChange
  <2>2. QED
    BY <1>2, <2>1, Zenon DEF CookiesCurrent
<1>13. JarsApart'
  <2>1. ASSUME NEW i \in Jars, NEW j \in Jars, cookie'[i] \in Tokens, cookie'[i] = cookie'[j]
        PROVE  i = j
    BY <1>7, <1>8, <2>1, Zenon DEF Honest, JarsApart, Untouched
  <2>2. ASSUME NEW q \in Reqs, NEW j \in Jars, req'[q].token \in Tokens,
               req'[q].token = cookie'[j]
        PROVE  JarFor(q)' = j
    <3>1. req'[q].token = req[q].token /\ JarFor(q)' = JarFor(q)
      BY <1>3, Zenon
    <3>2. cookie'[j] = cookie[j]
      BY <1>7, <1>8, <2>2, <3>1, Zenon DEF Untouched
    <3>3. QED
      BY <2>2, <3>1, <3>2, Zenon DEF Honest, JarsApart
  <2>3. ASSUME NEW p \in Reqs, NEW q \in Reqs, req'[p].token \in Tokens,
               req'[p].token = req'[q].token
        PROVE  JarFor(p)' = JarFor(q)'
    BY <1>3, <2>3 DEF Honest, JarsApart
  <2>4. QED
    BY <2>1, <2>2, <2>3, Zenon DEF JarsApart
<1>14. TransitFresh'
  <2>1. ASSUME NEW q \in Reqs, NEW t \in Tokens, InTransit(q, t)'
        PROVE  Untouched(t)' /\ \A p \in Reqs : InTransit(p, t)' => p = q
    <3>1. q # r /\ InTransit(q, t)
      BY <1>4, <2>1, Zenon
    <3>2. Untouched(t) /\ \A p \in Reqs : InTransit(p, t) => p = q
      BY <3>1, Zenon DEF Honest, TransitFresh
    <3>3. set # t
      BY <1>8, <3>1, Zenon
    <3>4. Untouched(t)'
      BY <1>2, <1>3, <1>7, <3>2, <3>3, Zenon DEF Untouched
    <3>5. QED
      BY <1>4, <3>2, <3>4, Zenon
  <2>2. QED
    BY <2>1, Zenon DEF TransitFresh
<1>15. QED
  BY <1>9, <1>10, <1>11, <1>12, <1>13, <1>14, Zenon DEF Honest

\* The page has read the reply: its request is over, and it may send the next one.
LEMMA HonestBody ==
  ASSUME SessionsTypes, TokenInv, Alone, Honest, NEW r \in Reqs, Body(r)
  PROVE  Honest'
<1>1. /\ req[r].stage = "headers" /\ req[r].tab \in Tabs /\ req' = [req EXCEPT ![r] = Unused]
      /\ Outcome(r, req[r].reply.code)
  BY Zenon DEF Body, TokenInv, RequestInv
<1>2. UNCHANGED <<heirs, cookie>>
  BY Zenon DEF Body, history
<1>3. /\ req'[r].stage = "unused" /\ req'[r].token = NoToken /\ NoToken \notin Tokens
      /\ ~Refreshing(r)' /\ \A t : ~InTransit(r, t)'
  BY <1>1, SessionsConstantsOK, Zenon DEF Unused, SessionsTypes, Refreshing, InTransit
<1>4. ASSUME NEW q \in Reqs, q # r
      PROVE  /\ req'[q] = req[q] /\ (Refreshing(q)' <=> Refreshing(q)) /\ JarFor(q)' = JarFor(q)
             /\ \A t : InTransit(q, t)' <=> InTransit(q, t)
  BY <1>1, <1>4, Zenon DEF SessionsTypes, Refreshing, JarFor, InTransit
<1>5. /\ req[r].op = "refresh" => inflight' = [inflight EXCEPT ![req[r].tab] = NoReq]
      /\ req[r].op # "refresh" => UNCHANGED inflight
  BY <1>1, OutcomeEffect, Zenon
<1>6. Waited'
  BY <1>3, <1>4, Zenon DEF Honest, Waited
<1>7. OneRefresh'
  <2>1. ASSUME NEW q \in Reqs, q # r, Refreshing(q) PROVE inflight'[req[q].tab] = q
    <3>1. inflight[req[q].tab] = q /\ req[q].tab \in Tabs
      BY <2>1, Zenon DEF Honest, OneRefresh, TokenInv, RequestInv, Refreshing
    <3>2. req[r].op = "refresh" => req[q].tab # req[r].tab
      BY <1>1, <2>1, <3>1, Zenon DEF Honest, OneRefresh, Refreshing
    <3>3. QED
      BY <1>5, <3>1, <3>2, Zenon DEF SessionsTypes
  <2>2. QED
    BY <1>3, <1>4, <2>1, Zenon DEF OneRefresh
<1>8. NotExchanged'
  BY <1>2, <1>3, <1>4, Zenon DEF Honest, NotExchanged
<1>9. CookiesCurrent'
  <2>1. ASSUME NEW j \in Jars, AboutToChange(j) PROVE AboutToChange(j)'
    <3>1. PICK p \in Reqs : /\ Refreshing(p) /\ JarFor(p) = j
                            /\ req[p].stage = "answered" /\ req[p].reply.set \in Tokens
      BY <2>1, Zenon DEF AboutToChange
    <3>2. p # r
      BY <1>1, <3>1, Zenon
    <3>3. /\ Refreshing(p)' /\ JarFor(p)' = j
          /\ req'[p].stage = "answered" /\ req'[p].reply.set \in Tokens
      BY <1>4, <3>1, <3>2, Zenon
    <3>4. QED
      BY <3>3, Zenon DEF AboutToChange
  <2>2. QED
    BY <1>2, <2>1, Zenon DEF Honest, CookiesCurrent
<1>10. JarsApart'
  <2>1. ASSUME NEW q \in Reqs, req'[q].token \in Tokens PROVE q # r
    BY <1>3, <2>1, Zenon
  <2>2. QED
    BY <1>2, <1>4, <2>1 DEF Honest, JarsApart
<1>11. TransitFresh'
  <2>1. ASSUME NEW q \in Reqs, NEW t \in Tokens, InTransit(q, t)'
        PROVE  Untouched(t)' /\ \A p \in Reqs : InTransit(p, t)' => p = q
    <3>1. q # r /\ InTransit(q, t)
      BY <1>3, <1>4, <2>1, Zenon
    <3>2. Untouched(t) /\ \A p \in Reqs : InTransit(p, t) => p = q
      BY <3>1, Zenon DEF Honest, TransitFresh
    <3>3. Untouched(t)'
      BY <1>2, <1>3, <1>4, <3>2, Zenon DEF Untouched
    <3>4. QED
      BY <1>3, <1>4, <3>2, <3>3, Zenon
  <2>2. QED
    BY <2>1, Zenon DEF TransitFresh
<1>12. QED
  BY <1>6, <1>7, <1>8, <1>9, <1>10, <1>11, Zenon DEF Honest

\* Steps that touch no request, cookie or exchanged token.
LEMMA HonestFrame ==
  ASSUME Honest, UNCHANGED <<req, cookie, heirs>>,
         \A r \in Reqs : Refreshing(r) => inflight'[req[r].tab] = inflight[req[r].tab]
  PROVE  Honest'
<1>1. \A r \in Reqs : /\ (Refreshing(r)' <=> Refreshing(r)) /\ JarFor(r)' = JarFor(r)
                      /\ \A t : InTransit(r, t)' <=> InTransit(r, t)
  BY Zenon DEF Refreshing, JarFor, InTransit
<1>2. Waited' /\ OneRefresh'
  BY <1>1, Zenon DEF Honest, Waited, OneRefresh
<1>3. NotExchanged' /\ CookiesCurrent'
  BY <1>1, Zenon DEF Honest, NotExchanged, CookiesCurrent, AboutToChange
<1>4. JarsApart' /\ TransitFresh'
  BY <1>1 DEF Honest, JarsApart, TransitFresh, Untouched
<1>5. QED
  BY <1>2, <1>3, <1>4, Zenon DEF Honest

\* A page is loaded again while it waits for nothing.
LEMMA HonestReload ==
  ASSUME SessionsTypes, TokenInv, Honest, NEW tab \in Tabs, Reload(tab), ~trouble'
  PROVE  Honest'
<1> DEFINE mine == {r \in Reqs : req[r].awaited /\ req[r].tab = tab}
<1>1. req' = Abandoned(mine) /\ mine = {} /\ inflight' = [inflight EXCEPT ![tab] = NoReq]
  BY Zenon DEF Reload
<1>2. UNCHANGED <<cookie, heirs>>
  BY Zenon DEF Reload, history
<1>3. UNCHANGED req
  BY <1>1, Zenon DEF Abandoned, SessionsTypes
<1>4. ASSUME NEW r \in Reqs, Refreshing(r) PROVE inflight'[req[r].tab] = inflight[req[r].tab]
  <2>1. req[r].awaited /\ req[r].tab \in Tabs
    BY <1>4, Zenon DEF Honest, Waited, TokenInv, RequestInv, Refreshing
  <2>2. req[r].tab # tab
    BY <1>1, <2>1, Zenon
  <2>3. QED
    BY <1>1, <2>1, <2>2, Zenon DEF SessionsTypes
<1>5. QED
  BY <1>2, <1>3, <1>4, HonestFrame, Zenon

\* Once a reply was lost or a request failed, the histories say so for good.
LEMMA TroubleStays ==
  ASSUME SessionsTypes, [SessionsNext]_sessionVars, trouble
  PROVE  trouble'
<1>1. ASSUME NEW r \in Reqs, Serve(r) \/ Headers(r) \/ Body(r) \/ Drop(r) PROVE trouble'
  BY <1>1, Zenon DEF Serve, ServeLogin, RefreshWithoutCookie, LockToken, CommitRotation,
                     CommitRevocation, ServeLogout, RequestFails, Headers, Body, Drop
<1>2. ASSUME NEW tab \in Tabs, Reload(tab) PROVE trouble'
  BY <1>2, Zenon DEF Reload
<1>3. ASSUME NEW t \in Tokens, TokenExpires(t) PROVE trouble'
  BY <1>3, Zenon DEF TokenExpires
<1>4. ASSUME NEW r \in Reqs, NEW tab, NEW op, Sends(r, op, tab) PROVE trouble'
  BY <1>4, Zenon DEF Sends
<1>5. QED
  BY <1>1, <1>2, <1>3, <1>4, SessionSteps, Zenon

\* The invariant of browsers with one page each.
LEMMA HonestStep ==
  ASSUME SessionsTypes, TokenInv, HonestInv, [SessionsNext]_sessionVars
  PROVE  HonestInv'
<1> SUFFICES ASSUME ~trouble', Alone PROVE Honest'
  BY Zenon DEF HonestInv, Alone
<1>1. ~trouble
  BY TroubleStays, Zenon
<1>2. Honest
  BY <1>1, Zenon DEF HonestInv
<1>3. ASSUME NEW r \in Reqs, Drop(r) PROVE FALSE
  BY <1>3, Zenon DEF Drop
<1>4. ASSUME NEW t \in Tokens, TokenExpires(t) PROVE UNCHANGED <<req, cookie, inflight, heirs>>
  BY <1>4, Zenon DEF TokenExpires, tabVars, history
<1>5. ASSUME UNCHANGED <<req, cookie, inflight, heirs>> PROVE Honest'
  BY <1>2, <1>5, HonestFrame, Zenon
<1>6. ASSUME UNCHANGED <<row, owner, req, cookie, status, inflight, history, trouble>>
      PROVE  UNCHANGED <<req, cookie, inflight, heirs>>
  BY <1>6, Zenon DEF history
<1>7. QED
  BY <1>2, <1>3, <1>4, <1>5, <1>6, HonestSend, HonestServe, HonestHeaders, HonestBody,
     HonestReload, SessionSteps, Zenon

\* Reuse detection fires on a token that was revoked before: by signing out, by an earlier
\* reuse, or because it was exchanged, and only a page that shares its jar with another one
\* or has lost a reply presents an exchanged token.
THEOREM HonestCorrect == SessionsSpec => HonestTabNotCaught
<1> DEFINE Step == ~trouble /\ Alone => reused' \ reused \subseteq signed_out \cup caught
<1>1. SessionsInit => HonestInv
  <2> SUFFICES ASSUME SessionsInit PROVE Honest
    BY Zenon DEF HonestInv
  <2>1. /\ \A r \in Reqs : req[r].stage = "unused" /\ req[r].token = NoToken
        /\ \A j \in Jars : cookie[j] = NoToken
    BY Zenon DEF SessionsInit, Unused
  <2>2. \A r \in Reqs : ~Refreshing(r) /\ \A t : ~InTransit(r, t)
    BY <2>1, Zenon DEF Refreshing, InTransit
  <2>3. QED
    BY <2>1, <2>2, SessionsConstantsOK, Zenon
       DEF Honest, Waited, OneRefresh, NotExchanged, CookiesCurrent, JarsApart, TransitFresh
<1>2. SessionsTypes /\ TokenInv /\ HonestInv /\ [SessionsNext]_sessionVars => HonestInv'
  BY HonestStep, Zenon
<1>3. SessionsTypes /\ TokenInv /\ HonestInv /\ [SessionsNext]_sessionVars => Step
  <2> SUFFICES ASSUME SessionsTypes, TokenInv, HonestInv, [SessionsNext]_sessionVars,
                      ~trouble, Alone
               PROVE  reused' \ reused \subseteq signed_out \cup caught
    OBVIOUS
  <2>1. CASE UNCHANGED reused
    BY <2>1, Zenon
  <2>2. ASSUME NEW r \in Reqs, CommitRevocation(r)
        PROVE  reused' \ reused \subseteq signed_out \cup caught
    <3>1. req[r].stage = "revoking" /\ reused' = reused \cup {req[r].token}
      BY <2>2, Zenon DEF CommitRevocation
    <3>2. req[r].op = "refresh" /\ req[r].token \in Tokens /\ row[req[r].token] = "revoked"
      BY <3>1, Zenon DEF TokenInv, RequestInv, Holds
    <3>3. heirs[req[r].token] = {}
      BY <3>1, <3>2, Zenon DEF HonestInv, Honest, NotExchanged, Refreshing, Pending
    <3>4. RowInv(req[r].token)
      BY <3>2, Zenon DEF TokenInv
    <3>5. req[r].token \in signed_out \cup caught
      BY <3>2, <3>3, <3>4, Zenon DEF RowInv
    <3>6. QED
      BY <3>1, <3>5, Zenon
  <2>3. ASSUME NEW r \in Reqs, Serve(r) PROVE CommitRevocation(r) \/ UNCHANGED reused
    BY <2>3, Zenon DEF Serve, ServeLogin, RefreshWithoutCookie, LockToken, CommitRotation,
                       ServeLogout, RequestFails, history
  <2>4. ASSUME NEW t \in Tokens, TokenExpires(t) PROVE UNCHANGED reused
    BY <2>4, Zenon DEF TokenExpires, history
  <2>5. QED
    BY <2>1, <2>2, <2>3, <2>4, PageRows, Zenon
<1>4. [Step]_sessionVars => [~trouble /\ (\A a, b \in Tabs : JarOf[a] = JarOf[b] => a = b)
                               => reused' \ reused \subseteq signed_out \cup caught]_sessionVars
  BY Zenon DEF Alone
<1>5. QED
  BY <1>1, <1>2, <1>3, <1>4, SessionsAgree, PTL DEF SessionsSpec, HonestTabNotCaught
=============================================================================
