----------------------------- MODULE HttpClient -----------------------------
(***************************************************************************)
(* The HTTP client of the browser (http-client.ts) against the             *)
(* authentication routes of the server (auth.controller.ts, csrf.ts,       *)
(* cookies.ts, authenticate.ts).  Tabs share one cookie jar; each keeps    *)
(* its own CSRF token, and shares one CSRF fetch and one refresh among its *)
(* calls.  A request takes the cookies of the moment it is sent; its       *)
(* response may arrive after responses to later requests, or never.        *)
(*                                                                         *)
(* JavaScript runs a handler with all the promise callbacks it settles     *)
(* before the next response is handled, so that those that wait for a      *)
(* refresh or a CSRF token go on in the same step.  Of a session the       *)
(* server knows the newest token, and whether it can still be spent.  A    *)
(* rotation is one step here; the UPDATE that revokes a session is two,    *)
(* as in Sessions: it marks the tokens of its snapshot, and misses one     *)
(* that a rotation inserts after that.                                     *)
(***************************************************************************)
EXTENDS Naturals, FiniteSets

CONSTANTS
  Tabs,         \* tabs of one browser
  Slots,        \* calls that one tab may have under way
  Sessions,     \* session families, numbered as they are opened
  Nonces,       \* nonces of CSRF tokens
  None,         \* no session, cookie, token or header
  MaxCalls,     \* bound: calls made by the application in all
  MaxFailures,  \* bound: requests or responses lost, and answers of status 500
  MaxSecrets    \* bound: how often JWT_ACCESS_SECRET is changed

ASSUME NumberAssumption == Sessions \subseteq Nat /\ Nonces \subseteq Nat
ASSUME SlotAssumption == "csrf" \notin Slots /\ "refresh" \notin Slots
ASSUME NoneAssumption == None \notin Sessions /\ None \notin [sid: Sessions, gen: Nat]
ASSUME BoundAssumption ==
  MaxCalls \in Nat /\ MaxFailures \in Nat /\ MaxSecrets \in Nat

VARIABLES
  current,      \* server: number of the token a session goes on with, 0: none yet
  over,         \* server: sessions that are revoked or past their lifetime
  revoked,      \* server: number of the newest token of a session that a revocation
                \* has marked without ending the session, 0: none
  snapshot,     \* server: the newest token that the UPDATE of a revocation under way
                \* sees, None: no revocation is under way
  secret,       \* server: JWT_ACCESS_SECRET
  jar,          \* browser: the three cookies
  csrfToken,    \* tab: cached CSRF token
  call,         \* tab: calls under way; csrf and refresh are the shared ones
  issued, failed,  \* bounded counters
  lost          \* history: sessions of which a successor token was lost

server == <<current, over, revoked, secret>>
vars == <<current, over, revoked, snapshot, secret, jar, csrfToken, call, issued, failed, lost>>

CookieNames == {"access", "refresh", "csrf"}
Kinds == {"me", "change", "login", "register", "logout"}
Internal == {"csrf", "refresh"}
SAFE == {"me", "csrf"}
NO_REFRESH_PATHS == {"login", "register", "refresh", "csrf", "logout"}
SESSION_CHANGING_PATHS == {"login", "register", "logout"}

NoCookies == [access |-> None, refresh |-> None, csrf |-> None]
NoReply == [status |-> 0, body |-> None, sets |-> <<>>]
Idle(k) == [pc |-> "idle", kind |-> IF k \in Internal THEN k ELSE None,
            retried |-> FALSE, header |-> None, cookies |-> NoCookies,
            reply |-> NoReply]

Init ==
  /\ current = [s \in Sessions |-> 0]
  /\ over = {} /\ revoked = [s \in Sessions |-> 0] /\ secret = 0
  /\ snapshot = [t \in Tabs |-> [k \in Slots \cup Internal |-> None]]
  /\ jar = NoCookies
  /\ csrfToken = [t \in Tabs |-> None]
  /\ call = [t \in Tabs |-> [k \in Slots \cup Internal |-> Idle(k)]]
  /\ issued = 0 /\ failed = 0 /\ lost = {}

-----------------------------------------------------------------------------
(* The browser sends requests.                                             *)

\* The request interceptor for the calls S of one tab: an unsafe one needs a
\* token, and those that have none wait for one fetch of it.
interceptRequests(calls, S, token, cookies) ==
  LET waiting == {k \in S : calls[k].kind \notin SAFE /\ token = None}
      fetch == IF waiting # {} /\ calls["csrf"].pc = "idle" THEN {"csrf"} ELSE {}
  IN [k \in Slots \cup Internal |->
        IF k \in waiting THEN [calls[k] EXCEPT !.pc = "csrf"]
        ELSE IF k \in (S \ waiting) \cup fetch
          THEN [calls[k] EXCEPT !.pc = "sent", !.cookies = cookies,
                  !.header = IF calls[k].kind \in SAFE THEN None ELSE token]
        ELSE calls[k]]

FreeSlot(t) == CHOOSE k \in Slots : call[t][k].pc = "idle"

\* The application makes a call.
request(t, k, kind) ==
  /\ call[t][k].pc = "idle" /\ k = FreeSlot(t) /\ issued < MaxCalls
  /\ issued' = issued + 1
  /\ call' = [call EXCEPT ![t] =
                interceptRequests([@ EXCEPT ![k].kind = kind], {k}, csrfToken[t], jar)]
  /\ UNCHANGED <<server, snapshot, jar, csrfToken, failed, lost>>

-----------------------------------------------------------------------------
(* The server answers.                                                     *)

answer(t, k, reply) ==
  /\ call' = [call EXCEPT ![t][k].pc = "answered", ![t][k].reply = reply,
                          ![t][k].cookies = NoCookies, ![t][k].header = None]
  /\ snapshot' = [snapshot EXCEPT ![t][k] = None]
Reply(status, body, sets) == [status |-> status, body |-> body, sets |-> sets]
clearAuthCookies == NoCookies
\* Faulty variant: a rotation answers with the token that it has spent.
setSpentCookies(s, n) == [access |-> [sid |-> s, key |-> secret, fresh |-> TRUE],
                          refresh |-> [sid |-> s, gen |-> IF n > 1 THEN n - 1 ELSE n]]
setAuthCookies(s, n) == [access |-> [sid |-> s, key |-> secret, fresh |-> TRUE],
                         refresh |-> [sid |-> s, gen |-> n]]

\* The session in the access cookie, expired or not; None when anonymous.
csrfBinding(cookies) ==
  IF cookies["access"] # None /\ cookies["access"].key = secret
  THEN cookies["access"].sid ELSE None

csrfProtection(c) ==
  /\ c.cookies["csrf"] # None /\ c.header = c.cookies["csrf"]
  /\ c.header.key = secret /\ c.header.sid = csrfBinding(c.cookies)

authenticate(c) ==
  LET a == c.cookies["access"]
  IN a # None /\ a.key = secret /\ a.fresh /\ a.sid \notin over

HeldTokens ==
  LET calls == {call[t][k] : t \in Tabs, k \in Slots \cup Internal}
  IN {jar["csrf"]} \cup {csrfToken[t] : t \in Tabs}
     \cup {c.header : c \in calls} \cup {c.cookies["csrf"] : c \in calls}
     \cup {c.reply.sets["csrf"] : c \in {d \in calls : "csrf" \in DOMAIN d.reply.sets}}

\* A nonce that nothing holds: nonces are random, an old one never returns.
issueCsrfToken(binding) ==
  LET unused == Nonces \ {c.nonce : c \in HeldTokens \ {None}}
  IN [nonce |-> CHOOSE n \in unused : TRUE, sid |-> binding, key |-> secret]

csrfController(t, k) ==
  LET token == issueCsrfToken(csrfBinding(call[t][k].cookies))
  IN /\ call[t][k].kind = "csrf"
     /\ answer(t, k, Reply(200, token, [csrf |-> token]))
     /\ UNCHANGED server

\* A login opens a session, or finds the credentials wrong.
loginController(t, k) ==
  /\ call[t][k].kind = "login" /\ csrfProtection(call[t][k])
  /\ \/ \E s \in Sessions :
          /\ current[s] = 0 /\ \A r \in Sessions : r < s => current[r] > 0
          /\ current' = [current EXCEPT ![s] = 1]
          /\ answer(t, k, Reply(200, s,
               [n \in CookieNames |-> IF n = "csrf" THEN issueCsrfToken(s)
                                      ELSE setAuthCookies(s, 1)[n]]))
     \/ answer(t, k, Reply(401, None, <<>>)) /\ UNCHANGED current
  /\ UNCHANGED <<over, revoked, secret>>

\* The conditional UPDATE of rotateRefreshToken finds the token spendable.
claims(token) == token # None /\ token.sid \notin over /\ token.gen = current[token.sid]

\* A logout revokes the session of any token it knows, a refresh that of a token
\* which has been spent but not revoked.
revokes(c) ==
  LET token == c.cookies["refresh"]
  IN /\ token # None /\ token.sid \notin over
     /\ \/ c.kind = "logout"
        \/ c.kind = "refresh" /\ ~claims(token) /\ token.gen > revoked[token.sid]

\* Once its UPDATE is under way, a request is not refused any more.
admitted(t, k) == snapshot[t][k] # None \/ csrfProtection(call[t][k])

revokeFamilyStarts(t, k) ==
  LET c == call[t][k]
      s == c.cookies["refresh"].sid
  IN /\ c.pc = "sent" /\ snapshot[t][k] = None
     /\ revokes(c) /\ csrfProtection(c)
     /\ snapshot' = [snapshot EXCEPT ![t][k] = [sid |-> s, gen |-> current[s]]]
     /\ UNCHANGED <<server, jar, csrfToken, call, issued, failed, lost>>

\* The session ends if the UPDATE has seen its newest token, and goes on with it otherwise.
revokeFamily(seen) ==
  IF seen.gen = current[seen.sid]
  THEN over' = over \cup {seen.sid} /\ UNCHANGED revoked
  ELSE /\ revoked' = [revoked EXCEPT ![seen.sid] = IF seen.gen > @ THEN seen.gen ELSE @]
       /\ UNCHANGED over

\* The request has revoked what it has to.
revokedFamily(t, k) ==
  IF snapshot[t][k] # None THEN revokeFamily(snapshot[t][k])
  ELSE ~revokes(call[t][k]) /\ UNCHANGED <<over, revoked>>

refreshController(t, k) ==
  LET token == call[t][k].cookies["refresh"]
  IN /\ call[t][k].kind = "refresh" /\ admitted(t, k)
     /\ IF snapshot[t][k] = None /\ claims(token)
        THEN /\ current' = [current EXCEPT ![token.sid] = @ + 1]
             /\ answer(t, k, Reply(200, None, setAuthCookies(token.sid, token.gen + 1)))
             /\ UNCHANGED <<over, revoked>>
        ELSE /\ revokedFamily(t, k)
             /\ answer(t, k, Reply(401, None, clearAuthCookies))
             /\ UNCHANGED current
     /\ UNCHANGED secret

logoutController(t, k) ==
  /\ call[t][k].kind = "logout" /\ admitted(t, k)
  /\ revokedFamily(t, k)
  /\ answer(t, k, Reply(200, None, clearAuthCookies))
  /\ UNCHANGED <<current, secret>>

registerController(t, k) ==
  /\ call[t][k].kind = "register" /\ csrfProtection(call[t][k])
  /\ answer(t, k, Reply(200, None, <<>>))
  /\ UNCHANGED server

\* GET /me and the routes of admin.routes.ts: authenticate comes first.
apiController(t, k) ==
  LET c == call[t][k]
  IN /\ c.kind \in {"me", "change"} /\ authenticate(c)
     /\ c.kind = "change" => csrfProtection(c)
     /\ answer(t, k, Reply(200, c.cookies["access"].sid, <<>>))
     /\ UNCHANGED server

\* Faulty variant: every refusal clears the cookies, not only that of a refresh.
unauthorizedClears(t, k) ==
  /\ call[t][k].kind \in {"me", "change"} /\ ~authenticate(call[t][k])
  /\ answer(t, k, Reply(401, None, clearAuthCookies))
  /\ UNCHANGED server

unauthorized(t, k) ==
  /\ call[t][k].kind \in {"me", "change"} /\ ~authenticate(call[t][k])
  /\ answer(t, k, Reply(401, None, <<>>))
  /\ UNCHANGED server

forbidden(t, k) ==
  /\ call[t][k].kind \notin SAFE /\ ~admitted(t, k)
  /\ call[t][k].kind = "change" => authenticate(call[t][k])
  /\ answer(t, k, Reply(403, None, <<>>))
  /\ UNCHANGED server

serve(t, k) ==
  /\ call[t][k].pc = "sent"
  /\ \/ csrfController(t, k) \/ loginController(t, k) \/ refreshController(t, k)
     \/ logoutController(t, k) \/ registerController(t, k) \/ apiController(t, k)
     \/ unauthorized(t, k) \/ forbidden(t, k)
  /\ UNCHANGED <<jar, csrfToken, issued, failed, lost>>

\* The request does not get through, or is answered with an error (a limit, a
\* failing database) before it changes anything.
serverFails(t, k) ==
  /\ call[t][k].pc = "sent" /\ failed < MaxFailures
  /\ failed' = failed + 1
  /\ \E status \in {0, 500} : answer(t, k, Reply(status, None, <<>>))
  /\ UNCHANGED <<server, jar, csrfToken, issued, lost>>

\* The response does not get through.
responseLost(t, k) ==
  /\ call[t][k].pc = "answered" /\ call[t][k].reply.status # 0
  /\ failed < MaxFailures
  /\ failed' = failed + 1
  /\ lost' = IF k = "refresh" /\ call[t][k].reply.status = 200
             THEN lost \cup {call[t][k].reply.sets["refresh"].sid} ELSE lost
  /\ answer(t, k, NoReply)
  /\ UNCHANGED <<server, jar, csrfToken, issued>>

\* A session is ended elsewhere: by its age, an administrator, another browser.
sessionEnds(s) ==
  /\ current[s] > 0 /\ s \notin over
  /\ over' = over \cup {s}
  /\ UNCHANGED <<current, revoked, snapshot, secret, jar, csrfToken, call, issued, failed, lost>>

\* The access token outlives its 15 minutes; the cookie stays.
accessExpires ==
  /\ jar["access"] # None /\ jar["access"].fresh
  /\ jar' = [jar EXCEPT !["access"].fresh = FALSE]
  /\ UNCHANGED <<server, snapshot, csrfToken, call, issued, failed, lost>>

\* The operator sets a new JWT_ACCESS_SECRET and restarts the server.
secretChanges ==
  /\ secret < MaxSecrets /\ secret' = secret + 1
  /\ UNCHANGED <<current, over, revoked, snapshot, jar, csrfToken, call, issued, failed, lost>>

-----------------------------------------------------------------------------
(* A response arrives: its cookies are stored, its handlers run.           *)

arrived(t, k) == call[t][k].pc = "answered"
status(t, k) == call[t][k].reply.status
stored(t, k) ==
  LET sets == call[t][k].reply.sets
  IN [n \in CookieNames |-> IF n \in DOMAIN sets THEN sets[n] ELSE jar[n]]
At(t, pc) == {k \in Slots \cup Internal : call[t][k].pc = pc}
settled(t, S) == [k \in Slots \cup Internal |-> IF k \in S THEN Idle(k) ELSE call[t][k]]

\* fetchCsrf is fulfilled: the calls that wait for the token are sent.
csrfFetched(t) ==
  LET token == call[t]["csrf"].reply.body
  IN /\ arrived(t, "csrf") /\ status(t, "csrf") = 200
     /\ csrfToken' = [csrfToken EXCEPT ![t] = token]
     /\ call' = [call EXCEPT ![t] =
          interceptRequests(settled(t, {"csrf"}), At(t, "csrf"), token, stored(t, "csrf"))]
     /\ jar' = stored(t, "csrf")
     /\ UNCHANGED <<server, snapshot, issued, failed, lost>>

\* Faulty variant: those that wait for the refresh are forgotten.
csrfFailsOnly(t) ==
  LET waiting == At(t, "csrf")
  IN /\ arrived(t, "csrf") /\ status(t, "csrf") # 200
     /\ csrfToken' = IF "refresh" \in waiting
                     THEN [csrfToken EXCEPT ![t] = None] ELSE csrfToken
     /\ call' = [call EXCEPT ![t] = settled(t, {"csrf"} \cup waiting)]
     /\ jar' = stored(t, "csrf")
     /\ UNCHANGED <<server, snapshot, issued, failed, lost>>

\* fetchCsrf is rejected, and with it the calls that wait for it; when the
\* refresh is one of them, those that wait for the refresh too.
csrfFails(t) ==
  LET waiting == At(t, "csrf")
      rejected == waiting \cup (IF "refresh" \in waiting THEN At(t, "refreshing") ELSE {})
  IN /\ arrived(t, "csrf") /\ status(t, "csrf") # 200
     /\ csrfToken' = IF "refresh" \in waiting
                     THEN [csrfToken EXCEPT ![t] = None] ELSE csrfToken
     /\ call' = [call EXCEPT ![t] = settled(t, {"csrf"} \cup rejected)]
     /\ jar' = stored(t, "csrf")
     /\ UNCHANGED <<server, snapshot, issued, failed, lost>>

\* Faulty variants: a retried call is refreshed again; so is a refresh.
canRefreshAgain(t, k) ==
  /\ status(t, k) = 401
  /\ k \notin Internal /\ call[t][k].kind \notin NO_REFRESH_PATHS
canRefreshAnything(t, k) == status(t, k) = 401 /\ ~call[t][k].retried

canRefresh(t, k) ==
  /\ status(t, k) = 401 /\ ~call[t][k].retried
  /\ k \notin Internal /\ call[t][k].kind \notin NO_REFRESH_PATHS

\* A call is answered with success.
fulfilled(t, k) ==
  /\ k \notin Internal /\ arrived(t, k) /\ status(t, k) = 200
  /\ csrfToken' = IF call[t][k].kind \in SESSION_CHANGING_PATHS
                  THEN [csrfToken EXCEPT ![t] = None] ELSE csrfToken
  /\ call' = [call EXCEPT ![t] = settled(t, {k})]
  /\ jar' = stored(t, k)
  /\ UNCHANGED <<server, snapshot, issued, failed, lost>>

\* A call is answered with an error that a refresh would not help.
rejected(t, k) ==
  /\ k \notin Internal /\ arrived(t, k) /\ status(t, k) # 200 /\ ~canRefresh(t, k)
  /\ call' = [call EXCEPT ![t] = settled(t, {k})]
  /\ jar' = stored(t, k)
  /\ UNCHANGED <<server, snapshot, csrfToken, issued, failed, lost>>

\* A call finds its access token expired: it starts a refresh, or waits for
\* the one that is under way.
refreshSession(t, k) ==
  LET waiting == [call[t] EXCEPT ![k] = [@ EXCEPT !.pc = "refreshing", !.reply = NoReply]]
      starts == IF call[t]["refresh"].pc = "idle" THEN {"refresh"} ELSE {}
  IN /\ arrived(t, k) /\ canRefresh(t, k)
     /\ call' = [call EXCEPT ![t] =
                   interceptRequests(waiting, starts, csrfToken[t], stored(t, k))]
     /\ jar' = stored(t, k)
     /\ UNCHANGED <<server, snapshot, csrfToken, issued, failed, lost>>

\* The refresh is fulfilled: the calls that wait for it are retried, once.
sessionRefreshed(t) ==
  LET waiting == At(t, "refreshing")
      retried == [k \in Slots \cup Internal |->
                    IF k = "refresh" THEN Idle(k)
                    ELSE IF k \in waiting THEN [call[t][k] EXCEPT !.retried = TRUE]
                    ELSE call[t][k]]
  IN /\ arrived(t, "refresh") /\ status(t, "refresh") = 200
     /\ csrfToken' = [csrfToken EXCEPT ![t] = None]
     /\ call' = [call EXCEPT ![t] =
          interceptRequests(retried, waiting, None, stored(t, "refresh"))]
     /\ jar' = stored(t, "refresh")
     /\ UNCHANGED <<server, snapshot, issued, failed, lost>>

\* The refresh is rejected, and with it the calls that wait for it;
\* onAuthFailure is called.
refreshFails(t) ==
  /\ arrived(t, "refresh") /\ status(t, "refresh") # 200 /\ ~canRefresh(t, "refresh")
  /\ csrfToken' = [csrfToken EXCEPT ![t] = None]
  /\ call' = [call EXCEPT ![t] = settled(t, {"refresh"} \cup At(t, "refreshing"))]
  /\ jar' = stored(t, "refresh")
  /\ UNCHANGED <<server, snapshot, issued, failed, lost>>

\* The page is loaded anew: what it was waiting for is forgotten.
pageLoad(t) ==
  LET c == call[t]["refresh"]
  IN /\ csrfToken' = [csrfToken EXCEPT ![t] = None]
     /\ call' = [call EXCEPT ![t] = settled(t, Slots \cup Internal)]
     /\ snapshot' = [snapshot EXCEPT ![t] = [k \in Slots \cup Internal |-> None]]
     /\ lost' = IF c.pc = "answered" /\ c.reply.status = 200
                THEN lost \cup {c.reply.sets["refresh"].sid} ELSE lost
     /\ UNCHANGED <<server, jar, issued, failed>>

handle(t, k) ==
  \/ fulfilled(t, k) \/ rejected(t, k) \/ refreshSession(t, k)
  \/ k = "csrf" /\ (csrfFetched(t) \/ csrfFails(t))
  \/ k = "refresh" /\ (sessionRefreshed(t) \/ refreshFails(t))

fails(t, k) == serverFails(t, k) \/ responseLost(t, k)
environment == (\E s \in Sessions : sessionEnds(s)) \/ accessExpires

Next ==
  \/ \E t \in Tabs, k \in Slots, kind \in Kinds : request(t, k, kind)
  \/ \E t \in Tabs, k \in Slots \cup Internal :
       revokeFamilyStarts(t, k) \/ serve(t, k) \/ fails(t, k) \/ handle(t, k)
  \/ \E t \in Tabs : pageLoad(t)
  \/ environment \/ secretChanges

Spec == Init /\ [][Next]_vars

-----------------------------------------------------------------------------
(* Properties.                                                             *)

Access == [sid: Sessions, key: Nat, fresh: BOOLEAN] \cup {None}
Refresh == [sid: Sessions, gen: Nat] \cup {None}
Csrf == [nonce: Nonces, sid: Sessions \cup {None}, key: Nat] \cup {None}
Cookies == [access: Access, refresh: Refresh, csrf: Csrf]

TypeOK ==
  /\ current \in [Sessions -> Nat] /\ over \subseteq Sessions /\ secret \in 0..MaxSecrets
  /\ revoked \in [Sessions -> Nat] /\ snapshot \in [Tabs -> [Slots \cup Internal -> Refresh]]
  /\ jar \in Cookies /\ csrfToken \in [Tabs -> Csrf]
  /\ issued \in 0..MaxCalls /\ failed \in 0..MaxFailures /\ lost \subseteq Sessions
  /\ \A t \in Tabs, k \in Slots \cup Internal :
       LET c == call[t][k]
       IN /\ c.pc \in {"idle", "csrf", "sent", "answered", "refreshing"}
          /\ c.kind \in IF k \in Internal THEN {k}
                        ELSE IF c.pc = "idle" THEN {None} ELSE Kinds
          /\ c.retried \in BOOLEAN /\ c.header \in Csrf /\ c.cookies \in Cookies
          /\ c.reply.status \in {0, 200, 401, 403, 500}

\* A tab never refreshes with a token that has been spent, whatever calls,
\* logins, logouts and page loads overlap: parallel 401s share one refresh
\* (http-client.ts:95).  A token whose successor was lost on the way is the
\* exception; so are two tabs, which this holds of one at a time only.
RotationNeverRaced ==
  \A t \in Tabs :
    LET c == call[t]["refresh"]
        token == c.cookies.refresh
    IN c.pc = "sent" /\ token # None /\ token.sid \notin over \cup lost
         => token.gen = current[token.sid]

\* No wake-up is lost: whoever waits for a refresh or for a CSRF token, the refresh
\* itself among them, waits for one that is under way (csrfInFlight and refreshInFlight
\* of http-client.ts), so that its answer settles or sends him.  The two never wait for
\* one another: a fetch of the token is a safe request, and neither goes through the
\* handling of a 401.
WaitersAreWoken ==
  \A t \in Tabs, k \in Slots \cup Internal :
    /\ call[t][k].pc = "refreshing" =>
         /\ k \in Slots
         /\ call[t]["refresh"].pc \in {"csrf", "sent", "answered"}
    /\ call[t][k].pc = "csrf" =>
         k # "csrf" /\ call[t]["csrf"].pc \in {"sent", "answered"}

\* The calls of the application after the login cause one rotation each at
\* most: a retried call is not refreshed again, however often it is answered
\* with 401.
OneRefreshPerCall == \A s \in Sessions : current[s] <= issued

\* Every call of the application is answered: no call waits for a refresh or
\* a CSRF token that waits for the call.
EveryCallSettles ==
  \A t \in Tabs, k \in Slots : []<>(call[t][k].pc = "idle")

AuthFailure(t) ==
  \/ refreshFails(t)
  \/ csrfFails(t) /\ call[t]["refresh"].pc = "csrf"

\* What the README says of a change of the secret, and http-client.ts:36 of
\* onAuthFailure: a user is told that the session cannot be recovered only
\* when it is over.
AuthFailureIsDefinitive ==
  [][\A t \in Tabs : AuthFailure(t) =>
       jar'.refresh = None \/ jar'.refresh.sid \in over]_vars
=============================================================================
