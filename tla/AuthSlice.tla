----------------------------- MODULE AuthSlice ------------------------------
(***************************************************************************)
(* What a tab believes of its session (auth-slice.ts, _app.tsx,            *)
(* use-require-auth.ts, store/index.ts), on top of HttpClient: the thunks  *)
(* are calls, their pending, fulfilled and rejected reducers run in the    *)
(* step in which the call starts or settles, and onAuthFailure dispatches  *)
(* sessionExpired.  The screens offer the calls: a login while nobody is   *)
(* shown as signed in, a logout and the other requests while somebody is.  *)
(* A change of the JWT secret is left to HttpClient.                       *)
(***************************************************************************)
EXTENDS HttpClient

VARIABLES
  auth,         \* tab: status and user of the slice, a user being a session
  loggedOut,    \* history: tabs where a logout has ended and no login followed
  overtaken     \* history, tab: a login was made before a fetchMe was answered
                \* ("pending"), which has been fulfilled since ("shown"), or not ("no")

authVars == <<auth, loggedOut, overtaken>>
allVars == <<vars, auth, loggedOut, overtaken>>

initialAuthState == [status |-> "idle", user |-> None]
applySession(session) == [status |-> "authenticated", user |-> session]
\* Faulty variant: the user stays.
clearStatus(state) == [state EXCEPT !.status = "anonymous"]
clearSession(state) == [state EXCEPT !.status = "anonymous", !.user = None]
\* Faulty variant: no reducer for a rejected fetchMe.
ThunksButFetchMe == {"login", "logout"}
Thunks == {"me", "login", "logout"}   \* register does not touch the status

AuthInit == Init /\ auth = [t \in Tabs |-> initialAuthState]
            /\ loggedOut = {} /\ overtaken = [t \in Tabs |-> "no"]

-----------------------------------------------------------------------------
\* The effects of the first render: _app.tsx dispatches fetchMe, and so does
\* useRequireAuth on a guarded page, before either is pending.
App(t, S) ==
  /\ auth[t].status = "idle" /\ FreeSlot(t) \in S /\ issued + Cardinality(S) <= MaxCalls
  /\ issued' = issued + Cardinality(S)
  /\ call' = [call EXCEPT ![t] = interceptRequests(
       [k \in Slots \cup Internal |->
          IF k \in S THEN [call[t][k] EXCEPT !.kind = "me"] ELSE call[t][k]],
       S, csrfToken[t], jar)]
  /\ auth' = [auth EXCEPT ![t].status = "loading"]
  /\ UNCHANGED <<server, snapshot, jar, csrfToken, failed, lost, loggedOut, overtaken>>

\* The form asks nothing of the status: the page is left in an effect after somebody
\* has been signed in, and a form that is mounted anew knows of no login under way.
login(t, k) ==
  /\ auth[t].status # "idle" /\ request(t, k, "login")
  /\ auth' = [auth EXCEPT ![t].status = "loading"]
  /\ loggedOut' = loggedOut \ {t}
  /\ overtaken' = IF overtaken[t] = "no" /\ \E j \in Slots : call[t][j].kind = "me"
                  THEN [overtaken EXCEPT ![t] = "pending"] ELSE overtaken

logout(t, k) ==
  /\ auth[t].user # None /\ request(t, k, "logout")
  /\ UNCHANGED authVars

\* Any other request of a screen.
screenRequest(t, k) ==
  /\ \/ auth[t].status = "authenticated" /\ request(t, k, "change")
     \/ auth[t].status # "idle" /\ request(t, k, "register")
  /\ UNCHANGED authVars

\* The reducers of the calls of S, which are rejected; that of a logout is
\* caught and goes on as fulfilled.
Rejected(t, S) ==
  LET kinds == {call[t][k].kind : k \in S}
  IN /\ auth' = IF kinds \cap (Thunks \cup {"refresh"}) # {}
                THEN [auth EXCEPT ![t] = clearSession(@)] ELSE auth
     /\ loggedOut' = IF "logout" \in kinds THEN loggedOut \cup {t} ELSE loggedOut
     /\ UNCHANGED overtaken

thunkFulfilled(t, k) ==
  LET kind == call[t][k].kind
  IN /\ fulfilled(t, k)
     /\ auth' = [auth EXCEPT ![t] =
          IF kind \in {"me", "login"} THEN applySession(call[t][k].reply.body)
          ELSE IF kind = "logout" THEN clearSession(@) ELSE @]
     /\ loggedOut' = IF kind = "logout" THEN loggedOut \cup {t} ELSE loggedOut
     /\ overtaken' = IF kind = "me" /\ overtaken[t] = "pending"
                     THEN [overtaken EXCEPT ![t] = "shown"] ELSE overtaken

thunkRejected(t, k) == rejected(t, k) /\ Rejected(t, {k})

\* onAuthFailure dispatches sessionExpired, then the calls that waited for the
\* refresh are rejected.
sessionExpired(t) == refreshFails(t) /\ Rejected(t, {"refresh"})

\* The calls that waited for a CSRF token are rejected, the refresh perhaps
\* among them.
csrfExpired(t) == csrfFails(t) /\ Rejected(t, At(t, "csrf"))

\* The steps in which no call of the application settles.
goesOn(t, k) ==
  /\ \/ refreshSession(t, k)
     \/ k = "csrf" /\ csrfFetched(t)
     \/ k = "refresh" /\ sessionRefreshed(t)
  /\ UNCHANGED authVars

\* A page load makes a new store.
makeStore(t) ==
  /\ auth[t].status # "idle" /\ pageLoad(t)
  /\ auth' = [auth EXCEPT ![t] = initialAuthState]
  /\ loggedOut' = loggedOut \ {t} /\ overtaken' = [overtaken EXCEPT ![t] = "no"]

AuthHandle(t, k) ==
  \/ thunkFulfilled(t, k) \/ thunkRejected(t, k) \/ goesOn(t, k)
  \/ k = "csrf" /\ csrfExpired(t)
  \/ k = "refresh" /\ sessionExpired(t)

AuthNext ==
  \/ \E t \in Tabs, S \in SUBSET Slots : App(t, S)
  \/ \E t \in Tabs, k \in Slots : login(t, k) \/ logout(t, k) \/ screenRequest(t, k)
  \/ \E t \in Tabs, k \in Slots \cup Internal : AuthHandle(t, k)
  \/ \E t \in Tabs, k \in Slots \cup Internal :
       (revokeFamilyStarts(t, k) \/ serve(t, k) \/ fails(t, k)) /\ UNCHANGED authVars
  \/ \E t \in Tabs : makeStore(t)
  \/ environment /\ UNCHANGED authVars

AuthSpec == AuthInit /\ [][AuthNext]_allVars

\* The effects of the first render are run, every request is answered or fails, and
\* every response is handled.
AuthFairness == \A t \in Tabs :
  /\ WF_allVars(\E S \in SUBSET Slots : App(t, S))
  /\ \A k \in Slots \cup Internal :
       WF_allVars(\/ (revokeFamilyStarts(t, k) \/ serve(t, k)) /\ UNCHANGED authVars
                  \/ AuthHandle(t, k))
FairAuthSpec == AuthSpec /\ AuthFairness

-----------------------------------------------------------------------------
AuthTypeOK ==
  /\ TypeOK
  /\ loggedOut \subseteq Tabs /\ overtaken \in [Tabs -> {"no", "pending", "shown"}]
  /\ auth \in [Tabs ->
       [status: {"idle", "loading", "anonymous"}, user: {None}]
       \cup [status: {"loading", "authenticated"}, user: Sessions]]

\* A tab that shows somebody as signed in, in a session which the server still
\* accepts and which nobody has tried to end, has the cookies to go on with: the
\* answers of late refreshes and logouts, which clear the cookies, never clear them
\* under a session that stays in use.  It holds of a browser with one tab.  Two cases
\* are left out, as the code has them.  A logout, or the detection of a reuse, whose
\* UPDATE has missed the newest token (revoked) clears the cookies of a session that
\* stays live, and a fetchMe answered before that may still show its user.  And a
\* fetchMe that a login has overtaken shows the user of the old session again: the
\* login form asks nothing of fetchMe, and by then the new session may have ended,
\* its cookies with it, while the old one is live.
LiveUserHasCookies ==
  \A t \in Tabs :
    LET s == auth[t].user
    IN overtaken[t] # "shown" /\ s # None /\ s \notin over /\ revoked[s] = 0
         => jar.refresh # None

\* The guard of a page, which waits while the status is "idle" or "loading"
\* (use-require-auth.ts:31), does not wait for ever, whatever fails: unless a bound
\* of the model keeps the page from asking.
LoadingEnds ==
  \A t \in Tabs : []<>(\/ auth[t].status \in {"authenticated", "anonymous"}
                        \/ (auth[t].status = "idle" /\ issued = MaxCalls))

\* What auth-slice.ts:114 says of a logout: it resets everything, so that no
\* stale identity survives.
NoIdentitySurvivesLogout ==
  \A t \in loggedOut : auth[t].status # "authenticated"
=============================================================================
