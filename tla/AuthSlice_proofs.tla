--------------------------- MODULE AuthSlice_proofs ---------------------------
(***************************************************************************)
(* Proofs about AuthSlice, for any number of calls, sessions and failures. *)
(* A step of a tab is a step of HttpClient, but for the page load, which   *)
(* sends several requests at once (App); what is proved of HttpClient is   *)
(* carried over, and what the tab believes is related to its cookies.      *)
(***************************************************************************)
EXTENDS AuthSlice, HttpClient_proofs

LEMMA AuthStepCases ==
  ASSUME [AuthNext]_allVars
  PROVE  [Next]_vars \/ \E t \in Tabs, S \in SUBSET Slots : App(t, S)
<1>1. ASSUME NEW t \in Tabs, NEW k \in Slots, login(t, k) \/ logout(t, k) \/ screenRequest(t, k)
      PROVE  Next
  BY <1>1 DEF login, logout, screenRequest, Next, Kinds
<1>2. ASSUME NEW t \in Tabs, NEW k \in Slots \cup Internal, AuthHandle(t, k)
      PROVE  Next
  <2>1. handle(t, k) \/ \E j \in Slots \cup Internal : handle(t, j)
    BY <1>2 DEF AuthHandle, thunkFulfilled, thunkRejected, goesOn, csrfExpired,
                sessionExpired, handle
  <2> QED
    BY <2>1 DEF Next
<1>3. ASSUME NEW t \in Tabs, makeStore(t) PROVE Next
  BY <1>3 DEF makeStore, Next
<1>4. UNCHANGED allVars => UNCHANGED vars
  BY DEF allVars, vars
<1> QED
  BY <1>1, <1>2, <1>3, <1>4 DEF AuthNext, Next

\* The calls of a page load.
LEMMA AppStep ==
  ASSUME Base, NEW t \in Tabs, NEW S \in SUBSET Slots, App(t, S)
  PROVE  /\ Client(t) /\ Retained(t) /\ jar' = jar /\ lost' = lost
         /\ \A j \in Keys \ S : Owes(t, j)' => Owes(t, j)
         /\ \A j \in Keys : \/ call'[t][j] = call[t][j] /\ j \notin S
                            \/ call'[t][j].pc \in {"csrf", "sent"}
         /\ \A j \in S : call'[t][j].kind = "me"
         /\ \A j \in Slots \ S : call'[t][j] = call[t][j]
<1>1. PICK calls : calls = [k \in Keys |->
                              IF k \in S THEN [call[t][k] EXCEPT !.kind = "me"] ELSE call[t][k]]
  OBVIOUS
<1>2. \A j \in Keys : /\ DOMAIN call[t][j] = Fields /\ call[t][j].retried \in BOOLEAN
                      /\ j \in Internal => call[t][j].kind = j
                      /\ j \in Slots /\ call[t][j].pc # "idle" => call[t][j].kind \in Kinds
  BY DEF Base, Domains, KindsOK
<1>3. S \subseteq Keys /\ Internal = {"csrf", "refresh"} /\ \A k \in S : k \notin Internal
  BY SlotAssumption DEF Keys, Internal
<1>4. \A j \in Keys : /\ j \notin S => calls[j] = call[t][j]
                      /\ j \in S => DOMAIN calls[j] = Fields /\ calls[j].kind = "me"
                      /\ calls[j].retried = call[t][j].retried
  <2> TAKE j \in Keys
  <2>1. PICK c : c = call[t][j] /\ DOMAIN c = Fields
    BY <1>2
  <2>2. calls[j] = IF j \in S THEN [c EXCEPT !.kind = "me"] ELSE c
    BY <1>1, <2>1
  <2> QED
    BY <2>1, <2>2 DEF Fields
<1>5. /\ call' = [call EXCEPT ![t] = interceptRequests(calls, S, csrfToken[t], jar')]
      /\ UNCHANGED <<current, over, revoked>> /\ DOMAIN jar' = CookieNames
  BY <1>1 DEF App, server, Base, Domains, Keys
<1>6. Forwards(t, calls, S, csrfToken[t])
  BY <1>2, <1>3, <1>4, <1>5 DEF Forwards, Kinds
<1>7. /\ Client(t)
      /\ \A j \in Keys : /\ call'[t][j].kind = calls[j].kind
                         /\ j \notin S \cup {"csrf"} => call'[t][j] = calls[j]
                         /\ j \in S => call'[t][j].pc \in {"csrf", "sent"}
  BY <1>6, Sending
<1>8. jar' = jar /\ lost' = lost
  BY DEF App
<1>9. Retained(t) /\ (call'[t]["csrf"] = call[t]["csrf"] \/ call'[t]["csrf"].pc = "sent")
  <2> PICK r : r = interceptRequests(calls, S, csrfToken[t], jar')
    OBVIOUS
  <2>1. call'[t] = r
    BY <1>5 DEF Base, Domains
  <2>2. \A k \in Keys : DOMAIN calls[k] = Fields
    BY <1>2, <1>4
  <2>3. "csrf" \in Keys /\ "csrf" \notin S /\ "refresh" \in Keys /\ "refresh" \notin S
    BY <1>3 DEF Keys
  <2>4. r["csrf"] = calls["csrf"] \/ r["csrf"].pc = "sent"
    BY <1>3, <2>2, <2>3, InterceptEffect
  <2> QED
    BY <1>4, <1>7, <2>1, <2>3, <2>4 DEF Retained
<1> QED
  BY <1>3, <1>4, <1>7, <1>8, <1>9, SlotAssumption DEF Owes, Keys

-----------------------------------------------------------------------------
(* What is proved of HttpClient, with the calls that the screens make.     *)

LEMMA AuthBase == AuthSpec => []Base
<1>1. Base /\ [AuthNext]_allVars => Base'
  <2> SUFFICES ASSUME Base, [AuthNext]_allVars PROVE Base'
    OBVIOUS
  <2>1. ASSUME NEW t \in Tabs, NEW S \in SUBSET Slots, App(t, S) PROVE Base'
    BY <2>1, AppStep, ClientKeepsBase DEF JarStep
  <2> QED
    BY <2>1, AuthStepCases, BaseNext
<1> QED
  BY <1>1, BaseInit, PTL DEF AuthSpec, AuthInit

LEMMA AuthMarks == AuthSpec => []Marks
<1>1. Base /\ Marks /\ [AuthNext]_allVars => Marks'
  <2> SUFFICES ASSUME Base, Marks, [AuthNext]_allVars PROVE Marks'
    OBVIOUS
  <2>1. ASSUME NEW t \in Tabs, NEW S \in SUBSET Slots, App(t, S) PROVE Marks'
    BY <2>1 DEF App, server, Marks
  <2> QED
    BY <2>1, AuthStepCases, MarksNext
<1> QED
  BY <1>1, AuthBase, MarksInit, PTL DEF AuthSpec, AuthInit

LEMMA AppWakes ==
  ASSUME Base, Woken, NEW t \in Tabs, NEW S \in SUBSET Slots, App(t, S)
  PROVE  Woken'
<1>1. PICK calls : calls = [k \in Keys |->
                              IF k \in S THEN [call[t][k] EXCEPT !.kind = "me"] ELSE call[t][k]]
  OBVIOUS
<1>2. /\ "csrf" \in Keys /\ "refresh" \in Keys /\ S \in SUBSET Keys
      /\ "csrf" \notin S /\ "refresh" \notin S /\ "csrf" \notin Slots /\ "refresh" \notin Slots
  BY SlotAssumption DEF Keys, Internal
<1>3. \A j \in Keys : DOMAIN calls[j] = Fields /\ (j \notin S => calls[j] = call[t][j])
  <2> TAKE j \in Keys
  <2>1. PICK c : c = call[t][j] /\ DOMAIN c = Fields
    BY DEF Base, Domains
  <2>2. calls[j] = IF j \in S THEN [c EXCEPT !.kind = "me"] ELSE c
    BY <1>1, <2>1
  <2> QED
    BY <2>1, <2>2 DEF Fields
<1>4. Waits(calls, S)
  BY <1>2, <1>3 DEF Waits, Woken, RowWoken
<1>5. PICK r : r = interceptRequests(calls, S, csrfToken[t], jar)
  OBVIOUS
<1>6. RowWoken(r) /\ call' = [call EXCEPT ![t] = r]
  BY <1>1, <1>4, <1>5, SendingWakes DEF App, Keys
<1> QED
  BY <1>6, TabWoken DEF Base

\* Whatever the screens do, the calls of a page load included, whoever waits for a refresh
\* or a CSRF token waits for one that is under way.
THEOREM ScreensWake == AuthSpec => []WaitersAreWoken
<1>1. Woken => WaitersAreWoken
  BY DEF Woken, RowWoken, WaitersAreWoken, Keys
<1>2. Base /\ Woken /\ [AuthNext]_allVars => Woken'
  BY AppWakes, AuthStepCases, WokenNext
<1> QED
  BY <1>1, <1>2, AuthBase, WokenInit, PTL DEF AuthSpec, AuthInit

FiniteSlots == IsFiniteSet(Slots)

LEMMA AppPays ==
  ASSUME FiniteSlots, Base, Paid, NEW t \in Tabs, NEW S \in SUBSET Slots, App(t, S)
  PROVE  Paid'
<1>1. /\ Client(t) /\ UNCHANGED current /\ current \in [Sessions -> Nat]
      /\ IsFiniteSet(Credit) /\ Cardinality(Credit) \in Nat /\ issued \in Nat
  BY AppStep, FS_CardinalityType DEF Client, Base, Paid
<1>2. IsFiniteSet(S) /\ Cardinality(S) \in Nat
  BY FS_Subset, FS_CardinalityType DEF FiniteSlots
<1>3. IsFiniteSet({t}) /\ Cardinality({t}) = 1
  BY FS_Singleton
<1>4. /\ IsFiniteSet({t} \X S)
      /\ Cardinality({t} \X S) = Cardinality({t}) * Cardinality(S)
  BY <1>2, <1>3, FS_Product
<1>5. Cardinality({t} \X S) = Cardinality(S)
  BY <1>2, <1>3, <1>4
<1>6. Credit' \subseteq Credit \cup ({t} \X S)
  BY <1>1, AppStep, CreditOfTab DEF Credit
<1>7. /\ IsFiniteSet(Credit \cup ({t} \X S))
      /\ Cardinality(Credit \cup ({t} \X S)) <= Cardinality(Credit) + Cardinality(S)
  <2>1. IsFiniteSet(Credit \cap ({t} \X S)) /\ Cardinality(Credit \cap ({t} \X S)) \in Nat
    BY <1>1, FS_Intersection, FS_CardinalityType
  <2>2. /\ IsFiniteSet(Credit \cup ({t} \X S))
        /\ Cardinality(Credit \cup ({t} \X S))
             = Cardinality(Credit) + Cardinality({t} \X S) - Cardinality(Credit \cap ({t} \X S))
    BY <1>1, <1>4, FS_Union
  <2> QED
    BY <1>1, <1>2, <1>5, <2>1, <2>2
<1>8. /\ IsFiniteSet(Credit') /\ Cardinality(Credit') \in Nat
      /\ Cardinality(Credit') <= Cardinality(Credit) + Cardinality(S)
  <2>1. /\ IsFiniteSet(Credit')
        /\ Cardinality(Credit') <= Cardinality(Credit \cup ({t} \X S))
    BY <1>6, <1>7, FS_Subset
  <2>2. Cardinality(Credit') \in Nat /\ Cardinality(Credit \cup ({t} \X S)) \in Nat
    BY <1>7, <2>1, FS_CardinalityType
  <2> QED
    BY <1>1, <1>2, <1>7, <2>1, <2>2
<1>9. issued' = issued + Cardinality(S) /\ issued' <= MaxCalls
  BY DEF App
<1> QED
  BY <1>1, <1>2, <1>8, <1>9, BoundAssumption DEF Paid

LEMMA AuthPaid == FiniteSlots /\ AuthSpec => []Paid
<1> SUFFICES ASSUME FiniteSlots PROVE AuthSpec => []Paid
  OBVIOUS
<1>1. Base /\ Paid /\ [AuthNext]_allVars => Paid'
  BY AppPays, AuthStepCases, PaidNext
<1> QED
  BY <1>1, AuthBase, PaidInit, PTL DEF AuthSpec, AuthInit

LEMMA AuthUnraced == OneTab /\ AuthSpec => []Unraced
<1> SUFFICES ASSUME OneTab PROVE AuthSpec => []Unraced
  OBVIOUS
<1>0. Init => Unraced
  BY UnracedInit
<1>1. Base /\ Unraced /\ [AuthNext]_allVars => Unraced'
  <2> SUFFICES ASSUME Base, Unraced, [AuthNext]_allVars PROVE Unraced'
    OBVIOUS
  <2>1. ASSUME NEW t \in Tabs, NEW S \in SUBSET Slots, App(t, S) PROVE Unraced'
    <3>1. /\ Client(t) /\ lost \subseteq lost' /\ jar'["refresh"] = jar["refresh"]
          /\ Gives(t, "refresh") => call'[t]["refresh"] = call[t]["refresh"]
      BY <2>1, AppStep DEF Retained, Gives
    <3> QED
      BY <3>1, QuietStep
  <2> QED
    BY <2>1, AuthStepCases, UnracedNext
<1> QED
  BY <1>0, <1>1, AuthBase, PTL DEF AuthSpec, AuthInit

\* Whatever the screens do, a call of the application causes one rotation at most, those
\* of a page load included: `_retried` of http-client.ts.
THEOREM ScreensRefreshOnce == FiniteSlots /\ AuthSpec => []OneRefreshPerCall
<1>1. Base /\ Paid => OneRefreshPerCall
  BY FS_CardinalityType DEF Base, Paid, OneRefreshPerCall
<1> QED
  BY <1>1, AuthBase, AuthPaid, PTL

\* In a browser with one tab the requests that _app.tsx and useRequireAuth send at once,
\* and those of the screens after them, share one refresh, which shows no spent token.
THEOREM ScreensNeverRace == OneTab /\ AuthSpec => []RotationNeverRaced
<1>1. Unraced => RotationNeverRaced
  BY DEF Unraced, TokensNewest, Newest, Live, RotationNeverRaced, Keys, Internal
<1> QED
  BY <1>1, AuthUnraced, PTL

-----------------------------------------------------------------------------
(* The access and the refresh cookie come and go together.                 *)

Pair(access, refresh) == access # None =>
  refresh # None /\ "sid" \in DOMAIN access /\ access.sid = refresh.sid

\* An answer leaves both cookies, clears both, or sets both for one session.
SetsOK(t, k) ==
  LET c == call[t][k]
      sets == c.reply.sets
  IN \/ "access" \notin DOMAIN sets /\ "refresh" \notin DOMAIN sets /\ ~Gives(t, k)
     \/ /\ "access" \in DOMAIN sets /\ "refresh" \in DOMAIN sets
        /\ sets["access"] = None /\ sets["refresh"] = None /\ ~Gives(t, k)
        /\ c.kind = "logout" \/ (c.kind = "refresh" /\ c.reply.status # 200)
     \/ /\ "access" \in DOMAIN sets /\ "refresh" \in DOMAIN sets /\ Gives(t, k)
        /\ sets["refresh"] # None /\ Pair(sets["access"], sets["refresh"])

\* Who a tab is told that it is.
BodyOK(t, k) ==
  LET c == call[t][k]
  IN c.reply.status = 200 /\ c.kind \in {"me", "login"} => c.reply.body \in Sessions

Paired ==
  /\ Pair(jar["access"], jar["refresh"])
  /\ \A t \in Tabs, k \in Keys :
       LET c == call[t][k]
       IN /\ c.pc = "sent" => Pair(c.cookies["access"], c.cookies["refresh"])
          /\ c.pc = "answered" => SetsOK(t, k) /\ BodyOK(t, k)

LEMMA StoredCookies ==
  ASSUME NEW t \in Tabs, NEW k \in Keys, SetsOK(t, k), jar' = stored(t, k)
  PROVE  LET sets == call[t][k].reply.sets
         IN \/ jar'["access"] = jar["access"] /\ jar'["refresh"] = jar["refresh"]
            \/ /\ jar'["access"] = sets["access"] /\ jar'["refresh"] = sets["refresh"]
               /\ "refresh" \in DOMAIN sets
               /\ Pair(sets["access"], sets["refresh"])
BY DEF stored, SetsOK, CookieNames, Pair

LEMMA ClientKeepsPaired ==
  ASSUME Base, Paired, NEW t \in Tabs, Client(t), JarStep(t)
  PROVE  Paired'
<1>1. Pair(jar["access"], jar["refresh"])'
  BY StoredCookies DEF Paired, JarStep, Pair
<1>2. ASSUME NEW u \in Tabs, NEW k \in Keys
      PROVE  LET c == call'[u][k]
             IN /\ c.pc = "sent" => Pair(c.cookies["access"], c.cookies["refresh"])
                /\ c.pc = "answered" => SetsOK(u, k)' /\ BodyOK(u, k)'
  <2>1. CASE call'[u][k] = call[u][k]
    <3>1. SetsOK(u, k)' = SetsOK(u, k) /\ BodyOK(u, k)' = BodyOK(u, k)
      BY <2>1 DEF SetsOK, BodyOK, Gives
    <3> QED
      BY <2>1, <3>1 DEF Paired
  <2>2. CASE call'[u][k] = Idle(k)
    BY <2>2, IdleEffect
  <2>3. CASE Moves(u, k)
    BY <1>1, <2>3 DEF Moves, Pair
  <2> QED
    BY <2>1, <2>2, <2>3 DEF Client
<1> QED
  BY <1>1, <1>2 DEF Paired, Pair

-----------------------------------------------------------------------------
(* What the server answers, and what it sets.                              *)

NoCookieSet(r) == "access" \notin DOMAIN r.sets /\ "refresh" \notin DOMAIN r.sets
CookiesSet(r) == "access" \in DOMAIN r.sets /\ "refresh" \in DOMAIN r.sets

\* The sessions that have ended, or that somebody has tried to end.
Ended == over \cup {s \in Sessions : revoked[s] > 0}

\* An answer that leaves the cookies: who am I is told by the access cookie.
Leaves(t, k, r) ==
  /\ NoCookieSet(r) /\ UNCHANGED <<current, over, revoked>>
  /\ r.status # 200 \/ call[t][k].kind \notin {"login", "refresh"}
  /\ r.status = 200 /\ call[t][k].kind = "me" =>
       LET access == call[t][k].cookies["access"]
       IN access # None /\ access.sid \notin over /\ r.body = access.sid
\* A refused refresh or a logout: somebody has tried to end the session of the token.
Clears(t, k, r) ==
  /\ CookiesSet(r) /\ r.sets["access"] = None /\ r.sets["refresh"] = None
  /\ \/ call[t][k].kind = "logout"
     \/ call[t][k].kind = "refresh" /\ r.status # 200
  /\ Ended \subseteq Ended'
  /\ LET token == call[t][k].cookies["refresh"]
     IN IF snapshot[t][k] # None THEN snapshot[t][k].sid \in Ended'
        ELSE token # None => token.sid \in Ended'
\* A login, or a refresh, which goes on with the session of its token.
Issues(t, k, r) ==
  /\ CookiesSet(r) /\ r.status = 200 /\ UNCHANGED <<over, revoked>>
  /\ r.sets["refresh"] # None /\ Pair(r.sets["access"], r.sets["refresh"])
  /\ \/ call[t][k].kind = "login" /\ r.body \in Sessions
     \/ /\ call[t][k].kind = "refresh" /\ call[t][k].cookies["refresh"] # None
        /\ r.sets["refresh"].sid = call[t][k].cookies["refresh"].sid
Answers(t, k, r) ==
  /\ answer(t, k, r) /\ UNCHANGED jar
  /\ \/ call[t][k].pc = "sent" /\ (Leaves(t, k, r) \/ Clears(t, k, r) \/ Issues(t, k, r))
     \/ call[t][k].pc = "answered" /\ Leaves(t, k, r) /\ r.status # 200

LEMMA ReplyParts ==
  \A code, body, sets : /\ Reply(code, body, sets).status = code
                        /\ Reply(code, body, sets).body = body
                        /\ Reply(code, body, sets).sets = sets
BY DEF Reply

LEMMA NothingSet == \A code, body : NoCookieSet(Reply(code, body, <<>>))
BY ReplyParts DEF NoCookieSet

LEMMA CookiesIssued ==
  ASSUME NEW s \in Sessions, NEW n \in Nat
  PROVE  LET sets == setAuthCookies(s, n)
         IN /\ DOMAIN sets = {"access", "refresh"}
            /\ sets["refresh"] # None /\ sets["refresh"].sid = s
            /\ Pair(sets["access"], sets["refresh"])
<1>1. PICK access : access = [sid |-> s, key |-> secret, fresh |-> TRUE]
  OBVIOUS
<1>2. PICK refresh : refresh = [sid |-> s, gen |-> n]
  OBVIOUS
<1>3. setAuthCookies(s, n) = [access |-> access, refresh |-> refresh]
  BY <1>1, <1>2 DEF setAuthCookies
<1>4. "sid" \in DOMAIN access /\ access.sid = s
  BY <1>1
<1>5. refresh \in [sid: Sessions, gen: Nat] /\ refresh.sid = s
  BY <1>2
<1>6. refresh # None
  BY <1>5, NoneAssumption
<1> QED
  BY <1>3, <1>4, <1>5, <1>6 DEF Pair

\* What the UPDATE of a refused refresh or of a logout leaves behind.
LEMMA TriedToEnd ==
  ASSUME Base, Marks, NEW t \in Tabs, NEW k \in Keys, call[t][k].pc = "sent",
         revokedFamily(t, k),
         LET c == call[t][k]
         IN c.kind = "logout" \/ (c.kind = "refresh" /\ ~(snapshot[t][k] = None /\ claims(c.cookies["refresh"])))
  PROVE  /\ Ended \subseteq Ended'
         /\ LET token == call[t][k].cookies["refresh"]
            IN IF snapshot[t][k] # None THEN snapshot[t][k].sid \in Ended'
               ELSE token # None => token.sid \in Ended'
<1>1. /\ over \subseteq over' /\ \A s \in Sessions : revoked[s] <= revoked'[s]
      /\ revoked \in [Sessions -> Nat] /\ revoked' \in [Sessions -> Nat]
      /\ snapshot[t][k] # None =>
           LET s == snapshot[t][k].sid
           IN s \in Sessions /\ (s \in over' \/ revoked'[s] > 0)
      /\ snapshot[t][k] = None => ~revokes(call[t][k]) /\ UNCHANGED <<over, revoked>>
  BY RevokedMarks DEF Marks
<1>2. Ended \subseteq Ended'
  BY <1>1 DEF Ended
<1>3. CASE snapshot[t][k] # None
  BY <1>1, <1>2, <1>3 DEF Ended
<1>4. CASE snapshot[t][k] = None
  <2>1. PICK token : token = call[t][k].cookies["refresh"]
    OBVIOUS
  <2>2. ASSUME token # None PROVE token.sid \in Ended'
    <3>1. token.sid \in Sessions /\ token.gen \in Nat /\ token.gen > 0
      BY <2>1, <2>2 DEF Base, TokensKnown, Known
    <3>2. token.sid \in over \/ token.gen <= revoked[token.sid]
      BY <1>1, <1>4, <2>1, <2>2, <3>1 DEF revokes
    <3> QED
      BY <1>1, <1>4, <3>1, <3>2 DEF Ended
  <2> QED
    BY <1>2, <1>4, <2>1, <2>2
<1> QED
  BY <1>3, <1>4

LEMMA ServeAnswers ==
  ASSUME Base, Marks, NEW t \in Tabs, NEW k \in Keys, serve(t, k)
  PROVE  \E r : Answers(t, k, r)
<1>0. /\ call[t][k].pc = "sent" /\ UNCHANGED jar
      /\ LET token == call[t][k].cookies["refresh"]
         IN token # None => token.sid \in Sessions /\ current[token.sid] \in Nat
  BY DEF serve, Base, TokensKnown, Known
<1>1. CASE csrfController(t, k)
  <2>1. PICK token : /\ call[t][k].kind = "csrf" /\ UNCHANGED <<current, over, revoked>>
                     /\ answer(t, k, Reply(200, token, [csrf |-> token]))
    BY <1>1 DEF csrfController, server
  <2>2. PICK r : r = Reply(200, token, [csrf |-> token])
    OBVIOUS
  <2>3. NoCookieSet(r)
    BY <2>2, ReplyParts DEF NoCookieSet
  <2> QED
    BY <1>0, <2>1, <2>2, <2>3 DEF Answers, Leaves
<1>2. CASE loginController(t, k)
  <2>1. CASE answer(t, k, Reply(401, None, <<>>)) /\ UNCHANGED current
    <3>1. PICK r : r = Reply(401, None, <<>>)
      OBVIOUS
    <3>2. Leaves(t, k, r)
      BY <1>2, <2>1, <3>1, ReplyParts, NothingSet DEF loginController, Leaves
    <3> QED
      BY <1>0, <2>1, <3>1, <3>2 DEF Answers
  <2>2. CASE ~(answer(t, k, Reply(401, None, <<>>)) /\ UNCHANGED current)
    <3>1. PICK s \in Sessions :
            answer(t, k, Reply(200, s,
              [n \in CookieNames |-> IF n = "csrf" THEN issueCsrfToken(s)
                                     ELSE setAuthCookies(s, 1)[n]]))
      BY <1>2, <2>2 DEF loginController
    <3>2. PICK sets : sets = [n \in CookieNames |-> IF n = "csrf" THEN issueCsrfToken(s)
                                                    ELSE setAuthCookies(s, 1)[n]]
      OBVIOUS
    <3>3. /\ DOMAIN sets = CookieNames /\ sets["access"] = setAuthCookies(s, 1)["access"]
          /\ sets["refresh"] = setAuthCookies(s, 1)["refresh"]
      BY <3>2 DEF CookieNames
    <3>4. sets["refresh"] # None /\ Pair(sets["access"], sets["refresh"])
      BY <3>3, CookiesIssued
    <3>5. call[t][k].kind = "login" /\ UNCHANGED <<over, revoked>>
      BY <1>2 DEF loginController
    <3>6. PICK r : r = Reply(200, s, sets)
      OBVIOUS
    <3>7. /\ answer(t, k, r)
          /\ r.status = 200 /\ r.body = s /\ r.sets = sets
      BY <3>1, <3>2, <3>6, ReplyParts
    <3>8. Issues(t, k, r)
      BY <3>3, <3>4, <3>5, <3>7 DEF Issues, CookiesSet, CookieNames
    <3> QED
      BY <1>0, <3>7, <3>8 DEF Answers
  <2> QED
    BY <2>1, <2>2
<1>3. CASE refreshController(t, k)
  <2>1. PICK token : token = call[t][k].cookies["refresh"]
    OBVIOUS
  <2>2. CASE snapshot[t][k] = None /\ claims(token)
    <3>1. /\ UNCHANGED <<over, revoked>> /\ call[t][k].kind = "refresh"
          /\ answer(t, k, Reply(200, None, setAuthCookies(token.sid, token.gen + 1)))
      BY <1>3, <2>1, <2>2, ZenonT(60) DEF refreshController
    <3>2. PICK sets : sets = setAuthCookies(token.sid, token.gen + 1)
      OBVIOUS
    <3>3. /\ DOMAIN sets = {"access", "refresh"} /\ sets["refresh"] # None
          /\ sets["refresh"].sid = token.sid /\ Pair(sets["access"], sets["refresh"])
      <4>1. token.sid \in Sessions /\ token.gen + 1 \in Nat
        BY <1>0, <2>1, <2>2 DEF claims
      <4> QED
        BY <3>2, <4>1, CookiesIssued
    <3>4. PICK r : r = Reply(200, None, sets)
      OBVIOUS
    <3>5. answer(t, k, r) /\ r.status = 200 /\ r.sets = sets
      BY <3>1, <3>2, <3>4, ReplyParts
    <3>6. Issues(t, k, r)
      BY <2>1, <2>2, <3>1, <3>3, <3>5 DEF Issues, CookiesSet, claims
    <3> QED
      BY <1>0, <3>5, <3>6 DEF Answers
  <2>3. CASE ~(snapshot[t][k] = None /\ claims(token))
    <3>1. /\ revokedFamily(t, k)
          /\ answer(t, k, Reply(401, None, clearAuthCookies))
          /\ call[t][k].kind = "refresh"
      BY <1>3, <2>1, <2>3 DEF refreshController
    <3>2. PICK r : r = Reply(401, None, clearAuthCookies)
      OBVIOUS
    <3>3. /\ r.status = 401 /\ CookiesSet(r)
          /\ r.sets["access"] = None /\ r.sets["refresh"] = None
      BY <3>2, ReplyParts DEF CookiesSet, clearAuthCookies, NoCookies
    <3>4. Clears(t, k, r)
      BY <1>0, <2>1, <2>3, <3>1, <3>3, TriedToEnd DEF Clears
    <3> QED
      BY <1>0, <3>1, <3>2, <3>4 DEF Answers
  <2> QED
    BY <2>2, <2>3
<1>4. CASE logoutController(t, k)
  <2>2. /\ revokedFamily(t, k)
        /\ answer(t, k, Reply(200, None, clearAuthCookies))
        /\ call[t][k].kind = "logout"
    BY <1>4 DEF logoutController
  <2>3. PICK r : r = Reply(200, None, clearAuthCookies)
    OBVIOUS
  <2>4. CookiesSet(r) /\ r.sets["access"] = None /\ r.sets["refresh"] = None
    BY <2>3, ReplyParts DEF CookiesSet, clearAuthCookies, NoCookies
  <2>5. Clears(t, k, r)
    BY <1>0, <2>2, <2>4, TriedToEnd DEF Clears
  <2> QED
    BY <1>0, <2>2, <2>3, <2>5 DEF Answers
<1>5. CASE registerController(t, k)
  <2>1. PICK r : r = Reply(200, None, <<>>)
    OBVIOUS
  <2>2. Leaves(t, k, r) /\ answer(t, k, r)
    BY <1>5, <2>1, NothingSet DEF registerController, Leaves, server
  <2> QED
    BY <1>0, <2>2 DEF Answers
<1>6. CASE apiController(t, k)
  <2>1. PICK access : access = call[t][k].cookies["access"]
    OBVIOUS
  <2>2. /\ answer(t, k, Reply(200, access.sid, <<>>)) /\ UNCHANGED <<current, over, revoked>>
        /\ call[t][k].kind \in {"me", "change"} /\ access # None /\ access.sid \notin over
    BY <1>6, <2>1 DEF apiController, authenticate, server
  <2>3. PICK r : r = Reply(200, access.sid, <<>>)
    OBVIOUS
  <2>4. Leaves(t, k, r)
    BY <2>1, <2>2, <2>3, ReplyParts, NothingSet DEF Leaves
  <2> QED
    BY <1>0, <2>2, <2>3, <2>4 DEF Answers
<1>7. CASE unauthorized(t, k) \/ forbidden(t, k)
  <2>1. PICK code \in {401, 403} : answer(t, k, Reply(code, None, <<>>))
    BY <1>7 DEF unauthorized, forbidden
  <2>2. PICK r : r = Reply(code, None, <<>>)
    OBVIOUS
  <2>3. Leaves(t, k, r)
    BY <1>7, <2>1, <2>2, ReplyParts, NothingSet DEF unauthorized, forbidden, Leaves, server
  <2> QED
    BY <1>0, <2>1, <2>2, <2>3 DEF Answers
<1> QED
  BY <1>1, <1>2, <1>3, <1>4, <1>5, <1>6, <1>7 DEF serve

LEMMA FailureAnswers ==
  ASSUME NEW t \in Tabs, NEW k \in Keys, fails(t, k)
  PROVE  \E r : Answers(t, k, r)
<1>1. CASE serverFails(t, k)
  <2>1. PICK code \in {0, 500} : answer(t, k, Reply(code, None, <<>>))
    BY <1>1 DEF serverFails
  <2>2. PICK r : r = Reply(code, None, <<>>)
    OBVIOUS
  <2>3. Leaves(t, k, r)
    BY <1>1, <2>1, <2>2, ReplyParts, NothingSet DEF serverFails, Leaves, server
  <2> QED
    BY <1>1, <2>1, <2>2, <2>3 DEF Answers, serverFails
<1>2. CASE responseLost(t, k)
  <2>1. NoReply.status = 0 /\ NoCookieSet(NoReply)
    BY DEF NoReply, NoCookieSet
  <2>2. Leaves(t, k, NoReply)
    BY <1>2, <2>1 DEF responseLost, Leaves, server
  <2> QED
    BY <1>2, <2>1, <2>2 DEF Answers, responseLost
<1> QED
  BY <1>1, <1>2 DEF fails

LEMMA ServerKeepsPaired ==
  ASSUME Base, Paired, NEW t \in Tabs, NEW k \in Keys, NEW r, Answers(t, k, r)
  PROVE  Paired'
<1>1. answer(t, k, r) /\ UNCHANGED jar
  BY DEF Answers
<1>2. /\ \A u \in Tabs, j \in Keys : u # t \/ j # k => call'[u][j] = call[u][j]
      /\ call'[t][k].pc = "answered" /\ call'[t][k].reply = r
      /\ call'[t][k].kind = call[t][k].kind
  BY <1>1, AnswerEffect DEF Base
<1>3. \A u \in Tabs, j \in Keys : u # t \/ j # k =>
        SetsOK(u, j)' = SetsOK(u, j) /\ BodyOK(u, j)' = BodyOK(u, j)
  BY <1>2 DEF SetsOK, BodyOK, Gives
<1>4. Gives(t, k)' <=> r.status = 200 /\ call[t][k].kind \in {"login", "refresh"}
  BY <1>2 DEF Gives
<1>5. SetsOK(t, k)'
  BY <1>2, <1>4 DEF SetsOK, Answers, Leaves, Clears, Issues, NoCookieSet, CookiesSet
<1>6. BodyOK(t, k)'
  <2>1. r.status = 200 /\ call[t][k].kind = "me" => r.body \in Sessions
    <3> SUFFICES ASSUME r.status = 200, call[t][k].kind = "me" PROVE r.body \in Sessions
      OBVIOUS
    <3>1. call[t][k].pc = "sent" /\ Leaves(t, k, r)
      BY DEF Answers, Clears, Issues
    <3>2. /\ call[t][k].cookies["access"] # None
          /\ r.body = call[t][k].cookies["access"].sid
      BY <3>1 DEF Leaves
    <3>3. /\ call[t][k].cookies["refresh"] # None
          /\ call[t][k].cookies["access"].sid = call[t][k].cookies["refresh"].sid
      BY <3>1, <3>2 DEF Paired, Pair
    <3> QED
      BY <3>1, <3>2, <3>3 DEF Base, TokensKnown, Known
  <2>2. r.status = 200 /\ call[t][k].kind = "login" => r.body \in Sessions
    BY DEF Answers, Leaves, Clears, Issues
  <2> QED
    BY <1>2, <2>1, <2>2 DEF BodyOK
<1> QED
  BY <1>1, <1>2, <1>3, <1>5, <1>6 DEF Paired, Pair

LEMMA ElsewhereKeepsPaired ==
  ASSUME Base, Paired, Elsewhere
  PROVE  Paired'
<1>1. UNCHANGED call /\ jar'["refresh"] = jar["refresh"]
  BY ElsewhereStep
<1>2. Pair(jar["access"], jar["refresh"])'
  <2>1. CASE accessExpires
    <3>1. PICK access : access = jar["access"]
      OBVIOUS
    <3>2. jar'["access"] = [access EXCEPT !.fresh = FALSE] /\ access # None
      BY <2>1, <3>1, SMTT(30) DEF accessExpires, Base, Domains, CookieNames
    <3>3. "sid" \in DOMAIN access /\ access.sid = jar["refresh"].sid /\ jar["refresh"] # None
      BY <3>1, <3>2 DEF Paired, Pair
    <3> QED
      BY <1>1, <3>2, <3>3 DEF Pair
  <2>2. CASE ~accessExpires
    <3>1. UNCHANGED jar
      BY <2>2 DEF Elsewhere, RevokeStarts, revokeFamilyStarts, environment, sessionEnds,
                  secretChanges, vars
    <3> QED
      BY <3>1 DEF Paired
  <2> QED
    BY <2>1, <2>2
<1>3. \A t, k : SetsOK(t, k)' = SetsOK(t, k) /\ BodyOK(t, k)' = BodyOK(t, k)
  BY <1>1 DEF SetsOK, BodyOK, Gives
<1> QED
  BY <1>1, <1>2, <1>3 DEF Paired, Pair

LEMMA PairedNext ==
  ASSUME Base, Marks, Paired, [Next]_vars
  PROVE  Paired'
BY StepCases, ClientStep, ClientKeepsPaired, ServeAnswers, FailureAnswers,
   ServerKeepsPaired, ElsewhereKeepsPaired

LEMMA PairedInit ==
  ASSUME Init
  PROVE  Paired
BY IdleEffect DEF Init, Paired, Pair, NoCookies, Keys

LEMMA AuthPaired == AuthSpec => []Paired
<1>1. Base /\ Marks /\ Paired /\ [AuthNext]_allVars => Paired'
  <2> SUFFICES ASSUME Base, Marks, Paired, [AuthNext]_allVars PROVE Paired'
    OBVIOUS
  <2>1. ASSUME NEW t \in Tabs, NEW S \in SUBSET Slots, App(t, S) PROVE Paired'
    BY <2>1, AppStep, ClientKeepsPaired DEF JarStep
  <2> QED
    BY <2>1, AuthStepCases, PairedNext
<1> QED
  BY <1>1, AuthBase, AuthMarks, PairedInit, PTL DEF AuthSpec, AuthInit

-----------------------------------------------------------------------------
(* What a tab believes.                                                    *)

Views == [status: {"idle", "loading", "anonymous"}, user: {None}]
         \cup [status: {"loading", "authenticated"}, user: Sessions]

Viewed ==
  /\ auth \in [Tabs -> Views] /\ loggedOut \subseteq Tabs
  /\ overtaken \in [Tabs -> {"no", "pending", "shown"}]

\* A page that has not asked who it is yet has asked nothing.
Unasked == \A t \in Tabs : auth[t].status = "idle" =>
  /\ overtaken[t] = "no"
  /\ \A k \in Keys : call[t][k] = Idle(k) /\ snapshot[t][k] = None

LEMMA ViewParts ==
  ASSUME NEW v \in Views
  PROVE  /\ v.user = None \/ (v.status \in {"loading", "authenticated"} /\ v.user \in Sessions)
         /\ v.status \in {"idle", "loading", "anonymous", "authenticated"}
         /\ v.user = None => v.status # "authenticated"
         /\ v.status \in {"idle", "anonymous"} => v.user = None
         /\ clearSession(v) \in Views /\ clearSession(v).user = None
         /\ clearSession(v).status = "anonymous"
         /\ v.status # "authenticated" \/ v.user # None =>
              /\ [v EXCEPT !.status = "loading"] \in Views
              /\ [v EXCEPT !.status = "loading"].user = v.user
              /\ [v EXCEPT !.status = "loading"].status = "loading"
BY NoneAssumption DEF Views, clearSession

LEMMA SomeViews ==
  /\ initialAuthState \in Views /\ initialAuthState.user = None
  /\ \A s \in Sessions : /\ applySession(s) \in Views /\ applySession(s).user = s
                         /\ applySession(s).status = "authenticated"
BY DEF Views, initialAuthState, applySession

\* The cookies stay unless a logout or a refused refresh clears them.
LEMMA JarKept ==
  ASSUME NEW t \in Tabs, NEW k \in Keys, SetsOK(t, k), jar' = stored(t, k),
         call[t][k].kind # "logout",
         call[t][k].kind = "refresh" => call[t][k].reply.status = 200
  PROVE  /\ jar["refresh"] # None => jar'["refresh"] # None
         /\ IF Gives(t, k) THEN jar'["refresh"] # None ELSE jar'["refresh"] = jar["refresh"]
BY DEF SetsOK, stored, CookieNames, Gives

\* What an answer does to what the tab believes: nothing, or nobody is signed in any more,
\* and only then are the cookies cleared; or somebody is signed in, by a fetchMe, which
\* sets no cookies, or by a login, which does.
Stays(t) ==
  /\ \/ auth' = auth /\ (jar["refresh"] # None => jar'["refresh"] # None)
     \/ auth' = [auth EXCEPT ![t] = clearSession(@)]
  /\ UNCHANGED overtaken
SignsIn(t, k) ==
  /\ k \in Slots /\ call[t][k].pc = "answered" /\ call[t][k].reply.status = 200
  /\ call[t][k].reply.body \in Sessions
  /\ auth' = [auth EXCEPT ![t] = applySession(call[t][k].reply.body)]
  /\ \/ /\ call[t][k].kind = "me" /\ jar'["refresh"] = jar["refresh"]
        /\ overtaken' = IF overtaken[t] = "pending"
                        THEN [overtaken EXCEPT ![t] = "shown"] ELSE overtaken
     \/ call[t][k].kind = "login" /\ jar'["refresh"] # None /\ UNCHANGED overtaken

LEMMA RejectedView ==
  ASSUME NEW t \in Tabs, NEW S, Rejected(t, S), loggedOut \subseteq Tabs
  PROVE  /\ auth' = auth \/ auth' = [auth EXCEPT ![t] = clearSession(@)]
         /\ (\E k \in S : call[t][k].kind \in Thunks \cup {"refresh"})
              => auth' = [auth EXCEPT ![t] = clearSession(@)]
         /\ UNCHANGED overtaken /\ loggedOut' \subseteq Tabs
BY DEF Rejected

LEMMA HandleView ==
  ASSUME Base, Paired, Viewed, NEW t \in Tabs, NEW k \in Keys, AuthHandle(t, k)
  PROVE  (Stays(t) \/ SignsIn(t, k)) /\ loggedOut' \subseteq Tabs
<1>0. /\ \A j \in Keys : call[t][j].pc = "answered" => SetsOK(t, j) /\ BodyOK(t, j)
      /\ \A j \in Internal : call[t][j].kind = j
      /\ call[t][k].pc # "idle" /\ k \in Slots => call[t][k].kind \in Kinds
      /\ loggedOut \subseteq Tabs /\ "csrf" \in Keys /\ "refresh" \in Keys
      /\ k \notin Internal => k \in Slots
  BY DEF Base, Paired, KindsOK, Viewed, Keys, Internal
<1>1. CASE thunkFulfilled(t, k)
  <2>1. /\ k \in Slots /\ call[t][k].pc = "answered" /\ call[t][k].reply.status = 200
        /\ jar' = stored(t, k) /\ call[t][k].kind \in Kinds
    BY <1>0, <1>1 DEF thunkFulfilled, fulfilled, arrived, status
  <2>2. loggedOut' \subseteq Tabs
    BY <1>0, <1>1 DEF thunkFulfilled
  <2>3. CASE call[t][k].kind \in {"me", "login"}
    <3>1. auth' = [auth EXCEPT ![t] = applySession(call[t][k].reply.body)]
      BY <1>1, <2>3 DEF thunkFulfilled
    <3>2. /\ call[t][k].reply.body \in Sessions
          /\ IF Gives(t, k) THEN jar'["refresh"] # None ELSE jar'["refresh"] = jar["refresh"]
      BY <1>0, <2>1, <2>3, JarKept DEF BodyOK
    <3>3. Gives(t, k) <=> call[t][k].kind = "login"
      BY <2>1, <2>3 DEF Gives
    <3>4. overtaken' = IF call[t][k].kind = "me" /\ overtaken[t] = "pending"
                       THEN [overtaken EXCEPT ![t] = "shown"] ELSE overtaken
      BY <1>1 DEF thunkFulfilled
    <3> QED
      BY <2>1, <2>2, <2>3, <3>1, <3>2, <3>3, <3>4 DEF SignsIn
  <2>4. CASE call[t][k].kind = "logout"
    <3>1. auth' = [auth EXCEPT ![t] = clearSession(@)] /\ UNCHANGED overtaken
      BY <1>1, <2>4 DEF thunkFulfilled
    <3> QED
      BY <2>2, <3>1 DEF Stays
  <2>5. CASE call[t][k].kind \notin {"me", "login", "logout"}
    <3>1. auth' = [auth EXCEPT ![t] = @] /\ UNCHANGED overtaken
      BY <1>1, <2>5 DEF thunkFulfilled
    <3>2. auth' = auth
      BY <3>1 DEF Viewed
    <3>3. jar["refresh"] # None => jar'["refresh"] # None
      BY <1>0, <2>1, <2>5, JarKept DEF Kinds
    <3> QED
      BY <2>2, <3>1, <3>2, <3>3 DEF Stays
  <2> QED
    BY <2>3, <2>4, <2>5
<1>2. CASE thunkRejected(t, k)
  <2>1. /\ k \in Slots /\ call[t][k].pc = "answered" /\ jar' = stored(t, k)
        /\ call[t][k].kind \in Kinds /\ Rejected(t, {k})
    BY <1>0, <1>2 DEF thunkRejected, rejected, arrived
  <2>2. call[t][k].kind # "logout" => (jar["refresh"] # None => jar'["refresh"] # None)
    BY <1>0, <2>1, JarKept DEF Kinds
  <2> QED
    BY <1>0, <2>1, <2>2, RejectedView DEF Stays, Thunks
<1>3. CASE goesOn(t, k)
  <2>1. UNCHANGED <<auth, loggedOut, overtaken>>
    BY <1>3 DEF goesOn, authVars
  <2>2. CASE refreshSession(t, k)
    <3>1. /\ call[t][k].pc = "answered" /\ jar' = stored(t, k) /\ k \in Slots
          /\ call[t][k].kind # "logout" /\ call[t][k].kind \in Kinds
      BY <1>0, <2>2 DEF refreshSession, arrived, canRefresh, NO_REFRESH_PATHS
    <3> QED
      BY <1>0, <2>1, <3>1, JarKept DEF Stays, Kinds
  <2>3. CASE csrfFetched(t)
    <3>1. /\ call[t]["csrf"].pc = "answered" /\ jar' = stored(t, "csrf")
          /\ call[t]["csrf"].kind = "csrf"
      BY <1>0, <2>3 DEF csrfFetched, arrived, Internal
    <3> QED
      BY <1>0, <2>1, <3>1, JarKept DEF Stays
  <2>4. CASE sessionRefreshed(t)
    <3>1. /\ call[t]["refresh"].pc = "answered" /\ jar' = stored(t, "refresh")
          /\ call[t]["refresh"].kind = "refresh" /\ call[t]["refresh"].reply.status = 200
      BY <1>0, <2>4 DEF sessionRefreshed, arrived, status, Internal
    <3> QED
      BY <1>0, <2>1, <3>1, JarKept DEF Stays
  <2> QED
    BY <1>3, <2>2, <2>3, <2>4 DEF goesOn
<1>4. CASE csrfExpired(t)
  <2>1. /\ call[t]["csrf"].pc = "answered" /\ jar' = stored(t, "csrf")
        /\ call[t]["csrf"].kind = "csrf" /\ Rejected(t, At(t, "csrf"))
    BY <1>0, <1>4 DEF csrfExpired, csrfFails, arrived, Internal
  <2>2. jar["refresh"] # None => jar'["refresh"] # None
    BY <1>0, <2>1, JarKept
  <2> QED
    BY <1>0, <2>1, <2>2, RejectedView DEF Stays
<1>5. CASE sessionExpired(t)
  <2>1. Rejected(t, {"refresh"}) /\ call[t]["refresh"].kind = "refresh"
    BY <1>0, <1>5 DEF sessionExpired, Internal
  <2> QED
    BY <1>0, <2>1, RejectedView DEF Stays
<1> QED
  BY <1>1, <1>2, <1>3, <1>4, <1>5 DEF AuthHandle

\* A call that the application makes.
LEMMA CallView ==
  ASSUME Viewed, NEW t \in Tabs, NEW k \in Slots,
         login(t, k) \/ logout(t, k) \/ screenRequest(t, k)
  PROVE  /\ auth[t].status # "idle" /\ UNCHANGED <<jar, over, revoked>>
         /\ \E kind \in Kinds \ {"me"} : request(t, k, kind) /\ (kind = "login" => login(t, k))
         /\ \/ auth' = auth /\ UNCHANGED <<loggedOut, overtaken>>
            \/ /\ login(t, k)
               /\ auth' = [auth EXCEPT ![t] = [@ EXCEPT !.status = "loading"]]
               /\ loggedOut' \subseteq Tabs /\ Viewed'
<1>0. \A kind : request(t, k, kind) => UNCHANGED <<jar, over, revoked>>
  BY DEF request, server
<1>1. auth[t] \in Views
  BY DEF Viewed
<1>2. CASE login(t, k)
  <2>1. /\ auth[t].status # "idle" /\ request(t, k, "login")
        /\ auth' = [auth EXCEPT ![t] = [@ EXCEPT !.status = "loading"]]
        /\ loggedOut' \subseteq Tabs /\ overtaken' \in [Tabs -> {"no", "pending", "shown"}]
    BY <1>2 DEF login, Viewed
  <2>2. [auth[t] EXCEPT !.status = "loading"] \in Views
    BY <1>1, <2>1, ViewParts
  <2>3. auth' \in [Tabs -> Views]
    BY <2>1, <2>2 DEF Viewed
  <2>4. Viewed'
    BY <2>1, <2>3 DEF Viewed
  <2> QED
    BY <1>0, <1>2, <2>1, <2>2, <2>4 DEF Kinds
<1>3. CASE logout(t, k)
  <2>1. auth[t].user # None /\ request(t, k, "logout") /\ UNCHANGED authVars
    BY <1>3 DEF logout
  <2>2. auth[t].status # "idle"
    BY <1>1, <2>1, ViewParts
  <2> QED
    BY <1>0, <2>1, <2>2 DEF authVars, Kinds
<1>4. CASE screenRequest(t, k)
  BY <1>0, <1>4 DEF screenRequest, authVars, Kinds
<1> QED
  BY <1>2, <1>3, <1>4

LEMMA HandleSteps ==
  ASSUME Base, NEW t \in Tabs, NEW k \in Keys, AuthHandle(t, k)
  PROVE  /\ Client(t) /\ JarStep(t) /\ Continues(t)
         /\ \E j \in Keys : call[t][j].pc = "answered"
<1>1. "csrf" \in Keys /\ "refresh" \in Keys
  BY DEF Keys, Internal
<1>2. PICK j \in Keys : handle(t, j)
  BY <1>1 DEF AuthHandle, thunkFulfilled, thunkRejected, goesOn, csrfExpired,
              sessionExpired, handle
<1>3. Client(t) /\ JarStep(t)
  BY <1>2, ClientStep DEF ClientSteps
<1>4. Continues(t)
  BY <1>2, SettleStep, CsrfStep, RefreshStep, RefreshedStep DEF handle
<1>5. \E i \in Keys : call[t][i].pc = "answered"
  BY <1>1, <1>2 DEF handle, fulfilled, rejected, refreshSession, csrfFetched, csrfFails,
                    sessionRefreshed, refreshFails, arrived
<1> QED
  BY <1>3, <1>4, <1>5

\* A page load forgets what the tab was waiting for.
LEMMA LoadStep ==
  ASSUME Base, NEW t \in Tabs, makeStore(t)
  PROVE  /\ Client(t) /\ UNCHANGED <<jar, over, revoked>>
         /\ snapshot' = [snapshot EXCEPT ![t] = [k \in Keys |-> None]]
         /\ \A k \in Keys : call'[t][k] = Idle(k)
         /\ auth' = [auth EXCEPT ![t] = initialAuthState]
         /\ overtaken' = [overtaken EXCEPT ![t] = "no"] /\ loggedOut' = loggedOut \ {t}
<1>1. /\ call' = [call EXCEPT ![t] = settled(t, Slots \cup Internal)]
      /\ UNCHANGED <<current, over, revoked, jar>>
      /\ snapshot' = [snapshot EXCEPT ![t] = [k \in Keys |-> None]]
  BY DEF makeStore, pageLoad, server, Keys
<1>2. DOMAIN jar' = CookieNames
  BY <1>1 DEF Base, Domains
<1>3. /\ Client(t)
      /\ \A k \in Keys : call'[t][k] = IF k \in Slots \cup Internal THEN Idle(k) ELSE call[t][k]
  BY <1>1, <1>2, Settling
<1> QED
  BY <1>1, <1>3 DEF makeStore, Keys

\* The answers that a tab handles leave no trace of a revocation.
LEMMA HandleForgets ==
  ASSUME Base, Marks, NEW t \in Tabs, NEW k \in Keys, AuthHandle(t, k)
  PROVE  \A u \in Tabs, j \in Keys : snapshot'[u][j] \in {snapshot[u][j], None}
<1>1. "csrf" \in Keys /\ "refresh" \in Keys
  BY DEF Keys, Internal
<1>2. PICK j \in Keys : handle(t, j)
  BY <1>1 DEF AuthHandle, thunkFulfilled, thunkRejected, goesOn, csrfExpired,
              sessionExpired, handle
<1> QED
  BY <1>2, ClientMarks DEF ClientSteps

LEMMA OthersKept ==
  ASSUME NEW t \in Tabs, Client(t)
  PROVE  \A u \in Tabs, k \in Keys : u # t => call'[u][k] = call[u][k]
BY DEF Client

LEMMA AnswerStep ==
  ASSUME Base, Marks, NEW t \in Tabs, NEW k \in Keys, serve(t, k) \/ fails(t, k)
  PROVE  /\ call[t][k].pc \in {"sent", "answered"}
         /\ \A u \in Tabs, j \in Keys : u # t \/ j # k => call'[u][j] = call[u][j]
<1>1. PICK r : Answers(t, k, r)
  BY ServeAnswers, FailureAnswers
<1> QED
  BY <1>1, AnswerEffect DEF Answers, Base

\* A revocation starts for a call that is under way; the other steps forget it or leave it.
LEMMA SnapshotKept ==
  ASSUME Base, Marks, [AuthNext]_allVars, NEW t \in Tabs, \A k \in Keys : call[t][k] = Idle(k),
         NEW k \in Keys, snapshot[t][k] = None
  PROVE  snapshot'[t][k] = None
<1>1. CASE \E u \in Tabs, S \in SUBSET Slots : App(u, S)
  BY <1>1 DEF App
<1>2. CASE \E u \in Tabs : ClientSteps(u)
  BY <1>2, ClientMarks
<1>3. CASE \E u \in Tabs, j \in Keys : serve(u, j) \/ fails(u, j)
  <2>1. PICK u \in Tabs, j \in Keys : snapshot' = [snapshot EXCEPT ![u][j] = None]
    BY <1>3, ServerMarks
  <2> QED
    BY <2>1 DEF Marks
<1>4. CASE Elsewhere
  <2>1. CASE UNCHANGED snapshot
    BY <2>1
  <2>2. CASE ~UNCHANGED snapshot
    <3>1. PICK u \in Tabs, j \in Keys :
            /\ revokeFamilyStarts(u, j)
            /\ u # t \/ j # k => snapshot'[t][k] = snapshot[t][k]
      BY <1>4, <2>2, ElsewhereMarks
    <3> QED
      BY <3>1, IdleEffect DEF revokeFamilyStarts
  <2> QED
    BY <2>1, <2>2
<1> QED
  BY <1>1, <1>2, <1>3, <1>4, AuthStepCases, StepCases

LEMMA ViewedNext ==
  ASSUME Base, Marks, Paired, Viewed, Unasked, [AuthNext]_allVars
  PROVE  Viewed' /\ Unasked'
<1>0. \A u \in Tabs, k \in Keys : auth[u].status = "idle" => snapshot'[u][k] = None
  BY SnapshotKept DEF Unasked
<1>1. ASSUME NEW t \in Tabs, NEW S \in SUBSET Slots, App(t, S) PROVE Viewed' /\ Unasked'
  <2>1. /\ auth[t].status = "idle" /\ UNCHANGED <<loggedOut, overtaken>>
        /\ auth' = [auth EXCEPT ![t] = [@ EXCEPT !.status = "loading"]]
    BY <1>1 DEF App
  <2>2. /\ [auth[t] EXCEPT !.status = "loading"] \in Views
        /\ [auth[t] EXCEPT !.status = "loading"].status = "loading"
    BY <2>1, ViewParts DEF Viewed
  <2>3. /\ auth' \in [Tabs -> Views] /\ auth'[t].status = "loading"
        /\ \A u \in Tabs \ {t} : auth'[u] = auth[u]
    BY <2>1, <2>2 DEF Viewed
  <2>4. \A u \in Tabs, k \in Keys : u # t => call'[u][k] = call[u][k]
    BY <1>1, AppStep, OthersKept
  <2> QED
    BY <1>0, <2>1, <2>3, <2>4 DEF Viewed, Unasked
<1>2. ASSUME NEW t \in Tabs, NEW k \in Slots, login(t, k) \/ logout(t, k) \/ screenRequest(t, k)
      PROVE  Viewed' /\ Unasked'
  <2>1. PICK kind \in Kinds : request(t, k, kind)
    BY <1>2, CallView
  <2>2. \A u \in Tabs, j \in Keys : u # t => call'[u][j] = call[u][j]
    BY <2>1, RequestStep, OthersKept
  <2>3. auth[t].status # "idle"
    BY <1>2, CallView
  <2>4. CASE auth' = auth /\ UNCHANGED <<loggedOut, overtaken>>
    BY <1>0, <2>2, <2>3, <2>4 DEF Viewed, Unasked
  <2>5. CASE /\ login(t, k) /\ Viewed'
             /\ auth' = [auth EXCEPT ![t] = [@ EXCEPT !.status = "loading"]]
    <3>1. \A u \in Tabs \ {t} : auth'[u] = auth[u]
      BY <2>5 DEF Viewed
    <3>2. auth'[t].status = "loading"
      BY <2>5, ViewParts DEF Viewed
    <3>3. \A u \in Tabs \ {t} : overtaken'[u] = overtaken[u]
      BY <2>5 DEF login, Viewed
    <3> QED
      BY <1>0, <2>2, <2>5, <3>1, <3>2, <3>3 DEF Unasked
  <2> QED
    BY <1>2, <2>4, <2>5, CallView
<1>3. ASSUME NEW t \in Tabs, NEW k \in Keys, AuthHandle(t, k) PROVE Viewed' /\ Unasked'
  <2>1. /\ \A u \in Tabs, j \in Keys : u # t => call'[u][j] = call[u][j]
        /\ auth[t].status # "idle"
    BY <1>3, HandleSteps, OthersKept, IdleEffect DEF Unasked
  <2>2. loggedOut' \subseteq Tabs /\ auth[t] \in Views
    BY <1>3, HandleView DEF Viewed
  <2>3. CASE Stays(t)
    <3>1. CASE auth' = auth
      BY <1>0, <2>1, <2>2, <2>3, <3>1 DEF Stays, Viewed, Unasked
    <3>2. CASE auth' = [auth EXCEPT ![t] = clearSession(@)]
      <4>1. clearSession(auth[t]) \in Views /\ clearSession(auth[t]).status = "anonymous"
        BY <2>2, ViewParts
      <4>2. /\ auth' \in [Tabs -> Views] /\ auth'[t].status = "anonymous"
            /\ \A u \in Tabs \ {t} : auth'[u] = auth[u]
        BY <3>2, <4>1 DEF Viewed
      <4> QED
        BY <1>0, <2>1, <2>2, <2>3, <4>2 DEF Stays, Viewed, Unasked
    <3> QED
      BY <2>3, <3>1, <3>2 DEF Stays
  <2>4. CASE SignsIn(t, k)
    <3>1. PICK v \in Views : v.status = "authenticated" /\ auth' = [auth EXCEPT ![t] = v]
      BY <2>4, SomeViews DEF SignsIn
    <3>2. /\ auth' \in [Tabs -> Views] /\ auth'[t].status = "authenticated"
          /\ \A u \in Tabs \ {t} : auth'[u] = auth[u]
      BY <3>1 DEF Viewed
    <3>3. /\ overtaken' \in [Tabs -> {"no", "pending", "shown"}]
          /\ \A u \in Tabs \ {t} : overtaken'[u] = overtaken[u]
      BY <2>4 DEF SignsIn, Viewed
    <3> QED
      BY <1>0, <2>1, <2>2, <3>2, <3>3 DEF Viewed, Unasked
  <2> QED
    BY <1>3, <2>3, <2>4, HandleView
<1>4. ASSUME NEW t \in Tabs, NEW k \in Keys, serve(t, k) \/ fails(t, k), UNCHANGED authVars
      PROVE  Viewed' /\ Unasked'
  <2>1. auth[t].status # "idle"
    BY <1>4, AnswerStep, IdleEffect DEF Unasked
  <2> QED
    BY <1>0, <1>4, <2>1, AnswerStep DEF Viewed, Unasked, authVars
<1>5. ASSUME NEW t \in Tabs, makeStore(t) PROVE Viewed' /\ Unasked'
  <2>1. /\ auth' \in [Tabs -> Views]
        /\ \A u \in Tabs \ {t} : auth'[u] = auth[u] /\ overtaken'[u] = overtaken[u]
        /\ overtaken' \in [Tabs -> {"no", "pending", "shown"}] /\ overtaken'[t] = "no"
    BY <1>5, LoadStep, SomeViews DEF Viewed
  <2>2. \A u \in Tabs, k \in Keys : u # t => call'[u][k] = call[u][k]
    BY <1>5, LoadStep, OthersKept
  <2>3. \A k \in Keys : snapshot'[t][k] = None
    BY <1>5, LoadStep DEF Marks
  <2> QED
    BY <1>0, <1>5, <2>1, <2>2, <2>3, LoadStep DEF Viewed, Unasked
<1>6. CASE Elsewhere /\ UNCHANGED authVars
  BY <1>0, <1>6, ElsewhereStep DEF Viewed, Unasked, authVars
<1> QED
  BY <1>1, <1>2, <1>3, <1>4, <1>5, <1>6 DEF AuthNext, allVars, authVars, Elsewhere, RevokeStarts, Keys, vars

LEMMA AuthViewed == AuthSpec => [](Viewed /\ Unasked)
<1>1. AuthInit => Viewed /\ Unasked
  BY SomeViews DEF AuthInit, Init, Viewed, Unasked, Keys
<1>2. Base /\ Marks /\ Paired /\ (Viewed /\ Unasked) /\ [AuthNext]_allVars => (Viewed /\ Unasked)'
  BY ViewedNext
<1> QED
  BY <1>1, <1>2, AuthBase, AuthMarks, AuthPaired, PTL DEF AuthSpec

-----------------------------------------------------------------------------
(* While a fetchMe that no login has overtaken is under way, all that the  *)
(* tab holds, sends, ends and is told is of one session, and is cleared    *)
(* only when that session is over or somebody has tried to end it.         *)

Of(token, s) == /\ token # None => token.sid = s
                /\ s \in Sessions \ Ended => token # None

Asking(t) == overtaken[t] = "no" /\ \E k \in Slots : call[t][k].pc # "idle" /\ call[t][k].kind = "me"

InSession(t, s) ==
  /\ Of(jar["refresh"], s)
  /\ \A k \in Keys :
       LET c == call[t][k]
       IN /\ k \in Slots /\ c.pc # "idle" => c.kind # "login"
          /\ snapshot[t][k] # None => snapshot[t][k].sid = s
          /\ c.pc = "sent" => Of(c.cookies["refresh"], s)
          /\ c.pc = "answered" =>
               /\ "refresh" \in DOMAIN c.reply.sets => Of(c.reply.sets["refresh"], s)
               /\ c.reply.status = 200 /\ c.kind = "me" => c.reply.body = s

\* What LiveUserHasCookies says of one tab.
UserServed(t) ==
  overtaken[t] # "shown" /\ auth[t].user \notin {None} \cup Ended => jar["refresh"] # None

LEMMA ClientKeepsSession ==
  ASSUME Base, Paired, NEW t \in Tabs, NEW s, InSession(t, s), Client(t), JarStep(t),
         \A k \in Slots : call'[t][k].pc # "idle" => call'[t][k].kind # "login",
         \A k \in Keys : snapshot'[t][k] \in {snapshot[t][k], None}
  PROVE  InSession(t, s)'
<1>1. \A token : Of(token, s)' <=> Of(token, s)
  BY DEF Client, Of, Ended
<1>2. Of(jar'["refresh"], s)
  <2>1. CASE jar' = jar
    BY <2>1 DEF InSession
  <2>2. CASE jar' # jar
    <3>1. PICK k \in Keys : call[t][k].pc = "answered" /\ jar' = stored(t, k)
      BY <2>2 DEF JarStep
    <3> QED
      BY <3>1, StoredCookies DEF InSession, Paired
  <2> QED
    BY <2>1, <2>2
<1>3. ASSUME NEW k \in Keys
      PROVE  LET c == call'[t][k]
             IN /\ c.pc = "sent" => Of(c.cookies["refresh"], s)
                /\ c.pc = "answered" =>
                     /\ "refresh" \in DOMAIN c.reply.sets => Of(c.reply.sets["refresh"], s)
                     /\ c.reply.status = 200 /\ c.kind = "me" => c.reply.body = s
  <2>1. CASE call'[t][k] = call[t][k]
    BY <2>1 DEF InSession
  <2>2. CASE call'[t][k] = Idle(k)
    BY <2>2, IdleEffect
  <2>3. CASE Moves(t, k)
    BY <1>2, <2>3 DEF Moves
  <2> QED
    BY <2>1, <2>2, <2>3 DEF Client
<1>4. Of(jar["refresh"], s)'
  BY <1>2 DEF Client, Of, Ended
<1>5. ASSUME NEW k \in Keys
      PROVE  LET c == call[t][k]
             IN (/\ c.pc = "sent" => Of(c.cookies["refresh"], s)
                 /\ c.pc = "answered" /\ "refresh" \in DOMAIN c.reply.sets
                      => Of(c.reply.sets["refresh"], s))'
  BY <1>3 DEF Client, Of, Ended
<1>6. \A k \in Keys : snapshot'[t][k] # None => snapshot'[t][k].sid = s
  BY DEF InSession
<1> QED
  BY <1>3, <1>4, <1>5, <1>6 DEF InSession

LEMMA ServerKeepsSession ==
  ASSUME Base, Marks, Paired, NEW t \in Tabs, NEW s, InSession(t, s),
         NEW k \in Keys, NEW r, Answers(t, k, r)
  PROVE  InSession(t, s)'
<1>1. answer(t, k, r) /\ UNCHANGED jar
  BY DEF Answers
<1>2. /\ \A j \in Keys \ {k} : call'[t][j] = call[t][j]
      /\ call'[t][k].pc = "answered" /\ call'[t][k].reply = r
      /\ call'[t][k].kind = call[t][k].kind
  BY <1>1, AnswerEffect DEF Base
<1>3. Ended \subseteq Ended'
  BY DEF Answers, Leaves, Clears, Issues, Ended
<1>4. call[t][k].pc # "idle"
  BY DEF Answers
<1>5. /\ call[t][k].kind = "login" => k \notin Slots
      /\ k \in Internal => call[t][k].kind # "login"
  BY <1>4, SlotAssumption DEF InSession, Base, KindsOK, Internal
<1>6. call[t][k].kind # "login"
  BY <1>5 DEF Keys
<1>7. "refresh" \in DOMAIN r.sets =>
        /\ r.sets["refresh"] # None => r.sets["refresh"].sid = s
        /\ s \in Sessions \ Ended' => r.sets["refresh"] # None
  <2>1. CASE Leaves(t, k, r)
    BY <2>1 DEF Leaves, NoCookieSet
  <2>2. CASE Clears(t, k, r) /\ call[t][k].pc = "sent"
    <3>1. /\ Of(call[t][k].cookies["refresh"], s)
          /\ snapshot[t][k] # None => snapshot[t][k].sid = s
      BY <2>2 DEF InSession
    <3> QED
      BY <1>3, <2>2, <3>1 DEF Clears, Of
  <2>3. CASE Issues(t, k, r) /\ call[t][k].pc = "sent"
    <3>1. Of(call[t][k].cookies["refresh"], s)
      BY <2>3 DEF InSession
    <3> QED
      BY <1>3, <1>6, <2>3, <3>1 DEF Issues, Of
  <2> QED
    BY <2>1, <2>2, <2>3 DEF Answers
<1>8. r.status = 200 /\ call[t][k].kind = "me" => r.body = s
  <2> SUFFICES ASSUME r.status = 200, call[t][k].kind = "me" PROVE r.body = s
    OBVIOUS
  <2>1. call[t][k].pc = "sent" /\ Leaves(t, k, r)
    BY DEF Answers, Clears, Issues
  <2>2. /\ Of(call[t][k].cookies["refresh"], s)
        /\ Pair(call[t][k].cookies["access"], call[t][k].cookies["refresh"])
    BY <2>1 DEF InSession, Paired
  <2> QED
    BY <2>1, <2>2 DEF Leaves, Pair, Of
<1>9. \A token : Of(token, s) => (token # None => token.sid = s)
                                 /\ (s \in Sessions \ Ended' => token # None)
  BY <1>3 DEF Of
<1>10. Of(jar["refresh"], s)'
  BY <1>1, <1>9 DEF InSession, Of
<1>11. ASSUME NEW j \in Keys
       PROVE  LET c == call[t][j]
              IN (/\ j \in Slots /\ c.pc # "idle" => c.kind # "login"
                  /\ c.pc = "sent" => Of(c.cookies["refresh"], s)
                  /\ c.pc = "answered" =>
                       /\ "refresh" \in DOMAIN c.reply.sets => Of(c.reply.sets["refresh"], s)
                       /\ c.reply.status = 200 /\ c.kind = "me" => c.reply.body = s)'
  <2>1. CASE j = k
    BY <1>2, <1>6, <1>7, <1>8, <2>1 DEF Of
  <2>2. CASE j # k
    <3>1. call'[t][j] = call[t][j]
      BY <1>2, <2>2
    <3>2. \A token : Of(token, s) => Of(token, s)'
      BY <1>9 DEF Of
    <3> QED
      BY <3>1, <3>2 DEF InSession
  <2> QED
    BY <2>1, <2>2
<1>12. \A j \in Keys : snapshot'[t][j] # None => snapshot'[t][j].sid = s
  <2>1. snapshot' = [snapshot EXCEPT ![t][k] = None]
    BY <1>1 DEF answer
  <2> QED
    BY <2>1 DEF InSession, Marks
<1> QED
  BY <1>10, <1>11, <1>12 DEF InSession

LEMMA ElsewhereKeepsSession ==
  ASSUME Base, Marks, Elsewhere, NEW t \in Tabs, NEW s, InSession(t, s)
  PROVE  InSession(t, s)'
<1>1. UNCHANGED <<call, revoked>> /\ over \subseteq over' /\ jar'["refresh"] = jar["refresh"]
  BY ElsewhereStep, ElsewhereMarks
<1>2. \A token : Of(token, s) => Of(token, s)'
  BY <1>1 DEF Of, Ended
<1>3. \A k \in Keys : snapshot'[t][k] # None => snapshot'[t][k].sid = s
  <2>1. CASE UNCHANGED snapshot
    BY <2>1 DEF InSession
  <2>2. CASE ~UNCHANGED snapshot
    <3>1. PICK u \in Tabs, j \in Keys :
            /\ revokeFamilyStarts(u, j)
            /\ \A k \in Keys :
                 snapshot'[t][k] = IF t = u /\ k = j
                                   THEN [sid |-> call[u][j].cookies["refresh"].sid,
                                         gen |-> current[call[u][j].cookies["refresh"].sid]]
                                   ELSE snapshot[t][k]
      BY <2>2, ElsewhereMarks
    <3>2. call[u][j].pc = "sent" /\ call[u][j].cookies["refresh"] # None
      BY <3>1 DEF revokeFamilyStarts, revokes
    <3>3. t = u => call[u][j].cookies["refresh"].sid = s
      BY <3>2 DEF InSession, Of
    <3> QED
      BY <3>1, <3>3 DEF InSession
  <2> QED
    BY <2>1, <2>2
<1>4. Of(jar["refresh"], s)'
  BY <1>1, <1>2 DEF InSession, Of
<1> QED
  BY <1>1, <1>2, <1>3, <1>4 DEF InSession, Of

\* The first calls of a page are of the session of its cookies, if they have one.
LEMMA LoadIsOfOneSession ==
  ASSUME Base, Unasked, NEW t \in Tabs, NEW S \in SUBSET Slots, App(t, S)
  PROVE  \E s : InSession(t, s)'
<1>1. PICK s : Of(jar["refresh"], s)
  <2>1. PICK x : x \notin Sessions
    BY NoSetContainsEverything
  <2>2. CASE jar["refresh"] = None
    BY <2>1, <2>2 DEF Of
  <2>3. CASE jar["refresh"] # None
    BY <2>3 DEF Of
  <2> QED
    BY <2>2, <2>3
<1>2. /\ Client(t) /\ jar' = jar /\ UNCHANGED <<over, revoked>>
      /\ \A j \in Keys : snapshot'[t][j] = None
      /\ \A j \in Keys : call'[t][j] = Idle(j) \/ call'[t][j].pc \in {"csrf", "sent"}
      /\ \A j \in S : call'[t][j].kind = "me"
      /\ \A j \in Keys \ S : call'[t][j].pc \in {"csrf", "sent"} => j \notin Slots
      /\ \A j \in Keys : call[t][j] = Idle(j)
  <2>1. \A j \in Keys : call[t][j] = Idle(j)
    BY DEF App, Unasked
  <2>2. \A j \in Slots \ S : call'[t][j] = call[t][j]
    BY AppStep
  <2>3. UNCHANGED <<over, revoked>> /\ \A j \in Keys : snapshot'[t][j] = None
    BY DEF App, server, Unasked
  <2>4. /\ Client(t) /\ jar' = jar
        /\ \A j \in Keys : \/ call'[t][j] = call[t][j] /\ j \notin S
                           \/ call'[t][j].pc \in {"csrf", "sent"}
        /\ \A j \in S : call'[t][j].kind = "me"
    BY AppStep
  <2>5. \A j \in Keys \ S : call'[t][j].pc \in {"csrf", "sent"} => j \notin Slots
    BY <2>1, <2>2, IdleEffect
  <2> QED
    BY <2>1, <2>3, <2>4, <2>5
<1>3. \A j \in Keys : call'[t][j].pc = "sent" => call'[t][j].cookies = jar
  BY <1>2, IdleEffect DEF Client, Moves
<1> QED
  BY <1>1, <1>2, <1>3, IdleEffect DEF InSession, Of, Ended, Keys

\* The phase goes on as long as it is the phase, and a tab that leaves it does not return.
LEMMA AskingStays ==
  ASSUME NEW t \in Tabs, Continues(t), overtaken'[t] = "no" => overtaken[t] = "no", Asking(t)'
  PROVE  Asking(t)
BY DEF Asking, Continues

LEMMA CallServed ==
  ASSUME Base, Paired, Viewed, NEW t \in Tabs, NEW k \in Slots,
         login(t, k) \/ logout(t, k) \/ screenRequest(t, k),
         Asking(t) => \E s : InSession(t, s), UserServed(t)
  PROVE  UserServed(t)' /\ (Asking(t)' => \E s : InSession(t, s)')
<1>1. PICK kind \in Kinds \ {"me"} : request(t, k, kind) /\ (kind = "login" => login(t, k))
  BY CallView
<1>2. /\ Client(t) /\ call'[t][k].kind = kind
      /\ \A j \in Slots \ {k} : call'[t][j] = call[t][j]
  BY <1>1, RequestStep
<1>3. UNCHANGED <<jar, over, revoked>>
  BY CallView
<1>4. CASE login(t, k)
  <2>1. auth'[t].user = auth[t].user
    <3>1. auth[t] \in Views /\ auth' = [auth EXCEPT ![t] = [@ EXCEPT !.status = "loading"]]
      BY <1>4 DEF login, Viewed
    <3> QED
      BY <3>1, ViewParts DEF Viewed
  <2>2. overtaken'[t] # "shown" => overtaken[t] # "shown"
    BY <1>4 DEF login, Viewed
  <2>3. UserServed(t)'
    BY <1>3, <2>1, <2>2 DEF UserServed, Ended
  <2>4. ~Asking(t)'
    <3>1. call'[t][k].kind = "login"
      <4>1. request(t, k, "login") /\ "login" \in Kinds
        BY <1>4 DEF login, Kinds
      <4> QED
        BY <4>1, RequestStep
    <3>2. (\E j \in Slots : call[t][j].kind = "me") => overtaken'[t] # "no"
      BY <1>4 DEF login, Viewed
    <3> QED
      BY <1>2, <3>1, <3>2 DEF Asking
  <2> QED
    BY <2>3, <2>4
<1>5. CASE ~login(t, k)
  <2>1. UNCHANGED <<auth, overtaken>>
    BY <1>5, CallView
  <2>2. Asking(t)' => Asking(t)
    BY <1>1, <1>2, <2>1 DEF Asking
  <2>3. ASSUME NEW s, InSession(t, s) PROVE InSession(t, s)'
    <3>1. \A j \in Slots : call'[t][j].pc # "idle" => call'[t][j].kind # "login"
      BY <1>1, <1>2, <1>5, <2>3 DEF InSession, Keys
    <3> QED
      BY <1>1, <1>2, <1>3, <2>3, <3>1, ClientKeepsSession DEF JarStep, request
  <2> QED
    BY <1>3, <2>1, <2>2, <2>3 DEF UserServed, Ended
<1> QED
  BY <1>4, <1>5

LEMMA HandleServed ==
  ASSUME Base, Marks, Paired, Viewed, NEW t \in Tabs, NEW k \in Keys, AuthHandle(t, k),
         Asking(t) => \E s : InSession(t, s), UserServed(t)
  PROVE  UserServed(t)' /\ (Asking(t)' => \E s : InSession(t, s)')
<1>1. /\ Client(t) /\ JarStep(t) /\ Continues(t) /\ UNCHANGED <<over, revoked>>
      /\ \A j \in Keys : snapshot'[t][j] \in {snapshot[t][j], None}
  BY HandleSteps, HandleForgets DEF Client
<1>2. Stays(t) \/ SignsIn(t, k)
  BY HandleView
<1>3. overtaken'[t] = "no" => overtaken[t] = "no"
  BY <1>2 DEF Stays, SignsIn, Viewed
<1>4. Asking(t)' => \E s : InSession(t, s)'
  <2> SUFFICES ASSUME Asking(t)' PROVE \E s : InSession(t, s)'
    OBVIOUS
  <2>1. Asking(t)
    BY <1>1, <1>3, AskingStays
  <2>2. PICK s : InSession(t, s)
    BY <2>1
  <2>3. \A j \in Slots : call'[t][j].pc # "idle" => call'[t][j].kind # "login"
    BY <1>1, <2>2 DEF Continues, InSession, Keys
  <2> QED
    BY <1>1, <2>2, <2>3, ClientKeepsSession
<1>5. auth[t] \in Views
  BY DEF Viewed
<1>6. ASSUME Stays(t) PROVE UserServed(t)'
  <2>1. CASE auth' = auth /\ (jar["refresh"] # None => jar'["refresh"] # None)
    BY <1>1, <1>6, <2>1 DEF Stays, UserServed, Ended
  <2>2. CASE auth' = [auth EXCEPT ![t] = clearSession(@)]
    <3>1. auth'[t] = clearSession(auth[t])
      BY <2>2 DEF Viewed
    <3>2. clearSession(auth[t]).user = None
      BY <1>5, ViewParts
    <3>3. auth'[t].user = None
      BY <3>1, <3>2
    <3> QED
      BY <3>3 DEF UserServed
  <2> QED
    BY <1>6, <2>1, <2>2 DEF Stays
<1>7. ASSUME SignsIn(t, k) PROVE UserServed(t)'
  <2>1. PICK s : s = call[t][k].reply.body /\ s \in Sessions
    BY <1>7 DEF SignsIn
  <2>2. auth'[t].user = s
    BY <1>7, <2>1, SomeViews DEF SignsIn, Viewed
  <2>3. CASE call[t][k].kind = "login"
    BY <1>7, <2>3 DEF SignsIn, UserServed
  <2>4. CASE call[t][k].kind = "me" /\ overtaken[t] = "no"
    <3>1. Asking(t)
      BY <1>7, <2>4 DEF SignsIn, Asking
    <3>2. PICK x : InSession(t, x)
      BY <3>1
    <3>3. s = x /\ Of(jar["refresh"], s)
      BY <1>7, <2>1, <2>4, <3>2 DEF SignsIn, InSession
    <3>4. s \notin Ended => jar'["refresh"] # None
      BY <1>7, <2>1, <2>4, <3>3 DEF SignsIn, Of
    <3> QED
      BY <1>1, <2>2, <3>4 DEF UserServed, Ended
  <2>5. CASE call[t][k].kind = "me" /\ overtaken[t] # "no"
    <3>1. overtaken'[t] = "shown"
      BY <1>7, <2>5 DEF SignsIn, Viewed
    <3> QED
      BY <3>1 DEF UserServed
  <2> QED
    BY <1>7, <2>3, <2>4, <2>5 DEF SignsIn
<1> QED
  BY <1>2, <1>4, <1>6, <1>7

LEMMA ServerServed ==
  ASSUME Base, Marks, Paired, NEW t \in Tabs, NEW k \in Keys, serve(t, k) \/ fails(t, k),
         UNCHANGED authVars, Asking(t) => \E s : InSession(t, s), UserServed(t)
  PROVE  UserServed(t)' /\ (Asking(t)' => \E s : InSession(t, s)')
<1>1. PICK r : Answers(t, k, r)
  BY ServeAnswers, FailureAnswers
<1>2. /\ UNCHANGED jar /\ Ended \subseteq Ended' /\ answer(t, k, r) /\ call[t][k].pc # "idle"
  BY <1>1 DEF Answers, Leaves, Clears, Issues, Ended
<1>3. /\ \A j \in Keys \ {k} : call'[t][j] = call[t][j]
      /\ call'[t][k].kind = call[t][k].kind
  BY <1>2, AnswerEffect DEF Base
<1>4. Asking(t)' => Asking(t)
  BY <1>2, <1>3 DEF Asking, authVars, Keys
<1>5. Asking(t)' => \E s : InSession(t, s)'
  BY <1>1, <1>4, ServerKeepsSession
<1>6. UserServed(t)'
  BY <1>2 DEF UserServed, authVars
<1> QED
  BY <1>5, <1>6

LEMMA ServedNext ==
  ASSUME OneTab, Base, Marks, Paired, Viewed, Unasked, NEW t \in Tabs, [AuthNext]_allVars,
         Asking(t) => \E s : InSession(t, s), UserServed(t)
  PROVE  UserServed(t)' /\ (Asking(t)' => \E s : InSession(t, s)')
<1>0. /\ \A u \in Tabs : u = t
      /\ auth[t] \in Views /\ DOMAIN auth = Tabs /\ DOMAIN overtaken = Tabs
  BY DEF OneTab, Viewed
<1>1. ASSUME NEW S \in SUBSET Slots, App(t, S)
      PROVE  UserServed(t)' /\ (Asking(t)' => \E s : InSession(t, s)')
  <2>1. /\ auth[t].status = "idle"
        /\ auth' = [auth EXCEPT ![t] = [@ EXCEPT !.status = "loading"]]
    BY <1>1 DEF App
  <2>2. auth'[t].user = None
    BY <1>0, <2>1, ViewParts
  <2>3. \E s : InSession(t, s)'
    BY <1>1, LoadIsOfOneSession
  <2> QED
    BY <2>2, <2>3 DEF UserServed
<1>2. ASSUME NEW k \in Slots, login(t, k) \/ logout(t, k) \/ screenRequest(t, k)
      PROVE  UserServed(t)' /\ (Asking(t)' => \E s : InSession(t, s)')
  BY <1>2, CallServed
<1>3. ASSUME NEW k \in Keys, AuthHandle(t, k)
      PROVE  UserServed(t)' /\ (Asking(t)' => \E s : InSession(t, s)')
  BY <1>3, HandleServed
<1>4. ASSUME NEW k \in Keys, serve(t, k) \/ fails(t, k), UNCHANGED authVars
      PROVE  UserServed(t)' /\ (Asking(t)' => \E s : InSession(t, s)')
  BY <1>4, ServerServed
<1>5. ASSUME makeStore(t)
      PROVE  UserServed(t)' /\ (Asking(t)' => \E s : InSession(t, s)')
  <2>1. auth'[t].user = None /\ \A k \in Keys : call'[t][k] = Idle(k)
    BY <1>0, <1>5, LoadStep, SomeViews
  <2>2. ~Asking(t)'
    BY <2>1, IdleEffect DEF Asking, Keys
  <2> QED
    BY <2>1, <2>2 DEF UserServed
<1>6. CASE Elsewhere /\ UNCHANGED authVars
  <2>1. /\ UNCHANGED <<call, revoked, auth, overtaken>> /\ over \subseteq over'
        /\ jar'["refresh"] = jar["refresh"]
    BY <1>6, ElsewhereStep, ElsewhereMarks DEF authVars
  <2>2. Asking(t)' => Asking(t)
    BY <2>1 DEF Asking
  <2>3. Asking(t)' => \E s : InSession(t, s)'
    BY <1>6, <2>2, ElsewhereKeepsSession
  <2> QED
    BY <2>1, <2>3 DEF UserServed, Ended
<1>7. \/ \E S \in SUBSET Slots : App(t, S)
      \/ \E k \in Slots : login(t, k) \/ logout(t, k) \/ screenRequest(t, k)
      \/ \E k \in Keys : AuthHandle(t, k)
      \/ \E k \in Keys : (serve(t, k) \/ fails(t, k)) /\ UNCHANGED authVars
      \/ makeStore(t) \/ (Elsewhere /\ UNCHANGED authVars)
  BY <1>0 DEF AuthNext, allVars, authVars, Elsewhere, RevokeStarts, Keys, vars
<1> QED
  BY <1>1, <1>2, <1>3, <1>4, <1>5, <1>6, <1>7

\* In a browser with one tab, whoever is shown as signed in has the cookies of a session to
\* go on with, as long as his own is live and nobody has tried to end it: the clearing
\* answers of auth.controller.ts come with an attempt to end the session, which token.service.ts
\* may miss, and http-client.ts and auth-slice.ts take the user off the screen in the step in
\* which such an answer arrives. A fetchMe that a login has overtaken is left out.
THEOREM ScreensKeepCookies == OneTab /\ AuthSpec => []LiveUserHasCookies
<1> SUFFICES ASSUME OneTab PROVE AuthSpec => []LiveUserHasCookies
  OBVIOUS
<1> DEFINE Served == \A t \in Tabs : UserServed(t) /\ (Asking(t) => \E s : InSession(t, s))
<1>1. AuthInit => Served
  BY IdleEffect DEF AuthInit, Init, initialAuthState, UserServed, Asking, Keys
<1>2. Base /\ Marks /\ Paired /\ (Viewed /\ Unasked) /\ Served /\ [AuthNext]_allVars => Served'
  <2> SUFFICES ASSUME Base, Marks, Paired, Viewed, Unasked, Served, [AuthNext]_allVars PROVE Served'
    OBVIOUS
  <2> SUFFICES ASSUME NEW t \in Tabs
               PROVE  UserServed(t)' /\ (Asking(t)' => \E s : InSession(t, s)')
    OBVIOUS
  <2> QED
    BY ServedNext
<1>3. Served => LiveUserHasCookies
  BY DEF UserServed, Ended, LiveUserHasCookies
<1> QED
  BY <1>1, <1>2, <1>3, AuthBase, AuthMarks, AuthPaired, AuthViewed, PTL DEF AuthSpec

-----------------------------------------------------------------------------
(* Types: the calls of a page load, and the view of a tab.                 *)

LEMMA AppKeepsTypes ==
  ASSUME FiniteSlots, Base, Typed, NEW t \in Tabs, NEW S \in SUBSET Slots, App(t, S)
  PROVE  Typed'
<1>1. PICK calls : calls = [k \in Keys |->
                              IF k \in S THEN [call[t][k] EXCEPT !.kind = "me"] ELSE call[t][k]]
  OBVIOUS
<1>2. \A k \in Keys : DOMAIN calls[k] = Fields /\ CallTyped(k, calls[k])
  <2> TAKE k \in Keys
  <2>1. DOMAIN call[t][k] = Fields /\ CallTyped(k, call[t][k])
    BY DEF Base, Domains, Typed, CallsTyped
  <2>2. CASE k \in S
    <3>1. PICK c : c = call[t][k]
      OBVIOUS
    <3>2. calls[k] = [c EXCEPT !.kind = "me"]
      BY <1>1, <2>2, <3>1
    <3>3. DOMAIN [c EXCEPT !.kind = "me"] = Fields /\ CallTyped(k, [c EXCEPT !.kind = "me"])
      BY <2>1, <3>1, EditedCall
    <3> QED
      BY <3>2, <3>3
  <2>3. CASE k \notin S
    BY <1>1, <2>1, <2>3
  <2> QED
    BY <2>2, <2>3
<1>3. S \in SUBSET Keys /\ csrfToken[t] \in Csrf /\ jar \in Cookies /\ CallsTyped
  BY DEF Keys, Typed
<1>4. call' = [call EXCEPT ![t] = interceptRequests(calls, S, csrfToken[t], jar)]
  BY <1>1 DEF App, Keys
<1>5. CallsTyped'
  BY <1>2, <1>3, <1>4, SendingTyped
<1>6. SlotsFree'
  <2>1. Client(t)
    BY AppStep
  <2>2. ASSUME NEW u \in Tabs, NEW k \in Slots, call'[u][k].pc = "idle"
        PROVE  call'[u][k].kind = None
    <3>1. k \in Keys /\ k \notin Internal
      BY SlotAssumption DEF Keys, Internal
    <3> QED
      BY <2>1, <2>2, <3>1, IdleEffect DEF Client, Moves, Typed, SlotsFree
  <2> QED
    BY <2>2 DEF SlotsFree
<1>7. issued' \in 0..MaxCalls
  <2>1. Cardinality(S) \in Nat
    BY FS_Subset, FS_CardinalityType DEF FiniteSlots
  <2> QED
    BY <2>1, BoundAssumption DEF App, Typed
<1>8. UNCHANGED <<secret, jar, csrfToken, failed, lost>>
  BY DEF App, server
<1> QED
  BY <1>5, <1>6, <1>7, <1>8 DEF Typed

LEMMA AuthTyped == FiniteSlots /\ MoreNonces /\ AuthSpec => []Typed
<1> SUFFICES ASSUME FiniteSlots, MoreNonces PROVE AuthSpec => []Typed
  OBVIOUS
<1>1. AuthInit => Typed
  BY TypedInit DEF AuthInit
<1>2. Base /\ Typed /\ [AuthNext]_allVars => Typed'
  BY AppKeepsTypes, AuthStepCases, NonceIsLeft, TypedNext
<1> QED
  BY <1>1, <1>2, AuthBase, PTL DEF AuthSpec

\* A tab shows a user exactly while it is signed in, the user being a session and not, say,
\* the body of another answer (auth-slice.ts:75), under calls whose types HttpClient keeps.
THEOREM ScreensTypes == FiniteSlots /\ MoreNonces /\ AuthSpec => []AuthTypeOK
<1>1. Base /\ Marks /\ Typed /\ Viewed => AuthTypeOK
  BY TypedImpliesTypeOK DEF Viewed, Views, AuthTypeOK
<1> QED
  BY <1>1, AuthBase, AuthMarks, AuthTyped, AuthViewed, PTL
=============================================================================
