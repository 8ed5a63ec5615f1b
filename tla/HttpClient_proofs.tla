-------------------------- MODULE HttpClient_proofs --------------------------
(***************************************************************************)
(* Proofs about HttpClient, for any number of calls, sessions and          *)
(* failures.  In any number of tabs a call causes one rotation at most and *)
(* no wake-up is lost; in one tab no refresh shows a spent token.  Two     *)
(* tabs may race, which is why that needs OneTab.                          *)
(***************************************************************************)
EXTENDS HttpClient, TLAPS, FiniteSetTheorems

Keys == Slots \cup Internal
Fields == {"pc", "kind", "retried", "header", "cookies", "reply"}

\* Nothing is said of what headers and cookies hold, only which fields a call has.
Domains ==
  /\ DOMAIN jar = CookieNames
  /\ DOMAIN call = Tabs /\ \A t \in Tabs : DOMAIN call[t] = Keys
  /\ \A t \in Tabs, k \in Keys : DOMAIN call[t][k] = Fields

LEMMA AnswerEffect ==
  ASSUME Domains, NEW t \in Tabs, NEW k \in Keys, NEW r, answer(t, k, r)
  PROVE  /\ DOMAIN call' = Tabs /\ \A u \in Tabs : DOMAIN call'[u] = Keys
         /\ \A u \in Tabs, j \in Keys :
              /\ DOMAIN call'[u][j] = Fields
              /\ u # t \/ j # k => call'[u][j] = call[u][j]
         /\ call'[t][k].pc = "answered" /\ call'[t][k].reply = r
         /\ call'[t][k].kind = call[t][k].kind /\ call'[t][k].retried = call[t][k].retried
         /\ call'[t][k].header = None /\ call'[t][k].cookies = NoCookies
<1>1. PICK c : c = call[t][k]
  OBVIOUS
<1>2. PICK d : d = [c EXCEPT !.pc = "answered", !.reply = r, !.cookies = NoCookies, !.header = None]
  OBVIOUS
<1>3. call' = [call EXCEPT ![t] = [call[t] EXCEPT ![k] = d]]
  BY <1>1, <1>2, ZenonT(60) DEF answer, Domains
<1>4. /\ DOMAIN d = Fields /\ d.pc = "answered" /\ d.reply = r
      /\ d.kind = c.kind /\ d.retried = c.retried
      /\ d.header = None /\ d.cookies = NoCookies
  BY <1>1, <1>2 DEF Domains, Fields
<1>5. PICK m : m = [call[t] EXCEPT ![k] = d]
  OBVIOUS
<1>6. DOMAIN m = Keys /\ m[k] = d /\ \A j \in Keys : j # k => m[j] = call[t][j]
  BY <1>5 DEF Domains
<1>7. DOMAIN call' = Tabs /\ call'[t] = m /\ \A u \in Tabs : u # t => call'[u] = call[u]
  BY <1>3, <1>5 DEF Domains
<1> QED
  BY <1>1, <1>4, <1>6, <1>7 DEF Domains

LEMMA IdleEffect ==
  \A k : DOMAIN Idle(k) = Fields /\ Idle(k).pc = "idle" /\ Idle(k).reply = NoReply
         /\ Idle(k).retried = FALSE /\ Idle(k).retried \in BOOLEAN /\ Idle(k).cookies = NoCookies
         /\ Idle(k).kind = IF k \in Internal THEN k ELSE None
BY DEF Idle, Fields

LEMMA InterceptEffect ==
  ASSUME NEW calls, NEW S \in SUBSET Keys, NEW token, NEW cookies,
         \A k \in Keys : DOMAIN calls[k] = Fields
  PROVE  LET r == interceptRequests(calls, S, token, cookies)
         IN /\ DOMAIN r = Keys
            /\ \A k \in Keys :
                 /\ DOMAIN r[k] = Fields /\ r[k].reply = calls[k].reply
                 /\ r[k].kind = calls[k].kind /\ r[k].retried = calls[k].retried
                 /\ \/ k \notin S /\ r[k] = calls[k]
                    \/ k \in S /\ r[k].pc = "csrf"
                    \/ /\ k \in S \/ (k = "csrf" /\ calls["csrf"].pc = "idle")
                       /\ r[k].pc = "sent" /\ r[k].cookies = cookies
<1> DEFINE r == interceptRequests(calls, S, token, cookies)
           waiting == {k \in S : calls[k].kind \notin SAFE /\ token = None}
           fetch == IF waiting # {} /\ calls["csrf"].pc = "idle" THEN {"csrf"} ELSE {}
<1>1. /\ waiting \subseteq S /\ fetch \subseteq {"csrf"}
      /\ fetch = {} \/ calls["csrf"].pc = "idle"
      /\ r = [k \in Keys |->
                IF k \in waiting THEN [calls[k] EXCEPT !.pc = "csrf"]
                ELSE IF k \in (S \ waiting) \cup fetch
                  THEN [calls[k] EXCEPT !.pc = "sent", !.cookies = cookies,
                          !.header = IF calls[k].kind \in SAFE THEN None ELSE token]
                ELSE calls[k]]
  BY SMTT(30) DEF interceptRequests, Keys
<1> HIDE DEF waiting, fetch
<1>2. SUFFICES ASSUME NEW k \in Keys
               PROVE  /\ DOMAIN r[k] = Fields /\ r[k].reply = calls[k].reply
                      /\ r[k].kind = calls[k].kind /\ r[k].retried = calls[k].retried
                      /\ \/ k \notin S /\ r[k] = calls[k]
                         \/ k \in S /\ r[k].pc = "csrf"
                         \/ /\ k \in S \/ (k = "csrf" /\ calls["csrf"].pc = "idle")
                            /\ r[k].pc = "sent" /\ r[k].cookies = cookies
  BY <1>1
<1>3. PICK c : c = calls[k] /\ DOMAIN c = Fields
  OBVIOUS
<1> HIDE DEF r
<1>4. CASE k \in waiting
  <2>1. r[k] = [c EXCEPT !.pc = "csrf"]
    BY <1>1, <1>3, <1>4
  <2> QED
    BY <1>1, <1>3, <1>4, <2>1 DEF Fields
<1>5. CASE k \notin waiting /\ k \in (S \ waiting) \cup fetch
  <2>1. PICK h : r[k] = [c EXCEPT !.pc = "sent", !.cookies = cookies, !.header = h]
    BY <1>1, <1>3, <1>5
  <2> QED
    BY <1>1, <1>3, <1>5, <2>1 DEF Fields
<1>6. CASE k \notin waiting /\ k \notin (S \ waiting) \cup fetch
  BY <1>1, <1>3, <1>6
<1> QED
  BY <1>4, <1>5, <1>6

LEMMA SettledEffect ==
  ASSUME NEW t \in Tabs, NEW S
  PROVE  /\ DOMAIN settled(t, S) = Keys
         /\ \A k \in Keys : settled(t, S)[k] = IF k \in S THEN Idle(k) ELSE call[t][k]
BY DEF settled, Keys

-----------------------------------------------------------------------------
(* What every state has.                                                   *)

\* The call has been answered with a refresh token, and with which.
Gives(t, k) ==
  LET c == call[t][k]
  IN c.pc = "answered" /\ c.reply.status = 200 /\ c.kind \in {"login", "refresh"}
Given(t, k) == call[t][k].reply.sets["refresh"]
Kept(t, k) == \/ "refresh" \notin DOMAIN call[t][k].reply.sets
              \/ call[t][k].reply.sets["refresh"] = None

\* A token is of a session that has been opened.
Known(token) == /\ token.sid \in Sessions /\ current[token.sid] > 0
                /\ token.gen \in Nat /\ token.gen > 0

KindsOK == \A t \in Tabs, k \in Keys :
  LET c == call[t][k]
  IN /\ c.retried \in BOOLEAN
     /\ k \in Internal => c.kind = k
     /\ k \in Slots /\ c.pc # "idle" => c.kind \in Kinds

RepliesOK == \A t \in Tabs, k \in Keys :
  call[t][k].pc = "answered" =>
    IF Gives(t, k) THEN "refresh" \in DOMAIN call[t][k].reply.sets /\ Known(Given(t, k))
    ELSE Kept(t, k)

TokensKnown ==
  /\ jar["refresh"] # None => Known(jar["refresh"])
  /\ \A t \in Tabs, k \in Keys :
       LET c == call[t][k]
       IN c.pc = "sent" /\ c.cookies["refresh"] # None => Known(c.cookies["refresh"])

Base ==
  /\ Domains /\ KindsOK /\ RepliesOK /\ TokensKnown
  /\ current \in [Sessions -> Nat]

\* What the steps do to a call: it ends, it moves on in the client, or it is answered.
Moves(t, k) ==
  LET d == call'[t][k]
  IN /\ d.retried \in BOOLEAN
     /\ IF k \in Internal THEN d.kind = k ELSE d.kind \in Kinds
     /\ d.pc \in {"csrf", "refreshing"} \/ (d.pc = "sent" /\ d.cookies = jar')
     /\ k = "refresh" => call[t][k].pc \in {"idle", "csrf"}
IsAnswered(t, k) ==
  LET d == call'[t][k]
  IN /\ call[t][k].pc \in {"sent", "answered"} /\ d.pc = "answered"
     /\ d.kind = call[t][k].kind /\ d.retried = call[t][k].retried
     /\ IF Gives(t, k)' THEN "refresh" \in DOMAIN d.reply.sets /\ Known(Given(t, k))'
        ELSE Kept(t, k)'
Effect(t, k) == \/ call'[t][k] = call[t][k] \/ call'[t][k] = Idle(k)
                \/ Moves(t, k) \/ IsAnswered(t, k)

LEMMA BaseKept ==
  ASSUME Base, Domains', current' \in [Sessions -> Nat],
         \A s \in Sessions : current[s] > 0 => current'[s] > 0,
         \/ jar'["refresh"] \in {jar["refresh"], None}
         \/ \E t \in Tabs, k \in Keys : Gives(t, k) /\ jar'["refresh"] = Given(t, k),
         \A t \in Tabs, k \in Keys : Effect(t, k)
  PROVE  Base'
<1>1. \A x : Known(x) => Known(x)'
  BY DEF Known
<1>2. jar'["refresh"] # None => Known(jar["refresh"])'
  <2>1. CASE jar'["refresh"] \in {jar["refresh"], None}
    BY <1>1, <2>1 DEF Base, TokensKnown, Known
  <2>2. CASE \E t \in Tabs, k \in Keys : Gives(t, k) /\ jar'["refresh"] = Given(t, k)
    <3>1. PICK t \in Tabs, k \in Keys : Gives(t, k) /\ jar'["refresh"] = Given(t, k)
      BY <2>2
    <3>2. Known(Given(t, k))
      BY <3>1 DEF Base, RepliesOK, Gives
    <3> QED
      BY <3>1, <3>2 DEF Known
  <2> QED
    BY <2>1, <2>2
<1>3. ASSUME NEW t \in Tabs, NEW k \in Keys
      PROVE  LET d == call'[t][k]
             IN /\ d.retried \in BOOLEAN
                /\ k \in Internal => d.kind = k
                /\ k \in Slots /\ d.pc # "idle" => d.kind \in Kinds
                /\ d.pc = "answered" => IF Gives(t, k)'
                                        THEN "refresh" \in DOMAIN d.reply.sets /\ Known(Given(t, k))'
                                        ELSE Kept(t, k)'
                /\ d.pc = "sent" /\ d.cookies["refresh"] # None
                     => LET token == d.cookies["refresh"]
                        IN /\ token.sid \in Sessions /\ current'[token.sid] > 0
                           /\ token.gen \in Nat /\ token.gen > 0
  <2>1. CASE call'[t][k] = call[t][k]
    <3>1. Gives(t, k)' = Gives(t, k) /\ Given(t, k)' = Given(t, k) /\ Kept(t, k)' = Kept(t, k)
      BY <2>1 DEF Gives, Given, Kept
    <3> QED
      BY <1>1, <2>1, <3>1 DEF Base, KindsOK, RepliesOK, TokensKnown, Known
  <2>2. CASE call'[t][k] = Idle(k)
    BY <2>2, IdleEffect
  <2>3. CASE Moves(t, k)
    BY <1>2, <2>3, SlotAssumption DEF Moves, Known, Internal
  <2>4. CASE IsAnswered(t, k)
    BY <2>4 DEF IsAnswered, Base, KindsOK
  <2> QED
    BY <2>1, <2>2, <2>3, <2>4 DEF Effect
<1> QED
  BY <1>2, <1>3 DEF Base, KindsOK, RepliesOK, TokensKnown, Known

-----------------------------------------------------------------------------
(* The steps of the client.                                                *)

LEMMA StoredEffect ==
  ASSUME Base, NEW t \in Tabs, NEW k \in Keys, call[t][k].pc = "answered"
  PROVE  /\ DOMAIN stored(t, k) = CookieNames
         /\ IF Gives(t, k) THEN stored(t, k)["refresh"] = Given(t, k)
            ELSE stored(t, k)["refresh"] \in {jar["refresh"], None}
BY DEF stored, CookieNames, Base, RepliesOK, Given, Kept

LEMMA TabUpdated ==
  ASSUME Domains, NEW t \in Tabs, NEW m, DOMAIN m = Keys,
         \A k \in Keys : DOMAIN m[k] = Fields,
         call' = [call EXCEPT ![t] = m]
  PROVE  /\ DOMAIN call' = Tabs /\ \A u \in Tabs : DOMAIN call'[u] = Keys
         /\ \A u \in Tabs, j \in Keys : DOMAIN call'[u][j] = Fields
         /\ call'[t] = m /\ \A u \in Tabs \ {t} : call'[u] = call[u]
<1>1. DOMAIN call' = Tabs /\ call'[t] = m /\ \A u \in Tabs \ {t} : call'[u] = call[u]
  BY DEF Domains
<1> QED
  BY <1>1 DEF Domains

\* A step of tab t that calls nothing on the server.
Client(t) ==
  /\ Domains' /\ UNCHANGED <<current, over, revoked>>
  /\ \A u \in Tabs, k \in Keys :
       \/ call'[u][k] = call[u][k]
       \/ u = t /\ (call'[u][k] = Idle(k) \/ Moves(u, k))

\* Calls that are settled or sent.
LEMMA Settling ==
  ASSUME Base, NEW t \in Tabs, NEW S, UNCHANGED <<current, over, revoked>>,
         DOMAIN jar' = CookieNames,
         call' = [call EXCEPT ![t] = settled(t, S)]
  PROVE  /\ Client(t)
         /\ \A k \in Keys : call'[t][k] = IF k \in S THEN Idle(k) ELSE call[t][k]
<1>1. /\ DOMAIN settled(t, S) = Keys
      /\ \A k \in Keys : settled(t, S)[k] = IF k \in S THEN Idle(k) ELSE call[t][k]
  BY SettledEffect
<1>2. \A k \in Keys : DOMAIN settled(t, S)[k] = Fields
  BY <1>1, IdleEffect DEF Base, Domains
<1>3. Domains
  BY DEF Base
<1>4. /\ DOMAIN call' = Tabs /\ \A u \in Tabs : DOMAIN call'[u] = Keys
      /\ \A u \in Tabs, j \in Keys : DOMAIN call'[u][j] = Fields
      /\ call'[t] = settled(t, S) /\ \A u \in Tabs \ {t} : call'[u] = call[u]
  BY <1>1, <1>2, <1>3, TabUpdated
<1> QED
  BY <1>1, <1>4 DEF Client, Domains

Forwards(t, calls, S, token) ==
  /\ UNCHANGED <<current, over, revoked>> /\ DOMAIN jar' = CookieNames
  /\ call' = [call EXCEPT ![t] = interceptRequests(calls, S, token, jar')]
  /\ S \subseteq Keys
  /\ \A k \in Keys :
       /\ DOMAIN calls[k] = Fields /\ calls[k].retried \in BOOLEAN
       /\ k \in Internal => calls[k].kind = k
       /\ k \in Slots /\ calls[k].pc # "idle" => calls[k].kind \in Kinds
       /\ k \in Slots /\ k \in S => calls[k].kind \in Kinds
       /\ k \notin S => \/ calls[k] = call[t][k] \/ calls[k] = Idle(k)
                        \/ k # "refresh" /\ calls[k].pc = "refreshing"
  /\ "refresh" \in S => call[t]["refresh"].pc \in {"idle", "csrf"}

LEMMA Sending ==
  ASSUME Base, NEW t \in Tabs, NEW calls, NEW S, NEW token, Forwards(t, calls, S, token)
  PROVE  /\ Client(t)
         /\ \A k \in Keys :
              /\ call'[t][k].retried = calls[k].retried /\ call'[t][k].kind = calls[k].kind
              /\ k \notin S \cup {"csrf"} => call'[t][k] = calls[k]
              /\ k \in S => call'[t][k].pc \in {"csrf", "sent"}
<1>1. PICK r : r = interceptRequests(calls, S, token, jar')
  OBVIOUS
<1>0. /\ UNCHANGED <<current, over, revoked>> /\ DOMAIN jar' = CookieNames
      /\ call' = [call EXCEPT ![t] = interceptRequests(calls, S, token, jar')]
      /\ S \in SUBSET Keys
      /\ \A k \in Keys :
           /\ DOMAIN calls[k] = Fields /\ calls[k].retried \in BOOLEAN
           /\ k \in Internal => calls[k].kind = k
           /\ k \in Slots /\ calls[k].pc # "idle" => calls[k].kind \in Kinds
           /\ k \in Slots /\ k \in S => calls[k].kind \in Kinds
           /\ k \notin S => \/ calls[k] = call[t][k] \/ calls[k] = Idle(k)
                            \/ k # "refresh" /\ calls[k].pc = "refreshing"
      /\ "refresh" \in S => call[t]["refresh"].pc \in {"idle", "csrf"}
  BY DEF Forwards
<1>2. /\ DOMAIN r = Keys
      /\ \A k \in Keys :
           /\ DOMAIN r[k] = Fields /\ r[k].reply = calls[k].reply
           /\ r[k].kind = calls[k].kind /\ r[k].retried = calls[k].retried
           /\ \/ k \notin S /\ r[k] = calls[k]
              \/ k \in S /\ r[k].pc = "csrf"
              \/ /\ k \in S \/ (k = "csrf" /\ calls["csrf"].pc = "idle")
                 /\ r[k].pc = "sent" /\ r[k].cookies = jar'
  BY ONLY <1>1, <1>0, InterceptEffect
<1>3. /\ DOMAIN call' = Tabs /\ \A u \in Tabs : DOMAIN call'[u] = Keys
      /\ \A u \in Tabs, j \in Keys : DOMAIN call'[u][j] = Fields
      /\ call'[t] = r /\ \A u \in Tabs \ {t} : call'[u] = call[u]
  <2>1. Domains /\ call' = [call EXCEPT ![t] = r]
    BY <1>1, <1>0 DEF Base
  <2>2. DOMAIN r = Keys /\ \A k \in Keys : DOMAIN r[k] = Fields
    BY <1>2
  <2> QED
    BY ONLY <2>1, <2>2, t \in Tabs, TabUpdated
<1>4. Domains'
  BY <1>3, <1>0 DEF Domains
<1>5. ASSUME NEW k \in Keys
      PROVE  call'[t][k] = call[t][k] \/ call'[t][k] = Idle(k) \/ Moves(t, k)
  <2>1. CASE k \notin S /\ r[k] = calls[k]
    <3>1. CASE calls[k] = call[t][k] \/ calls[k] = Idle(k)
      BY <1>3, <2>1, <3>1
    <3>2. CASE k # "refresh" /\ calls[k].pc = "refreshing"
      BY <1>0, <1>2, <1>3, <2>1, <3>2 DEF Moves, Keys
    <3> QED
      BY <1>0, <2>1, <3>1, <3>2
  <2>2. CASE k \in S /\ r[k].pc \in {"csrf", "sent"} /\ (r[k].pc = "sent" => r[k].cookies = jar')
    BY <1>0, <1>2, <1>3, <2>2 DEF Moves, Keys
  <2>3. CASE k = "csrf" /\ r[k].pc = "sent" /\ r[k].cookies = jar'
    BY <1>0, <1>2, <1>3, <2>3 DEF Moves, Internal
  <2> QED
    BY <1>2, <2>1, <2>2, <2>3
<1>6. Client(t)
  BY <1>0, <1>3, <1>4, <1>5 DEF Client
<1> QED
  BY <1>2, <1>3, <1>6

\* The calls that may still cause a refresh, or are one that is not served yet.
Owes(t, k) ==
  LET c == call[t][k]
  IN IF k \in Slots
     THEN \/ c.kind = "login" /\ c.pc \in {"csrf", "refreshing", "sent"}
          \/ ~c.retried /\ (c.pc \in {"csrf", "sent"} \/ (c.pc = "answered" /\ c.reply.status = 401))
     ELSE k = "refresh" /\ c.pc \in {"csrf", "sent"}

\* What the refresh has been answered is not forgotten.
Retained(t) ==
  call[t]["refresh"].pc = "answered" => call'[t]["refresh"] = call[t]["refresh"]

\* No call of the application starts.
Continues(t) == \A j \in Slots : call'[t][j].pc # "idle" =>
  call[t][j].pc # "idle" /\ call'[t][j].kind = call[t][j].kind

LEMMA RequestStep ==
  ASSUME Base, NEW t \in Tabs, NEW k \in Slots, NEW kind \in Kinds, request(t, k, kind)
  PROVE  /\ Client(t) /\ Retained(t) /\ \A j \in Keys \ {k} : Owes(t, j)' => Owes(t, j)
         /\ call'[t][k].kind = kind /\ \A j \in Slots \ {k} : call'[t][j] = call[t][j]
<1>1. PICK calls : calls = [call[t] EXCEPT ![k].kind = kind]
  OBVIOUS
<1>2. \A j \in Keys : /\ DOMAIN call[t][j] = Fields /\ call[t][j].retried \in BOOLEAN
                      /\ j \in Internal => call[t][j].kind = j
                      /\ j \in Slots /\ call[t][j].pc # "idle" => call[t][j].kind \in Kinds
  BY DEF Base, Domains, KindsOK
<1>3. k \in Keys /\ DOMAIN call[t] = Keys /\ k \notin Internal /\ Internal = {"csrf", "refresh"}
  BY SlotAssumption DEF Base, Domains, Keys, Internal
<1>4. \A j \in Keys : /\ j # k => calls[j] = call[t][j]
                      /\ DOMAIN calls[k] = Fields /\ calls[k].kind = kind
                      /\ calls[k].retried = call[t][k].retried
  BY <1>1, <1>2, <1>3 DEF Fields
<1>5. /\ call' = [call EXCEPT ![t] = interceptRequests(calls, {k}, csrfToken[t], jar')]
      /\ UNCHANGED <<current, over, revoked>> /\ DOMAIN jar' = CookieNames
  BY <1>1 DEF request, server, Base, Domains
<1>6. /\ Client(t) /\ call'[t][k].kind = calls[k].kind
      /\ \A j \in Keys \ {k, "csrf"} : call'[t][j] = calls[j]
  <2>1. Forwards(t, calls, {k}, csrfToken[t])
    BY <1>2, <1>3, <1>4, <1>5 DEF Forwards
  <2> QED
    BY <1>3, <2>1, Sending
<1> QED
  BY <1>3, <1>4, <1>6, SlotAssumption DEF Owes, Retained, Keys

LEMMA CsrfStep ==
  ASSUME Base, NEW t \in Tabs, csrfFetched(t) \/ csrfFails(t)
  PROVE  /\ Client(t) /\ Retained(t) /\ Continues(t)
         /\ \A j \in Keys : Owes(t, j)' => Owes(t, j)
<1>1. \A j \in Keys : /\ DOMAIN call[t][j] = Fields /\ call[t][j].retried \in BOOLEAN
                      /\ j \in Internal => call[t][j].kind = j
                      /\ j \in Slots /\ call[t][j].pc # "idle" => call[t][j].kind \in Kinds
  BY DEF Base, Domains, KindsOK
<1>2. /\ call[t]["csrf"].pc = "answered" /\ jar' = stored(t, "csrf")
      /\ UNCHANGED <<current, over, revoked>> /\ "csrf" \in Keys
  BY DEF csrfFetched, csrfFails, arrived, server, Keys, Internal
<1>3. DOMAIN jar' = CookieNames
  BY <1>2, StoredEffect
<1>4. CASE csrfFetched(t)
  <2> PICK calls : calls = settled(t, {"csrf"})
    OBVIOUS
  <2> PICK S : S = At(t, "csrf")
    OBVIOUS
  <2> PICK token : token = call[t]["csrf"].reply.body
    OBVIOUS
  <2>1. call' = [call EXCEPT ![t] = interceptRequests(calls, S, token, jar')]
    BY <1>2, <1>4 DEF csrfFetched
  <2>2. \A j \in Keys : /\ calls[j] = IF j = "csrf" THEN Idle(j) ELSE call[t][j]
                        /\ j \in S <=> call[t][j].pc = "csrf"
    BY SettledEffect DEF At, Keys
  <2>3. S \in SUBSET Keys
    BY DEF At, Keys
  <2>4. \A j \in Keys : DOMAIN calls[j] = Fields /\ calls[j].retried \in BOOLEAN
    <3> TAKE j \in Keys
    <3>1. CASE j = "csrf"
      BY <2>2, <3>1, IdleEffect
    <3>2. CASE j # "csrf"
      BY <1>1, <2>2, <3>2
    <3> QED
      BY <3>1, <3>2
  <2>5. Forwards(t, calls, S, token)
    BY <1>1, <1>2, <1>3, <2>1, <2>2, <2>3, <2>4, IdleEffect, SlotAssumption DEF Forwards, Internal
  <2>6. /\ Client(t)
        /\ \A j \in Keys :
             /\ call'[t][j].retried = calls[j].retried /\ call'[t][j].kind = calls[j].kind
             /\ j \notin S \cup {"csrf"} => call'[t][j] = calls[j]
    BY <2>5, Sending
  <2> QED
    BY <2>2, <2>6, SlotAssumption DEF Owes, Retained, Continues, Keys, Internal
<1>5. CASE csrfFails(t)
  <2>1. PICK S : /\ call' = [call EXCEPT ![t] = settled(t, S)]
                 /\ call[t]["refresh"].pc = "answered" => "refresh" \notin S
    <3> DEFINE waiting == At(t, "csrf")
               all == {"csrf"} \cup (waiting \cup (IF "refresh" \in waiting
                                                  THEN At(t, "refreshing") ELSE {}))
    <3>1. call' = [call EXCEPT ![t] = settled(t, all)]
      BY <1>5 DEF csrfFails
    <3>2. call[t]["refresh"].pc = "answered" => "refresh" \notin all
      BY DEF At
    <3> QED
      BY <3>1, <3>2
  <2>2. Client(t) /\ \A k \in Keys : call'[t][k] = IF k \in S THEN Idle(k) ELSE call[t][k]
    BY <1>2, <1>3, <2>1, Settling
  <2> QED
    BY <2>1, <2>2, IdleEffect DEF Owes, Retained, Continues, Keys, Internal
<1> QED
  BY <1>4, <1>5

LEMMA SettleStep ==
  ASSUME Base, NEW t \in Tabs, NEW k \in Keys,
         fulfilled(t, k) \/ rejected(t, k) \/ (k = "refresh" /\ refreshFails(t)) \/ pageLoad(t)
  PROVE  Client(t) /\ Continues(t) /\ \A j \in Keys : Owes(t, j)' => Owes(t, j)
<1>1. PICK S : call' = [call EXCEPT ![t] = settled(t, S)]
  BY DEF fulfilled, rejected, refreshFails, pageLoad
<1>2. UNCHANGED <<current, over, revoked>>
  BY DEF fulfilled, rejected, refreshFails, pageLoad, server
<1>3. DOMAIN jar' = CookieNames
  <2>1. CASE pageLoad(t)
    BY <2>1 DEF pageLoad, Base, Domains
  <2>2. CASE ~pageLoad(t)
    <3>1. call[t][k].pc = "answered" /\ jar' = stored(t, k)
      BY <2>2 DEF fulfilled, rejected, refreshFails, arrived
    <3> QED
      BY <3>1, StoredEffect
  <2> QED
    BY <2>1, <2>2
<1>4. Client(t) /\ \A j \in Keys : call'[t][j] = IF j \in S THEN Idle(j) ELSE call[t][j]
  BY <1>1, <1>2, <1>3, Settling
<1> QED
  BY <1>4, IdleEffect DEF Owes, Continues, Keys

\* The call that starts a refresh, or waits for one, gives way to the refresh.
LEMMA RefreshStep ==
  ASSUME Base, NEW t \in Tabs, NEW k \in Keys, refreshSession(t, k)
  PROVE  /\ Client(t) /\ Retained(t) /\ Continues(t) /\ Owes(t, k) /\ ~Owes(t, k)'
         /\ \A j \in Keys \ {k, "refresh"} : Owes(t, j)' => Owes(t, j)
<1>1. \A j \in Keys : /\ DOMAIN call[t][j] = Fields /\ call[t][j].retried \in BOOLEAN
                      /\ j \in Internal => call[t][j].kind = j
                      /\ j \in Slots /\ call[t][j].pc # "idle" => call[t][j].kind \in Kinds
  BY DEF Base, Domains, KindsOK
<1>2. /\ call[t][k].pc = "answered" /\ call[t][k].reply.status = 401 /\ ~call[t][k].retried
      /\ k \in Slots /\ k \notin Internal /\ call[t][k].kind # "login"
      /\ jar' = stored(t, k) /\ UNCHANGED <<current, over, revoked>>
  BY DEF refreshSession, canRefresh, arrived, status, Keys, NO_REFRESH_PATHS, server
<1>3. DOMAIN jar' = CookieNames /\ DOMAIN call[t] = Keys
  BY <1>2, StoredEffect DEF Base, Domains
<1>4. PICK d : d = [call[t][k] EXCEPT !.pc = "refreshing", !.reply = NoReply]
  OBVIOUS
<1>5. PICK calls : calls = [call[t] EXCEPT ![k] = d]
  OBVIOUS
<1>6. PICK S \in SUBSET {"refresh"} :
        /\ S = IF call[t]["refresh"].pc = "idle" THEN {"refresh"} ELSE {}
        /\ S # {} => call[t]["refresh"].pc = "idle"
  OBVIOUS
<1>7. PICK token : token = csrfToken[t]
  OBVIOUS
<1>8. call' = [call EXCEPT ![t] = interceptRequests(calls, S, token, jar')]
  BY <1>2, <1>4, <1>5, <1>6, <1>7 DEF refreshSession
<1>9. /\ DOMAIN d = Fields /\ d.pc = "refreshing" /\ d.kind = call[t][k].kind
      /\ d.retried = call[t][k].retried
  BY <1>1, <1>4 DEF Fields
<1>10. calls[k] = d /\ \A j \in Keys : j # k => calls[j] = call[t][j]
  BY <1>3, <1>5
<1>11. Forwards(t, calls, S, token)
  <2>1. S \subseteq Keys /\ \A j \in S : j \in Internal /\ j \notin Slots /\ j # k
    BY <1>2, <1>6, SlotAssumption DEF Keys, Internal
  <2>2. \A j \in Keys :
          /\ DOMAIN calls[j] = Fields /\ calls[j].retried \in BOOLEAN
          /\ j \in Internal => calls[j].kind = j
          /\ j \in Slots /\ calls[j].pc # "idle" => calls[j].kind \in Kinds
          /\ j \notin S => \/ calls[j] = call[t][j] \/ calls[j] = Idle(j)
                           \/ j # "refresh" /\ calls[j].pc = "refreshing"
    <3> TAKE j \in Keys
    <3>1. CASE j = k
      BY <1>1, <1>2, <1>9, <1>10, <3>1 DEF Internal
    <3>2. CASE j # k
      BY <1>1, <1>10, <3>2
    <3> QED
      BY <3>1, <3>2
  <2> QED
    BY <1>2, <1>3, <1>6, <1>8, <2>1, <2>2 DEF Forwards
<1>12. /\ Client(t)
       /\ \A j \in Keys : j \notin S \cup {"csrf"} => call'[t][j] = calls[j]
  BY <1>11, Sending
<1>13. call'[t][k] = d /\ \A j \in Keys \ {k, "refresh", "csrf"} : call'[t][j] = call[t][j]
  BY <1>2, <1>6, <1>10, <1>12 DEF Internal
<1>14. Retained(t)
  BY <1>2, <1>6, <1>10, <1>12, SlotAssumption DEF Retained, Keys, Internal
<1> QED
  BY <1>2, <1>9, <1>12, <1>13, <1>14, SlotAssumption DEF Owes, Continues, Keys

LEMMA RefreshedStep ==
  ASSUME Base, NEW t \in Tabs, sessionRefreshed(t)
  PROVE  /\ Client(t) /\ Continues(t) /\ \A j \in Keys : Owes(t, j)' => Owes(t, j)
         /\ call'[t]["refresh"] = Idle("refresh")
<1>1. \A j \in Keys : /\ DOMAIN call[t][j] = Fields /\ call[t][j].retried \in BOOLEAN
                      /\ j \in Internal => call[t][j].kind = j
                      /\ j \in Slots /\ call[t][j].pc # "idle" => call[t][j].kind \in Kinds
  BY DEF Base, Domains, KindsOK
<1>2. /\ call[t]["refresh"].pc = "answered" /\ jar' = stored(t, "refresh")
      /\ UNCHANGED <<current, over, revoked>> /\ "refresh" \in Keys
  BY DEF sessionRefreshed, arrived, Keys, Internal, server
<1>3. DOMAIN jar' = CookieNames
  BY <1>2, StoredEffect
<1>4. PICK S : S = At(t, "refreshing")
  OBVIOUS
<1>5. PICK calls : calls = [j \in Keys |->
                              IF j = "refresh" THEN Idle(j)
                              ELSE IF j \in S THEN [call[t][j] EXCEPT !.retried = TRUE]
                              ELSE call[t][j]]
  OBVIOUS
<1>6. call' = [call EXCEPT ![t] = interceptRequests(calls, S, None, jar')]
  BY <1>2, <1>4, <1>5 DEF sessionRefreshed, Keys
<1>7. S \subseteq Keys /\ "refresh" \notin S /\ \A j \in S : call[t][j].pc = "refreshing"
  BY <1>2, <1>4 DEF At, Keys
<1>8. \A j \in Keys :
        /\ DOMAIN calls[j] = Fields /\ calls[j].retried \in BOOLEAN
        /\ j \in Internal => calls[j].kind = j
        /\ j \in Slots /\ calls[j].pc # "idle" => calls[j].kind \in Kinds
        /\ j \in S => /\ calls[j].retried /\ calls[j].kind = call[t][j].kind
                      /\ j \in Slots => calls[j].kind \in Kinds
        /\ j \notin S => calls[j] = IF j = "refresh" THEN Idle(j) ELSE call[t][j]
  <2> TAKE j \in Keys
  <2>1. CASE j = "refresh"
    BY <1>5, <1>7, <2>1, IdleEffect, SlotAssumption DEF Internal
  <2>2. CASE j \in S
    <3>1. PICK c : c = call[t][j] /\ DOMAIN c = Fields
      BY <1>1
    <3>2. calls[j] = [c EXCEPT !.retried = TRUE] /\ j # "refresh"
      BY <1>5, <1>7, <2>2, <3>1
    <3>3. DOMAIN calls[j] = Fields /\ calls[j].retried = TRUE /\ calls[j].kind = c.kind
      BY <3>1, <3>2 DEF Fields
    <3>4. calls[j].retried /\ calls[j].retried \in BOOLEAN
      BY <3>3
    <3>5. j \in Slots => c.kind \in Kinds
      BY <1>1, <1>7, <2>2, <3>1
    <3>6. j \in Internal => c.kind = j
      BY <1>1, <3>1
    <3> QED
      BY <2>2, <3>1, <3>3, <3>4, <3>5, <3>6
  <2>3. CASE j # "refresh" /\ j \notin S
    BY <1>1, <1>5, <2>3
  <2> QED
    BY <2>1, <2>2, <2>3
<1>9. Forwards(t, calls, S, None)
  BY <1>2, <1>3, <1>6, <1>7, <1>8 DEF Forwards
<1>10. /\ Client(t)
       /\ \A j \in Keys : /\ call'[t][j].retried = calls[j].retried
                          /\ call'[t][j].kind = calls[j].kind
                          /\ j \notin S \cup {"csrf"} => call'[t][j] = calls[j]
  BY <1>9, Sending
<1> QED
  BY <1>2, <1>7, <1>8, <1>10, IdleEffect, SlotAssumption DEF Owes, Continues, Keys

-----------------------------------------------------------------------------
(* The steps of the server.                                                *)

\* A login opens session s; a refresh with token goes on with the next one; every other
\* answer has no token, and may end a session.
Logs(t, k, s, r) ==
  /\ answer(t, k, r) /\ call[t][k].pc = "sent" /\ call[t][k].kind = "login"
  /\ current[s] = 0 /\ current' = [current EXCEPT ![s] = 1] /\ UNCHANGED <<over, revoked>>
  /\ r.status = 200 /\ "refresh" \in DOMAIN r.sets
  /\ r.sets["refresh"].sid = s /\ r.sets["refresh"].gen = 1
Rotates(t, k, token, r) ==
  /\ answer(t, k, r) /\ call[t][k].pc = "sent" /\ call[t][k].kind = "refresh"
  /\ token = call[t][k].cookies["refresh"] /\ token # None
  /\ token.sid \notin over /\ token.gen = current[token.sid]
  /\ current' = [current EXCEPT ![token.sid] = @ + 1] /\ UNCHANGED <<over, revoked>>
  /\ r.status = 200 /\ "refresh" \in DOMAIN r.sets
  /\ r.sets["refresh"].sid = token.sid /\ r.sets["refresh"].gen = token.gen + 1
Refuses(t, k, r) ==
  /\ answer(t, k, r) /\ call[t][k].pc \in {"sent", "answered"} /\ UNCHANGED current
  /\ over \subseteq over'
  /\ r.status # 200 \/ call[t][k].kind \notin {"login", "refresh"}
  /\ "refresh" \notin DOMAIN r.sets \/ r.sets["refresh"] = None

LEMMA ReplyFields ==
  \A code, body, sets : /\ Reply(code, body, sets).status = code
                        /\ Reply(code, body, sets).sets = sets
BY DEF Reply

LEMMA NoSets == "refresh" \notin DOMAIN <<>>
OBVIOUS

LEMMA Revoking ==
  ASSUME NEW t, NEW k, revokedFamily(t, k)
  PROVE  over \subseteq over'
BY DEF revokedFamily, revokeFamily

LEMMA ServeStep ==
  ASSUME NEW t \in Tabs, NEW k \in Keys, serve(t, k)
  PROVE  \/ \E s \in Sessions : \E r : Logs(t, k, s, r)
         \/ \E token, r : Rotates(t, k, token, r)
         \/ \E r : Refuses(t, k, r)
<1>0. call[t][k].pc = "sent"
  BY DEF serve
<1>1. CASE csrfController(t, k)
  <2>1. PICK token : /\ call[t][k].kind = "csrf" /\ UNCHANGED <<current, over, revoked>>
                     /\ answer(t, k, Reply(200, token, [csrf |-> token]))
    BY <1>1 DEF csrfController, server
  <2>2. "refresh" \notin DOMAIN [csrf |-> token]
    OBVIOUS
  <2> QED
    BY <1>0, <2>1, <2>2, ReplyFields DEF Refuses
<1>2. CASE loginController(t, k)
  <2>1. CASE answer(t, k, Reply(401, None, <<>>)) /\ UNCHANGED current
    BY <1>0, <1>2, <2>1, ReplyFields, NoSets DEF loginController, Refuses
  <2>2. CASE ~(answer(t, k, Reply(401, None, <<>>)) /\ UNCHANGED current)
    <3>1. PICK s \in Sessions :
            /\ current[s] = 0 /\ current' = [current EXCEPT ![s] = 1]
            /\ answer(t, k, Reply(200, s,
                 [n \in CookieNames |-> IF n = "csrf" THEN issueCsrfToken(s)
                                        ELSE setAuthCookies(s, 1)[n]]))
      BY <1>2, <2>2 DEF loginController
    <3>2. PICK sets : sets = [n \in CookieNames |-> IF n = "csrf" THEN issueCsrfToken(s)
                                                    ELSE setAuthCookies(s, 1)[n]]
      OBVIOUS
    <3>3. "refresh" \in DOMAIN sets /\ sets["refresh"] = setAuthCookies(s, 1)["refresh"]
      BY <3>2 DEF CookieNames
    <3>4. sets["refresh"].sid = s /\ sets["refresh"].gen = 1
      BY <3>3 DEF setAuthCookies
    <3>5. call[t][k].kind = "login" /\ UNCHANGED <<over, revoked>>
      BY <1>2 DEF loginController
    <3>6. PICK r : r = Reply(200, s, sets)
      OBVIOUS
    <3>7. answer(t, k, r) /\ r.status = 200 /\ r.sets = sets
      BY <1>0, <3>1, <3>2, <3>6, ReplyFields
    <3>8. Logs(t, k, s, r)
      BY <1>0, <3>1, <3>3, <3>4, <3>5, <3>7 DEF Logs
    <3> QED
      BY <3>8
  <2> QED
    BY <2>1, <2>2
<1>3. CASE refreshController(t, k)
  <2>1. PICK token : token = call[t][k].cookies["refresh"]
    OBVIOUS
  <2>2. CASE snapshot[t][k] = None /\ claims(token)
    <3>1. /\ current' = [current EXCEPT ![token.sid] = @ + 1] /\ UNCHANGED <<over, revoked>>
          /\ answer(t, k, Reply(200, None, setAuthCookies(token.sid, token.gen + 1)))
          /\ call[t][k].kind = "refresh"
      BY <1>3, <2>1, <2>2, ZenonT(60) DEF refreshController
    <3>2. PICK sets : sets = setAuthCookies(token.sid, token.gen + 1)
      OBVIOUS
    <3>3. /\ "refresh" \in DOMAIN sets
          /\ sets["refresh"].sid = token.sid /\ sets["refresh"].gen = token.gen + 1
      BY <3>2 DEF setAuthCookies
    <3>4. PICK r : r = Reply(200, None, sets)
      OBVIOUS
    <3>5. answer(t, k, r) /\ r.status = 200 /\ r.sets = sets
      BY <1>0, <3>1, <3>2, <3>4, ReplyFields
    <3>6. Rotates(t, k, token, r)
      BY <1>0, <2>1, <2>2, <3>1, <3>3, <3>5, ZenonT(60) DEF Rotates, claims
    <3> QED
      BY <3>6, SMTT(30)
  <2>3. CASE ~(snapshot[t][k] = None /\ claims(token))
    <3>1. /\ revokedFamily(t, k)
          /\ answer(t, k, Reply(401, None, clearAuthCookies)) /\ UNCHANGED current
      BY <1>3, <2>1, <2>3 DEF refreshController
    <3>2. clearAuthCookies["refresh"] = None
      BY DEF clearAuthCookies, NoCookies
    <3> QED
      BY <1>0, <3>1, <3>2, ReplyFields, Revoking DEF Refuses
  <2> QED
    BY <2>2, <2>3
<1>4. CASE logoutController(t, k)
  <2>2. /\ revokedFamily(t, k)
        /\ answer(t, k, Reply(200, None, clearAuthCookies)) /\ UNCHANGED current
        /\ call[t][k].kind = "logout"
    BY <1>4 DEF logoutController
  <2>3. clearAuthCookies["refresh"] = None
    BY DEF clearAuthCookies, NoCookies
  <2> QED
    BY <1>0, <2>2, <2>3, ReplyFields, Revoking DEF Refuses
<1>5. CASE registerController(t, k)
  BY <1>0, <1>5, ReplyFields, NoSets DEF registerController, Refuses, server
<1>6. CASE apiController(t, k)
  <2>1. PICK body : /\ answer(t, k, Reply(200, body, <<>>)) /\ UNCHANGED <<current, over, revoked>>
                    /\ call[t][k].kind \in {"me", "change"}
    BY <1>6 DEF apiController, server
  <2> QED
    BY <1>0, <2>1, ReplyFields, NoSets DEF Refuses
<1>7. CASE unauthorized(t, k)
  BY <1>0, <1>7, ReplyFields, NoSets DEF unauthorized, Refuses, server
<1>8. CASE forbidden(t, k)
  BY <1>0, <1>8, ReplyFields, NoSets DEF forbidden, Refuses, server
<1> QED
  BY <1>1, <1>2, <1>3, <1>4, <1>5, <1>6, <1>7, <1>8 DEF serve

LEMMA FailureStep ==
  ASSUME NEW t \in Tabs, NEW k \in Keys, serverFails(t, k) \/ responseLost(t, k)
  PROVE  \E r : Refuses(t, k, r) /\ UNCHANGED over /\ r.status \in {0, 500}
<1>1. CASE serverFails(t, k)
  BY <1>1, ReplyFields, NoSets DEF serverFails, server, Refuses
<1>2. CASE responseLost(t, k)
  <2>1. NoReply.status = 0 /\ NoReply.sets = <<>>
    BY DEF NoReply
  <2> QED
    BY <1>2, <2>1, NoSets DEF responseLost, server, Refuses
<1> QED
  BY <1>1, <1>2

-----------------------------------------------------------------------------
(* Every state has it.                                                     *)

ClientSteps(t) ==
  \/ \E k \in Slots, kind \in Kinds : request(t, k, kind)
  \/ \E k \in Keys : handle(t, k)
  \/ pageLoad(t)

\* The cookies of the browser stay, or an answer sets them.
JarStep(t) ==
  jar' = jar \/ \E k \in Keys : call[t][k].pc = "answered" /\ jar' = stored(t, k)

LEMMA ClientStep ==
  ASSUME Base, NEW t \in Tabs, ClientSteps(t)
  PROVE  Client(t) /\ JarStep(t)
<1>1. CASE \E k \in Slots, kind \in Kinds : request(t, k, kind)
  BY <1>1, RequestStep DEF request, JarStep
<1>2. CASE \E k \in Keys : handle(t, k)
  <2>1. PICK k \in Keys : handle(t, k)
    BY <1>2
  <2>2. "csrf" \in Keys /\ "refresh" \in Keys
    BY DEF Keys, Internal
  <2>3. JarStep(t)
    BY <2>1, <2>2 DEF handle, fulfilled, rejected, refreshSession, csrfFetched, csrfFails,
                      sessionRefreshed, refreshFails, arrived, JarStep
  <2>4. Client(t)
    BY <2>1, SettleStep, RefreshStep, RefreshedStep, CsrfStep DEF handle
  <2> QED
    BY <2>3, <2>4
<1>3. CASE pageLoad(t)
  <2>1. "refresh" \in Keys /\ jar' = jar
    BY <1>3 DEF Keys, Internal, pageLoad
  <2> QED
    BY <1>3, <2>1, SettleStep DEF JarStep
<1> QED
  BY <1>1, <1>2, <1>3 DEF ClientSteps

LEMMA ClientKeepsBase ==
  ASSUME Base, NEW t \in Tabs, Client(t), JarStep(t)
  PROVE  Base'
<1>1. \/ jar'["refresh"] \in {jar["refresh"], None}
      \/ \E u \in Tabs, k \in Keys : Gives(u, k) /\ jar'["refresh"] = Given(u, k)
  BY StoredEffect DEF JarStep
<1>2. \A u \in Tabs, k \in Keys : Effect(u, k)
  BY DEF Client, Effect
<1>3. /\ Domains' /\ current' \in [Sessions -> Nat]
      /\ \A s \in Sessions : current[s] > 0 => current'[s] > 0
  BY DEF Client, Base
<1> QED
  BY <1>1, <1>2, <1>3, BaseKept

LEMMA ServerKeepsBase ==
  ASSUME Base, NEW t \in Tabs, NEW k \in Keys, NEW r, UNCHANGED jar,
         \/ \E s \in Sessions : Logs(t, k, s, r)
         \/ \E token : Rotates(t, k, token, r)
         \/ Refuses(t, k, r)
  PROVE  Base'
<1>1. answer(t, k, r) /\ call[t][k].pc \in {"sent", "answered"}
  BY DEF Logs, Rotates, Refuses
<1>2. /\ DOMAIN call' = Tabs /\ \A u \in Tabs : DOMAIN call'[u] = Keys
      /\ \A u \in Tabs, j \in Keys :
           /\ DOMAIN call'[u][j] = Fields
           /\ u # t \/ j # k => call'[u][j] = call[u][j]
      /\ call'[t][k].pc = "answered" /\ call'[t][k].reply = r
      /\ call'[t][k].kind = call[t][k].kind /\ call'[t][k].retried = call[t][k].retried
  BY <1>1, AnswerEffect DEF Base
<1>3. Domains'
  BY <1>2 DEF Base, Domains
<1>4. /\ Gives(t, k)' <=> r.status = 200 /\ call[t][k].kind \in {"login", "refresh"}
      /\ Given(t, k)' = r.sets["refresh"]
      /\ Kept(t, k)' <=> "refresh" \notin DOMAIN r.sets \/ r.sets["refresh"] = None
  BY <1>2 DEF Gives, Given, Kept
<1>5. /\ current' \in [Sessions -> Nat]
      /\ \A s \in Sessions : current[s] > 0 => current'[s] > 0
      /\ IF Gives(t, k)' THEN "refresh" \in DOMAIN r.sets /\ Known(Given(t, k))'
         ELSE Kept(t, k)'
  <2>0. /\ current \in [Sessions -> Nat]
        /\ \A token : token = call[t][k].cookies["refresh"] /\ call[t][k].pc = "sent" /\ token # None
             => /\ token.sid \in Sessions /\ current[token.sid] > 0
                /\ token.gen \in Nat /\ token.gen > 0
    BY DEF Base, TokensKnown, Known
  <2>1. CASE \E s \in Sessions : Logs(t, k, s, r)
    <3>1. PICK s \in Sessions : Logs(t, k, s, r)
      BY <2>1
    <3>2. /\ current' = [current EXCEPT ![s] = 1]
          /\ "refresh" \in DOMAIN r.sets
          /\ r.sets["refresh"].sid = s /\ r.sets["refresh"].gen = 1
          /\ r.status = 200 /\ call[t][k].kind = "login"
      BY <3>1 DEF Logs
    <3> QED
      BY <1>4, <2>0, <3>2 DEF Known
  <2>2. CASE \E token : Rotates(t, k, token, r)
    <3>1. PICK token : Rotates(t, k, token, r)
      BY <2>2, SMTT(30)
    <3>2. /\ current' = [current EXCEPT ![token.sid] = @ + 1]
          /\ "refresh" \in DOMAIN r.sets
          /\ r.sets["refresh"].sid = token.sid /\ r.sets["refresh"].gen = token.gen + 1
          /\ r.status = 200 /\ call[t][k].kind = "refresh"
      BY <3>1, ZenonT(60) DEF Rotates
    <3>3. token.sid \in Sessions /\ current[token.sid] > 0 /\ token.gen \in Nat
      BY <2>0, <3>1 DEF Rotates
    <3> QED
      BY <1>4, <2>0, <3>2, <3>3 DEF Known
  <2>3. CASE Refuses(t, k, r)
    BY <1>4, <2>0, <2>3 DEF Refuses
  <2> QED
    BY <2>1, <2>2, <2>3
<1>6. \A u \in Tabs, j \in Keys : Effect(u, j)
  BY <1>1, <1>2, <1>5 DEF Effect, IsAnswered
<1> QED
  BY <1>3, <1>5, <1>6, BaseKept

\* The session ends elsewhere, the access token expires, the secret changes, a revocation
\* starts.
RevokeStarts == \E t \in Tabs, k \in Keys : revokeFamilyStarts(t, k)
Elsewhere == environment \/ secretChanges \/ RevokeStarts \/ UNCHANGED vars

LEMMA ElsewhereStep ==
  ASSUME Base, Elsewhere
  PROVE  /\ UNCHANGED <<current, call, issued, lost>>
         /\ over' = over \/ \E s \in Sessions : s \notin over /\ current[s] > 0 /\ over' = over \cup {s}
         /\ DOMAIN jar' = CookieNames /\ jar'["refresh"] = jar["refresh"]
<1>1. CASE accessExpires
  <2>1. DOMAIN jar = CookieNames
    BY DEF Base, Domains
  <2>2. PICK access : jar' = [jar EXCEPT !["access"] = access]
    BY <1>1 DEF accessExpires
  <2> QED
    BY <1>1, <2>1, <2>2 DEF accessExpires, server, CookieNames
<1>2. CASE \E s \in Sessions : sessionEnds(s)
  BY <1>2 DEF sessionEnds, Base, Domains
<1>3. CASE secretChanges \/ UNCHANGED vars
  BY <1>3 DEF secretChanges, vars, Base, Domains
<1>4. CASE RevokeStarts
  BY <1>4 DEF RevokeStarts, revokeFamilyStarts, server, Base, Domains
<1> QED
  BY <1>1, <1>2, <1>3, <1>4 DEF Elsewhere, environment

\* The steps, by who takes them.
LEMMA StepCases ==
  ASSUME [Next]_vars
  PROVE  \/ \E t \in Tabs : ClientSteps(t)
         \/ \E t \in Tabs, k \in Keys : serve(t, k) \/ fails(t, k)
         \/ Elsewhere
BY DEF Next, ClientSteps, Elsewhere, RevokeStarts, Keys

LEMMA BaseInit ==
  ASSUME Init
  PROVE  Base
<1>1. Domains
  BY IdleEffect DEF Init, Domains, NoCookies, CookieNames, Keys
<1>2. \A t \in Tabs, k \in Keys : call[t][k] = Idle(k)
  BY DEF Init, Keys
<1>3. KindsOK /\ RepliesOK
  BY <1>2, IdleEffect, SlotAssumption DEF KindsOK, RepliesOK, Internal
<1>4. TokensKnown
  BY <1>2, IdleEffect DEF TokensKnown, Init, NoCookies
<1> QED
  BY <1>1, <1>3, <1>4 DEF Init, Base

LEMMA BaseNext ==
  ASSUME Base, [Next]_vars
  PROVE  Base'
<1>1. CASE \E t \in Tabs : ClientSteps(t)
  BY <1>1, ClientStep, ClientKeepsBase
<1>2. CASE \E t \in Tabs, k \in Keys : serve(t, k) \/ fails(t, k)
  <2>1. PICK t \in Tabs, k \in Keys : serve(t, k) \/ fails(t, k)
    BY <1>2
  <2>2. jar' = jar
    BY <2>1 DEF serve, fails, serverFails, responseLost
  <2>3. \E r : \/ \E s \in Sessions : Logs(t, k, s, r)
               \/ \E token : Rotates(t, k, token, r)
               \/ Refuses(t, k, r)
    BY <2>1, ServeStep, FailureStep DEF fails
  <2> QED
    BY <2>2, <2>3, ServerKeepsBase
<1>3. CASE Elsewhere
  <2>1. /\ UNCHANGED <<current, call>>
        /\ over' = over \/ \E s \in Sessions : s \notin over /\ current[s] > 0 /\ over' = over \cup {s}
        /\ DOMAIN jar' = CookieNames /\ jar'["refresh"] = jar["refresh"]
    BY <1>3, ElsewhereStep
  <2>2. Domains' /\ current' \in [Sessions -> Nat]
    BY <2>1 DEF Base, Domains
  <2>3. \A t \in Tabs, k \in Keys : Effect(t, k)
    BY <2>1 DEF Effect
  <2> QED
    BY <2>1, <2>2, <2>3, BaseKept
<1> QED
  BY <1>1, <1>2, <1>3, StepCases

LEMMA BaseInvariant == Spec => []Base
BY BaseInit, BaseNext, PTL DEF Spec

-----------------------------------------------------------------------------
(* What the server keeps of the revocations.                               *)

Marks ==
  /\ over \subseteq Sessions /\ revoked \in [Sessions -> Nat]
  /\ snapshot \in [Tabs -> [Keys -> Refresh]]
  /\ \A t \in Tabs, k \in Keys : snapshot[t][k] # None => snapshot[t][k].gen > 0

\* A revocation ends the session, or marks the tokens of its snapshot.
LEMMA RevokedMarks ==
  ASSUME Marks, NEW t \in Tabs, NEW k \in Keys, revokedFamily(t, k)
  PROVE  /\ over' \subseteq Sessions /\ revoked' \in [Sessions -> Nat]
         /\ over \subseteq over' /\ \A s \in Sessions : revoked[s] <= revoked'[s]
         /\ snapshot[t][k] # None =>
              LET s == snapshot[t][k].sid
              IN s \in Sessions /\ (s \in over' \/ revoked'[s] > 0)
         /\ snapshot[t][k] = None => ~revokes(call[t][k]) /\ UNCHANGED <<over, revoked>>
<1>1. CASE snapshot[t][k] = None
  BY <1>1 DEF revokedFamily, Marks
<1>2. CASE snapshot[t][k] # None
  <2>1. PICK seen : seen = snapshot[t][k]
    OBVIOUS
  <2>2. /\ seen.sid \in Sessions /\ seen.gen \in Nat /\ seen.gen > 0
        /\ over \subseteq Sessions /\ revoked \in [Sessions -> Nat]
    BY <1>2, <2>1 DEF Marks, Refresh
  <2>3. \/ over' = over \cup {seen.sid} /\ UNCHANGED revoked
        \/ /\ revoked' = [revoked EXCEPT ![seen.sid] = IF seen.gen > @ THEN seen.gen ELSE @]
           /\ UNCHANGED over
    BY <1>2, <2>1 DEF revokedFamily, revokeFamily
  <2> QED
    BY <1>2, <2>1, <2>2, <2>3
<1> QED
  BY <1>1, <1>2

LEMMA ServeRevokes ==
  ASSUME NEW t \in Tabs, NEW k \in Keys, serve(t, k)
  PROVE  /\ UNCHANGED <<over, revoked>> \/ revokedFamily(t, k)
         /\ \E r : answer(t, k, r)
BY DEF serve, csrfController, loginController, refreshController, logoutController,
       registerController, apiController, unauthorized, forbidden, server

LEMMA AnswerMarks ==
  ASSUME Marks, NEW t \in Tabs, NEW k \in Keys, NEW r, answer(t, k, r),
         over' \subseteq Sessions, revoked' \in [Sessions -> Nat]
  PROVE  Marks' /\ snapshot' = [snapshot EXCEPT ![t][k] = None]
<1>1. snapshot' = [snapshot EXCEPT ![t][k] = None] /\ None \in Refresh
  BY DEF answer, Refresh
<1> QED
  BY <1>1 DEF Marks

LEMMA ServerMarks ==
  ASSUME Marks, NEW t \in Tabs, NEW k \in Keys, serve(t, k) \/ fails(t, k)
  PROVE  /\ Marks' /\ snapshot' = [snapshot EXCEPT ![t][k] = None]
         /\ over \subseteq over' /\ \A s \in Sessions : revoked[s] <= revoked'[s]
<1>1. UNCHANGED <<over, revoked>> \/ revokedFamily(t, k)
  BY ServeRevokes DEF fails, serverFails, responseLost, server
<1>2. \E r : answer(t, k, r)
  BY ServeRevokes DEF fails, serverFails, responseLost
<1>3. /\ over' \subseteq Sessions /\ revoked' \in [Sessions -> Nat]
      /\ over \subseteq over' /\ \A s \in Sessions : revoked[s] <= revoked'[s]
  BY <1>1, RevokedMarks DEF Marks
<1> QED
  BY <1>2, <1>3, AnswerMarks

LEMMA ClientMarks ==
  ASSUME Base, Marks, NEW t \in Tabs, ClientSteps(t)
  PROVE  /\ Marks'
         /\ \A u \in Tabs, k \in Keys : snapshot'[u][k] \in {snapshot[u][k], None}
<1>1. UNCHANGED <<over, revoked>>
  BY ClientStep DEF Client
<1>2. \/ UNCHANGED snapshot
      \/ snapshot' = [snapshot EXCEPT ![t] = [k \in Keys |-> None]]
  BY DEF ClientSteps, handle, request, csrfFetched, csrfFails, sessionRefreshed,
         refreshFails, fulfilled, rejected, refreshSession, pageLoad, Keys
<1>3. None \in Refresh
  BY DEF Refresh
<1> QED
  BY <1>1, <1>2, <1>3 DEF Marks

LEMMA ElsewhereMarks ==
  ASSUME Base, Marks, Elsewhere
  PROVE  /\ Marks' /\ UNCHANGED revoked /\ over \subseteq over'
         /\ \/ UNCHANGED snapshot
            \/ \E t \in Tabs, k \in Keys :
                 /\ revokeFamilyStarts(t, k)
                 /\ \A u \in Tabs, j \in Keys :
                      snapshot'[u][j] = IF u = t /\ j = k
                                        THEN [sid |-> call[t][k].cookies["refresh"].sid,
                                              gen |-> current[call[t][k].cookies["refresh"].sid]]
                                        ELSE snapshot[u][j]
<1>1. CASE environment \/ secretChanges \/ UNCHANGED vars
  BY <1>1 DEF environment, sessionEnds, accessExpires, secretChanges, vars, server, Marks
<1>2. CASE RevokeStarts
  <2>1. PICK t \in Tabs, k \in Keys : revokeFamilyStarts(t, k)
    BY <1>2 DEF RevokeStarts
  <2>2. PICK s : s = call[t][k].cookies["refresh"].sid
    OBVIOUS
  <2>3. s \in Sessions /\ current[s] > 0 /\ current[s] \in Nat
    <3>1. call[t][k].pc = "sent" /\ call[t][k].cookies["refresh"] # None
      BY <2>1 DEF revokeFamilyStarts, revokes
    <3> QED
      BY <2>2, <3>1 DEF Base, TokensKnown, Known
  <2>4. PICK seen : seen = [sid |-> s, gen |-> current[s]]
    OBVIOUS
  <2>5. seen \in Refresh /\ seen.gen > 0
    BY <2>3, <2>4 DEF Refresh
  <2>6. snapshot' = [snapshot EXCEPT ![t][k] = seen] /\ UNCHANGED <<over, revoked>>
    BY <2>1, <2>2, <2>4 DEF revokeFamilyStarts, server
  <2>7. \A u \in Tabs, j \in Keys :
          snapshot'[u][j] = IF u = t /\ j = k THEN seen ELSE snapshot[u][j]
    BY <2>6 DEF Marks
  <2>8. Marks'
    BY <2>5, <2>6, <2>7 DEF Marks
  <2> QED
    BY <2>1, <2>2, <2>4, <2>6, <2>7, <2>8
<1> QED
  BY <1>1, <1>2 DEF Elsewhere

LEMMA MarksInit ==
  ASSUME Init
  PROVE  Marks
BY DEF Init, Marks, Refresh, Keys

LEMMA MarksNext ==
  ASSUME Base, Marks, [Next]_vars
  PROVE  Marks'
BY StepCases, ClientMarks, ServerMarks, ElsewhereMarks

LEMMA MarksInvariant == Spec => []Marks
BY MarksInit, MarksNext, BaseInvariant, PTL DEF Spec

-----------------------------------------------------------------------------
(* One rotation for each call of the application at most.                  *)

\* The calls of the application that may still cause a rotation, and the refreshes that
\* are not served yet, are paid for by calls that have been made.
Credit == {x \in Tabs \X Keys : Owes(x[1], x[2])}
Paid == /\ IsFiniteSet(Credit) /\ issued \in Nat /\ issued <= MaxCalls
        /\ \A s \in Sessions : current[s] + Cardinality(Credit) <= issued

LEMMA CreditFalls ==
  ASSUME IsFiniteSet(Credit), Credit' \subseteq Credit
  PROVE  IsFiniteSet(Credit') /\ Cardinality(Credit') <= Cardinality(Credit)
BY FS_Subset

LEMMA CreditSpent ==
  ASSUME IsFiniteSet(Credit), NEW x \in Credit, Credit' \subseteq Credit \ {x}
  PROVE  IsFiniteSet(Credit') /\ Cardinality(Credit') + 1 <= Cardinality(Credit)
<1>1. IsFiniteSet(Credit \ {x}) /\ Cardinality(Credit \ {x}) = Cardinality(Credit) - 1
  BY FS_RemoveElement
<1>2. IsFiniteSet(Credit') /\ Cardinality(Credit') <= Cardinality(Credit \ {x})
  BY <1>1, FS_Subset
<1> QED
  BY <1>1, <1>2, FS_CardinalityType

LEMMA CreditGranted ==
  ASSUME IsFiniteSet(Credit), NEW x, Credit' \subseteq Credit \cup {x}
  PROVE  IsFiniteSet(Credit') /\ Cardinality(Credit') <= Cardinality(Credit) + 1
<1>1. /\ IsFiniteSet(Credit \cup {x})
      /\ Cardinality(Credit \cup {x}) \in {Cardinality(Credit), Cardinality(Credit) + 1}
  BY FS_AddElement
<1>2. IsFiniteSet(Credit') /\ Cardinality(Credit') <= Cardinality(Credit \cup {x})
  BY <1>1, FS_Subset
<1> QED
  BY <1>1, <1>2, FS_CardinalityType

LEMMA CreditMoved ==
  ASSUME IsFiniteSet(Credit), NEW x \in Credit, NEW y, Credit' \subseteq (Credit \ {x}) \cup {y}
  PROVE  IsFiniteSet(Credit') /\ Cardinality(Credit') <= Cardinality(Credit)
<1>1. IsFiniteSet(Credit \ {x}) /\ Cardinality(Credit \ {x}) = Cardinality(Credit) - 1
  BY FS_RemoveElement
<1>2. /\ IsFiniteSet((Credit \ {x}) \cup {y})
      /\ Cardinality((Credit \ {x}) \cup {y}) \in {Cardinality(Credit) - 1, Cardinality(Credit)}
  <2>1. Cardinality(Credit) \in Nat
    BY FS_CardinalityType
  <2> QED
    BY <1>1, <2>1, FS_AddElement
<1>3. IsFiniteSet(Credit') /\ Cardinality(Credit') <= Cardinality((Credit \ {x}) \cup {y})
  BY <1>2, FS_Subset
<1> QED
  BY <1>2, <1>3, FS_CardinalityType

\* What Client says of the other tabs.
LEMMA CreditOfTab ==
  ASSUME NEW t \in Tabs, Client(t)
  PROVE  \A u \in Tabs, j \in Keys : u # t => (Owes(u, j)' <=> Owes(u, j))
BY DEF Client, Owes

LEMMA ClientPays ==
  ASSUME Base, Paid, NEW t \in Tabs, ClientSteps(t)
  PROVE  Paid'
<1>1. /\ Client(t) /\ UNCHANGED current /\ current \in [Sessions -> Nat]
      /\ IsFiniteSet(Credit) /\ Cardinality(Credit) \in Nat /\ issued \in Nat
  BY ClientStep, FS_CardinalityType DEF Client, Base, Paid
<1>2. CASE \E k \in Slots, kind \in Kinds : request(t, k, kind)
  <2>1. PICK k \in Slots, kind \in Kinds : request(t, k, kind)
    BY <1>2
  <2>2. Credit' \subseteq Credit \cup {<<t, k>>}
    BY <1>1, <2>1, RequestStep, CreditOfTab DEF Credit
  <2>3. issued' = issued + 1 /\ issued < MaxCalls
    BY <2>1 DEF request
  <2>4. IsFiniteSet(Credit') /\ Cardinality(Credit') <= Cardinality(Credit) + 1
    BY <1>1, <2>2, CreditGranted
  <2>5. Cardinality(Credit') \in Nat
    BY <2>4, FS_CardinalityType
  <2> QED
    BY <1>1, <2>3, <2>4, <2>5, BoundAssumption DEF Paid
<1>3. CASE (\E k \in Keys : handle(t, k)) \/ pageLoad(t)
  <2>1. issued' = issued
    BY <1>3 DEF handle, fulfilled, rejected, refreshSession, csrfFetched, csrfFails,
                sessionRefreshed, refreshFails, pageLoad
  <2>2. IsFiniteSet(Credit') /\ Cardinality(Credit') <= Cardinality(Credit)
    <3>1. CASE \E k \in Keys : refreshSession(t, k)
      <4>1. PICK k \in Keys : refreshSession(t, k)
        BY <3>1
      <4>2. /\ <<t, k>> \in Credit
            /\ Credit' \subseteq (Credit \ {<<t, k>>}) \cup {<<t, "refresh">>}
        BY <1>1, <4>1, RefreshStep, CreditOfTab DEF Credit
      <4> QED
        BY <1>1, <4>2, CreditMoved
    <3>2. CASE ~\E k \in Keys : refreshSession(t, k)
      <4>1. "refresh" \in Keys
        BY DEF Keys, Internal
      <4>2. \A j \in Keys : Owes(t, j)' => Owes(t, j)
        BY <1>3, <3>2, <4>1, SettleStep, CsrfStep, RefreshedStep DEF handle
      <4>3. Credit' \subseteq Credit
        BY <1>1, <4>2, CreditOfTab DEF Credit
      <4> QED
        BY <1>1, <4>3, CreditFalls
    <3> QED
      BY <3>1, <3>2
  <2>3. Cardinality(Credit') \in Nat
    BY <2>2, FS_CardinalityType
  <2> QED
    BY <1>1, <2>1, <2>2, <2>3, SMTT(30) DEF Paid
<1> QED
  BY <1>2, <1>3 DEF ClientSteps

LEMMA ServerPays ==
  ASSUME Base, Paid, NEW t \in Tabs, NEW k \in Keys, serve(t, k) \/ fails(t, k)
  PROVE  Paid'
<1>1. /\ current \in [Sessions -> Nat] /\ IsFiniteSet(Credit)
      /\ Cardinality(Credit) \in Nat /\ issued \in Nat /\ issued' = issued
  BY FS_CardinalityType DEF Base, Paid, serve, fails, serverFails, responseLost
<1>2. PICK r : /\ \/ \E s \in Sessions : Logs(t, k, s, r)
                  \/ \E token : Rotates(t, k, token, r)
                  \/ Refuses(t, k, r)
               /\ call[t][k].pc = "sent" \/ r.status \in {0, 500}
  <2>1. CASE serve(t, k)
    <3>1. call[t][k].pc = "sent"
      BY <2>1 DEF serve
    <3> QED
      BY <2>1, <3>1, ServeStep
  <2>2. CASE fails(t, k)
    BY <2>2, FailureStep DEF fails
  <2> QED
    BY <2>1, <2>2
<1>3. answer(t, k, r) /\ call[t][k].pc \in {"sent", "answered"}
  BY <1>2 DEF Logs, Rotates, Refuses
<1>4. /\ \A u \in Tabs, j \in Keys : u # t \/ j # k => call'[u][j] = call[u][j]
      /\ call'[t][k].pc = "answered" /\ call'[t][k].reply = r
      /\ call'[t][k].retried = call[t][k].retried
  BY <1>3, AnswerEffect DEF Base
<1>5. /\ Owes(t, k)' => Owes(t, k) /\ k # "refresh" /\ r.status = 401
      /\ \A u \in Tabs, j \in Keys : u # t \/ j # k => (Owes(u, j)' <=> Owes(u, j))
  <2>1. \A u \in Tabs, j \in Keys : u # t \/ j # k => (Owes(u, j)' <=> Owes(u, j))
    BY <1>4 DEF Owes
  <2>2. Owes(t, k)' => Owes(t, k) /\ k # "refresh" /\ r.status = 401
    BY <1>2, <1>3, <1>4, SlotAssumption DEF Owes
  <2> QED
    BY <2>1, <2>2
<1>6. Credit' \subseteq Credit
  BY <1>5 DEF Credit
<1>7. CASE UNCHANGED current
  <2>1. IsFiniteSet(Credit') /\ Cardinality(Credit') <= Cardinality(Credit)
    BY <1>1, <1>6, CreditFalls
  <2> QED
    BY <1>1, <1>7, <2>1, FS_CardinalityType DEF Paid
<1>8. CASE (\E s \in Sessions : Logs(t, k, s, r)) \/ (\E token : Rotates(t, k, token, r))
  <2>1. /\ call[t][k].pc = "sent" /\ r.status = 200 /\ call[t][k].kind \in {"login", "refresh"}
        /\ current' \in [Sessions -> Nat]
        /\ \A s \in Sessions : current'[s] <= current[s] + 1
    BY <1>1, <1>8 DEF Logs, Rotates
  <2>2. CASE <<t, k>> \in Credit
    <3>1. Credit' \subseteq Credit \ {<<t, k>>}
      BY <1>5, <1>6, <2>1 DEF Credit
    <3>2. IsFiniteSet(Credit') /\ Cardinality(Credit') + 1 <= Cardinality(Credit)
      BY <1>1, <2>2, <3>1, CreditSpent
    <3> QED
      BY <1>1, <2>1, <3>2, FS_CardinalityType DEF Paid
  <2>3. CASE <<t, k>> \notin Credit
    <3>1. k \in Internal => call[t][k].kind = k
      BY DEF Base, KindsOK
    <3>2. k \in Slots => call[t][k].kind \in Kinds
      BY <2>1 DEF Base, KindsOK
    <3> QED
      BY <2>1, <2>3, <3>1, <3>2, SlotAssumption DEF Credit, Owes, Keys, Internal, Kinds
  <2> QED
    BY <2>2, <2>3
<1> QED
  BY <1>2, <1>7, <1>8 DEF Refuses

LEMMA PaidInit ==
  ASSUME Init
  PROVE  Paid
<1>1. \A t \in Tabs, k \in Keys : call[t][k] = Idle(k)
  BY DEF Init, Keys
<1>2. Credit = {}
  BY <1>1, IdleEffect DEF Credit, Owes
<1> QED
  BY <1>2, FS_EmptySet, BoundAssumption DEF Init, Paid

LEMMA PaidNext ==
  ASSUME Base, Paid, [Next]_vars
  PROVE  Paid'
<1>1. CASE Elsewhere
  <2>1. UNCHANGED <<current, call, issued>>
    BY <1>1, ElsewhereStep
  <2>2. Credit' = Credit
    BY <2>1 DEF Credit, Owes
  <2> QED
    BY <2>1, <2>2 DEF Paid
<1> QED
  BY <1>1, ClientPays, ServerPays, StepCases

LEMMA PaidInvariant == Spec => []Paid
BY PaidInit, PaidNext, BaseInvariant, PTL DEF Spec

\* The calls of the application after the login cause one rotation each at most, in any
\* number of tabs: `_retried` of http-client.ts stops a call from being refreshed again.
THEOREM OneRefreshPerCallAlways == Spec => []OneRefreshPerCall
<1>1. Base /\ Paid => OneRefreshPerCall
  BY FS_CardinalityType DEF Base, Paid, OneRefreshPerCall
<1> QED
  BY <1>1, BaseInvariant, PaidInvariant, PTL

-----------------------------------------------------------------------------
(* One tab never shows a spent token.                                      *)

OneTab == \A t, u \in Tabs : t = u

Live(s) == s \notin over \cup lost
Newest(token) == Live(token.sid) => token.gen = current[token.sid]

\* A token is the current one of its session wherever it is, but in the cookies while the
\* answer of a refresh, with its successor, is on the way.
TokensNewest == \A t \in Tabs :
  /\ jar["refresh"] # None
       => \/ Newest(jar["refresh"])
          \/ Gives(t, "refresh") /\ Given(t, "refresh").sid = jar["refresh"].sid
  /\ LET c == call[t]["refresh"]
     IN c.pc = "sent" /\ c.cookies["refresh"] # None => Newest(c.cookies["refresh"])
  /\ \A k \in Keys : Gives(t, k) => Newest(Given(t, k))

\* The session that a login has opened is nowhere else until its answer arrives.
LoginsApart == \A t \in Tabs : \A k \in Slots :
  Gives(t, k) =>
    LET s == Given(t, k).sid
        c == call[t]["refresh"]
    IN /\ jar["refresh"] # None => jar["refresh"].sid # s
       /\ c.pc = "sent" /\ c.cookies["refresh"] # None => c.cookies["refresh"].sid # s
       /\ \A j \in Keys \ {k} : Gives(t, j) => Given(t, j).sid # s

Unraced == OneTab /\ TokensNewest /\ LoginsApart

\* No token arrives.
LEMMA QuietStep ==
  ASSUME Base, Unraced, NEW t \in Tabs, Client(t), lost \subseteq lost',
         jar'["refresh"] \in {jar["refresh"], None},
         Gives(t, "refresh") => \/ call'[t]["refresh"] = call[t]["refresh"]
                                \/ Given(t, "refresh").sid \in lost'
  PROVE  Unraced'
<1>1. /\ current' = current /\ over' = over /\ Tabs = {t}
      /\ \A s : Live(s)' => Live(s)
      /\ "refresh" \in Keys /\ "refresh" \notin Slots /\ Slots \subseteq Keys
  BY SlotAssumption DEF Client, Unraced, OneTab, Live, Keys, Internal
<1>2. \A token : Newest(token) => Newest(token)'
  BY <1>1 DEF Newest
<1>3. \A k \in Keys : Gives(t, k)' => /\ Gives(t, k) /\ Given(t, k)' = Given(t, k)
                                      /\ call'[t][k] = call[t][k]
  <2> SUFFICES ASSUME NEW k \in Keys, Gives(t, k)'
               PROVE  Gives(t, k) /\ Given(t, k)' = Given(t, k) /\ call'[t][k] = call[t][k]
    OBVIOUS
  <2>1. call'[t][k].pc = "answered"
    BY DEF Gives
  <2>2. call'[t][k] = call[t][k]
    BY <2>1, IdleEffect DEF Client, Moves
  <2> QED
    BY <2>2 DEF Gives, Given
<1>4. call'[t]["refresh"].pc = "sent" =>
        \/ call'[t]["refresh"] = call[t]["refresh"]
        \/ ~Gives(t, "refresh") /\ call'[t]["refresh"].cookies = jar'
  BY <1>1, IdleEffect DEF Client, Moves, Gives
<1>5. jar'["refresh"] # None => jar'["refresh"] = jar["refresh"]
  OBVIOUS
<1>6. jar'["refresh"] # None
        => \/ Newest(jar["refresh"])'
           \/ Gives(t, "refresh")' /\ Given(t, "refresh")'.sid = jar'["refresh"].sid
  <2> SUFFICES ASSUME jar'["refresh"] # None, ~Newest(jar["refresh"])'
               PROVE  Gives(t, "refresh")' /\ Given(t, "refresh")'.sid = jar["refresh"].sid
    BY <1>5 DEF Newest
  <2>1. Gives(t, "refresh") /\ Given(t, "refresh").sid = jar["refresh"].sid
    BY <1>2, <1>5 DEF Unraced, TokensNewest
  <2>2. Given(t, "refresh").sid \notin lost'
    BY <1>5, <2>1 DEF Newest, Live
  <2>3. call'[t]["refresh"] = call[t]["refresh"]
    BY <2>1, <2>2
  <2> QED
    BY <2>1, <2>3 DEF Gives, Given
<1>7. LET c == call[t]["refresh"]
      IN (c.pc = "sent" /\ c.cookies["refresh"] # None => Newest(c.cookies["refresh"]))'
  <2>1. CASE call'[t]["refresh"] = call[t]["refresh"]
    BY <1>2, <2>1 DEF Unraced, TokensNewest, Newest
  <2>2. CASE ~Gives(t, "refresh") /\ call'[t]["refresh"].cookies = jar'
    BY <1>2, <1>5, <2>2 DEF Unraced, TokensNewest, Newest
  <2> QED
    BY <1>4, <2>1, <2>2
<1>8. TokensNewest'
  <2>1. \A k \in Keys : Gives(t, k)' => Newest(Given(t, k))'
    BY <1>2, <1>3 DEF Unraced, TokensNewest, Newest
  <2> QED
    BY <1>1, <1>6, <1>7, <2>1 DEF TokensNewest, Newest
<1>9. LoginsApart'
  <2> SUFFICES ASSUME NEW k \in Slots, Gives(t, k)'
               PROVE  LET s == Given(t, k)'.sid
                          c == call'[t]["refresh"]
                      IN /\ jar'["refresh"] # None => jar'["refresh"].sid # s
                         /\ c.pc = "sent" /\ c.cookies["refresh"] # None => c.cookies["refresh"].sid # s
                         /\ \A j \in Keys \ {k} : Gives(t, j)' => Given(t, j)'.sid # s
    BY <1>1 DEF LoginsApart
  <2>1. Gives(t, k) /\ Given(t, k)' = Given(t, k)
    BY <1>1, <1>3
  <2> QED
    BY <1>3, <1>4, <1>5, <2>1 DEF Unraced, LoginsApart
<1> QED
  BY <1>8, <1>9 DEF Unraced, OneTab

\* The answer of a login or a refresh arrives.
LEMMA TakesStep ==
  ASSUME Base, Unraced, NEW t \in Tabs, Client(t), lost \subseteq lost',
         NEW k \in Keys, Gives(t, k), jar'["refresh"] = Given(t, k),
         call'[t][k] = Idle(k)
  PROVE  Unraced'
<1>1. /\ current' = current /\ over' = over /\ Tabs = {t}
      /\ \A s : Live(s)' => Live(s)
      /\ "refresh" \in Keys /\ "refresh" \notin Slots /\ Slots \subseteq Keys
  BY SlotAssumption DEF Client, Unraced, OneTab, Live, Keys, Internal
<1>2. \A token : Newest(token) => Newest(token)'
  BY <1>1 DEF Newest
<1>3. \A j \in Keys : Gives(t, j)' => /\ j # k /\ Gives(t, j) /\ Given(t, j)' = Given(t, j)
                                      /\ call'[t][j] = call[t][j]
  <2> SUFFICES ASSUME NEW j \in Keys, Gives(t, j)'
               PROVE  /\ j # k /\ Gives(t, j) /\ Given(t, j)' = Given(t, j)
                      /\ call'[t][j] = call[t][j]
    OBVIOUS
  <2>1. call'[t][j].pc = "answered"
    BY DEF Gives
  <2>2. call'[t][j] = call[t][j] /\ j # k
    BY <2>1, IdleEffect DEF Client, Moves
  <2> QED
    BY <2>2 DEF Gives, Given
<1>4. call'[t]["refresh"].pc = "sent" => \/ call'[t]["refresh"] = call[t]["refresh"]
                                         \/ call'[t]["refresh"].cookies = jar'
  BY <1>1, IdleEffect DEF Client, Moves
<1>5. Newest(jar["refresh"])'
  BY <1>2 DEF Unraced, TokensNewest, Newest
<1>6. LET c == call[t]["refresh"]
      IN (c.pc = "sent" /\ c.cookies["refresh"] # None => Newest(c.cookies["refresh"]))'
  <2>1. CASE call'[t]["refresh"] = call[t]["refresh"]
    BY <1>2, <2>1 DEF Unraced, TokensNewest, Newest
  <2>2. CASE call'[t]["refresh"].cookies = jar'
    BY <1>5, <2>2 DEF Newest
  <2> QED
    BY <1>4, <2>1, <2>2
<1>7. TokensNewest'
  <2>1. \A j \in Keys : Gives(t, j)' => Newest(Given(t, j))'
    BY <1>2, <1>3 DEF Unraced, TokensNewest, Newest
  <2> QED
    BY <1>1, <1>5, <1>6, <2>1 DEF TokensNewest, Newest
<1>8. LoginsApart'
  <2> SUFFICES ASSUME NEW l \in Slots, Gives(t, l)'
               PROVE  LET s == Given(t, l)'.sid
                          c == call'[t]["refresh"]
                      IN /\ jar'["refresh"] # None => jar'["refresh"].sid # s
                         /\ c.pc = "sent" /\ c.cookies["refresh"] # None => c.cookies["refresh"].sid # s
                         /\ \A j \in Keys \ {l} : Gives(t, j)' => Given(t, j)'.sid # s
    BY <1>1 DEF LoginsApart
  <2>1. Gives(t, l) /\ Given(t, l)' = Given(t, l) /\ l # k
    BY <1>1, <1>3
  <2>2. Given(t, k).sid # Given(t, l).sid
    BY <2>1 DEF Unraced, LoginsApart
  <2> QED
    BY <1>3, <1>4, <2>1, <2>2 DEF Unraced, LoginsApart
<1> QED
  BY <1>7, <1>8 DEF Unraced, OneTab

LEMMA ClientUnraced ==
  ASSUME Base, Unraced, NEW t \in Tabs, ClientSteps(t)
  PROVE  Unraced'
<1>1. Client(t) /\ "refresh" \in Keys /\ "csrf" \in Keys /\ Slots \subseteq Keys
  BY ClientStep DEF Keys, Internal
<1>2. /\ \A k \in Internal : call[t][k].kind = k
      /\ \A k \in Slots : k \notin Internal
  BY SlotAssumption DEF Base, KindsOK, Keys, Internal
<1>3. Retained(t) /\ Gives(t, "refresh") => call'[t]["refresh"] = call[t]["refresh"]
  BY DEF Retained, Gives
<1>4. CASE \E k \in Slots, kind \in Kinds : request(t, k, kind)
  <2>1. Retained(t)
    BY <1>4, RequestStep
  <2>2. lost' = lost /\ jar' = jar
    BY <1>4 DEF request
  <2> QED
    BY <1>1, <1>3, <2>1, <2>2, QuietStep
<1>5. CASE csrfFetched(t) \/ csrfFails(t)
  <2>1. Retained(t)
    BY <1>5, CsrfStep
  <2>2. lost' = lost /\ call[t]["csrf"].pc = "answered" /\ jar' = stored(t, "csrf")
    BY <1>5 DEF csrfFetched, csrfFails, arrived
  <2>3. ~Gives(t, "csrf")
    BY <1>2 DEF Gives, Internal
  <2>4. jar'["refresh"] \in {jar["refresh"], None}
    BY <1>1, <2>2, <2>3, StoredEffect
  <2> QED
    BY <1>1, <1>3, <2>1, <2>2, <2>4, QuietStep
<1>6. CASE \E k \in Keys : refreshSession(t, k)
  <2>1. PICK k \in Keys : refreshSession(t, k)
    BY <1>6
  <2>2. Retained(t)
    BY <2>1, RefreshStep
  <2>3. /\ lost' = lost /\ call[t][k].pc = "answered" /\ jar' = stored(t, k)
        /\ call[t][k].reply.status = 401
    BY <2>1 DEF refreshSession, arrived, canRefresh, status
  <2>4. ~Gives(t, k)
    BY <2>3 DEF Gives
  <2>5. jar'["refresh"] \in {jar["refresh"], None}
    BY <2>3, <2>4, StoredEffect
  <2> QED
    BY <1>1, <1>3, <2>2, <2>3, <2>5, QuietStep
<1>7. CASE \E k \in Keys : fulfilled(t, k) \/ rejected(t, k)
  <2>1. PICK k \in Keys : fulfilled(t, k) \/ rejected(t, k)
    BY <1>7
  <2>2. /\ k \notin Internal /\ call[t][k].pc = "answered" /\ jar' = stored(t, k)
        /\ call' = [call EXCEPT ![t] = settled(t, {k})]
        /\ lost' = lost /\ UNCHANGED <<current, over, revoked>>
    BY <2>1 DEF fulfilled, rejected, arrived, server
  <2>3. DOMAIN jar' = CookieNames
    BY <2>2, StoredEffect
  <2>4. \A j \in Keys : call'[t][j] = IF j \in {k} THEN Idle(j) ELSE call[t][j]
    BY <2>2, <2>3, Settling, ZenonT(60)
  <2>5. CASE Gives(t, k)
    <3>1. jar'["refresh"] = Given(t, k)
      BY <2>2, <2>5, StoredEffect
    <3> QED
      BY <1>1, <2>2, <2>4, <2>5, <3>1, TakesStep
  <2>6. CASE ~Gives(t, k)
    <3>1. jar'["refresh"] \in {jar["refresh"], None}
      BY <2>2, <2>6, StoredEffect
    <3>2. call'[t]["refresh"] = call[t]["refresh"]
      BY <1>1, <2>2, <2>4 DEF Internal
    <3> QED
      BY <1>1, <2>2, <3>1, <3>2, QuietStep
  <2> QED
    BY <2>5, <2>6
<1>8. CASE sessionRefreshed(t)
  <2>1. /\ call[t]["refresh"].pc = "answered" /\ call[t]["refresh"].reply.status = 200
        /\ jar' = stored(t, "refresh") /\ lost' = lost
    BY <1>8 DEF sessionRefreshed, arrived, status
  <2>2. Gives(t, "refresh")
    BY <1>2, <2>1 DEF Gives, Internal
  <2>3. jar'["refresh"] = Given(t, "refresh")
    BY <1>1, <2>1, <2>2, StoredEffect
  <2>4. call'[t]["refresh"] = Idle("refresh")
    BY <1>8, RefreshedStep
  <2> QED
    BY <1>1, <2>1, <2>2, <2>3, <2>4, TakesStep
<1>9. CASE refreshFails(t)
  <2>1. /\ call[t]["refresh"].pc = "answered" /\ call[t]["refresh"].reply.status # 200
        /\ jar' = stored(t, "refresh") /\ lost' = lost
    BY <1>9 DEF refreshFails, arrived, status
  <2>2. ~Gives(t, "refresh")
    BY <2>1 DEF Gives
  <2>3. jar'["refresh"] \in {jar["refresh"], None}
    BY <1>1, <2>1, <2>2, StoredEffect
  <2> QED
    BY <1>1, <2>1, <2>2, <2>3, QuietStep
<1>10. CASE pageLoad(t)
  <2>1. jar' = jar /\ lost \subseteq lost'
    BY <1>10 DEF pageLoad
  <2>2. Gives(t, "refresh") => Given(t, "refresh").sid \in lost'
    BY <1>10 DEF pageLoad, Gives, Given
  <2> QED
    BY <1>1, <2>1, <2>2, QuietStep
<1> QED
  BY <1>4, <1>5, <1>6, <1>7, <1>8, <1>9, <1>10 DEF ClientSteps, handle

LEMMA ServerUnraced ==
  ASSUME Base, Unraced, NEW t \in Tabs, NEW k \in Keys, serve(t, k) \/ fails(t, k)
  PROVE  Unraced'
<1>1. /\ jar' = jar /\ lost \subseteq lost' /\ Tabs = {t}
      /\ "refresh" \in Keys /\ "refresh" \notin Slots /\ Slots \subseteq Keys
  BY SlotAssumption DEF serve, fails, serverFails, responseLost, Unraced, OneTab, Keys, Internal
<1>2. PICK r : \/ \E s \in Sessions : Logs(t, k, s, r)
               \/ \E token : Rotates(t, k, token, r)
               \/ Refuses(t, k, r)
  BY ServeStep, FailureStep, ZenonT(60) DEF fails
<1>3. answer(t, k, r) /\ call[t][k].pc \in {"sent", "answered"}
  BY <1>2 DEF Logs, Rotates, Refuses
<1>4. /\ \A j \in Keys : j # k => call'[t][j] = call[t][j]
      /\ call'[t][k].pc = "answered" /\ call'[t][k].reply = r
      /\ call'[t][k].kind = call[t][k].kind
  BY <1>3, AnswerEffect DEF Base
<1>5. /\ Gives(t, k)' <=> r.status = 200 /\ call[t][k].kind \in {"login", "refresh"}
      /\ Given(t, k)' = r.sets["refresh"]
      /\ \A j \in Keys \ {k} : Gives(t, j)' = Gives(t, j) /\ Given(t, j)' = Given(t, j)
  BY <1>4 DEF Gives, Given
<1>6. call'[t]["refresh"].pc = "sent" => k # "refresh" /\ call'[t]["refresh"] = call[t]["refresh"]
  BY <1>1, <1>4
<1>7. /\ \A j \in Internal : call[t][j].kind = j
      /\ call[t][k].pc = "sent" /\ k \in Slots => call[t][k].kind \in Kinds
      /\ \A j \in Keys : Gives(t, j) => j \in Slots \cup {"refresh"} /\ Known(Given(t, j))
      /\ jar["refresh"] # None => Known(jar["refresh"])
      /\ LET c == call[t]["refresh"]
         IN c.pc = "sent" /\ c.cookies["refresh"] # None => Known(c.cookies["refresh"])
      /\ current \in [Sessions -> Nat]
  BY <1>1 DEF Base, KindsOK, RepliesOK, TokensKnown, Gives, Keys, Internal
<1>8. CASE Refuses(t, k, r)
  <2>1. current' = current /\ over \subseteq over' /\ ~Gives(t, k)'
    BY <1>5, <1>8 DEF Refuses
  <2>2. \A token : Newest(token) => Newest(token)'
    BY <1>1, <2>1 DEF Newest, Live
  <2>3. \A j \in Keys : Gives(t, j)' => j # k /\ Gives(t, j) /\ Given(t, j)' = Given(t, j)
    BY <1>5, <2>1
  <2>4. Gives(t, "refresh") => Gives(t, "refresh")' \/ Given(t, "refresh").sid \in lost'
    <3>1. CASE k = "refresh"
      <4>1. Gives(t, "refresh") => responseLost(t, k)
        BY <3>1 DEF Gives, serve, fails, serverFails
      <4> QED
        BY <3>1, <4>1 DEF responseLost, Gives, Given
    <3>2. CASE k # "refresh"
      BY <1>1, <1>5, <3>2
    <3> QED
      BY <3>1, <3>2
  <2>5. TokensNewest'
    <3>1. jar'["refresh"] # None
            => \/ Newest(jar["refresh"])'
               \/ Gives(t, "refresh")' /\ Given(t, "refresh")'.sid = jar'["refresh"].sid
      BY <1>1, <2>2, <2>3, <2>4 DEF Unraced, TokensNewest, Newest, Live
    <3>2. LET c == call[t]["refresh"]
          IN (c.pc = "sent" /\ c.cookies["refresh"] # None => Newest(c.cookies["refresh"]))'
      BY <1>6, <2>2 DEF Unraced, TokensNewest, Newest
    <3>3. \A j \in Keys : Gives(t, j)' => Newest(Given(t, j))'
      BY <2>2, <2>3 DEF Unraced, TokensNewest, Newest
    <3> QED
      BY <1>1, <3>1, <3>2, <3>3 DEF TokensNewest, Newest
  <2>6. LoginsApart'
    BY <1>1, <1>6, <2>3 DEF Unraced, LoginsApart
  <2> QED
    BY <2>5, <2>6 DEF Unraced, OneTab
<1>9. CASE \E s \in Sessions : Logs(t, k, s, r)
  <2>1. PICK s \in Sessions : Logs(t, k, s, r)
    BY <1>9
  <2>2. /\ current' = [current EXCEPT ![s] = 1] /\ over' = over /\ current[s] = 0
        /\ r.sets["refresh"].sid = s /\ r.sets["refresh"].gen = 1
        /\ call[t][k].kind = "login"
    BY <2>1 DEF Logs
  <2>3. k \in Slots /\ k # "refresh"
    BY <1>1, <1>7, <2>2 DEF Keys, Internal
  <2>4. \A token : Known(token) => token.sid # s /\ (Newest(token) => Newest(token)')
    BY <1>1, <1>7, <2>2 DEF Known, Newest, Live
  <2>5. Newest(Given(t, k))' /\ Given(t, k)'.sid = s
    BY <1>5, <1>7, <2>2 DEF Newest
  <2>6. Gives(t, "refresh")' = Gives(t, "refresh") /\ Given(t, "refresh")' = Given(t, "refresh")
    BY <1>1, <1>5, <2>3
  <2>7. TokensNewest'
    <3>1. jar'["refresh"] # None
            => \/ Newest(jar["refresh"])'
               \/ Gives(t, "refresh")' /\ Given(t, "refresh")'.sid = jar'["refresh"].sid
      BY <1>1, <1>7, <2>4, <2>6 DEF Unraced, TokensNewest, Newest
    <3>2. LET c == call[t]["refresh"]
          IN (c.pc = "sent" /\ c.cookies["refresh"] # None => Newest(c.cookies["refresh"]))'
      BY <1>6, <1>7, <2>4 DEF Unraced, TokensNewest, Newest
    <3>3. \A j \in Keys : Gives(t, j)' => Newest(Given(t, j))'
      BY <1>5, <1>7, <2>4, <2>5 DEF Unraced, TokensNewest, Newest
    <3> QED
      BY <1>1, <3>1, <3>2, <3>3 DEF TokensNewest, Newest
  <2>8. LoginsApart'
    <3> SUFFICES ASSUME NEW l \in Slots, Gives(t, l)'
                 PROVE  LET i == Given(t, l)'.sid
                            c == call'[t]["refresh"]
                        IN /\ jar'["refresh"] # None => jar'["refresh"].sid # i
                           /\ c.pc = "sent" /\ c.cookies["refresh"] # None => c.cookies["refresh"].sid # i
                           /\ \A j \in Keys \ {l} : Gives(t, j)' => Given(t, j)'.sid # i
      BY <1>1 DEF LoginsApart
    <3>1. CASE l = k
      BY <1>1, <1>5, <1>6, <1>7, <2>4, <2>5, <3>1
    <3>2. CASE l # k
      <4>1. Gives(t, l) /\ Given(t, l)' = Given(t, l) /\ Known(Given(t, l))
        BY <1>1, <1>5, <1>7, <3>2
      <4> QED
        BY <1>1, <1>5, <1>6, <2>4, <2>5, <3>2, <4>1 DEF Unraced, LoginsApart
    <3> QED
      BY <3>1, <3>2
  <2> QED
    BY <2>7, <2>8 DEF Unraced, OneTab
<1>10. CASE \E token : Rotates(t, k, token, r)
  <2>1. PICK token : Rotates(t, k, token, r)
    BY <1>10
  <2>2. /\ current' = [current EXCEPT ![token.sid] = @ + 1] /\ over' = over
        /\ r.sets["refresh"].sid = token.sid /\ r.sets["refresh"].gen = token.gen + 1
        /\ token.gen = current[token.sid] /\ r.status = 200
        /\ token = call[t][k].cookies["refresh"] /\ token # None
        /\ call[t][k].kind = "refresh" /\ call[t][k].pc = "sent"
    BY <2>1 DEF Rotates
  <2>3. k = "refresh"
    BY <1>7, <2>2 DEF Keys, Internal, Kinds
  <2>4. Known(token) /\ Gives(t, k)' /\ Given(t, k)'.sid = token.sid /\ ~Gives(t, k)
    BY <1>5, <1>7, <2>2, <2>3 DEF Gives
  <2>5. \A other : other.sid # token.sid /\ Newest(other) => Newest(other)'
    BY <1>1, <1>7, <2>2, <2>4, SMTT(30) DEF Known, Newest, Live
  <2>6. Newest(Given(t, k))'
    BY <1>5, <1>7, <2>2, <2>4 DEF Newest, Known
  <2>7. \A l \in Slots : Gives(t, l)' => /\ Gives(t, l) /\ Given(t, l)' = Given(t, l)
                                         /\ Given(t, l).sid # token.sid
    BY <1>1, <1>5, <2>2, <2>3 DEF Unraced, LoginsApart
  <2>8. TokensNewest'
    <3>1. jar'["refresh"] # None
            => \/ Newest(jar["refresh"])'
               \/ Gives(t, "refresh")' /\ Given(t, "refresh")'.sid = jar'["refresh"].sid
      BY <1>1, <2>3, <2>4, <2>5 DEF Unraced, TokensNewest, Newest
    <3>2. \A j \in Keys : Gives(t, j)' => Newest(Given(t, j))'
      <4> SUFFICES ASSUME NEW j \in Keys, Gives(t, j)' PROVE Newest(Given(t, j))'
        OBVIOUS
      <4>1. CASE j = k
        BY <2>6, <4>1
      <4>2. CASE j # k
        <5>1. Gives(t, j) /\ Given(t, j)' = Given(t, j)
          BY ONLY <1>5, <4>2, j \in Keys, Gives(t, j)'
        <5>2. j \in Slots
          BY ONLY <1>7, <2>3, <4>2, <5>1, j \in Keys
        <5> QED
          BY <2>5, <2>7, <5>1, <5>2 DEF Unraced, TokensNewest, Newest
      <4> QED
        BY <4>1, <4>2
    <3> QED
      BY <1>1, <1>6, <2>3, <3>1, <3>2 DEF TokensNewest, Newest
  <2>9. LoginsApart'
    <3> SUFFICES ASSUME NEW l \in Slots, Gives(t, l)'
                 PROVE  LET i == Given(t, l)'.sid
                            c == call'[t]["refresh"]
                        IN /\ jar'["refresh"] # None => jar'["refresh"].sid # i
                           /\ c.pc = "sent" /\ c.cookies["refresh"] # None => c.cookies["refresh"].sid # i
                           /\ \A j \in Keys \ {l} : Gives(t, j)' => Given(t, j)'.sid # i
      BY <1>1 DEF LoginsApart
    <3> QED
      BY <1>1, <1>5, <1>6, <2>3, <2>4, <2>7 DEF Unraced, LoginsApart
  <2> QED
    BY <2>8, <2>9 DEF Unraced, OneTab
<1> QED
  BY <1>2, <1>8, <1>9, <1>10

LEMMA UnracedInit ==
  ASSUME OneTab, Init
  PROVE  Unraced
<1>1. \A t \in Tabs, k \in Keys : call[t][k] = Idle(k)
  BY DEF Init, Keys
<1>2. /\ \A t \in Tabs, k \in Keys : ~Gives(t, k) /\ call[t][k].pc # "sent"
      /\ jar["refresh"] = None /\ "refresh" \in Keys /\ Slots \subseteq Keys
  BY <1>1, IdleEffect DEF Gives, Init, NoCookies, Keys, Internal
<1> QED
  BY <1>2 DEF Unraced, TokensNewest, LoginsApart

LEMMA UnracedNext ==
  ASSUME Base, Unraced, [Next]_vars
  PROVE  Unraced'
<1>1. CASE Elsewhere
  <2>1. /\ UNCHANGED <<current, call, lost>> /\ over \subseteq over'
        /\ jar'["refresh"] = jar["refresh"]
    BY <1>1, ElsewhereStep
  <2>2. \A token : Newest(token) => Newest(token)'
    BY <2>1 DEF Newest, Live
  <2>3. \A t, k : Gives(t, k)' = Gives(t, k) /\ Given(t, k)' = Given(t, k)
    BY <2>1 DEF Gives, Given
  <2>4. TokensNewest'
    BY <2>1, <2>2, <2>3 DEF Unraced, TokensNewest, Newest
  <2>5. LoginsApart'
    BY <2>1, <2>3 DEF Unraced, LoginsApart
  <2> QED
    BY <2>4, <2>5 DEF Unraced, OneTab
<1> QED
  BY <1>1, ClientUnraced, ServerUnraced, StepCases

LEMMA UnracedInvariant == OneTab /\ Spec => []Unraced
<1>1. OneTab /\ Init => Unraced
  BY UnracedInit
<1> QED
  BY <1>1, UnracedNext, BaseInvariant, PTL DEF Spec

\* In a browser with one tab a refresh never shows a token that has been spent, unless its
\* successor was lost on the way: refreshSession of http-client.ts shares one refresh.
THEOREM RotationNeverRacedInOneTab == OneTab /\ Spec => []RotationNeverRaced
<1>1. Unraced => RotationNeverRaced
  BY DEF Unraced, TokensNewest, Newest, Live, RotationNeverRaced, Keys, Internal
<1> QED
  BY <1>1, UnracedInvariant, PTL

-----------------------------------------------------------------------------
(* No wake-up is lost.                                                     *)

\* What WaitersAreWoken says of one tab, with the states that a call may be in.
RowWoken(row) == \A k \in Keys :
  /\ row[k].pc \in {"idle", "csrf", "sent", "answered", "refreshing"}
  /\ row[k].pc = "refreshing" =>
       k \in Slots /\ row["refresh"].pc \in {"csrf", "sent", "answered"}
  /\ row[k].pc = "csrf" => k # "csrf" /\ row["csrf"].pc \in {"sent", "answered"}
Woken == \A t \in Tabs : RowWoken(call[t])

\* The calls of a tab before those of S are sent: who waits on has somebody to wait for.
Waits(calls, S) ==
  /\ \A k \in Keys : DOMAIN calls[k] = Fields
  /\ S \in SUBSET Keys /\ "csrf" \notin S
  /\ calls["csrf"].pc \in {"idle", "sent", "answered"}
  /\ \A k \in Keys \ S :
       /\ calls[k].pc \in {"idle", "csrf", "sent", "answered", "refreshing"}
       /\ calls[k].pc = "refreshing" =>
            /\ k \in Slots
            /\ "refresh" \in S \/ calls["refresh"].pc \in {"csrf", "sent", "answered"}
       /\ calls[k].pc = "csrf" => k # "csrf" /\ calls["csrf"].pc \in {"sent", "answered"}

LEMMA SendingWakes ==
  ASSUME NEW calls, NEW S, NEW token, NEW cookies, Waits(calls, S)
  PROVE  RowWoken(interceptRequests(calls, S, token, cookies))
<1> DEFINE waiting == {k \in S : calls[k].kind \notin SAFE /\ token = None}
           fetch == IF waiting # {} /\ calls["csrf"].pc = "idle" THEN {"csrf"} ELSE {}
           r == interceptRequests(calls, S, token, cookies)
<1>1. r = [k \in Keys |->
             IF k \in waiting THEN [calls[k] EXCEPT !.pc = "csrf"]
             ELSE IF k \in (S \ waiting) \cup fetch
               THEN [calls[k] EXCEPT !.pc = "sent", !.cookies = cookies,
                       !.header = IF calls[k].kind \in SAFE THEN None ELSE token]
             ELSE calls[k]]
  BY SMTT(30) DEF interceptRequests, Keys
<1>2. /\ waiting \subseteq S /\ fetch \subseteq {"csrf"}
      /\ waiting # {} /\ calls["csrf"].pc = "idle" => fetch = {"csrf"}
      /\ fetch # {} => calls["csrf"].pc = "idle"
  OBVIOUS
<1> HIDE DEF waiting, fetch, r
<1>3. ASSUME NEW k \in Keys
      PROVE  /\ k \in waiting => r[k].pc = "csrf"
             /\ k \in (S \ waiting) \cup fetch => r[k].pc = "sent"
             /\ k \notin S \cup fetch => r[k] = calls[k]
  <2>1. PICK c : c = calls[k] /\ DOMAIN c = Fields
    BY DEF Waits
  <2>2. CASE k \in waiting
    <3>1. r[k] = [c EXCEPT !.pc = "csrf"] /\ k # "csrf"
      BY <1>1, <1>2, <2>1, <2>2 DEF Waits
    <3> QED
      BY <1>2, <2>1, <2>2, <3>1 DEF Fields
  <2>3. CASE k \notin waiting /\ k \in (S \ waiting) \cup fetch
    <3>1. PICK h : r[k] = [c EXCEPT !.pc = "sent", !.cookies = cookies, !.header = h]
      BY <1>1, <2>1, <2>3
    <3> QED
      BY <2>1, <2>3, <3>1 DEF Fields
  <2>4. CASE k \notin waiting /\ k \notin (S \ waiting) \cup fetch
    BY <1>1, <1>2, <2>4
  <2> QED
    BY <2>2, <2>3, <2>4
<1>4. "csrf" \in Keys /\ "refresh" \in Keys
  BY DEF Keys, Internal
<1>5. /\ r["csrf"].pc \in {"idle", "sent", "answered"}
      /\ waiting # {} => r["csrf"].pc \in {"sent", "answered"}
      /\ calls["csrf"].pc \in {"sent", "answered"} => r["csrf"].pc \in {"sent", "answered"}
  BY <1>2, <1>3, <1>4 DEF Waits
<1>6. ASSUME NEW k \in Keys
      PROVE  /\ r[k].pc \in {"idle", "csrf", "sent", "answered", "refreshing"}
             /\ r[k].pc = "refreshing" =>
                  k \in Slots /\ r["refresh"].pc \in {"csrf", "sent", "answered"}
             /\ r[k].pc = "csrf" => k # "csrf" /\ r["csrf"].pc \in {"sent", "answered"}
  <2>1. CASE k \in S \cup fetch
    BY <1>2, <1>3, <1>5, <2>1 DEF Waits
  <2>2. CASE k \notin S \cup fetch
    <3>1. /\ r[k] = calls[k]
          /\ "refresh" \in S => r["refresh"].pc \in {"csrf", "sent"}
          /\ "refresh" \notin S => r["refresh"] = calls["refresh"]
      BY <1>2, <1>3, <1>4, <2>2
    <3> QED
      BY <1>5, <2>2, <3>1 DEF Waits
  <2> QED
    BY <2>1, <2>2
<1> QED
  BY <1>6 DEF RowWoken, r

\* A tab goes on with calls that it sends or settles; the others stay.
LEMMA TabWoken ==
  ASSUME Domains, Woken, NEW t \in Tabs, NEW m, RowWoken(m), call' = [call EXCEPT ![t] = m]
  PROVE  Woken'
<1>1. call'[t] = m /\ \A u \in Tabs \ {t} : call'[u] = call[u]
  BY DEF Domains
<1> QED
  BY <1>1 DEF Woken, RowWoken

LEMMA SettlingWakes ==
  ASSUME Woken, NEW t \in Tabs, NEW S \in SUBSET Keys,
         "refresh" \in S => At(t, "refreshing") \subseteq S,
         "csrf" \in S => At(t, "csrf") \subseteq S
  PROVE  RowWoken(settled(t, S))
<1>1. PICK m : m = settled(t, S)
  OBVIOUS
<1>2. \A k \in Keys : m[k] = IF k \in S THEN Idle(k) ELSE call[t][k]
  BY <1>1, SettledEffect
<1>3. /\ \A k \in Keys : call[t][k].pc = "refreshing" => k \in At(t, "refreshing")
      /\ \A k \in Keys : call[t][k].pc = "csrf" => k \in At(t, "csrf")
      /\ "csrf" \in Keys /\ "refresh" \in Keys
  BY DEF At, Keys, Internal
<1>4. RowWoken(m)
  BY <1>2, <1>3, IdleEffect DEF Woken, RowWoken
<1> QED
  BY <1>1, <1>4

LEMMA ClientWakes ==
  ASSUME Base, Woken, NEW t \in Tabs, ClientSteps(t)
  PROVE  Woken'
<1>1. /\ Domains /\ \A j \in Keys : DOMAIN call[t][j] = Fields
      /\ DOMAIN call[t] = Keys /\ Internal = {"csrf", "refresh"}
      /\ "csrf" \in Keys /\ "refresh" \in Keys
      /\ "csrf" \notin Slots /\ "refresh" \notin Slots /\ Slots \subseteq Keys
  BY SlotAssumption DEF Base, Domains, Keys, Internal
<1>2. /\ RowWoken(call[t])
      /\ call[t]["csrf"].pc \in {"idle", "sent", "answered"}
      /\ call[t]["refresh"].pc # "refreshing"
  BY <1>1 DEF Woken, RowWoken
<1>3. ASSUME NEW calls, NEW S, NEW token, NEW cookies, Waits(calls, S),
             call' = [call EXCEPT ![t] = interceptRequests(calls, S, token, cookies)]
      PROVE  Woken'
  <2>1. PICK r : r = interceptRequests(calls, S, token, cookies)
    OBVIOUS
  <2>2. RowWoken(r) /\ call' = [call EXCEPT ![t] = r]
    BY <1>3, <2>1, SendingWakes
  <2> QED
    BY <1>1, <2>2, TabWoken
<1>4. ASSUME NEW S \in SUBSET Keys,
             "refresh" \in S => At(t, "refreshing") \subseteq S,
             "csrf" \in S => At(t, "csrf") \subseteq S,
             call' = [call EXCEPT ![t] = settled(t, S)]
      PROVE  Woken'
  <2>1. PICK m : m = settled(t, S)
    OBVIOUS
  <2>2. RowWoken(m) /\ call' = [call EXCEPT ![t] = m]
    BY <1>4, <2>1, SettlingWakes
  <2> QED
    BY <1>1, <2>2, TabWoken
<1>5. CASE \E k \in Slots, kind \in Kinds : request(t, k, kind)
  <2>1. PICK k \in Slots, kind \in Kinds : request(t, k, kind)
    BY <1>5
  <2>2. PICK calls : calls = [call[t] EXCEPT ![k].kind = kind]
    OBVIOUS
  <2>3. \A j \in Keys : /\ DOMAIN calls[j] = Fields
                        /\ calls[j].pc = call[t][j].pc
    <3>1. PICK c : c = call[t][k] /\ DOMAIN c = Fields
      BY <1>1
    <3>2. calls = [call[t] EXCEPT ![k] = [c EXCEPT !.kind = kind]]
      BY <2>2, <3>1
    <3>3. DOMAIN [c EXCEPT !.kind = kind] = Fields /\ [c EXCEPT !.kind = kind].pc = c.pc
      BY <3>1 DEF Fields
    <3> QED
      BY <1>1, <3>1, <3>2, <3>3
  <2>4. Waits(calls, {k})
    BY <1>1, <1>2, <2>3 DEF Waits, RowWoken
  <2>5. call' = [call EXCEPT ![t] = interceptRequests(calls, {k}, csrfToken[t], jar)]
    BY <2>1, <2>2 DEF request
  <2> QED
    BY <1>3, <2>4, <2>5
<1>6. CASE csrfFetched(t)
  <2>1. PICK calls : calls = settled(t, {"csrf"})
    OBVIOUS
  <2>2. PICK S : S = At(t, "csrf")
    OBVIOUS
  <2>3. \A j \in Keys : /\ calls[j] = IF j = "csrf" THEN Idle(j) ELSE call[t][j]
                        /\ j \in S <=> call[t][j].pc = "csrf"
    BY <2>1, <2>2, SettledEffect DEF At, Keys
  <2>4. S \in SUBSET Keys
    BY <2>2 DEF At, Keys
  <2>5. Waits(calls, S)
    BY <1>1, <1>2, <2>3, <2>4, IdleEffect DEF Waits, RowWoken
  <2>6. call' = [call EXCEPT ![t] = interceptRequests(calls, S,
                               call[t]["csrf"].reply.body, stored(t, "csrf"))]
    BY <1>6, <2>1, <2>2 DEF csrfFetched
  <2> QED
    BY <1>3, <2>5, <2>6
<1>7. CASE csrfFails(t)
  <2>1. PICK waiting : waiting = At(t, "csrf")
    OBVIOUS
  <2>2. PICK S : S = {"csrf"} \cup (waiting \cup (IF "refresh" \in waiting
                                                  THEN At(t, "refreshing") ELSE {}))
    OBVIOUS
  <2>3. call' = [call EXCEPT ![t] = settled(t, S)]
    BY <1>7, <2>1, <2>2 DEF csrfFails
  <2>4. S \in SUBSET Keys
    BY <1>1, <2>1, <2>2 DEF At, Keys
  <2> QED
    BY <1>4, <2>1, <2>2, <2>3, <2>4
<1>8. CASE \E k \in Keys : fulfilled(t, k) \/ rejected(t, k)
  <2>1. PICK k \in Keys : fulfilled(t, k) \/ rejected(t, k)
    BY <1>8
  <2>2. call' = [call EXCEPT ![t] = settled(t, {k})] /\ k # "csrf" /\ k # "refresh"
    BY <1>1, <2>1 DEF fulfilled, rejected
  <2> QED
    BY <1>4, <2>2
<1>9. CASE \E k \in Keys : refreshSession(t, k)
  <2>1. PICK k \in Keys : refreshSession(t, k)
    BY <1>9
  <2>2. PICK d : d = [call[t][k] EXCEPT !.pc = "refreshing", !.reply = NoReply]
    OBVIOUS
  <2>3. PICK calls : calls = [call[t] EXCEPT ![k] = d]
    OBVIOUS
  <2>4. PICK S : S = IF call[t]["refresh"].pc = "idle" THEN {"refresh"} ELSE {}
    OBVIOUS
  <2>5. /\ call' = [call EXCEPT ![t] = interceptRequests(calls, S, csrfToken[t], stored(t, k))]
        /\ call[t][k].pc = "answered" /\ k \notin Internal
    BY <2>1, <2>2, <2>3, <2>4 DEF refreshSession, canRefresh, arrived
  <2>6. DOMAIN d = Fields /\ d.pc = "refreshing"
    BY <1>1, <2>2 DEF Fields
  <2>7. calls[k] = d /\ \A j \in Keys : j # k => calls[j] = call[t][j]
    BY <1>1, <2>3
  <2>8. k \in Slots /\ k # "csrf" /\ k # "refresh"
    BY <1>1, <2>5 DEF Keys
  <2>9. Waits(calls, S)
    BY <1>1, <1>2, <2>4, <2>6, <2>7, <2>8 DEF Waits, RowWoken
  <2> QED
    BY <1>3, <2>5, <2>9
<1>10. CASE sessionRefreshed(t)
  <2>1. PICK S : S = At(t, "refreshing")
    OBVIOUS
  <2>2. PICK calls : calls = [j \in Keys |->
                              IF j = "refresh" THEN Idle(j)
                              ELSE IF j \in S THEN [call[t][j] EXCEPT !.retried = TRUE]
                              ELSE call[t][j]]
    OBVIOUS
  <2>3. call' = [call EXCEPT ![t] = interceptRequests(calls, S, None, stored(t, "refresh"))]
    BY <1>10, <2>1, <2>2 DEF sessionRefreshed, Keys
  <2>4. /\ S \in SUBSET Keys /\ \A j \in Keys : j \in S <=> call[t][j].pc = "refreshing"
        /\ "csrf" \notin S /\ "refresh" \notin S
    BY <1>1, <1>2, <2>1 DEF At, Keys
  <2>5. \A j \in Keys : DOMAIN calls[j] = Fields
    BY <1>1, <2>2, IdleEffect DEF Fields
  <2>6. \A j \in Keys \ S : calls[j] = IF j = "refresh" THEN Idle(j) ELSE call[t][j]
    BY <2>2
  <2>7. Waits(calls, S)
    BY <1>1, <1>2, <2>4, <2>5, <2>6, IdleEffect DEF Waits, RowWoken
  <2> QED
    BY <1>3, <2>3, <2>7
<1>11. CASE refreshFails(t)
  <2>1. PICK S : S = {"refresh"} \cup At(t, "refreshing")
    OBVIOUS
  <2>2. call' = [call EXCEPT ![t] = settled(t, S)]
    BY <1>11, <2>1 DEF refreshFails
  <2>3. S \in SUBSET Keys /\ "csrf" \notin S
    BY <1>1, <1>2, <2>1 DEF At, Keys
  <2> QED
    BY <1>4, <2>1, <2>2, <2>3
<1>12. CASE pageLoad(t)
  <2>1. call' = [call EXCEPT ![t] = settled(t, Keys)]
    BY <1>12 DEF pageLoad, Keys
  <2> QED
    BY <1>4, <2>1 DEF At, Keys
<1> QED
  BY <1>5, <1>6, <1>7, <1>8, <1>9, <1>10, <1>11, <1>12 DEF ClientSteps, handle

LEMMA ServerWakes ==
  ASSUME Base, Woken, NEW t \in Tabs, NEW k \in Keys, serve(t, k) \/ fails(t, k)
  PROVE  Woken'
<1>1. PICK r : answer(t, k, r) /\ call[t][k].pc \in {"sent", "answered"}
  BY ServeRevokes DEF serve, fails, serverFails, responseLost
<1>2. /\ \A u \in Tabs, j \in Keys : u # t \/ j # k => call'[u][j] = call[u][j]
      /\ call'[t][k].pc = "answered"
  BY <1>1, AnswerEffect DEF Base
<1>3. "csrf" \in Keys /\ "refresh" \in Keys
  BY DEF Keys, Internal
<1> QED
  BY <1>1, <1>2, <1>3 DEF Woken, RowWoken

LEMMA WokenNext ==
  ASSUME Base, Woken, [Next]_vars
  PROVE  Woken'
<1>1. CASE Elsewhere
  BY <1>1, ElsewhereStep DEF Woken, RowWoken
<1> QED
  BY <1>1, StepCases, ClientWakes, ServerWakes

LEMMA WokenInit ==
  ASSUME Init
  PROVE  Woken
<1>1. \A t \in Tabs, k \in Keys : call[t][k] = Idle(k)
  BY DEF Init, Keys
<1> QED
  BY <1>1, IdleEffect DEF Woken, RowWoken

\* Whoever waits for a refresh or for a CSRF token waits for one that is under way, in any
\* number of tabs: csrfInFlight and refreshInFlight of http-client.ts are never left behind.
THEOREM WaitersAreWokenAlways == Spec => []WaitersAreWoken
<1>1. Woken => WaitersAreWoken
  BY DEF Woken, RowWoken, WaitersAreWoken, Keys
<1> QED
  BY <1>1, WokenInit, WokenNext, BaseInvariant, PTL DEF Spec

-----------------------------------------------------------------------------
(* Types.  A CSRF token has a nonce that nothing holds, as long as one is  *)
(* left: NonceLeft, which holds of an endless supply.                      *)

ReplyTyped(k, r) ==
  /\ r.status \in {0, 200, 401, 403, 500}
  /\ "access" \in DOMAIN r.sets => r.sets["access"] \in Access
  /\ "refresh" \in DOMAIN r.sets => r.sets["refresh"] \in Refresh
  /\ "csrf" \in DOMAIN r.sets => r.sets["csrf"] \in Csrf
  /\ k = "csrf" /\ r.status = 200 => r.body \in Csrf
CallTyped(k, c) ==
  /\ c.pc \in {"idle", "csrf", "sent", "answered", "refreshing"}
  /\ c.header \in Csrf /\ c.cookies \in Cookies /\ ReplyTyped(k, c.reply)

CallsTyped == \A t \in Tabs, k \in Keys : CallTyped(k, call[t][k])
\* What an idle slot is for.
SlotsFree == \A t \in Tabs, k \in Slots : call[t][k].pc = "idle" => call[t][k].kind = None

Typed ==
  /\ secret \in 0..MaxSecrets /\ jar \in Cookies /\ csrfToken \in [Tabs -> Csrf]
  /\ issued \in 0..MaxCalls /\ failed \in 0..MaxFailures /\ lost \subseteq Sessions
  /\ CallsTyped /\ SlotsFree

NonceLeft == Nonces \ {c.nonce : c \in HeldTokens \ {None}} # {}

LEMMA TypedImpliesTypeOK ==
  ASSUME Base, Marks, Typed
  PROVE  TypeOK
<1>1. /\ over \subseteq Sessions /\ revoked \in [Sessions -> Nat]
      /\ snapshot \in [Tabs -> [Slots \cup Internal -> Refresh]]
  BY DEF Marks, Keys
<1>2. ASSUME NEW t \in Tabs, NEW k \in Keys
      PROVE  LET c == call[t][k]
             IN /\ c.pc \in {"idle", "csrf", "sent", "answered", "refreshing"}
                /\ c.kind \in IF k \in Internal THEN {k}
                              ELSE IF c.pc = "idle" THEN {None} ELSE Kinds
                /\ c.retried \in BOOLEAN /\ c.header \in Csrf /\ c.cookies \in Cookies
                /\ c.reply.status \in {0, 200, 401, 403, 500}
  <2>1. CallTyped(k, call[t][k])
    BY DEF Typed, CallsTyped
  <2>2. call[t][k].kind \in IF k \in Internal THEN {k}
                            ELSE IF call[t][k].pc = "idle" THEN {None} ELSE Kinds
    BY DEF Base, KindsOK, Typed, SlotsFree, Keys
  <2>3. call[t][k].retried \in BOOLEAN
    BY DEF Base, KindsOK
  <2> QED
    BY <2>1, <2>2, <2>3 DEF CallTyped, ReplyTyped
<1> QED
  BY <1>1, <1>2 DEF TypeOK, Typed, Base, Keys

LEMMA NothingTyped ==
  /\ NoCookies \in Cookies /\ None \in Csrf /\ None \in Access /\ None \in Refresh
  /\ \A k : ReplyTyped(k, NoReply)
  /\ \A k : CallTyped(k, Idle(k))
<1>1. NoCookies \in Cookies /\ None \in Csrf /\ None \in Access /\ None \in Refresh
  BY DEF NoCookies, Cookies, Access, Refresh, Csrf
<1>2. \A k : ReplyTyped(k, NoReply)
  BY DEF ReplyTyped, NoReply
<1> QED
  BY <1>1, <1>2 DEF CallTyped, Idle

LEMMA StoredTyped ==
  ASSUME NEW t \in Tabs, NEW k \in Keys, jar \in Cookies, ReplyTyped(k, call[t][k].reply)
  PROVE  stored(t, k) \in Cookies
<1>1. PICK sets : sets = call[t][k].reply.sets
  OBVIOUS
<1>2. PICK f : f = [n \in CookieNames |-> IF n \in DOMAIN sets THEN sets[n] ELSE jar[n]]
  OBVIOUS
<1>3. jar["access"] \in Access /\ jar["refresh"] \in Refresh /\ jar["csrf"] \in Csrf
  BY DEF Cookies
<1>4. f["access"] \in Access /\ f["refresh"] \in Refresh /\ f["csrf"] \in Csrf
  BY <1>1, <1>2, <1>3 DEF ReplyTyped, CookieNames
<1>5. f = [access |-> f["access"], refresh |-> f["refresh"], csrf |-> f["csrf"]]
  BY <1>2 DEF CookieNames
<1>6. f \in Cookies
  BY <1>4, <1>5 DEF Cookies
<1> QED
  BY <1>1, <1>2, <1>6 DEF stored

LEMMA InterceptTyped ==
  ASSUME NEW calls, NEW S \in SUBSET Keys, NEW token \in Csrf, NEW cookies \in Cookies,
         \A k \in Keys : DOMAIN calls[k] = Fields /\ CallTyped(k, calls[k])
  PROVE  LET r == interceptRequests(calls, S, token, cookies)
         IN DOMAIN r = Keys /\ \A k \in Keys : CallTyped(k, r[k])
<1> DEFINE r == interceptRequests(calls, S, token, cookies)
           waiting == {k \in S : calls[k].kind \notin SAFE /\ token = None}
           fetch == IF waiting # {} /\ calls["csrf"].pc = "idle" THEN {"csrf"} ELSE {}
<1>1. r = [k \in Keys |->
             IF k \in waiting THEN [calls[k] EXCEPT !.pc = "csrf"]
             ELSE IF k \in (S \ waiting) \cup fetch
               THEN [calls[k] EXCEPT !.pc = "sent", !.cookies = cookies,
                       !.header = IF calls[k].kind \in SAFE THEN None ELSE token]
             ELSE calls[k]]
  BY SMTT(30) DEF interceptRequests, Keys
<1> HIDE DEF waiting, fetch, r
<1>2. ASSUME NEW k \in Keys PROVE CallTyped(k, r[k])
  <2>1. PICK c : c = calls[k] /\ DOMAIN c = Fields /\ CallTyped(k, c)
    OBVIOUS
  <2>2. CASE k \in waiting
    <3>1. r[k] = [c EXCEPT !.pc = "csrf"]
      BY <1>1, <2>1, <2>2
    <3> QED
      BY <2>1, <3>1 DEF CallTyped, Fields
  <2>3. CASE k \notin waiting /\ k \in (S \ waiting) \cup fetch
    <3>1. PICK h \in Csrf : r[k] = [c EXCEPT !.pc = "sent", !.cookies = cookies, !.header = h]
      BY <1>1, <2>1, <2>3, NothingTyped
    <3> QED
      BY <2>1, <3>1 DEF CallTyped, Fields
  <2>4. CASE k \notin waiting /\ k \notin (S \ waiting) \cup fetch
    BY <1>1, <2>1, <2>4
  <2> QED
    BY <2>2, <2>3, <2>4
<1> QED
  BY <1>1, <1>2 DEF r

\* The calls that a tab sends on, and those that it settles.
LEMMA SendingTyped ==
  ASSUME Base, CallsTyped, NEW t \in Tabs, NEW calls, NEW S \in SUBSET Keys,
         NEW token \in Csrf, NEW cookies \in Cookies,
         \A k \in Keys : DOMAIN calls[k] = Fields /\ CallTyped(k, calls[k]),
         call' = [call EXCEPT ![t] = interceptRequests(calls, S, token, cookies)]
  PROVE  CallsTyped'
<1>1. PICK r : r = interceptRequests(calls, S, token, cookies)
  OBVIOUS
<1>2. \A k \in Keys : CallTyped(k, r[k])
  BY <1>1, InterceptTyped
<1>3. call'[t] = r /\ \A u \in Tabs \ {t} : call'[u] = call[u]
  BY <1>1 DEF Base, Domains
<1> QED
  BY <1>2, <1>3 DEF CallsTyped

LEMMA SettlingTyped ==
  ASSUME Base, CallsTyped, NEW t \in Tabs, NEW S,
         call' = [call EXCEPT ![t] = settled(t, S)]
  PROVE  CallsTyped'
<1>1. PICK m : m = settled(t, S)
  OBVIOUS
<1>2. \A k \in Keys : CallTyped(k, m[k])
  BY <1>1, SettledEffect, NothingTyped DEF CallsTyped
<1>3. call'[t] = m /\ \A u \in Tabs \ {t} : call'[u] = call[u]
  BY <1>1 DEF Base, Domains
<1> QED
  BY <1>2, <1>3 DEF CallsTyped

LEMMA AnswerTyped ==
  ASSUME Base, CallsTyped, NEW t \in Tabs, NEW k \in Keys, NEW r,
         answer(t, k, r), ReplyTyped(k, r)
  PROVE  CallsTyped'
<1>1. /\ \A u \in Tabs, j \in Keys : u # t \/ j # k => call'[u][j] = call[u][j]
      /\ call'[t][k].pc = "answered" /\ call'[t][k].reply = r
      /\ call'[t][k].header = None /\ call'[t][k].cookies = NoCookies
  BY AnswerEffect DEF Base
<1>2. CallTyped(k, call'[t][k])
  BY <1>1, NothingTyped DEF CallTyped
<1> QED
  BY <1>1, <1>2 DEF CallsTyped

LEMMA EditedCall ==
  ASSUME NEW k, NEW c, DOMAIN c = Fields, CallTyped(k, c), NEW kind
  PROVE  /\ DOMAIN [c EXCEPT !.kind = kind] = Fields
         /\ CallTyped(k, [c EXCEPT !.kind = kind])
         /\ DOMAIN [c EXCEPT !.retried = TRUE] = Fields
         /\ CallTyped(k, [c EXCEPT !.retried = TRUE])
         /\ DOMAIN [c EXCEPT !.pc = "refreshing", !.reply = NoReply] = Fields
         /\ CallTyped(k, [c EXCEPT !.pc = "refreshing", !.reply = NoReply])
<1>1. /\ DOMAIN [c EXCEPT !.kind = kind] = Fields
      /\ CallTyped(k, [c EXCEPT !.kind = kind])
  BY DEF CallTyped, Fields
<1>2. /\ DOMAIN [c EXCEPT !.retried = TRUE] = Fields
      /\ CallTyped(k, [c EXCEPT !.retried = TRUE])
  BY DEF CallTyped, Fields
<1>3. /\ DOMAIN [c EXCEPT !.pc = "refreshing", !.reply = NoReply] = Fields
      /\ CallTyped(k, [c EXCEPT !.pc = "refreshing", !.reply = NoReply])
  BY NothingTyped DEF CallTyped, Fields
<1> QED
  BY <1>1, <1>2, <1>3

-----------------------------------------------------------------------------
(* The steps of the client keep the types.                                 *)

LEMMA CallsMade ==
  ASSUME Base, Typed, NEW t \in Tabs,
         \/ \E k \in Slots : \E kind : request(t, k, kind)
         \/ csrfFetched(t) \/ csrfFails(t) \/ sessionRefreshed(t) \/ refreshFails(t)
         \/ \E k \in Keys : fulfilled(t, k) \/ rejected(t, k) \/ refreshSession(t, k)
         \/ pageLoad(t)
  PROVE  CallsTyped' /\ jar' \in Cookies /\ csrfToken' \in [Tabs -> Csrf] /\ lost' \subseteq Sessions
<1>0. /\ \A j \in Keys : DOMAIN call[t][j] = Fields /\ CallTyped(j, call[t][j])
      /\ DOMAIN call[t] = Keys /\ CallsTyped /\ jar \in Cookies
      /\ csrfToken \in [Tabs -> Csrf] /\ lost \subseteq Sessions
      /\ \A j \in Keys : ReplyTyped(j, call[t][j].reply) /\ stored(t, j) \in Cookies
      /\ "csrf" \in Keys /\ "refresh" \in Keys /\ None \in Csrf
      /\ csrfToken[t] \in Csrf /\ [csrfToken EXCEPT ![t] = None] \in [Tabs -> Csrf]
  <2>1. \A j \in Keys : DOMAIN call[t][j] = Fields /\ CallTyped(j, call[t][j])
    BY DEF Base, Domains, Typed, CallsTyped
  <2>2. \A j \in Keys : ReplyTyped(j, call[t][j].reply) /\ stored(t, j) \in Cookies
    BY <2>1, StoredTyped DEF CallTyped, Typed
  <2> QED
    BY <2>1, <2>2, NothingTyped DEF Base, Domains, Typed, Keys, Internal
<1>1. ASSUME NEW k \in Slots, NEW kind, request(t, k, kind)
      PROVE  CallsTyped' /\ jar' \in Cookies /\ csrfToken' \in [Tabs -> Csrf] /\ lost' \subseteq Sessions
  <2>1. PICK calls : calls = [call[t] EXCEPT ![k] = [call[t][k] EXCEPT !.kind = kind]]
    OBVIOUS
  <2>2. \A j \in Keys : DOMAIN calls[j] = Fields /\ CallTyped(j, calls[j])
    BY <1>0, <2>1, EditedCall
  <2>3. call' = [call EXCEPT ![t] = interceptRequests(calls, {k}, csrfToken[t], jar)]
    BY <1>1, <2>1 DEF request
  <2>4. CallsTyped'
    BY <1>0, <2>2, <2>3, SendingTyped DEF Keys
  <2> QED
    BY <1>0, <1>1, <2>4 DEF request
<1>2. CASE csrfFetched(t)
  <2>1. PICK calls : calls = settled(t, {"csrf"})
    OBVIOUS
  <2>2. \A j \in Keys : DOMAIN calls[j] = Fields /\ CallTyped(j, calls[j])
    BY <1>0, <2>1, SettledEffect, IdleEffect, NothingTyped
  <2>3. PICK token \in Csrf : token = call[t]["csrf"].reply.body
    BY <1>0, <1>2 DEF csrfFetched, status, ReplyTyped
  <2>4. PICK S \in SUBSET Keys : S = At(t, "csrf")
    BY DEF At, Keys
  <2>5. PICK cookies \in Cookies : cookies = stored(t, "csrf")
    BY <1>0
  <2>6. /\ call' = [call EXCEPT ![t] = interceptRequests(calls, S, token, cookies)]
        /\ jar' = cookies /\ csrfToken' = [csrfToken EXCEPT ![t] = token] /\ lost' = lost
    BY <1>2, <2>1, <2>3, <2>4, <2>5 DEF csrfFetched
  <2>7. CallsTyped'
    BY <1>0, <2>2, <2>6, SendingTyped
  <2> QED
    BY <1>0, <2>6, <2>7
<1>3. CASE sessionRefreshed(t)
  <2>1. PICK S \in SUBSET Keys : S = At(t, "refreshing")
    BY DEF At, Keys
  <2>2. PICK calls : calls = [k \in Keys |->
                                IF k = "refresh" THEN Idle(k)
                                ELSE IF k \in S THEN [call[t][k] EXCEPT !.retried = TRUE]
                                ELSE call[t][k]]
    OBVIOUS
  <2>3. \A j \in Keys : DOMAIN calls[j] = Fields /\ CallTyped(j, calls[j])
    BY <1>0, <2>2, EditedCall, IdleEffect, NothingTyped
  <2>4. PICK cookies \in Cookies : cookies = stored(t, "refresh")
    BY <1>0
  <2>5. /\ call' = [call EXCEPT ![t] = interceptRequests(calls, S, None, cookies)]
        /\ jar' = cookies /\ csrfToken' = [csrfToken EXCEPT ![t] = None] /\ lost' = lost
    BY <1>3, <2>1, <2>2, <2>4 DEF sessionRefreshed, Keys
  <2>6. CallsTyped'
    BY <1>0, <2>3, <2>5, SendingTyped
  <2> QED
    BY <1>0, <2>5, <2>6
<1>4. ASSUME NEW k \in Keys, refreshSession(t, k)
      PROVE  CallsTyped' /\ jar' \in Cookies /\ csrfToken' \in [Tabs -> Csrf] /\ lost' \subseteq Sessions
  <2>1. PICK calls : calls = [call[t] EXCEPT ![k] = [call[t][k] EXCEPT !.pc = "refreshing",
                                                                       !.reply = NoReply]]
    OBVIOUS
  <2>2. \A j \in Keys : DOMAIN calls[j] = Fields /\ CallTyped(j, calls[j])
    BY <1>0, <2>1, EditedCall
  <2>3. PICK S \in SUBSET Keys : S = IF call[t]["refresh"].pc = "idle" THEN {"refresh"} ELSE {}
    BY <1>0
  <2>4. PICK cookies \in Cookies : cookies = stored(t, k)
    BY <1>0
  <2>5. /\ call' = [call EXCEPT ![t] = interceptRequests(calls, S, csrfToken[t], cookies)]
        /\ jar' = cookies /\ csrfToken' = csrfToken /\ lost' = lost
    BY <1>4, <2>1, <2>3, <2>4 DEF refreshSession
  <2>6. CallsTyped'
    BY <1>0, <2>2, <2>5, SendingTyped
  <2> QED
    BY <1>0, <2>5, <2>6
<1>5. CASE csrfFails(t)
  <2>1. PICK S : call' = [call EXCEPT ![t] = settled(t, S)]
    BY <1>5 DEF csrfFails
  <2> QED
    BY <1>0, <1>5, <2>1, SettlingTyped DEF csrfFails
<1>6. ASSUME NEW k \in Keys, fulfilled(t, k) \/ rejected(t, k)
      PROVE  CallsTyped' /\ jar' \in Cookies /\ csrfToken' \in [Tabs -> Csrf] /\ lost' \subseteq Sessions
  <2>1. PICK S : call' = [call EXCEPT ![t] = settled(t, S)]
    BY <1>6 DEF fulfilled, rejected
  <2>2. CallsTyped'
    BY <1>0, <2>1, SettlingTyped
  <2>3. /\ jar' = stored(t, k) /\ lost' = lost
        /\ csrfToken' = csrfToken \/ csrfToken' = [csrfToken EXCEPT ![t] = None]
    BY <1>6 DEF fulfilled, rejected
  <2> QED
    BY <1>0, <2>2, <2>3
<1>7. CASE refreshFails(t)
  <2>1. PICK S : call' = [call EXCEPT ![t] = settled(t, S)]
    BY <1>7 DEF refreshFails
  <2> QED
    BY <1>0, <1>7, <2>1, SettlingTyped DEF refreshFails
<1>8. CASE pageLoad(t)
  <2>1. PICK S : call' = [call EXCEPT ![t] = settled(t, S)]
    BY <1>8 DEF pageLoad
  <2>2. lost' \subseteq Sessions
    <3>1. CASE lost' = lost
      BY <1>0, <3>1
    <3>2. CASE lost' # lost
      <4>1. /\ call[t]["refresh"].pc = "answered" /\ call[t]["refresh"].reply.status = 200
            /\ lost' = lost \cup {Given(t, "refresh").sid}
        BY <1>8, <3>2 DEF pageLoad, Given
      <4>2. Gives(t, "refresh")
        BY <1>0, <4>1 DEF Gives, Base, KindsOK, Internal
      <4>3. Known(Given(t, "refresh"))
        BY <1>0, <4>1, <4>2 DEF Base, RepliesOK
      <4> QED
        BY <1>0, <4>1, <4>3 DEF Known
    <3> QED
      BY <3>1, <3>2
  <2> QED
    BY <1>0, <1>8, <2>1, <2>2, SettlingTyped DEF pageLoad
<1> QED
  BY <1>1, <1>2, <1>3, <1>4, <1>5, <1>6, <1>7, <1>8

LEMMA ClientKeepsTypes ==
  ASSUME Base, Typed, NEW t \in Tabs, ClientSteps(t)
  PROVE  Typed'
<1>1. CallsTyped' /\ jar' \in Cookies /\ csrfToken' \in [Tabs -> Csrf] /\ lost' \subseteq Sessions
  BY CallsMade DEF ClientSteps, handle
<1>2. /\ UNCHANGED <<secret, failed>>
      /\ issued' = issued \/ (issued < MaxCalls /\ issued' = issued + 1)
  BY DEF server, ClientSteps, handle, request, csrfFetched, csrfFails, sessionRefreshed,
         refreshFails, fulfilled, rejected, refreshSession, pageLoad
<1>3. SlotsFree'
  <2>1. Client(t)
    BY ClientStep
  <2>2. ASSUME NEW u \in Tabs, NEW k \in Slots, call'[u][k].pc = "idle"
        PROVE  call'[u][k].kind = None
    <3>1. k \in Keys /\ k \notin Internal
      BY SlotAssumption DEF Keys, Internal
    <3> QED
      BY <2>1, <2>2, <3>1, IdleEffect DEF Client, Moves, Typed, SlotsFree
  <2> QED
    BY <2>2 DEF SlotsFree
<1> QED
  BY <1>1, <1>2, <1>3, BoundAssumption DEF Typed

-----------------------------------------------------------------------------
(* The answers of the server keep them, as long as a nonce is left.        *)

LEMMA TokenIssued ==
  ASSUME Typed, NonceLeft
  PROVE  /\ secret \in Nat
         /\ \A binding \in Sessions \cup {None} : issueCsrfToken(binding) \in Csrf
<1>1. secret \in Nat
  BY BoundAssumption DEF Typed
<1>2. ASSUME NEW binding \in Sessions \cup {None} PROVE issueCsrfToken(binding) \in Csrf
  <2>1. PICK unused : unused = Nonces \ {c.nonce : c \in HeldTokens \ {None}}
    OBVIOUS
  <2>2. PICK nonce : nonce = CHOOSE n \in unused : TRUE
    OBVIOUS
  <2>3. nonce \in Nonces
    BY <2>1, <2>2 DEF NonceLeft
  <2>4. issueCsrfToken(binding) = [nonce |-> nonce, sid |-> binding, key |-> secret]
    BY <2>1, <2>2 DEF issueCsrfToken
  <2> QED
    BY <1>1, <2>3, <2>4 DEF Csrf
<1> QED
  BY <1>1, <1>2

LEMMA CookiesTyped ==
  ASSUME secret \in Nat, NEW s \in Sessions, NEW n \in Nat
  PROVE  /\ DOMAIN setAuthCookies(s, n) = {"access", "refresh"}
         /\ setAuthCookies(s, n)["access"] \in Access
         /\ setAuthCookies(s, n)["refresh"] \in Refresh
<1>1. PICK a : a = [sid |-> s, key |-> secret, fresh |-> TRUE]
  OBVIOUS
<1>2. PICK f : f = [sid |-> s, gen |-> n]
  OBVIOUS
<1>3. a \in Access /\ f \in Refresh
  BY <1>1, <1>2 DEF Access, Refresh
<1>4. setAuthCookies(s, n) = [access |-> a, refresh |-> f]
  BY <1>1, <1>2 DEF setAuthCookies
<1> QED
  BY <1>3, <1>4

LEMMA BindingTyped ==
  ASSUME NEW cookies \in Cookies
  PROVE  csrfBinding(cookies) \in Sessions \cup {None}
BY DEF csrfBinding, Cookies, Access

\* What the controllers answer without a token.
LEMMA RepliesTyped ==
  ASSUME NEW k, NEW r, r.status \in {0, 200, 401, 403, 500}, k = "csrf" => r.status # 200,
         r.sets = <<>> \/ r.sets = clearAuthCookies
  PROVE  ReplyTyped(k, r)
<1>1. /\ "access" \notin DOMAIN <<>> /\ "refresh" \notin DOMAIN <<>> /\ "csrf" \notin DOMAIN <<>>
  OBVIOUS
<1>2. /\ clearAuthCookies["access"] \in Access /\ clearAuthCookies["refresh"] \in Refresh
      /\ clearAuthCookies["csrf"] \in Csrf
  BY NothingTyped DEF clearAuthCookies, NoCookies
<1> QED
  BY <1>1, <1>2 DEF ReplyTyped

LEMMA Refuse ==
  ASSUME NEW t \in Tabs, NEW k \in Keys, NEW code \in {0, 200, 401, 403, 500}, NEW body,
         k = "csrf" => code # 200,
         \/ answer(t, k, Reply(code, body, <<>>))
         \/ answer(t, k, Reply(code, body, clearAuthCookies))
  PROVE  \E r : answer(t, k, r) /\ ReplyTyped(k, r)
<1>1. PICK r : answer(t, k, r) /\ r.status = code /\ (r.sets = <<>> \/ r.sets = clearAuthCookies)
  BY ReplyFields
<1> QED
  BY <1>1, RepliesTyped

LEMMA ServeTyped ==
  ASSUME Base, Typed, NonceLeft, NEW t \in Tabs, NEW k \in Keys, serve(t, k)
  PROVE  \E r : answer(t, k, r) /\ ReplyTyped(k, r)
<1>0. /\ CallTyped(k, call[t][k]) /\ call[t][k].pc = "sent"
      /\ call[t][k].cookies \in Cookies /\ (k = "csrf" => call[t][k].kind = "csrf")
  BY DEF serve, Typed, CallsTyped, CallTyped, Base, KindsOK, Internal
<1>1. CASE csrfController(t, k)
  <2>1. PICK token \in Csrf : answer(t, k, Reply(200, token, [csrf |-> token]))
    <3>1. issueCsrfToken(csrfBinding(call[t][k].cookies)) \in Csrf
      <4>1. PICK b \in Sessions \cup {None} : b = csrfBinding(call[t][k].cookies)
        BY <1>0, BindingTyped
      <4>2. secret \in Nat /\ \A binding \in Sessions \cup {None} : issueCsrfToken(binding) \in Csrf
        BY TokenIssued
      <4> QED
        BY <4>1, <4>2
    <3> QED
      BY <1>1, <3>1 DEF csrfController
  <2>2. PICK sets : sets = [csrf |-> token]
    OBVIOUS
  <2>3. DOMAIN sets = {"csrf"} /\ sets["csrf"] = token
    BY <2>2
  <2>4. PICK r : r = Reply(200, token, sets)
    OBVIOUS
  <2>5. r.status = 200 /\ r.body = token /\ r.sets = sets
    BY <2>4 DEF Reply
  <2>6. ReplyTyped(k, r)
    BY <2>3, <2>5 DEF ReplyTyped
  <2> QED
    BY <2>1, <2>2, <2>4, <2>6
<1>2. CASE loginController(t, k)
  <2>1. CASE answer(t, k, Reply(401, None, <<>>))
    BY <2>1, Refuse
  <2>2. CASE ~answer(t, k, Reply(401, None, <<>>))
    <3>1. PICK s \in Sessions :
            answer(t, k, Reply(200, s,
               [n \in CookieNames |-> IF n = "csrf" THEN issueCsrfToken(s)
                                      ELSE setAuthCookies(s, 1)[n]]))
      BY <1>2, <2>2 DEF loginController
    <3>2. PICK sets : sets = [n \in CookieNames |-> IF n = "csrf" THEN issueCsrfToken(s)
                                                    ELSE setAuthCookies(s, 1)[n]]
      OBVIOUS
    <3>3. /\ issueCsrfToken(s) \in Csrf /\ setAuthCookies(s, 1)["access"] \in Access
          /\ setAuthCookies(s, 1)["refresh"] \in Refresh
      BY CookiesTyped, TokenIssued
    <3>4. /\ sets["access"] \in Access /\ sets["refresh"] \in Refresh /\ sets["csrf"] \in Csrf
      BY <3>2, <3>3 DEF CookieNames
    <3>5. PICK r : r = Reply(200, s, sets)
      OBVIOUS
    <3>6. r.status = 200 /\ r.sets = sets
      BY <3>5, ReplyFields
    <3>7. k # "csrf"
      BY <1>0, <1>2 DEF loginController
    <3>8. ReplyTyped(k, r)
      BY <3>4, <3>6, <3>7 DEF ReplyTyped
    <3> QED
      BY <3>1, <3>2, <3>5, <3>8
  <2> QED
    BY <2>1, <2>2
<1>3. CASE refreshController(t, k)
  <2>0. k # "csrf"
    BY <1>0, <1>3 DEF refreshController
  <2>1. PICK token : token = call[t][k].cookies["refresh"]
    OBVIOUS
  <2>2. CASE snapshot[t][k] = None /\ claims(token)
    <3>1. answer(t, k, Reply(200, None, setAuthCookies(token.sid, token.gen + 1)))
      BY <1>3, <2>1, <2>2, ZenonT(60) DEF refreshController
    <3>2. token.sid \in Sessions /\ token.gen \in Nat
      BY <1>0, <2>1, <2>2 DEF Cookies, Refresh, claims
    <3>3. PICK s \in Sessions : s = token.sid
      BY <3>2
    <3>4. PICK n \in Nat : n = token.gen + 1
      BY <3>2
    <3>5. PICK sets : sets = setAuthCookies(s, n)
      OBVIOUS
    <3>6. /\ DOMAIN sets = {"access", "refresh"}
          /\ sets["access"] \in Access /\ sets["refresh"] \in Refresh
      BY <3>5, CookiesTyped, TokenIssued
    <3>7. PICK r : r = Reply(200, None, sets)
      OBVIOUS
    <3>8. r.status = 200 /\ r.sets = sets
      BY <3>7, ReplyFields
    <3>9. ReplyTyped(k, r)
      BY <2>0, <3>6, <3>8 DEF ReplyTyped
    <3> QED
      BY <3>1, <3>3, <3>4, <3>5, <3>7, <3>9
  <2>3. CASE ~(snapshot[t][k] = None /\ claims(token))
    <3>1. answer(t, k, Reply(401, None, clearAuthCookies))
      BY <1>3, <2>1, <2>3 DEF refreshController
    <3> QED
      BY <3>1, Refuse
  <2> QED
    BY <2>2, <2>3
<1>4. CASE logoutController(t, k) \/ registerController(t, k)
  <2>1. /\ k # "csrf"
        /\ \/ answer(t, k, Reply(200, None, clearAuthCookies))
           \/ answer(t, k, Reply(200, None, <<>>))
    BY <1>0, <1>4 DEF logoutController, registerController
  <2> QED
    BY <2>1, Refuse
<1>5. CASE apiController(t, k)
  <2>1. k # "csrf" /\ \E body : answer(t, k, Reply(200, body, <<>>))
    BY <1>0, <1>5 DEF apiController
  <2> QED
    BY <2>1, Refuse
<1>6. CASE unauthorized(t, k) \/ forbidden(t, k)
  <2>1. answer(t, k, Reply(401, None, <<>>)) \/ answer(t, k, Reply(403, None, <<>>))
    BY <1>6 DEF unauthorized, forbidden
  <2> QED
    BY <2>1, Refuse
<1> QED
  BY <1>1, <1>2, <1>3, <1>4, <1>5, <1>6 DEF serve

LEMMA FailureTyped ==
  ASSUME Base, Typed, NEW t \in Tabs, NEW k \in Keys, fails(t, k)
  PROVE  /\ \E r : answer(t, k, r) /\ ReplyTyped(k, r)
         /\ lost' \subseteq Sessions /\ failed < MaxFailures /\ failed' = failed + 1
         /\ UNCHANGED <<secret, jar, csrfToken, issued>>
<1>1. CASE serverFails(t, k)
  BY <1>1, Refuse DEF serverFails, server, Typed
<1>2. CASE responseLost(t, k)
  <2>1. lost' \subseteq Sessions
    <3>1. CASE k = "refresh" /\ call[t][k].reply.status = 200
      <4>1. Gives(t, k) /\ lost' = lost \cup {Given(t, k).sid}
        BY <1>2, <3>1 DEF responseLost, Gives, Given, Base, KindsOK, Internal
      <4>2. Known(Given(t, k))
        BY <4>1 DEF Base, RepliesOK, Gives
      <4> QED
        BY <4>1, <4>2 DEF Known, Typed
    <3>2. CASE ~(k = "refresh" /\ call[t][k].reply.status = 200)
      <4>1. lost' = lost
        BY <1>2, <3>2 DEF responseLost
      <4> QED
        BY <4>1 DEF Typed
    <3> QED
      BY <3>1, <3>2
  <2> QED
    BY <1>2, <2>1, NothingTyped DEF responseLost, server
<1> QED
  BY <1>1, <1>2 DEF fails

LEMMA ServerKeepsTypes ==
  ASSUME Base, Typed, NonceLeft, NEW t \in Tabs, NEW k \in Keys, serve(t, k) \/ fails(t, k)
  PROVE  Typed'
<1>1. PICK r : answer(t, k, r) /\ ReplyTyped(k, r)
  BY ServeTyped, FailureTyped
<1>2. CallsTyped'
  BY <1>1, AnswerTyped DEF Typed
<1>3. SlotsFree'
  <2>1. /\ \A u \in Tabs, j \in Keys : u # t \/ j # k => call'[u][j] = call[u][j]
        /\ call'[t][k].pc = "answered"
    BY <1>1, AnswerEffect DEF Base
  <2> QED
    BY <2>1 DEF Typed, SlotsFree, Keys
<1>4. CASE serve(t, k)
  BY <1>2, <1>3, <1>4 DEF Typed, serve, csrfController, loginController, refreshController,
     logoutController, registerController, apiController, unauthorized, forbidden, server
<1>5. CASE fails(t, k)
  BY <1>2, <1>3, <1>5, FailureTyped, BoundAssumption DEF Typed
<1> QED
  BY <1>4, <1>5

LEMMA ElsewhereKeepsTypes ==
  ASSUME Base, Typed, Elsewhere
  PROVE  Typed'
<1>1. UNCHANGED <<call, issued, lost>>
  BY ElsewhereStep
<1>2. CallsTyped' /\ SlotsFree'
  BY <1>1 DEF Typed, CallsTyped, SlotsFree
<1>3. CASE accessExpires
  <2>1. PICK a : a = jar["access"]
    OBVIOUS
  <2>2. PICK b : b = [a EXCEPT !.fresh = FALSE]
    OBVIOUS
  <2>3. a \in Access /\ a # None /\ jar \in Cookies
    BY <1>3, <2>1 DEF accessExpires, Typed, Cookies
  <2>4. b \in Access
    BY <2>2, <2>3 DEF Access
  <2>5. jar' = [jar EXCEPT !["access"] = b]
    BY <1>3, <2>1, <2>2, <2>3 DEF accessExpires, Cookies
  <2>6. jar' \in Cookies
    BY <2>3, <2>4, <2>5 DEF Cookies
  <2> QED
    BY <1>1, <1>2, <1>3, <2>6 DEF accessExpires, server, Typed
<1>4. CASE secretChanges
  BY <1>1, <1>2, <1>4, BoundAssumption DEF secretChanges, Typed
<1>5. CASE (\E s \in Sessions : sessionEnds(s)) \/ RevokeStarts \/ UNCHANGED vars
  BY <1>1, <1>2, <1>5 DEF sessionEnds, RevokeStarts, revokeFamilyStarts, server, vars, Typed
<1> QED
  BY <1>3, <1>4, <1>5 DEF Elsewhere, environment

LEMMA TypedInit ==
  ASSUME Init
  PROVE  Typed
<1>1. \A t \in Tabs, k \in Keys : call[t][k] = Idle(k)
  BY DEF Init, Keys
<1>2. CallsTyped
  BY <1>1, NothingTyped DEF CallsTyped
<1>3. SlotsFree
  BY <1>1, IdleEffect, SlotAssumption DEF SlotsFree, Keys, Internal
<1> QED
  BY <1>2, <1>3, NothingTyped, BoundAssumption DEF Init, Typed

LEMMA TypedNext ==
  ASSUME Base, Typed, NonceLeft, [Next]_vars
  PROVE  Typed'
BY StepCases, ClientKeepsTypes, ServerKeepsTypes, ElsewhereKeepsTypes

-----------------------------------------------------------------------------
(* A nonce is left when there are more of them than places to hold one.    *)

Places == [at: {"jar"}] \cup [at: {"tab"}, tab: Tabs]
          \cup [at: {"header", "cookie", "reply"}, tab: Tabs, of: Keys]
TokenAt(p) ==
  CASE p.at = "jar" -> jar["csrf"]
    [] p.at = "tab" -> csrfToken[p.tab]
    [] p.at = "header" -> call[p.tab][p.of].header
    [] p.at = "cookie" -> call[p.tab][p.of].cookies["csrf"]
    [] p.at = "reply" -> call[p.tab][p.of].reply.sets["csrf"]

\* The nonces are random numbers of 256 bits: whatever the places hold, one is new.
MoreNonces ==
  /\ Nonces # {}
  /\ \A f \in [Places -> Nonces] : \E n \in Nonces : \A p \in Places : f[p] # n

LEMMA HeldSomewhere ==
  ASSUME NEW c \in HeldTokens
  PROVE  \E p \in Places : c = TokenAt(p)
<1>1. CASE c = jar["csrf"]
  <2>1. PICK p : p = [at |-> "jar"]
    OBVIOUS
  <2> QED
    BY <1>1, <2>1 DEF Places, TokenAt
<1>2. CASE \E t \in Tabs : c = csrfToken[t]
  <2>1. PICK t \in Tabs : c = csrfToken[t]
    BY <1>2
  <2>2. PICK p : p = [at |-> "tab", tab |-> t]
    OBVIOUS
  <2>3. p \in Places /\ p.at = "tab" /\ p.tab = t
    BY <2>2 DEF Places
  <2> QED
    BY <2>1, <2>3 DEF TokenAt
<1>3. ASSUME NEW t \in Tabs, NEW k \in Keys,
             \/ c = call[t][k].header \/ c = call[t][k].cookies["csrf"]
             \/ c = call[t][k].reply.sets["csrf"]
      PROVE  \E p \in Places : c = TokenAt(p)
  <2>1. ASSUME NEW at \in {"header", "cookie", "reply"}
        PROVE  \E p \in Places : p.at = at /\ p.tab = t /\ p.of = k
    <3>1. PICK p : p = [at |-> at, tab |-> t, of |-> k]
      OBVIOUS
    <3> QED
      BY <3>1 DEF Places
  <2>2. CASE c = call[t][k].header
    <3>1. PICK p \in Places : p.at = "header" /\ p.tab = t /\ p.of = k
      BY <2>1
    <3> QED
      BY <2>2, <3>1 DEF TokenAt
  <2>3. CASE c = call[t][k].cookies["csrf"]
    <3>1. PICK p \in Places : p.at = "cookie" /\ p.tab = t /\ p.of = k
      BY <2>1
    <3> QED
      BY <2>3, <3>1 DEF TokenAt
  <2>4. CASE c = call[t][k].reply.sets["csrf"]
    <3>1. PICK p \in Places : p.at = "reply" /\ p.tab = t /\ p.of = k
      BY <2>1
    <3> QED
      BY <2>4, <3>1 DEF TokenAt
  <2> QED
    BY <1>3, <2>2, <2>3, <2>4
<1> DEFINE calls == {call[t][k] : t \in Tabs, k \in Keys}
<1>4. \A d \in calls : \E t \in Tabs, k \in Keys : d = call[t][k]
  OBVIOUS
<1>5. ASSUME NEW d \in calls,
             c = d.header \/ c = d.cookies["csrf"] \/ c = d.reply.sets["csrf"]
      PROVE  \E p \in Places : c = TokenAt(p)
  <2>1. PICK t \in Tabs, k \in Keys : d = call[t][k]
    BY <1>4
  <2> QED
    BY <1>3, <1>5, <2>1
<1>6. HeldTokens = {jar["csrf"]} \cup {csrfToken[t] : t \in Tabs}
        \cup {d.header : d \in calls} \cup {d.cookies["csrf"] : d \in calls}
        \cup {d.reply.sets["csrf"] : d \in {e \in calls : "csrf" \in DOMAIN e.reply.sets}}
  BY DEF HeldTokens, Keys
<1> HIDE DEF calls
<1> QED
  BY <1>1, <1>2, <1>5, <1>6

LEMMA NonceIsLeft ==
  ASSUME MoreNonces
  PROVE  NonceLeft
<1>1. PICK default \in Nonces : TRUE
  BY DEF MoreNonces
<1>2. PICK f : f = [p \in Places |->
                      IF TokenAt(p).nonce \in Nonces THEN TokenAt(p).nonce ELSE default]
  OBVIOUS
<1>3. f \in [Places -> Nonces]
  BY <1>1, <1>2
<1>4. PICK n \in Nonces : \A p \in Places : f[p] # n
  BY <1>3 DEF MoreNonces
<1>5. ASSUME NEW c \in HeldTokens PROVE c.nonce # n
  <2>1. PICK p \in Places : c = TokenAt(p)
    BY HeldSomewhere
  <2> QED
    BY <1>2, <1>4, <2>1
<1> QED
  BY <1>4, <1>5 DEF NonceLeft

LEMMA TypedInvariant == MoreNonces /\ Spec => []Typed
<1> SUFFICES ASSUME MoreNonces PROVE Spec => []Typed
  OBVIOUS
<1>1. Init => Typed
  BY TypedInit
<1>2. Base /\ Typed /\ [Next]_vars => Typed'
  BY NonceIsLeft, TypedNext
<1> QED
  BY <1>1, <1>2, BaseInvariant, PTL DEF Spec

\* The cookies, CSRF tokens and calls keep their shapes whatever is lost, late or done
\* twice (http-client.ts:60, csrf.ts:27): a slot that is idle belongs to no call, a shared
\* call is never of another kind, and each cookie is of a session or absent.
THEOREM ClientTypes == MoreNonces /\ Spec => []TypeOK
<1>1. Base /\ Marks /\ Typed => TypeOK
  BY TypedImpliesTypeOK
<1> QED
  BY <1>1, BaseInvariant, MarksInvariant, TypedInvariant, PTL
=============================================================================
