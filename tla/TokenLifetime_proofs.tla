------------------------ MODULE TokenLifetime_proofs ------------------------
(***************************************************************************)
(* Proofs about TokenLifetime, for every length of the lifetimes that      *)
(* satisfies RetentionAssumption, every skew of the clocks and any number  *)
(* of tokens.                                                              *)
(***************************************************************************)
EXTENDS TokenLifetime, TLAPS

\* All rows of a session name its end, and a row expires neither after it nor
\* by more than the retention before it.
Ends ==
  \A t \in Tokens : family[t] # None =>
    /\ born[family[t]] \in Int /\ born[family[t]] <= now
    /\ familyExpiresAt[t] = born[family[t]] + skew + FAMILY_MAX
    /\ expiresAt[t] \in Int
    /\ familyExpiresAt[t] - RETENTION <= expiresAt[t]
    /\ expiresAt[t] <= familyExpiresAt[t]

\* The inductive invariant: PurgeIsInvisible and AbsoluteLifetime need the dates
\* of every row, TypeOK does not give them.
IInv == TypeOK /\ Ends

\* A row that insertToken makes for a session that was opened in the past, with
\* the end of that session, has the dates that the invariant asks for.
LEMMA InsertKeepsEnds ==
  ASSUME IInv, NEW t \in Tokens, NEW f \in Families,
         insertToken(t, f, born'[f] + skew + FAMILY_MAX),
         born' \in [Families -> Times], born'[f] \in Int, born'[f] <= now,
         \A g \in Families : born[g] # None => born'[g] = born[g],
         UNCHANGED <<now, skew>>
  PROVE  /\ rows' \subseteq {s \in Tokens : family'[s] # None}
         /\ family' \in [Tokens -> Families \cup {None}]
         /\ expiresAt' \in [Tokens -> Times]
         /\ familyExpiresAt' \in [Tokens -> Times]
         /\ Ends'
<1> DEFINE end == born'[f] + skew + FAMILY_MAX
<1>1. now \in Int /\ skew \in Int /\ end \in Int /\ Date + REFRESH_TTL \in Int
  BY TimeAssumption DEF IInv, TypeOK, Date
<1>2. f # None
  BY TokenAssumption
<1>3. /\ family' = [family EXCEPT ![t] = f]
      /\ familyExpiresAt' = [familyExpiresAt EXCEPT ![t] = end]
      /\ expiresAt' = [expiresAt EXCEPT ![t] =
           IF Date + REFRESH_TTL < end THEN Date + REFRESH_TTL ELSE end]
      /\ rows' = rows \cup {t}
  BY DEF insertToken
<1> DEFINE exp == IF Date + REFRESH_TTL < end THEN Date + REFRESH_TTL ELSE end
<1>4. exp \in Int
  BY <1>1
<1>5. /\ family' \in [Tokens -> Families \cup {None}]
      /\ expiresAt' \in [Tokens -> Times]
      /\ familyExpiresAt' \in [Tokens -> Times]
  BY <1>1, <1>3, <1>4 DEF IInv, TypeOK, Times
<1>6. rows' \subseteq {s \in Tokens : family'[s] # None}
  BY <1>2, <1>3 DEF IInv, TypeOK
<1>7. Ends'
  <2> SUFFICES ASSUME NEW s \in Tokens, family'[s] # None
               PROVE  /\ born'[family'[s]] \in Int /\ born'[family'[s]] <= now
                      /\ familyExpiresAt'[s] = born'[family'[s]] + skew + FAMILY_MAX
                      /\ expiresAt'[s] \in Int
                      /\ familyExpiresAt'[s] - RETENTION <= expiresAt'[s]
                      /\ expiresAt'[s] <= familyExpiresAt'[s]
    BY DEF Ends
  <2>1. CASE s = t
    <3>1. family'[s] = f /\ familyExpiresAt'[s] = end /\ expiresAt'[s] = exp
      BY <2>1, <1>3 DEF IInv, TypeOK
    <3>2. end - RETENTION <= exp /\ exp <= end
      BY <1>1, TimeAssumption, RetentionAssumption DEF Date
    <3> QED
      BY <3>1, <3>2, <1>4
  <2>2. CASE s # t
    <3>1. /\ family'[s] = family[s] /\ familyExpiresAt'[s] = familyExpiresAt[s]
          /\ expiresAt'[s] = expiresAt[s]
      BY <2>2, <1>3 DEF IInv, TypeOK
    <3>2. family[s] \in Families
      BY <3>1 DEF IInv, TypeOK
    <3>3. born[family[s]] \in Int
      BY <3>1 DEF IInv, Ends
    <3>4. born'[family[s]] = born[family[s]]
      BY <3>2, <3>3, TokenAssumption
    <3> QED
      BY <3>1, <3>4 DEF IInv, Ends
  <2> QED
    BY <2>1, <2>2
<1> QED
  BY <1>5, <1>6, <1>7

\* The steps that insert no row and open no session keep the dates.
LEMMA DatesKept ==
  ASSUME Ends, now \in Int, now' \in Int, now <= now',
         UNCHANGED <<skew, family, expiresAt, familyExpiresAt, born>>
  PROVE  Ends'
<1> SUFFICES ASSUME NEW t \in Tokens, family[t] # None
             PROVE  /\ born[family[t]] \in Int /\ born[family[t]] <= now'
                    /\ familyExpiresAt[t] = born[family[t]] + skew + FAMILY_MAX
                    /\ expiresAt[t] \in Int
                    /\ familyExpiresAt[t] - RETENTION <= expiresAt[t]
                    /\ expiresAt[t] <= familyExpiresAt[t]
  BY DEF Ends
<1> QED
  BY DEF Ends

\* The invariant holds initially.
LEMMA InitInvariant == Init => IInv
BY TimeAssumption DEF Init, IInv, TypeOK, Ends, Idle, Times

\* Every step keeps the invariant.
LEMMA StepInvariant == IInv /\ [Next]_vars => IInv'
<1> SUFFICES ASSUME IInv, [Next]_vars PROVE IInv'
  OBVIOUS
<1>0. now \in Int /\ skew \in Int /\ now \in 0..MaxTime
  BY TimeAssumption DEF IInv, TypeOK
<1>1. ASSUME NEW f \in Families, startSession(f) PROVE IInv'
  <2>1. PICK t \in Tokens : insertToken(t, f, Date + FAMILY_MAX)
    BY <1>1 DEF startSession
  <2>2. /\ born[f] = None /\ born' = [born EXCEPT ![f] = now]
        /\ UNCHANGED <<now, skew, used, revokedAt, req>>
        /\ jwt' = [jwt EXCEPT ![f] = Date + ACCESS_TTL]
    BY <1>1 DEF startSession, signAccessToken
  <2>3. born' \in [Families -> Times] /\ born'[f] = now
    BY <2>2, <1>0 DEF IInv, TypeOK, Times
  <2>4. \A g \in Families : born[g] # None => born'[g] = born[g]
    BY <2>2 DEF IInv, TypeOK
  <2>5. Date + FAMILY_MAX = born'[f] + skew + FAMILY_MAX
    BY <2>3, <1>0, TimeAssumption DEF Date
  <2>6. insertToken(t, f, born'[f] + skew + FAMILY_MAX)
    BY <2>1, <2>5
  <2>7. /\ rows' \subseteq {s \in Tokens : family'[s] # None}
        /\ family' \in [Tokens -> Families \cup {None}]
        /\ expiresAt' \in [Tokens -> Times] /\ familyExpiresAt' \in [Tokens -> Times]
        /\ Ends'
    BY <2>2, <2>3, <2>4, <2>6, <1>0, InsertKeepsEnds
  <2>8. jwt' \in [Families -> Times]
    BY <2>2, <1>0, TimeAssumption DEF IInv, TypeOK, Times, Date
  <2> QED
    BY <2>2, <2>3, <2>7, <2>8 DEF IInv, TypeOK
<1>2. ASSUME NEW r \in Requests, rotate(r) PROVE IInv'
  <2> DEFINE t == req[r].token
  <2>1. /\ t # None /\ Claims(t, req[r].start) /\ used' = used \cup {t}
        /\ \E s \in Tokens : insertToken(s, family[t], familyExpiresAt[t])
        /\ jwt' = [jwt EXCEPT ![family[t]] = Date + ACCESS_TTL]
        /\ req' = [req EXCEPT ![r] = Idle]
        /\ UNCHANGED <<now, skew, revokedAt, born>>
    BY <1>2 DEF rotate, signAccessToken
  <2>2. t \in Tokens /\ family[t] # None /\ family[t] \in Families
    BY <2>1 DEF Claims, IInv, TypeOK
  <2>3. PICK s \in Tokens : insertToken(s, family[t], familyExpiresAt[t])
    BY <2>1
  <2> DEFINE f == family[t]
  <2>4. /\ born'[f] \in Int /\ born'[f] <= now
        /\ familyExpiresAt[t] = born'[f] + skew + FAMILY_MAX
        /\ born' \in [Families -> Times]
    BY <2>1, <2>2 DEF IInv, Ends, TypeOK
  <2>5. insertToken(s, f, born'[f] + skew + FAMILY_MAX)
    BY <2>3, <2>4
  <2>6. /\ rows' \subseteq {q \in Tokens : family'[q] # None}
        /\ family' \in [Tokens -> Families \cup {None}]
        /\ expiresAt' \in [Tokens -> Times] /\ familyExpiresAt' \in [Tokens -> Times]
        /\ Ends'
    <3> HIDE DEF f
    <3> QED
      BY <2>1, <2>2, <2>4, <2>5, InsertKeepsEnds DEF f
  <2>7. jwt' \in [Families -> Times] /\ used' \subseteq Tokens
    BY <2>1, <2>2, <1>0, TimeAssumption DEF IInv, TypeOK, Times, Date
  <2>8. req' \in [Requests -> {Idle} \cup [token: Tokens, start: 0..MaxTime]]
    BY <2>1 DEF IInv, TypeOK
  <2> QED
    BY <2>1, <2>4, <2>6, <2>7, <2>8 DEF IInv, TypeOK
<1>3. ASSUME NEW r \in Requests, NEW t \in Tokens, rotateStarts(r, t) PROVE IInv'
  <2>1. /\ req' = [req EXCEPT ![r] = [token |-> t, start |-> now]]
        /\ UNCHANGED <<now, skew, rows, family, expiresAt, familyExpiresAt, revokedAt,
                       used, jwt, born>>
    BY <1>3 DEF rotateStarts, columns
  <2>2. req' \in [Requests -> {Idle} \cup [token: Tokens, start: 0..MaxTime]]
    BY <2>1, <1>0 DEF IInv, TypeOK
  <2>3. Ends'
    BY <2>1, <1>0, DatesKept DEF IInv
  <2> QED
    BY <2>1, <2>2, <2>3 DEF IInv, TypeOK
<1>4. ASSUME NEW r \in Requests, refuse(r) PROVE IInv'
  <2>1. /\ req[r].token # None
        /\ \/ revokeFamily(family[req[r].token], req[r].start)
           \/ UNCHANGED revokedAt
        /\ req' = [req EXCEPT ![r] = Idle]
        /\ UNCHANGED <<now, skew, rows, family, expiresAt, familyExpiresAt, used, jwt, born>>
    BY <1>4 DEF refuse
  <2>2. req[r].start \in 0..MaxTime
    BY <2>1 DEF IInv, TypeOK, Idle
  <2>3. revokedAt' \in [Tokens -> Times]
    BY <2>1, <2>2 DEF revokeFamily, IInv, TypeOK, Times
  <2>4. req' \in [Requests -> {Idle} \cup [token: Tokens, start: 0..MaxTime]]
    BY <2>1 DEF IInv, TypeOK
  <2>5. Ends'
    BY <2>1, <1>0, DatesKept DEF IInv
  <2> QED
    BY <2>1, <2>3, <2>4, <2>5 DEF IInv, TypeOK
<1>5. ASSUME NEW f \in Families, revokeFamilyByToken(f) PROVE IInv'
  <2>1. /\ revokeFamily(f, now)
        /\ UNCHANGED <<now, skew, rows, family, expiresAt, familyExpiresAt, used, jwt, req, born>>
    BY <1>5 DEF revokeFamilyByToken
  <2>2. revokedAt' \in [Tokens -> Times]
    BY <2>1, <1>0 DEF revokeFamily, IInv, TypeOK, Times
  <2>3. Ends'
    BY <2>1, <1>0, DatesKept DEF IInv
  <2> QED
    BY <2>1, <2>2, <2>3 DEF IInv, TypeOK
<1>6. ASSUME purgeExpiredTokens PROVE IInv'
  <2>1. /\ rows' \subseteq rows
        /\ UNCHANGED <<now, skew, family, expiresAt, familyExpiresAt, revokedAt, used,
                       jwt, req, born>>
    BY <1>6 DEF purgeExpiredTokens, columns
  <2>2. Ends'
    BY <2>1, <1>0, DatesKept DEF IInv
  <2> QED
    BY <2>1, <2>2 DEF IInv, TypeOK
<1>7. ASSUME tick PROVE IInv'
  <2>1. /\ now < MaxTime /\ now' = now + 1
        /\ UNCHANGED <<skew, rows, family, expiresAt, familyExpiresAt, revokedAt, used,
                       jwt, req, born>>
    BY <1>7 DEF tick, columns
  <2>2. now' \in 0..MaxTime /\ now' \in Int /\ now <= now'
    BY <2>1, <1>0, TimeAssumption
  <2>3. Ends'
    BY <2>1, <2>2, <1>0, DatesKept DEF IInv
  <2> QED
    BY <2>1, <2>2, <2>3 DEF IInv, TypeOK
<1>8. CASE UNCHANGED vars
  <2>1. Ends'
    BY <1>8, <1>0, DatesKept DEF vars, IInv
  <2> QED
    BY <1>8, <2>1 DEF vars, IInv, TypeOK
<1> QED
  BY <1>1, <1>2, <1>3, <1>4, <1>5, <1>6, <1>7, <1>8 DEF Next

\* The invariant holds always.
THEOREM Invariance == Spec => []IInv
BY InitInvariant, StepInvariant, PTL DEF Spec

\* The tables, clocks and requests have their types.
THEOREM Typing == Spec => []TypeOK
<1>1. IInv => TypeOK
  BY DEF IInv
<1> QED
  BY <1>1, Invariance, PTL

\* A session ends FAMILY_MAX after its login, however it is rotated.
THEOREM LifetimeIsAbsolute == Spec => []AbsoluteLifetime
<1>1. IInv => AbsoluteLifetime
  <2> SUFFICES ASSUME IInv, NEW f \in Families, NEW t \in Tokens,
                      family[t] = f, familyExpiresAt[t] > now
               PROVE  now < born[f] + skew + FAMILY_MAX
    BY DEF AbsoluteLifetime, authenticate, Claims, IInv, TypeOK
  <2>1. family[t] # None
    BY TokenAssumption
  <2>2. familyExpiresAt[t] = born[f] + skew + FAMILY_MAX /\ born[f] \in Int
    BY <2>1 DEF IInv, Ends
  <2> QED
    BY <2>2, TimeAssumption DEF IInv, TypeOK
<1> QED
  BY <1>1, Invariance, PTL

\* A row that the purge deletes was good for nothing any more: it is revoked,
\* or its session has reached its end.
LEMMA PurgedIsOver ==
  ASSUME IInv, NEW t \in rows, Purged(t)
  PROVE  Revoked(t) \/ ~(familyExpiresAt[t] > now)
<1>1. t \in Tokens /\ family[t] # None
  BY DEF IInv, TypeOK
<1>2. /\ familyExpiresAt[t] - RETENTION <= expiresAt[t]
      /\ expiresAt[t] \in Int /\ expiresAt[t] <= familyExpiresAt[t]
      /\ familyExpiresAt[t] = born[family[t]] + skew + FAMILY_MAX
      /\ born[family[t]] \in Int
  BY <1>1 DEF IInv, Ends
<1>3. familyExpiresAt[t] \in Int /\ now \in Int
  BY <1>2, TimeAssumption DEF IInv, TypeOK
<1>4. CASE expiresAt[t] < now - RETENTION
  BY <1>2, <1>3, <1>4, TimeAssumption
<1>5. CASE Revoked(t)
  BY <1>5
<1> QED
  BY <1>4, <1>5 DEF Purged

\* The purge changes neither what a token is worth nor what a request gets.
THEOREM PurgeNeverSeen == Spec => PurgeIsInvisible
<1>1. IInv /\ [Next]_vars =>
        (purgeExpiredTokens =>
           /\ \A t \in Tokens : /\ Claims(t, now) <=> Claims(t, now)'
                                /\ Reused(t, now) <=> Reused(t, now)'
           /\ \A f \in Families : authenticate(f) <=> authenticate(f)')
  <2> SUFFICES ASSUME IInv, purgeExpiredTokens
               PROVE  /\ \A t \in Tokens : /\ Claims(t, now) <=> Claims(t, now)'
                                           /\ Reused(t, now) <=> Reused(t, now)'
                      /\ \A f \in Families : authenticate(f) <=> authenticate(f)'
    OBVIOUS
  <2>1. /\ UNCHANGED <<now, skew, family, expiresAt, familyExpiresAt, revokedAt, used, jwt>>
        /\ rows' = {t \in rows : ~Purged(t)}
    BY DEF purgeExpiredTokens, columns
  <2>2. \A t \in Tokens : Revoked(t)' <=> Revoked(t)
    BY <2>1 DEF Revoked
  <2>3. \A t \in rows : ~Revoked(t) /\ familyExpiresAt[t] > now => t \in rows'
    BY <2>1, PurgedIsOver
  <2>4. ASSUME NEW t \in Tokens PROVE /\ Claims(t, now) <=> Claims(t, now)'
                                      /\ Reused(t, now) <=> Reused(t, now)'
    BY <2>1, <2>2, <2>3 DEF Claims, Reused
  <2>5. ASSUME NEW f \in Families PROVE authenticate(f) <=> authenticate(f)'
    <3>1. rows \subseteq Tokens /\ rows' \subseteq rows
      BY <2>1 DEF IInv, TypeOK
    <3> QED
      BY <2>1, <2>2, <2>3, <3>1 DEF authenticate, Date
  <2> QED
    BY <2>4, <2>5
<1> QED
  BY <1>1, Invariance, PTL DEF Spec, PurgeIsInvisible
=============================================================================
