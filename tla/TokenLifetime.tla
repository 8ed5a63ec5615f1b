--------------------------- MODULE TokenLifetime ----------------------------
(***************************************************************************)
(* How long refresh tokens and their rows live (token.service.ts, the      *)
(* purge of index.ts): a sliding lifetime per token, an absolute one per   *)
(* session, and the retention of rows.  Two clocks are involved: expiry is *)
(* computed by the server process (Date.now) and compared with now() of    *)
(* the database, which is the time at which the transaction began, however *)
(* long it has waited since.                                               *)
(*                                                                         *)
(* Sessions has the interleavings of the statements; here a rotation is    *)
(* its start and its end.                                                  *)
(***************************************************************************)
EXTENDS Integers

CONSTANTS
  Families,     \* values of refresh_tokens.family_id
  Tokens,       \* rows of refresh_tokens, numbered as they are inserted
  Requests,     \* connections that serve refreshes
  None,         \* no token, family or time
  REFRESH_TTL,  \* REFRESH_TOKEN_TTL_DAYS
  FAMILY_MAX,   \* FAMILY_MAX_DAYS
  RETENTION,    \* the 30 days of the purge
  ACCESS_TTL,   \* ACCESS_TOKEN_TTL
  Skews,        \* how far the server's clock may be ahead of the database's
  MaxTime       \* bound: the time at which the model stops

ASSUME TokenAssumption == Tokens \subseteq Nat /\ None \notin Families \cup Tokens \cup Int
ASSUME TimeAssumption ==
  /\ REFRESH_TTL \in Nat \ {0} /\ FAMILY_MAX \in Nat \ {0}
  /\ RETENTION \in Nat /\ ACCESS_TTL \in Nat \ {0}
  /\ Skews \subseteq Int /\ MaxTime \in Nat

\* What the purge relies on.  The retention is the whole lifetime of a session
\* in the code, 30 days each.
ASSUME RetentionAssumption == FAMILY_MAX <= REFRESH_TTL + RETENTION

VARIABLES
  now,          \* clock of the database
  skew,         \* the server's clock less the database's
  rows,         \* ids present in refresh_tokens
  family, expiresAt, familyExpiresAt, revokedAt,  \* columns
  used,         \* rows with used_at set
  jwt,          \* session: exp of the newest access token
  req,          \* requests: the token presented and the start of the transaction
  born          \* history: when each session was opened, on the database's clock

columns == <<family, expiresAt, familyExpiresAt, revokedAt, used>>
vars == <<now, skew, rows, family, expiresAt, familyExpiresAt, revokedAt, used,
          jwt, req, born>>

Idle == [token |-> None, start |-> None]
Date == now + skew
Revoked(t) == revokedAt[t] # None

Init ==
  /\ now = 0 /\ skew \in Skews
  /\ rows = {}
  /\ family = [t \in Tokens |-> None]
  /\ expiresAt = [t \in Tokens |-> None]
  /\ familyExpiresAt = [t \in Tokens |-> None]
  /\ revokedAt = [t \in Tokens |-> None]
  /\ used = {}
  /\ jwt = [f \in Families |-> None]
  /\ req = [r \in Requests |-> Idle]
  /\ born = [f \in Families |-> None]

-----------------------------------------------------------------------------
\* Faulty variant: the session's end moves with each rotation.
insertSlidingToken(t, f, familyEnd) ==
  /\ family[t] = None /\ \A s \in Tokens : s < t => family[s] # None
  /\ rows' = rows \cup {t}
  /\ family' = [family EXCEPT ![t] = f]
  /\ familyExpiresAt' = [familyExpiresAt EXCEPT ![t] = Date + FAMILY_MAX]
  /\ expiresAt' = [expiresAt EXCEPT ![t] = Date + REFRESH_TTL]

\* The row goes to the next id; it never outlives its session.
insertToken(t, f, familyEnd) ==
  /\ family[t] = None /\ \A s \in Tokens : s < t => family[s] # None
  /\ rows' = rows \cup {t}
  /\ family' = [family EXCEPT ![t] = f]
  /\ familyExpiresAt' = [familyExpiresAt EXCEPT ![t] = familyEnd]
  /\ expiresAt' = [expiresAt EXCEPT ![t] =
       IF Date + REFRESH_TTL < familyEnd THEN Date + REFRESH_TTL ELSE familyEnd]

signAccessToken(f) == jwt' = [jwt EXCEPT ![f] = Date + ACCESS_TTL]

\* A login.
startSession(f) ==
  /\ born[f] = None
  /\ \E t \in Tokens : insertToken(t, f, Date + FAMILY_MAX)
  /\ signAccessToken(f)
  /\ born' = [born EXCEPT ![f] = now]
  /\ UNCHANGED <<now, skew, used, revokedAt, req>>

\* Faulty variant: the time of a refresh is taken from the server's clock.
rotateStartsOnServer(r, t) ==
  /\ req[r] = Idle /\ t \in rows
  /\ req' = [req EXCEPT ![r] = [token |-> t, start |-> Date]]
  /\ UNCHANGED <<now, skew, rows, columns, jwt, born>>

\* A refresh begins; it may wait for the lock on its user.
rotateStarts(r, t) ==
  /\ req[r] = Idle /\ t \in rows
  /\ req' = [req EXCEPT ![r] = [token |-> t, start |-> now]]
  /\ UNCHANGED <<now, skew, rows, columns, jwt, born>>

revokeFamily(f, time) ==
  revokedAt' = [t \in Tokens |-> IF t \in rows /\ family[t] = f /\ ~Revoked(t)
                                 THEN time ELSE revokedAt[t]]

\* The conditional UPDATE of a rotation, and the query that tells reuse, at
\* the time the transaction started.
Claims(t, time) ==
  /\ t \in rows /\ t \notin used /\ ~Revoked(t)
  /\ expiresAt[t] > time /\ familyExpiresAt[t] > time
Reused(t, time) ==
  /\ t \in rows /\ t \in used /\ ~Revoked(t) /\ familyExpiresAt[t] > time

rotate(r) ==
  LET t == req[r].token
  IN /\ t # None /\ Claims(t, req[r].start)
     /\ used' = used \cup {t}
     /\ \E s \in Tokens : insertToken(s, family[t], familyExpiresAt[t])
     /\ signAccessToken(family[t])
     /\ req' = [req EXCEPT ![r] = Idle]
     /\ UNCHANGED <<now, skew, revokedAt, born>>

refuse(r) ==
  LET t == req[r].token
  IN /\ t # None /\ ~Claims(t, req[r].start)
     /\ IF Reused(t, req[r].start) THEN revokeFamily(family[t], req[r].start)
        ELSE UNCHANGED revokedAt
     /\ req' = [req EXCEPT ![r] = Idle]
     /\ UNCHANGED <<now, skew, rows, family, expiresAt, familyExpiresAt, used, jwt, born>>

\* A logout, or a change of the user that ends the session.
revokeFamilyByToken(f) ==
  /\ \E t \in rows : family[t] = f /\ ~Revoked(t)
  /\ revokeFamily(f, now)
  /\ UNCHANGED <<now, skew, rows, family, expiresAt, familyExpiresAt, used, jwt, req, born>>

\* Faulty variant: the retention is measured from the start of a session.
PurgedByAge(t) ==
  \/ born[family[t]] < now - RETENTION
  \/ Revoked(t) /\ revokedAt[t] < now - RETENTION

\* At the start of the server and every six hours.
Purged(t) ==
  \/ expiresAt[t] < now - RETENTION
  \/ Revoked(t) /\ revokedAt[t] < now - RETENTION

purgeExpiredTokens ==
  /\ rows' = {t \in rows : ~Purged(t)}
  /\ UNCHANGED <<now, skew, columns, jwt, req, born>>

tick ==
  /\ now < MaxTime /\ now' = now + 1
  /\ UNCHANGED <<skew, rows, columns, jwt, req, born>>

Next ==
  \/ \E f \in Families : startSession(f) \/ revokeFamilyByToken(f)
  \/ \E r \in Requests : (\E t \in Tokens : rotateStarts(r, t)) \/ rotate(r) \/ refuse(r)
  \/ purgeExpiredTokens \/ tick

Spec == Init /\ [][Next]_vars

-----------------------------------------------------------------------------
\* The check of authenticate.ts on a request of session f.
authenticate(f) ==
  /\ jwt[f] # None /\ jwt[f] > Date
  /\ \E t \in rows : family[t] = f /\ ~Revoked(t) /\ familyExpiresAt[t] > now

Times == Int \cup {None}
TypeOK ==
  /\ now \in 0..MaxTime /\ skew \in Skews
  /\ rows \subseteq {t \in Tokens : family[t] # None}
  /\ family \in [Tokens -> Families \cup {None}]
  /\ expiresAt \in [Tokens -> Times] /\ familyExpiresAt \in [Tokens -> Times]
  /\ used \subseteq Tokens /\ revokedAt \in [Tokens -> Times]
  /\ jwt \in [Families -> Times] /\ born \in [Families -> Times]
  /\ req \in [Requests -> {Idle} \cup [token: Tokens, start: 0..MaxTime]]

\* Rotation never extends a session past FAMILY_MAX (config/index.ts:29),
\* however many rotations there are and however long each of them has waited:
\* after that, no request is accepted, whatever access token it shows, and no
\* refresh that begins then can spend a token.
AbsoluteLifetime ==
  \A f \in Families :
    authenticate(f) \/ (\E t \in Tokens : family[t] = f /\ Claims(t, now))
      => now < born[f] + skew + FAMILY_MAX

\* The purge is not seen from outside: every token, spent or not, is claimed,
\* taken for reused or refused as before, and every request is accepted or
\* refused as before.
PurgeIsInvisible ==
  [][purgeExpiredTokens =>
       /\ \A t \in Tokens : /\ Claims(t, now) <=> Claims(t, now)'
                            /\ Reused(t, now) <=> Reused(t, now)'
       /\ \A f \in Families : authenticate(f) <=> authenticate(f)']_vars
=============================================================================
