------------------------------ MODULE RateLimit ------------------------------
(***************************************************************************)
(* Login attempts of one IP address (rateLimit.ts, the order of the        *)
(* middleware in auth.routes.ts).  Every attempt counts in the bucket of   *)
(* the address; one that passes the CSRF check counts in the bucket of its *)
(* email, until it succeeds.  The store is the MemoryStore of              *)
(* express-rate-limit: a window begins with the first increment after the  *)
(* last one has ended, a decrement takes from whatever window is there,    *)
(* and a restart forgets everything.  Middleware that does no I/O runs     *)
(* without interruption, so that an arrival is one step.                   *)
(***************************************************************************)
EXTENDS Naturals, FiniteSets

CONSTANTS
  Attempts, Emails,
  EmailOf,              \* the email that an attempt is for
  Address,              \* the bucket of limiters.auth
  AuthMax, LoginMax,
  MaxWindows,           \* bound: windows that end
  MaxRestarts           \* bound: restarts of the server

Buckets == Emails \cup {Address}

ASSUME RateAssumption ==
  /\ IsFiniteSet(Attempts) /\ Attempts \subseteq Nat
  /\ EmailOf \in [Attempts -> Emails] /\ Address \notin Emails
  /\ AuthMax \in Nat /\ LoginMax \in Nat /\ MaxWindows \in Nat /\ MaxRestarts \in Nat

VARIABLES
  hits,      \* totalHits of each bucket
  over,      \* its resetTime has passed
  attempt,   \* what has become of each attempt
  counted,   \* history: the attempts that the current window of a bucket has counted
  borrowed,  \* history: decrements in this window for attempts of earlier ones
  windows, restarts

rateVars == <<hits, over, attempt, counted, borrowed, windows, restarts>>

\* "turned": stopped before the bucket of the email; "refused": by it; "lost": never
\* answered, or answered with success to a client that was gone.
Fates == {"none", "turned", "refused", "checking", "failed", "succeeded", "lost"}

RateTypeOK ==
  /\ hits \in [Buckets -> Nat] /\ over \in [Buckets -> BOOLEAN]
  /\ attempt \in [Attempts -> Fates]
  /\ counted \in [Buckets -> SUBSET Attempts] /\ borrowed \in [Buckets -> Nat]
  /\ windows \in 0 .. MaxWindows /\ restarts \in 0 .. MaxRestarts

RateInit ==
  /\ hits = [b \in Buckets |-> 0] /\ over = [b \in Buckets |-> FALSE]
  /\ attempt = [a \in Attempts |-> "none"]
  /\ counted = [b \in Buckets |-> {}] /\ borrowed = [b \in Buckets |-> 0]
  /\ windows = 0 /\ restarts = 0

-----------------------------------------------------------------------------
(* store.increment and store.decrement.                                    *)

HitsAfter(b) == IF over[b] THEN 1 ELSE hits[b] + 1

\* a counts in every bucket of B; what is over begins anew.
Increment(B, a) ==
  /\ hits' = [b \in Buckets |-> IF b \in B THEN HitsAfter(b) ELSE hits[b]]
  /\ over' = [b \in Buckets |-> over[b] /\ b \notin B]
  /\ counted' = [b \in Buckets |-> IF b \notin B THEN counted[b]
                                   ELSE IF over[b] THEN {a} ELSE counted[b] \cup {a}]
  /\ borrowed' = [b \in Buckets |-> IF b \in B /\ over[b] THEN 0 ELSE borrowed[b]]

\* Faulty variant: the store takes from a window that has counted nothing.
DecrementBelowZero(b, a) ==
  /\ hits' = [hits EXCEPT ![b] = @ - 1]
  /\ borrowed' = [borrowed EXCEPT ![b] = IF a \in counted[b] THEN @ ELSE @ + 1]
  /\ UNCHANGED <<over, counted>>

Decrement(b, a) ==
  /\ hits' = [hits EXCEPT ![b] = IF @ > 0 THEN @ - 1 ELSE @]
  /\ borrowed' = [borrowed EXCEPT ![b] = IF a \in counted[b] THEN @ ELSE @ + 1]
  /\ UNCHANGED <<over, counted>>

\* Attempts are numbered as they arrive.
Arrives(a) == attempt[a] = "none" /\ \A o \in Attempts : o < a => attempt[o] # "none"
Becomes(a, fate) == attempt' = [attempt EXCEPT ![a] = fate]

-----------------------------------------------------------------------------
(* A login request.                                                        *)

\* limiters.auth, or the CSRF check after it, stops the attempt.
turnedAway(a) ==
  /\ Arrives(a)
  /\ Increment({Address}, a) /\ Becomes(a, "turned")
  /\ UNCHANGED <<windows, restarts>>

\* limiters.login counts the attempt, and lets it through to the password or not.
limitLogin(a) ==
  /\ Arrives(a) /\ HitsAfter(Address) <= AuthMax
  /\ Increment({Address, EmailOf[a]}, a)
  /\ Becomes(a, IF HitsAfter(EmailOf[a]) <= LoginMax THEN "checking" ELSE "refused")
  /\ UNCHANGED <<windows, restarts>>

\* Faulty variant: a failed attempt gives its hit back as well.
loginFailsUncounted(a) ==
  /\ attempt[a] = "checking" /\ Becomes(a, "failed")
  /\ Decrement(EmailOf[a], a)
  /\ UNCHANGED <<windows, restarts>>

\* 400 or 401: the hit stays.
loginFails(a) ==
  /\ attempt[a] = "checking" /\ Becomes(a, "failed")
  /\ UNCHANGED <<hits, over, counted, borrowed, windows, restarts>>

\* Faulty variant: skipSuccessfulRequests is not set.
loginSucceedsCounted(a) ==
  /\ attempt[a] = "checking" /\ Becomes(a, "succeeded")
  /\ UNCHANGED <<hits, over, counted, borrowed, windows, restarts>>

\* The response has finished with a status below 400 (skipSuccessfulRequests).
loginSucceeds(a) ==
  /\ attempt[a] = "checking" /\ Becomes(a, "succeeded")
  /\ Decrement(EmailOf[a], a)
  /\ UNCHANGED <<windows, restarts>>

\* The connection closes before the response is finished.
loginLost(a) ==
  /\ attempt[a] = "checking" /\ Becomes(a, "lost")
  /\ UNCHANGED <<hits, over, counted, borrowed, windows, restarts>>

-----------------------------------------------------------------------------
\* The window of a bucket ends; nothing happens to its count before the next increment.
windowEnds(b) ==
  /\ windows < MaxWindows /\ ~over[b] /\ hits[b] > 0
  /\ over' = [over EXCEPT ![b] = TRUE]
  /\ windows' = windows + 1
  /\ UNCHANGED <<hits, attempt, counted, borrowed, restarts>>

serverRestarts ==
  /\ restarts < MaxRestarts /\ restarts' = restarts + 1
  /\ hits' = [b \in Buckets |-> 0] /\ over' = [b \in Buckets |-> FALSE]
  /\ attempt' = [a \in Attempts |-> IF attempt[a] = "checking" THEN "lost" ELSE attempt[a]]
  /\ counted' = [b \in Buckets |-> {}] /\ borrowed' = [b \in Buckets |-> 0]
  /\ UNCHANGED windows

RateNext ==
  \/ \E a \in Attempts : \/ turnedAway(a) \/ limitLogin(a)
                         \/ loginFails(a) \/ loginSucceeds(a) \/ loginLost(a)
  \/ \E b \in Buckets : windowEnds(b)
  \/ serverRestarts

RateSpec == RateInit /\ [][RateNext]_rateVars

-----------------------------------------------------------------------------
(* Properties.                                                             *)

CountedAs(b, fates) == {a \in counted[b] : attempt[a] \in fates}

\* In one window an email has at most LoginMax attempts that reached the password and
\* did not succeed, and one more for each success that began in an earlier window:
\* those give back a hit that this window never counted.
FailuresAreBounded ==
  \A e \in Emails :
    Cardinality(CountedAs(e, {"checking", "failed", "lost"})) <= LoginMax + borrowed[e]

\* Nobody is refused for having succeeded: whoever is refused finds LoginMax attempts of
\* the same email and window that failed, were refused, got no answer or are under way.
RefusedForFailures ==
  [][\A a \in Attempts :
       attempt[a] = "none" /\ attempt'[a] = "refused" =>
         Cardinality(CountedAs(EmailOf[a], Fates \ {"succeeded"})') > LoginMax]_rateVars
=============================================================================
