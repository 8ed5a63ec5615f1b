-------------------------------- MODULE Pool --------------------------------
(***************************************************************************)
(* The connections that Sequelize lends to requests (sequelize.ts: at most *)
(* ten), and the administrative requests that need two at once:            *)
(* assignRoles keeps one for its transaction, with the advisory lock of    *)
(* admin-guard.ts, while permissionKeysOf asks the pool for another        *)
(* (user.service.ts).  Transactions on one user's row: of another row they *)
(* are like reads here, as they wait for nobody.  The queue and its        *)
(* timeout are those of sequelize-pool, which Sequelize uses: first come,  *)
(* first served, and 60 seconds.                                           *)
(***************************************************************************)
EXTENDS Naturals, Sequences, SequencesExt

CONSTANTS
  Clients,      \* HTTP requests under way at once, by number
  Conns,        \* the connections of the pool
  Free,
  MaxArrivals   \* bound: how many requests arrive in all

ASSUME PoolAssumption ==
  /\ Clients \subseteq Nat /\ Free \notin Clients
  /\ Conns # {} /\ MaxArrivals \in Nat

VARIABLES
  pc,       \* what each request does, or waits for a connection to do
  kind,     \* what it has asked for
  holder,   \* the request that each connection is lent to
  queue,    \* requests that wait for a connection
  arrived

poolVars == <<pc, kind, holder, queue, arrived>>

\* Operations under the advisory lock, of which all but assignRoles use their own
\* connection only; a refresh, whose transaction needs the user's row; and what needs
\* one connection at a time.
Kinds == {"change", "assignRoles", "rotate", "read"}
PoolPcs == {"idle", "authenticate", "read", "begin", "rotating",
            "guarded", "locked", "keys", "checked"}

PoolTypeOK ==
  /\ pc \in [Clients -> PoolPcs] /\ kind \in [Clients -> Kinds]
  /\ holder \in [Conns -> Clients \cup {Free}]
  /\ queue \in Seq(Clients) /\ arrived \in 0 .. MaxArrivals

PoolInit ==
  /\ pc = [r \in Clients |-> "idle"] /\ kind = [r \in Clients |-> "read"]
  /\ holder = [c \in Conns |-> Free]
  /\ queue = <<>> /\ arrived = 0

Waits(r) == Contains(queue, r)
Held(r) == {c \in Conns : holder[c] = r}
AnyOf(C) == CHOOSE c \in C : TRUE
HoldsRow(r) == pc[r] \in {"locked", "keys", "checked"}
HoldsAdvisoryLock(r) == HoldsRow(r) \/ pc[r] = "guarded"

\* What a transaction waits for on the connection that it has.
Blocked(r) ==
  \/ /\ pc[r] = "begin" /\ kind[r] # "rotate"
     /\ \E o \in Clients : HoldsAdvisoryLock(o)
  \/ pc[r] = "begin" /\ kind[r] = "rotate" /\ \E o \in Clients : HoldsRow(o)
  \/ pc[r] = "guarded" /\ \E o \in Clients : pc[o] = "rotating"

\* r goes on at p, which needs one more connection.
Asks(r, p) ==
  /\ pc' = [pc EXCEPT ![r] = p]
  /\ queue' = Append(queue, r)
Releases(C) == holder' = [c \in Conns |-> IF c \in C THEN Free ELSE holder[c]]

-----------------------------------------------------------------------------
\* Requests take the numbers that are free in order.  A refresh has no access token to
\* show (auth.routes.ts): it begins with its transaction.
arrive(r, k) ==
  /\ pc[r] = "idle" /\ \A o \in Clients : o < r => pc[o] # "idle"
  /\ arrived < MaxArrivals
  /\ arrived' = arrived + 1
  /\ kind' = [kind EXCEPT ![r] = k]
  /\ Asks(r, IF k = "rotate" THEN "begin" ELSE "authenticate")
  /\ UNCHANGED holder

\* The pool lends a connection, a new one or one that has come back; which one makes
\* no difference.
dispense ==
  /\ queue # <<>> /\ Held(Free) # {}
  /\ holder' = [holder EXCEPT ![AnyOf(Held(Free))] = Head(queue)]
  /\ queue' = Tail(queue)
  /\ UNCHANGED <<pc, kind, arrived>>

\* Faulty variant: the connection is kept for the transaction that follows.
authenticatedKeeps(r) ==
  /\ pc[r] = "authenticate" /\ ~Waits(r)
  /\ Asks(r, IF kind[r] = "read" THEN "read" ELSE "begin")
  /\ UNCHANGED <<kind, holder, arrived>>

\* The query of authenticate is answered and its connection returned; the handler
\* then reads, or begins its transaction.
authenticated(r) ==
  /\ pc[r] = "authenticate" /\ ~Waits(r)
  /\ Asks(r, IF kind[r] = "read" THEN "read" ELSE "begin")
  /\ Releases(Held(r))
  /\ UNCHANGED <<kind, arrived>>

\* SELECT FOR SHARE of rotateRefreshToken; pg_advisory_xact_lock; findByPk FOR UPDATE.
locks(r) ==
  /\ pc[r] \in {"begin", "guarded"} /\ ~Waits(r) /\ ~Blocked(r)
  /\ pc' = [pc EXCEPT ![r] = IF kind[r] = "rotate" THEN "rotating"
                             ELSE IF @ = "begin" THEN "guarded" ELSE "locked"]
  /\ UNCHANGED <<kind, holder, queue, arrived>>

\* The query without { transaction: t }; with no changed role it is skipped, and with
\* a bad id the request is refused before it (rollback).
permissionKeysOf(r) ==
  /\ pc[r] = "locked" /\ kind[r] = "assignRoles"
  /\ \/ Asks(r, "keys")
     \/ pc' = [pc EXCEPT ![r] = "checked"] /\ UNCHANGED queue
  /\ UNCHANGED <<kind, holder, arrived>>

keysRead(r) ==
  /\ pc[r] = "keys" /\ ~Waits(r)
  /\ pc' = [pc EXCEPT ![r] = "checked"]
  /\ Releases({AnyOf(Held(r))})
  /\ UNCHANGED <<kind, queue, arrived>>

\* The commit, after which getUser reads the record for the answer ...
commitChange(r) ==
  /\ pc[r] = "checked" \/ (pc[r] = "locked" /\ kind[r] = "change")
  /\ Releases(Held(r))
  /\ Asks(r, "read")
  /\ UNCHANGED <<kind, arrived>>

\* ... the answer itself, and what is refused: the transaction is rolled back.
finish(r) ==
  /\ pc[r] \in {"authenticate", "read", "rotating", "locked", "checked"} /\ ~Waits(r)
  /\ pc' = [pc EXCEPT ![r] = "idle"]
  /\ Releases(Held(r))
  /\ kind' = [kind EXCEPT ![r] = "read"]
  /\ UNCHANGED <<queue, arrived>>

\* Faulty variant: inside a transaction there is no timeout.
acquireTimeoutOutside(r) ==
  /\ pc[r] # "keys"
  /\ \E i \in 1 .. Len(queue) : queue[i] = r /\ queue' = RemoveAt(queue, i)
  /\ pc' = [pc EXCEPT ![r] = "idle"]
  /\ Releases(Held(r))
  /\ kind' = [kind EXCEPT ![r] = "read"]
  /\ UNCHANGED arrived

\* A request that waits for too long fails; a transaction it has is rolled back.
acquireTimeout(r) ==
  /\ \E i \in 1 .. Len(queue) : queue[i] = r /\ queue' = RemoveAt(queue, i)
  /\ pc' = [pc EXCEPT ![r] = "idle"]
  /\ Releases(Held(r))
  /\ kind' = [kind EXCEPT ![r] = "read"]
  /\ UNCHANGED arrived

Runs(r) == \/ authenticated(r) \/ locks(r) \/ permissionKeysOf(r)
           \/ keysRead(r) \/ commitChange(r) \/ finish(r)

PoolNext ==
  \/ \E r \in Clients : Runs(r) \/ acquireTimeout(r) \/ \E k \in Kinds : arrive(r, k)
  \/ dispense

PoolSpec == PoolInit /\ [][PoolNext]_poolVars

-----------------------------------------------------------------------------
(* Properties.                                                             *)

\* Every connection is lent to a request that itself waits, for a connection or for a
\* lock: nothing but a timeout helps.
Stalled == /\ queue # <<>>
           /\ \A c \in Conns : holder[c] # Free /\ (Waits(holder[c]) \/ Blocked(holder[c]))

\* The pool can only stall in one way: an assignRoles waits for its second connection
\* (permissionKeysOf) while every other connection is held by a transaction that waits
\* for the locks of that assignment.  So it takes as many transactions on one user, or
\* under the advisory lock, as the pool has connections.
OnlyAssignmentStalls ==
  Stalled => \E a \in Clients :
    /\ kind[a] = "assignRoles" /\ pc[a] = "keys" /\ Waits(a)
    /\ \A c \in Conns : holder[c] = a \/ (pc[holder[c]] = "begin" /\ ~Waits(holder[c]))
=============================================================================
