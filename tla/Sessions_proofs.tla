-------------------------- MODULE Sessions_proofs --------------------------
(***************************************************************************)
(* Proofs about Sessions, for any number of users, sessions, tokens and    *)
(* requests: types, and the safety properties that MCSessions checks on a  *)
(* small instance.                                                         *)
(*                                                                         *)
(* None of them is inductive by itself.  What a request has read stays     *)
(* true because of the locks it holds: Local says what each position (pc)  *)
(* of a request guarantees about the tables, Exclusive which positions two *)
(* requests cannot have at once, and Tables what the rows look like.       *)
(***************************************************************************)
EXTENDS Sessions, TLAPS

ClaimedPc == {"claimed", "active", "inactive", "inactiveSnap"}
SharePc == RotatePc \ {"ownerRead"}
WriterPc == {"selfLocked", "selfSnap", "adminLocked", "adminSnap"}
AllSnapPc == {"selfSnap", "adminSnap"}
SnapPc == {"reuseSnap", "inactiveSnap", "logoutSnap"} \cup AllSnapPc

Issued(t) == family[t] # None

\* A set of rows to revoke that has the head of a session has all of its
\* unrevoked rows.
Covers(T) ==
  \A h \in T : Spendable(h) =>
    \A t \in rows \ revoked : family[t] = family[h] => t \in T

\* The rows of the families that q dooms are among those it is going to revoke.
CoversDoomed(q) ==
  \A t \in rows \ revoked : family[t] \in q.doomed => t \in q.targets

\* What a request's record is about.
Names(q) ==
  /\ q.pc \in RotatePc =>
       /\ q.tok \in Tokens /\ q.sid \in Families /\ q.usr \in Users
       /\ family[q.tok] = q.sid /\ owner[q.sid] = q.usr
  /\ q.pc \in LoginPc \cup AdminPc => q.usr \in Users
  /\ q.pc \in SelfPc => q.usr \in Users /\ q.sid \in Families /\ owner[q.sid] = q.usr
  /\ q.pc = "logoutSnap" => q.sid \in Families /\ owner[q.sid] # None

\* What its snapshot has, and what its locks keep true.
Local(q) ==
  /\ Names(q)
  /\ q.pc \in ClaimedPc => Spendable(q.tok)
  /\ q.pc = "active" => account[q.usr] = "active"
  /\ q.pc \in SnapPc => (\A t \in q.targets : Issued(t)) /\ Covers(q.targets)
  /\ q.pc = "inactiveSnap" => q.tok \in q.targets
  /\ q.pc \in WriterPc => \A f \in q.doomed : owner[f] = q.usr /\ f # q.sid
  /\ q.pc \in AllSnapPc => CoversDoomed(q)

\* Two records that hold locks which exclude each other.
Clash(p, q) ==
  \/ p.tok = q.tok /\ p.pc \in ClaimedPc /\ q.pc \in ClaimedPc
  \/ /\ p.usr = q.usr
     /\ \/ p.pc \in WriterPc /\ q.pc \in WriterPc \cup SharePc
        \/ p.pc \in SharePc /\ q.pc \in WriterPc

Locals == \A r \in Requests : Local(req[r])
Exclusive == \A r, s \in Requests : r # s => ~Clash(req[r], req[s])

\* No other request clashes with the record q of request r.
Alone(r, q) == \A s \in Requests \ {r} : ~Clash(q, req[s]) /\ ~Clash(req[s], q)

AtMostOneHead ==
  \A t1, t2 \in Tokens :
    Spendable(t1) /\ Spendable(t2) /\ family[t1] = family[t2] => t1 = t2
HeadExists ==
  \A t \in rows \ revoked : \E h \in rows : Spendable(h) /\ family[h] = family[t]
Marked ==
  /\ \A t \in Tokens : Issued(t) => owner[family[t]] # None
  /\ \A t \in used \cup revoked : Issued(t)
  /\ \A t \in Tokens : replacedBy[t] # None => Issued(replacedBy[t])
EndedWasOpened == \A f \in Families : ended[f] # {} => owner[f] # None

Tables ==
  /\ AtMostOneHead /\ HeadExists /\ Marked /\ EndedWasOpened
  /\ ChainIsLinked /\ RevokeAllIsComplete /\ NoOrphanSession

IInv == TypeOK /\ Locals /\ Exclusive /\ Tables

-----------------------------------------------------------------------------
(* The initial state.                                                      *)

\* A connection that serves nothing is in its type, and promises nothing.
LEMMA IdleIsQuiet ==
  /\ Idle \in Request /\ Idle.pc = "idle" /\ Idle.targets = {} /\ Idle.doomed = {}
  /\ Idle.usr = None /\ Idle.tok = None /\ Idle.sid = None
  BY DEF Idle, Request, Pc

\* Its record satisfies Local and clashes with none, whatever the tables are.
LEMMA IdleIsLocal == Local(Idle) /\ \A q : ~Clash(Idle, q) /\ ~Clash(q, Idle)
  BY IdleIsQuiet DEF Local, Names, Clash, Pc, RotatePc, LoginPc, SelfPc, AdminPc,
     ClaimedPc, SharePc, WriterPc, AllSnapPc, SnapPc

\* The initial state is well typed.
LEMMA InitTypeOK == Init => TypeOK
<1> SUFFICES ASSUME Init PROVE TypeOK
  OBVIOUS
<1>1. served \in 0..MaxRequests
  BY MaxRequestsAssumption DEF Init
<1>2. rows \subseteq {t \in Tokens : family[t] # None}
  BY DEF Init
<1>3. QED
  BY <1>1, <1>2, IdleIsQuiet DEF Init, TypeOK

\* The inductive invariant holds of empty tables.
LEMMA InitIInv == Init => IInv
<1> SUFFICES ASSUME Init PROVE IInv
  OBVIOUS
<1>1. Locals /\ Exclusive
  BY IdleIsLocal DEF Init, Locals, Exclusive
<1>2. AtMostOneHead /\ HeadExists /\ Marked /\ EndedWasOpened
  BY DEF Init, AtMostOneHead, HeadExists, Marked, EndedWasOpened, Spendable, Issued
<1>3. ChainIsLinked /\ RevokeAllIsComplete /\ NoOrphanSession
  BY DEF Init, ChainIsLinked, RevokeAllIsComplete, NoOrphanSession, Live, FamilyRows
<1>4. QED
  BY InitTypeOK, <1>1, <1>2, <1>3 DEF IInv, Tables

-----------------------------------------------------------------------------
(* Steps that change no table: a request takes a new position, for which   *)
(* Local holds and which clashes with no other.                            *)

Moves(r) ==
  \E q \in Request :
    /\ req' = [req EXCEPT ![r] = q]
    /\ UNCHANGED <<db, history>>
    /\ served' = served \/ (served < MaxRequests /\ served' = served + 1)
    /\ Local(q) /\ Alone(r, q)

\* Such a step keeps the inductive invariant.
LEMMA MovesKeeps ==
  ASSUME IInv, NEW r \in Requests, Moves(r) PROVE IInv'
<1>1. PICK q \in Request :
        /\ req' = [req EXCEPT ![r] = q]
        /\ UNCHANGED <<db, history>>
        /\ served' = served \/ (served < MaxRequests /\ served' = served + 1)
        /\ Local(q) /\ Alone(r, q)
  BY DEF Moves
<1>2. /\ account' = account /\ password' = password /\ rows' = rows
      /\ family' = family /\ owner' = owner /\ used' = used /\ revoked' = revoked
      /\ replacedBy' = replacedBy /\ proved' = proved /\ ended' = ended
  BY <1>1 DEF db, history
<1>3. TypeOK'
  <2>1. served' \in 0..MaxRequests
    BY <1>1, MaxRequestsAssumption DEF IInv, TypeOK
  <2>2. req' \in [Requests -> Request]
    BY <1>1 DEF IInv, TypeOK
  <2>3. QED
    BY <1>2, <2>1, <2>2 DEF IInv, TypeOK
<1>4. Tables'
  BY <1>2 DEF IInv, Tables, AtMostOneHead, HeadExists, Marked, EndedWasOpened,
     ChainIsLinked, RevokeAllIsComplete, NoOrphanSession, Live, FamilyRows, Spendable,
     Issued
<1>5. \A s \in Requests : req'[s] = IF s = r THEN q ELSE req[s]
  BY <1>1 DEF IInv, TypeOK
<1>6. Locals'
  <2> SUFFICES ASSUME NEW s \in Requests PROVE Local(req[s])'
    BY DEF Locals
  <2>1. PICK p : p = req'[s] /\ Local(p)
    BY <1>1, <1>5 DEF IInv, Locals
  <2>2. QED
    BY <1>2, <2>1 DEF Local, Names, Spendable, Covers, CoversDoomed, Issued
<1>7. Exclusive'
  BY <1>1, <1>5 DEF IInv, Exclusive, Alone
<1>8. QED
  BY <1>3, <1>4, <1>6, <1>7 DEF IInv

\* The requests that arrive promise what their first position says.
LEMMA ArrivalMoves ==
  ASSUME IInv, NEW r \in Requests, Arrival(r) PROVE Moves(r)
<1> USE DEF Pc, RotatePc, LoginPc, SelfPc, AdminPc, ClaimedPc, SharePc, WriterPc,
            AllSnapPc, SnapPc
<1>1. ASSUME NEW q \in Request, Arrives(r, q), Names(q),
             q.pc \in {"verified", "ownerRead", "selfVerified", "begun"}
      PROVE  Moves(r)
  BY <1>1 DEF Moves, Arrives, Local, Alone, Clash
<1>2. ASSUME NEW u \in Users, login(r, u) PROVE Moves(r)
  <2> DEFINE q == [Idle EXCEPT !.pc = "verified", !.usr = u, !.pw = password[u]]
  <2>1. q \in Request /\ Names(q)
    BY DEF Idle, Request, IInv, TypeOK, Names
  <2>2. QED
    BY <1>1, <1>2, <2>1 DEF login, Idle
<1>3. ASSUME NEW t \in Tokens, rotateRefreshToken(r, t) PROVE Moves(r)
  <2> DEFINE q == [Idle EXCEPT !.pc = "ownerRead", !.tok = t,
                               !.usr = owner[family[t]], !.sid = family[t]]
  <2>1. family[t] \in Families /\ owner[family[t]] \in Users
    BY <1>3 DEF rotateRefreshToken, IInv, TypeOK, Tables, Marked, Issued
  <2>2. q \in Request /\ Names(q)
    BY <2>1 DEF Idle, Request, Names
  <2>3. QED
    BY <1>1, <1>3, <2>2 DEF rotateRefreshToken, Idle
<1>4. ASSUME NEW f \in Families, updateSelf(r, f) PROVE Moves(r)
  <2> DEFINE q == [Idle EXCEPT !.pc = "selfVerified", !.usr = owner[f], !.sid = f]
  <2>1. q \in Request /\ Names(q)
    BY <1>4 DEF updateSelf, Idle, Request, IInv, TypeOK, Names
  <2>2. QED
    BY <1>1, <1>4, <2>1 DEF updateSelf, Idle
<1>5. ASSUME NEW u \in Users, NEW op \in Operations, administer(r, u, op) PROVE Moves(r)
  <2> DEFINE q == [Idle EXCEPT !.pc = "begun", !.usr = u, !.op = op]
  <2>1. q \in Request /\ Names(q)
    BY DEF Idle, Request, Names
  <2>2. QED
    BY <1>1, <1>5, <2>1 DEF administer, Idle
<1>6. ASSUME NEW t \in Tokens, revokeFamilyByToken(r, t) PROVE Moves(r)
  <2> DEFINE q == [Idle EXCEPT !.pc = "logoutSnap", !.tok = t, !.sid = family[t],
                               !.targets = FamilyRows(family[t]) \ revoked]
  <2>1. /\ family[t] \in Families /\ owner[family[t]] # None
        /\ FamilyRows(family[t]) \subseteq Tokens
    BY <1>6 DEF revokeFamilyByToken, IInv, TypeOK, Tables, Marked, Issued, FamilyRows
  <2>2. q \in Request /\ Names(q)
    BY <2>1 DEF Idle, Request, Names
  <2>3. (\A t2 \in q.targets : Issued(t2)) /\ Covers(q.targets)
    BY DEF Idle, Covers, FamilyRows, Issued, IInv, TypeOK
  <2>4. Local(q) /\ Alone(r, q)
    BY <2>2, <2>3 DEF Local, Alone, Clash, Idle
  <2>5. QED
    BY <1>6, <2>2, <2>4 DEF Moves, Arrives, revokeFamilyByToken
<1>7. QED
  BY <1>2, <1>3, <1>4, <1>5, <1>6 DEF Arrival

\* A request that takes a snapshot or dooms families stays one.
LEMMA RequestUpdates ==
  ASSUME NEW p \in Request, NEW pc \in Pc
  PROVE  /\ \A T \in SUBSET Tokens : [p EXCEPT !.pc = pc, !.targets = T] \in Request
         /\ \A D \in SUBSET Families : [p EXCEPT !.pc = pc, !.doomed = D] \in Request
<1>1. ASSUME NEW T \in SUBSET Tokens
      PROVE  [p EXCEPT !.pc = pc, !.targets = T] \in Request
  BY DEF Request
<1>2. ASSUME NEW D \in SUBSET Families
      PROVE  [p EXCEPT !.pc = pc, !.doomed = D] \in Request
  BY DEF Request
<1>3. QED
  BY <1>1, <1>2

\* A request that gives up holds nothing any more.
LEMMA GivesUpMoves ==
  ASSUME NEW r \in Requests, GivesUp(r) PROVE Moves(r)
  BY IdleIsQuiet, IdleIsLocal DEF GivesUp, Proceeds, Moves, Alone

\* So does every step before the commit.
LEMMA ProceedsMoves ==
  ASSUME NEW r \in Requests, NEW q \in Request, Proceeds(r, q), Local(q), Alone(r, q)
  PROVE  Moves(r)
  BY DEF Proceeds, Moves

\* Login and refresh, up to the statement that commits.
LEMMA RotateMoves ==
  ASSUME IInv, NEW r \in Requests,
         \/ touchLastLogin(r) \/ lockOwner(r) \/ claim(r) \/ claimMisses(r)
         \/ seenUsed(r) \/ readActive(r) \/ revokeFamilyStarts(r)
  PROVE  Moves(r)
<1> USE DEF Pc, RotatePc, LoginPc, SelfPc, AdminPc, ClaimedPc, SharePc, WriterPc,
            AllSnapPc, SnapPc
<1>0. /\ req[r] \in Request /\ Local(req[r])
      /\ \A s \in Requests : req[s] \in Request
      /\ \A s \in Requests \ {r} : ~Clash(req[r], req[s]) /\ ~Clash(req[s], req[r])
  BY DEF IInv, TypeOK, Locals, Exclusive
<1>1. \A pc \in Pc : [req[r] EXCEPT !.pc = pc] \in Request
  BY <1>0 DEF Request
<1>2. CASE touchLastLogin(r)
  <2> DEFINE q == [req[r] EXCEPT !.pc = "touched"]
  <2>1. Proceeds(r, q) /\ q \in Request
    BY <1>1, <1>2 DEF touchLastLogin, Goto
  <2>2. Local(q) /\ Alone(r, q)
    BY <1>0, <1>2 DEF touchLastLogin, Local, Names, Alone, Clash, Request
  <2>3. QED
    BY <2>1, <2>2, ProceedsMoves
<1>3. CASE lockOwner(r)
  <2> DEFINE q == [req[r] EXCEPT !.pc = "shared"]
  <2>1. Proceeds(r, q) /\ q \in Request
    BY <1>1, <1>3 DEF lockOwner, Goto
  <2>2. Local(q)
    BY <1>0, <1>3 DEF lockOwner, Local, Names, Request
  <2>3. Alone(r, q)
    BY <1>0, <1>3 DEF lockOwner, ShareIsFree, HoldsNoKeyUpdate, HoldsUpdate, Alone,
                      Clash, Request
  <2>4. QED
    BY <2>1, <2>2, <2>3, ProceedsMoves
<1>4. CASE claim(r)
  <2> DEFINE q == [req[r] EXCEPT !.pc = "claimed"]
  <2>1. Proceeds(r, q) /\ q \in Request
    BY <1>1, <1>4 DEF claim, Goto
  <2>2. Local(q)
    BY <1>0, <1>4 DEF claim, Local, Names, Request
  <2>3. Alone(r, q)
    BY <1>0, <1>4 DEF claim, RowsAreFree, HoldsToken, Alone, Clash, Request
  <2>4. QED
    BY <2>1, <2>2, <2>3, ProceedsMoves
<1>5. CASE claimMisses(r) \/ seenUsed(r)
  <2> DEFINE q == [req[r] EXCEPT !.pc = IF claimMisses(r) THEN "missed" ELSE "reused"]
  <2>1. Proceeds(r, q) /\ q \in Request
    BY <1>1, <1>5 DEF claimMisses, seenUsed, Goto
  <2>2. Local(q) /\ Alone(r, q)
    BY <1>0, <1>5 DEF claimMisses, seenUsed, Local, Names, Alone, Clash, Request
  <2>3. QED
    BY <2>1, <2>2, ProceedsMoves
<1>6. CASE readActive(r)
  <2> DEFINE pc == IF account[req[r].usr] = "active" THEN "active" ELSE "inactive"
             q == [req[r] EXCEPT !.pc = pc]
  <2>1. Proceeds(r, q) /\ q \in Request
    BY <1>1, <1>6 DEF readActive, Goto
  <2>2. Local(q) /\ Alone(r, q)
    BY <1>0, <1>6 DEF readActive, Local, Names, Alone, Clash, Request
  <2>3. QED
    BY <2>1, <2>2, ProceedsMoves
<1>7. CASE revokeFamilyStarts(r)
  <2> DEFINE T == FamilyRows(req[r].sid) \ revoked
             pc == IF req[r].pc = "reused" THEN "reuseSnap" ELSE "inactiveSnap"
             q == [req[r] EXCEPT !.pc = pc, !.targets = T]
  <2>1. T \subseteq Tokens /\ (\A t \in T : Issued(t)) /\ Covers(T)
    BY DEF FamilyRows, IInv, TypeOK, Issued, Covers
  <2>2. Proceeds(r, q) /\ q \in Request
    <3>1. Proceeds(r, q)
      BY <1>7 DEF revokeFamilyStarts, Snapshot
    <3>2. T \in SUBSET Tokens /\ pc \in Pc
      BY <2>1
    <3>3. q \in Request
      BY <1>0, <3>2, RequestUpdates
    <3>4. QED
      BY <3>1, <3>3
  <2>3. pc = "inactiveSnap" => q.tok \in T
    BY <1>0, <1>7 DEF revokeFamilyStarts, Local, Names, Spendable, FamilyRows, Request
  <2>4. Names(q)
    BY <1>0, <1>7 DEF revokeFamilyStarts, Local, Names, Request
  <2>5. Local(q)
    BY <1>0, <1>7, <2>1, <2>3, <2>4 DEF revokeFamilyStarts, Local, Request
  <2>6. Alone(r, q)
    BY <1>0, <1>7 DEF revokeFamilyStarts, Alone, Clash, Request
  <2>7. QED
    BY <2>2, <2>5, <2>6, ProceedsMoves
<1>8. QED
  BY <1>2, <1>3, <1>4, <1>5, <1>6, <1>7

\* The users row is locked, for a password or an administrator's change.
LEMMA LockUserMoves ==
  ASSUME IInv, NEW r \in Requests, updatePassword(r) \/ lockTarget(r)
  PROVE  Moves(r)
<1> USE DEF Pc, RotatePc, LoginPc, SelfPc, AdminPc, ClaimedPc, SharePc, WriterPc,
            AllSnapPc, SnapPc
<1> DEFINE pc == IF req[r].pc = "selfVerified" THEN "selfLocked" ELSE "adminLocked"
           D == {f \in Families \ {req[r].sid} : owner[f] = req[r].usr /\ Live(f)}
           q == [req[r] EXCEPT !.pc = pc, !.doomed = D]
<1>0. req[r] \in Request /\ Local(req[r]) /\ \A s \in Requests : req[s] \in Request
  BY DEF IInv, TypeOK, Locals
<1>1. Proceeds(r, q) /\ WriteIsFree(req[r].usr)
  BY DEF updatePassword, lockTarget, LockUser
<1>2. q \in Request
  <2>1. D \in SUBSET Families /\ pc \in Pc
    OBVIOUS
  <2>2. QED
    BY <1>0, <2>1, RequestUpdates
<1>3. Names(q)
  BY <1>0 DEF updatePassword, lockTarget, Local, Names, Request
<1>4. Local(q)
  BY <1>0, <1>3 DEF Local, Request
<1>5. Alone(r, q)
  BY <1>0, <1>1 DEF WriteIsFree, HoldsShare, HoldsNoKeyUpdate, HoldsUpdate, Alone,
                    Clash, Request
<1>6. QED
  BY <1>1, <1>2, <1>4, <1>5, ProceedsMoves

\* The snapshot of revokeAllForUser is taken under that lock.
LEMMA RevokeAllMoves ==
  ASSUME IInv, NEW r \in Requests, revokeOthers(r) \/ adminRevokes(r) PROVE Moves(r)
<1> USE DEF Pc, RotatePc, LoginPc, SelfPc, AdminPc, ClaimedPc, SharePc, WriterPc,
            AllSnapPc, SnapPc
<1> DEFINE pc == IF req[r].pc = "selfLocked" THEN "selfSnap" ELSE "adminSnap"
           T == {t \in UserRows(req[r].usr) \ revoked : family[t] # req[r].sid}
           q == [req[r] EXCEPT !.pc = pc, !.targets = T]
<1>0. /\ req[r] \in Request /\ Local(req[r])
      /\ \A s \in Requests : req[s] \in Request
      /\ \A s \in Requests \ {r} : ~Clash(req[r], req[s]) /\ ~Clash(req[s], req[r])
  BY DEF IInv, TypeOK, Locals, Exclusive
<1>1. Proceeds(r, q)
  BY DEF revokeOthers, adminRevokes, revokeAllStarts, Snapshot
<1>2. T \subseteq Tokens /\ (\A t \in T : Issued(t)) /\ Covers(T)
  BY DEF UserRows, IInv, TypeOK, Issued, Covers
<1>3. q \in Request
  <2>1. T \in SUBSET Tokens /\ pc \in Pc
    BY <1>2
  <2>2. QED
    BY <1>0, <2>1, RequestUpdates
<1>4. Names(q)
  BY <1>0 DEF revokeOthers, adminRevokes, Local, Names, Request
<1>5. \A f \in q.doomed : owner[f] = q.usr /\ f # q.sid
  BY <1>0 DEF revokeOthers, adminRevokes, Local, Request
<1>6. CoversDoomed(q)
  BY <1>0, <1>5 DEF CoversDoomed, UserRows, Request
<1>7. Local(q)
  BY <1>0, <1>2, <1>4, <1>5, <1>6 DEF revokeOthers, adminRevokes, Local, Request
<1>8. Alone(r, q)
  BY <1>0 DEF revokeOthers, adminRevokes, Alone, Clash, Request
<1>9. QED
  BY <1>1, <1>3, <1>7, <1>8, ProceedsMoves

\* Waiting for the advisory lock.
LEMMA GuardMoves ==
  ASSUME IInv, NEW r \in Requests, lockAdminGuard(r) PROVE Moves(r)
<1> DEFINE q == [req[r] EXCEPT !.pc = "guarded"]
<1>0. req[r] \in Request /\ Local(req[r])
  BY DEF IInv, TypeOK, Locals
<1>1. Proceeds(r, q)
  BY DEF lockAdminGuard, Goto
<1>2. q \in Request
  BY <1>0 DEF Request, Pc, AdminPc
<1>3. Local(q) /\ Alone(r, q)
  BY <1>0 DEF lockAdminGuard, Local, Names, Alone, Clash, Request, Pc, RotatePc,
     LoginPc, SelfPc, AdminPc, ClaimedPc, SharePc, WriterPc, AllSnapPc, SnapPc
<1>4. QED
  BY <1>1, <1>2, <1>3, ProceedsMoves

-----------------------------------------------------------------------------
(* Steps that commit: the request is answered and holds nothing any more,  *)
(* and what the others have read must survive the change of the tables.    *)

\* What an answer does to the requests.
LEMMA AnswerRequests ==
  ASSUME IInv, NEW r \in Requests, Answer(r)
  PROVE  /\ req' \in [Requests -> Request] /\ served' \in 0..MaxRequests
         /\ \A s \in Requests : req'[s] = IF s = r THEN Idle ELSE req[s]
         /\ Exclusive'
<1>1. \A s \in Requests : req'[s] = IF s = r THEN Idle ELSE req[s]
  BY DEF Answer, IInv, TypeOK
<1>2. req' \in [Requests -> Request] /\ served' \in 0..MaxRequests
  BY IdleIsQuiet DEF Answer, IInv, TypeOK
<1>3. Exclusive'
  BY <1>1, IdleIsLocal DEF IInv, Exclusive
<1>4. QED
  BY <1>1, <1>2, <1>3

\* It is enough that the other requests' records stay true.
LEMMA AnswerLocals ==
  ASSUME IInv, NEW r \in Requests, Answer(r),
         \A s \in Requests \ {r} : Local(req[s])'
  PROVE  Locals'
<1> SUFFICES ASSUME NEW s \in Requests, s = r PROVE Local(req[s])'
  BY DEF Locals
<1>1. PICK q : q = req'[s] /\ q = Idle
  BY AnswerRequests
<1>2. QED
  BY <1>1, IdleIsQuiet DEF Local, Names, Pc, RotatePc, LoginPc, SelfPc, AdminPc,
     ClaimedPc, WriterPc, AllSnapPc, SnapPc

\* What the rows of T become when r revokes them and commits; if r rotates, its
\* claim is committed along with it.
Revokes(r, T) ==
  /\ RowsAreFree(r, T)
  /\ revoked' = revoked \cup (T \cap rows)
  /\ rows' = rows /\ family' = family /\ owner' = owner /\ replacedBy' = replacedBy
  /\ used' = IF req[r].pc = "inactiveSnap" THEN used \cup {req[r].tok} ELSE used
  /\ \A u \in Users : account'[u] = account[u] \/ (req[r].pc \in WriterPc /\ req[r].usr = u)

\* A revocation waits for the claimed rows of others: their claims stay good.
LEMMA RevocationLocals ==
  ASSUME IInv, NEW r \in Requests, NEW T, Revokes(r, T), Answer(r) PROVE Locals'
<1> SUFFICES ASSUME NEW s \in Requests \ {r} PROVE Local(req[s])'
  BY AnswerLocals
<1>1. PICK q \in Request : q = req[s] /\ q = req'[s] /\ Local(q) /\ ~Clash(req[r], q)
  BY AnswerRequests DEF IInv, TypeOK, Locals, Exclusive
<1>2. Names(q)'
  BY <1>1 DEF Local, Names, Revokes
<1>3. q.pc \in ClaimedPc => Spendable(q.tok)'
  <2>1. q.pc \in ClaimedPc => q.tok \notin T
    BY <1>1 DEF Revokes, RowsAreFree, HoldsToken, ClaimedPc
  <2>2. q.pc \in ClaimedPc => q.tok \notin used'
    BY <1>1 DEF Revokes, Local, Spendable, Clash, ClaimedPc
  <2>3. QED
    BY <1>1, <2>1, <2>2 DEF Revokes, Local, Spendable
<1>4. q.pc = "active" => account'[q.usr] = "active"
  BY <1>1 DEF Revokes, Local, Names, Clash, SharePc, RotatePc
<1>5. q.pc \in SnapPc => (\A t \in q.targets : Issued(t)') /\ Covers(q.targets)'
  <2>1. \A t : Spendable(t)' => Spendable(t)
    BY DEF Revokes, Spendable
  <2>2. QED
    BY <1>1, <2>1 DEF Revokes, Local, Covers, Issued
<1>6. q.pc \in AllSnapPc => CoversDoomed(q)'
  BY <1>1 DEF Revokes, Local, CoversDoomed
<1>7. QED
  BY <1>1, <1>2, <1>3, <1>4, <1>5, <1>6 DEF Local, Names, Revokes, Spendable,
     Covers, CoversDoomed, Issued

\* It revokes a session's head only along with all that the session has.
LEMMA RevocationTables ==
  ASSUME IInv, NEW r \in Requests, NEW T, Revokes(r, T), Covers(T),
         \A t \in T : Issued(t),
         req[r].pc = "inactiveSnap" => req[r].tok \in T /\ Spendable(req[r].tok)
  PROVE  /\ AtMostOneHead' /\ HeadExists' /\ Marked' /\ ChainIsLinked'
         /\ \A f : Live(f)' => Live(f)
<1>1. \A t : Spendable(t)' => Spendable(t)
  BY DEF Revokes, Spendable
<1>2. \A t : Spendable(t) /\ t \notin T => Spendable(t)'
  BY DEF Revokes, Spendable
<1>3. AtMostOneHead'
  BY <1>1 DEF Revokes, IInv, Tables, AtMostOneHead
<1>4. HeadExists'
  <2> SUFFICES ASSUME NEW t \in rows' \ revoked'
               PROVE  \E h \in rows' : Spendable(h)' /\ family'[h] = family'[t]
    BY DEF HeadExists
  <2>1. t \in rows \ revoked /\ t \notin T
    BY DEF Revokes
  <2>2. PICK h \in rows : Spendable(h) /\ family[h] = family[t]
    BY <2>1 DEF IInv, Tables, HeadExists
  <2>3. h \notin T
    BY <2>1, <2>2 DEF Covers
  <2>4. QED
    BY <1>2, <2>2, <2>3 DEF Revokes
<1>5. Marked'
  BY DEF Revokes, IInv, Tables, Marked, Issued
<1>6. ChainIsLinked'
  <2>1. \A t \in (rows' \cap used') \ revoked' : t \in (rows \cap used) \ revoked
    BY DEF Revokes
  <2>2. QED
    BY <2>1 DEF Revokes, IInv, Tables, ChainIsLinked
<1>7. \A f : Live(f)' => Live(f)
  BY DEF Revokes, Live, FamilyRows
<1>8. QED
  BY <1>3, <1>4, <1>5, <1>6, <1>7

\* What is left to show of a revocation: who is marked as ended, and why.
LEMMA RevocationKeeps ==
  ASSUME IInv, NEW r \in Requests, NEW T, Revokes(r, T), Answer(r), Covers(T),
         \A t \in T : Issued(t),
         req[r].pc = "inactiveSnap" => req[r].tok \in T /\ Spendable(req[r].tok),
         password' \in [Users -> Nat], proved' \in [Families -> Nat],
         account' \in [Users -> {"active", "inactive", "deleted"}],
         \A u \in Users : account'[u] = "deleted" => account[u] = "deleted",
         ended' \in [Families -> SUBSET Reasons],
         \A f \in Families : ended'[f] # {} => owner[f] # None,
         \A f \in Families : ended'[f] \cap {"revokeAll", "inactive"} # {} =>
            \/ ended[f] \cap {"revokeAll", "inactive"} # {}
            \/ \A t \in rows \ revoked : family[t] = f => t \in T
  PROVE  IInv'
<1>1. /\ Locals' /\ Exclusive' /\ AtMostOneHead' /\ HeadExists' /\ Marked'
      /\ ChainIsLinked' /\ \A f : Live(f)' => Live(f)
  BY RevocationLocals, RevocationTables, AnswerRequests
<1>2. TypeOK'
  <2>1. used' \subseteq Tokens /\ revoked' \subseteq Tokens
    BY DEF IInv, TypeOK, Revokes, Spendable
  <2>2. rows' \subseteq {t \in Tokens : family'[t] # None}
    BY DEF IInv, TypeOK, Revokes
  <2>3. QED
    BY <2>1, <2>2, AnswerRequests DEF IInv, TypeOK, Revokes
<1>3. EndedWasOpened'
  BY DEF EndedWasOpened, Revokes
<1>4. RevokeAllIsComplete'
  <2> SUFFICES ASSUME NEW f \in Families, ended'[f] \cap {"revokeAll", "inactive"} # {},
                      Live(f)'
               PROVE  FALSE
    BY DEF RevokeAllIsComplete
  <2>1. Live(f)
    BY <1>1
  <2>2. \A t \in rows \ revoked : family[t] = f => t \in T
    BY <2>1 DEF IInv, Tables, RevokeAllIsComplete
  <2>3. QED
    BY <2>2 DEF Live, FamilyRows, Revokes
<1>5. NoOrphanSession'
  BY <1>1 DEF IInv, Tables, NoOrphanSession, Revokes, TypeOK, Marked, Issued, Live,
     FamilyRows
<1>6. QED
  BY <1>1, <1>2, <1>3, <1>4, <1>5 DEF IInv, Tables

\* A reuse, or an inactive owner found by a rotation.
LEMMA RevokeFamilyKeeps ==
  ASSUME IInv, NEW r \in Requests, revokeFamily(r) PROVE IInv'
<1> DEFINE T == req[r].targets
           why == IF req[r].pc = "inactiveSnap" THEN "inactive" ELSE "reuse"
<1>1. req[r] \in Request /\ Local(req[r])
  BY DEF IInv, TypeOK, Locals
<1>2. Covers(T) /\ \A t \in T : Issued(t)
  BY <1>1 DEF Local, revokeFamily, SnapPc
<1>3. req[r].pc = "inactiveSnap" => req[r].tok \in T /\ Spendable(req[r].tok)
  BY <1>1 DEF Local, ClaimedPc
<1>4. Revokes(r, T) /\ Answer(r)
  BY DEF revokeFamily, Revokes
<1>5. /\ req[r].sid \in Families /\ owner[req[r].sid] # None
      /\ family[req[r].tok] = req[r].sid
  BY <1>1, NoneAssumption DEF revokeFamily, Local, Names, RotatePc
<1>6. \A f \in Families : ended'[f] = IF f = req[r].sid THEN ended[f] \cup {why} ELSE ended[f]
  BY DEF revokeFamily, IInv, TypeOK
<1>7. ended' \in [Families -> SUBSET Reasons]
  BY DEF revokeFamily, IInv, TypeOK, Reasons
<1>8. \A f \in Families : ended'[f] # {} => owner[f] # None
  BY <1>5, <1>6 DEF IInv, Tables, EndedWasOpened
<1>9. ASSUME NEW f \in Families, ended'[f] \cap {"revokeAll", "inactive"} # {},
             ended[f] \cap {"revokeAll", "inactive"} = {}
      PROVE  \A t \in rows \ revoked : family[t] = f => t \in T
  <2>1. f = req[r].sid /\ why = "inactive"
    BY <1>6, <1>9
  <2>2. QED
    BY <1>2, <1>3, <1>5, <2>1 DEF Covers
<1>10. /\ password' = password /\ proved' = proved /\ account' = account
  BY DEF revokeFamily
<1>11. QED
  BY <1>2, <1>3, <1>4, <1>7, <1>8, <1>9, <1>10, RevocationKeeps DEF IInv, TypeOK

\* A logout.
LEMMA LogoutKeeps ==
  ASSUME IInv, NEW r \in Requests, logout(r) PROVE IInv'
<1> DEFINE T == req[r].targets
<1>1. req[r] \in Request /\ Local(req[r])
  BY DEF IInv, TypeOK, Locals
<1>2. Covers(T) /\ \A t \in T : Issued(t)
  BY <1>1 DEF Local, logout, SnapPc
<1>3. Revokes(r, T) /\ Answer(r)
  BY DEF logout, Revokes
<1>4. req[r].sid \in Families /\ owner[req[r].sid] # None
  BY <1>1 DEF logout, Local, Names
<1>5. \A f \in Families :
        ended'[f] = IF f = req[r].sid THEN ended[f] \cup {"logout"} ELSE ended[f]
  BY DEF logout, IInv, TypeOK
<1>6. ended' \in [Families -> SUBSET Reasons]
  BY DEF logout, IInv, TypeOK, Reasons
<1>7. \A f \in Families : ended'[f] # {} => owner[f] # None
  BY <1>4, <1>5 DEF IInv, Tables, EndedWasOpened
<1>8. \A f \in Families : ended'[f] \cap {"revokeAll", "inactive"} # {} =>
        ended[f] \cap {"revokeAll", "inactive"} # {}
  BY <1>5
<1>9. password' = password /\ proved' = proved /\ account' = account /\ req[r].pc = "logoutSnap"
  BY DEF logout
<1>10. QED
  BY <1>2, <1>3, <1>6, <1>7, <1>8, <1>9, RevocationKeeps DEF IInv, TypeOK

\* The end of a password change, a deactivation or a role change.
LEMMA RevokeAllKeeps ==
  ASSUME IInv, NEW r \in Requests, commitPassword(r) \/ adminCommits(r) PROVE IInv'
<1> DEFINE T == req[r].targets
<1>1. req[r] \in Request /\ Local(req[r]) /\ req[r].pc \in AllSnapPc
  BY DEF IInv, TypeOK, Locals, commitPassword, adminCommits, AllSnapPc
<1>2. /\ Covers(T) /\ \A t \in T : Issued(t)
      /\ CoversDoomed(req[r]) /\ \A f \in req[r].doomed : owner[f] = req[r].usr
      /\ req[r].usr \in Users /\ req[r].doomed \subseteq Families
  BY <1>1 DEF Local, Names, SnapPc, AllSnapPc, WriterPc, SelfPc, AdminPc, Request
<1>3. /\ account' \in [Users -> {"active", "inactive", "deleted"}]
      /\ \A u \in Users : account'[u] = "deleted" => account[u] = "deleted"
      /\ \A u \in Users : account'[u] = account[u] \/ req[r].usr = u
  BY DEF commitPassword, adminCommits, IInv, TypeOK
<1>4. Revokes(r, T) /\ Answer(r)
  BY <1>1, <1>3 DEF commitPassword, adminCommits, revokeAllForUser, Revokes, AllSnapPc, WriterPc
<1>5. password' \in [Users -> Nat] /\ proved' \in [Families -> Nat]
  BY <1>2 DEF commitPassword, adminCommits, IInv, TypeOK
<1>6. /\ ended' = [f \in Families |->
                     IF f \in req[r].doomed THEN ended[f] \cup {"revokeAll"} ELSE ended[f]]
  BY DEF commitPassword, adminCommits, revokeAllForUser
<1>7. ended' \in [Families -> SUBSET Reasons]
  BY <1>6 DEF IInv, TypeOK, Reasons
<1>8. \A f \in Families : ended'[f] # {} => owner[f] # None
  BY <1>2, <1>6, NoneAssumption DEF IInv, Tables, EndedWasOpened
<1>9. \A f \in Families : ended'[f] \cap {"revokeAll", "inactive"} # {} =>
        \/ ended[f] \cap {"revokeAll", "inactive"} # {}
        \/ \A t \in rows \ revoked : family[t] = f => t \in T
  BY <1>2, <1>6 DEF CoversDoomed
<1>10. QED
  BY <1>1, <1>2, <1>3, <1>4, <1>5, <1>7, <1>8, <1>9, RevocationKeeps DEF AllSnapPc

\* A rotation by r inserts row n: a token that nobody has heard of.
LEMMA RotateLocals ==
  ASSUME IInv, NEW r \in Requests, NEW n \in Tokens, rotate(r, n) PROVE Locals'
<1> SUFFICES ASSUME NEW s \in Requests \ {r} PROVE Local(req[s])'
  BY AnswerLocals DEF rotate
<1> DEFINE t == req[r].tok
<1>1. PICK q \in Request : q = req[s] /\ q = req'[s] /\ Local(q) /\ ~Clash(req[r], q)
  BY AnswerRequests DEF IInv, TypeOK, Locals, Exclusive, rotate
<1>2. /\ req[r].pc = "active" /\ Spendable(t) /\ Names(req[r])
      /\ t \in Tokens /\ req[r].sid \in Families /\ family[t] = req[r].sid
      /\ owner[req[r].sid] = req[r].usr
  BY DEF rotate, IInv, Locals, Local, Names, ClaimedPc, RotatePc
<1>3. /\ ~Issued(n) /\ n # t /\ n \notin rows
      /\ family' = [family EXCEPT ![n] = family[t]] /\ rows' = rows \cup {n}
      /\ used' = used \cup {t} /\ revoked' = revoked /\ owner' = owner
      /\ account' = account
  BY <1>2, NoneAssumption DEF rotate, insertToken, FreshToken, Issued, IInv, TypeOK
<1>4. Names(q)'
  BY <1>1, <1>3, NoneAssumption DEF Local, Names, IInv, TypeOK, Issued
<1>5. q.pc \in ClaimedPc => Spendable(q.tok)'
  BY <1>1, <1>2, <1>3 DEF Local, Spendable, Clash, ClaimedPc
<1>6. q.pc \in SnapPc => \A h \in q.targets : Issued(h) /\ Issued(h)' /\ h # n /\ h \in Tokens
  BY <1>1, <1>3 DEF Local, Issued, Request, IInv, TypeOK
<1>7. q.pc \in SnapPc => Covers(q.targets)'
  <2> SUFFICES ASSUME q.pc \in SnapPc, NEW h \in q.targets, Spendable(h)',
                      NEW t2 \in rows' \ revoked', family'[t2] = family'[h]
               PROVE  t2 \in q.targets
    BY DEF Covers
  <2>1. Spendable(h) /\ h # t /\ h \in Tokens /\ h # n /\ family'[h] = family[h]
    BY <1>3, <1>6 DEF Spendable, IInv, TypeOK
  <2>2. family[h] # family[t]
    BY <1>2, <2>1 DEF IInv, Tables, AtMostOneHead
  <2>3. t2 # n
    BY <1>3, <2>1, <2>2 DEF IInv, TypeOK
  <2>4. t2 \in rows \ revoked /\ family[t2] = family[h]
    BY <1>3, <2>1, <2>3 DEF IInv, TypeOK
  <2>5. QED
    BY <1>1, <2>1, <2>4 DEF Local, Covers
<1>8. q.pc \in AllSnapPc => CoversDoomed(q)'
  <2> SUFFICES ASSUME q.pc \in AllSnapPc, NEW t2 \in rows' \ revoked',
                      family'[t2] \in q.doomed
               PROVE  t2 \in q.targets
    BY DEF CoversDoomed
  <2>1. q.usr # req[r].usr
    BY <1>1, <1>2 DEF Clash, AllSnapPc, WriterPc, SharePc, RotatePc
  <2>2. req[r].sid \notin q.doomed
    BY <1>1, <1>2, <2>1 DEF Local, AllSnapPc, WriterPc
  <2>3. t2 # n
    BY <1>2, <1>3, <2>2 DEF IInv, TypeOK
  <2>4. QED
    BY <1>1, <1>3, <2>3 DEF Local, CoversDoomed, IInv, TypeOK
<1>9. QED
  BY <1>1, <1>3, <1>4, <1>5, <1>6, <1>7, <1>8 DEF Local, Names, Spendable, Covers,
     CoversDoomed, Issued

\* The new row takes over as the head of its session.
LEMMA RotateTables ==
  ASSUME IInv, NEW r \in Requests, NEW n \in Tokens, rotate(r, n)
  PROVE  TypeOK' /\ Tables'
<1> DEFINE t == req[r].tok
<1>1. /\ req[r].pc = "active" /\ Spendable(t) /\ t \in Tokens /\ req[r].sid \in Families
      /\ family[t] = req[r].sid /\ owner[req[r].sid] = req[r].usr /\ req[r].usr \in Users
      /\ account[req[r].usr] = "active"
  BY DEF rotate, IInv, Locals, Local, Names, ClaimedPc, RotatePc
<1>2. /\ family[n] = None /\ n # t /\ n \notin rows
      /\ family' = [family EXCEPT ![n] = family[t]] /\ rows' = rows \cup {n}
      /\ used' = used \cup {t} /\ revoked' = revoked /\ owner' = owner
      /\ replacedBy' = [replacedBy EXCEPT ![t] = n]
      /\ account' = account /\ password' = password /\ proved' = proved /\ ended' = ended
  BY <1>1, NoneAssumption DEF rotate, insertToken, FreshToken, Spendable, history,
                              IInv, TypeOK
<1>3. n \notin used /\ n \notin revoked /\ \A t2 \in Tokens : replacedBy[t2] # n
  BY <1>2, NoneAssumption DEF IInv, Tables, Marked, Issued
<1>4. TypeOK'
  <2>1. req' \in [Requests -> Request] /\ served' \in 0..MaxRequests
    BY AnswerRequests DEF rotate
  <2>2. family' \in [Tokens -> Families \cup {None}]
    BY <1>1, <1>2 DEF IInv, TypeOK
  <2>3. rows' \subseteq {t2 \in Tokens : family'[t2] # None}
    BY <1>1, <1>2, NoneAssumption DEF IInv, TypeOK
  <2>4. QED
    BY <1>1, <1>2, <2>1, <2>2, <2>3 DEF IInv, TypeOK
<1>5. \A t2 \in Tokens : t2 # n => family'[t2] = family[t2]
  BY <1>2 DEF IInv, TypeOK
<1>6. family'[n] = family[t]
  BY <1>2 DEF IInv, TypeOK
<1>7. \A t2 \in Tokens : Spendable(t2)' => t2 = n \/ (Spendable(t2) /\ family[t2] # family[t])
  BY <1>1, <1>2 DEF Spendable, IInv, Tables, AtMostOneHead
<1>8. Spendable(n)'
  BY <1>2, <1>3, <1>1 DEF Spendable
<1>9. AtMostOneHead'
  BY <1>5, <1>6, <1>7 DEF AtMostOneHead, IInv, Tables
<1>10. HeadExists'
  <2> SUFFICES ASSUME NEW t2 \in rows' \ revoked'
               PROVE  \E h \in rows' : Spendable(h)' /\ family'[h] = family'[t2]
    BY DEF HeadExists
  <2>1. CASE family'[t2] = family[t]
    BY <1>2, <1>6, <1>8, <2>1
  <2>2. CASE family'[t2] # family[t]
    <3>1. t2 \in rows \ revoked /\ t2 \in Tokens /\ t2 # n /\ family'[t2] = family[t2]
      BY <1>2, <1>5, <1>6, <2>2 DEF IInv, TypeOK
    <3>2. PICK h \in rows : Spendable(h) /\ family[h] = family[t2]
      BY <3>1 DEF IInv, Tables, HeadExists
    <3>3. h \in Tokens /\ h # n /\ h # t
      BY <1>2, <2>2, <3>1, <3>2 DEF IInv, TypeOK
    <3>4. QED
      BY <1>2, <1>5, <3>1, <3>2, <3>3 DEF Spendable
  <2>3. QED
    BY <2>1, <2>2
<1>11. Marked'
  <2>1. \A t2 \in Tokens : family'[t2] # None => owner'[family'[t2]] # None
    BY <1>1, <1>2, <1>5, <1>6, NoneAssumption DEF Issued, IInv, Tables, Marked
  <2>2. \A t2 \in Tokens : family[t2] # None \/ t2 = n => family'[t2] # None
    BY <1>1, <1>5, <1>6, NoneAssumption
  <2>3. \A t2 \in used' \cup revoked' : family'[t2] # None
    BY <1>1, <1>2, <2>2, NoneAssumption DEF IInv, Tables, Marked, Issued, TypeOK
  <2>4. \A t2 \in Tokens : replacedBy'[t2] # None => family'[replacedBy'[t2]] # None
    BY <1>1, <1>2, <2>2 DEF IInv, Tables, Marked, Issued, TypeOK
  <2>5. QED
    BY <2>1, <2>3, <2>4 DEF Marked, Issued
<1>12. ChainIsLinked'
  <2>1. ASSUME NEW t2 \in (rows' \cap used') \ revoked'
        PROVE  replacedBy'[t2] \in rows' /\ family'[replacedBy'[t2]] = family'[t2]
    <3>1. CASE t2 = t
      BY <1>1, <1>2, <1>5, <1>6, <3>1 DEF IInv, TypeOK
    <3>2. CASE t2 # t
      <4>1. t2 \in (rows \cap used) \ revoked /\ t2 \in Tokens /\ t2 # n
        BY <1>2, <1>3, <3>2 DEF IInv, TypeOK
      <4>2. replacedBy[t2] \in rows /\ family[replacedBy[t2]] = family[t2]
        BY <4>1 DEF IInv, Tables, ChainIsLinked
      <4>3. replacedBy'[t2] = replacedBy[t2] /\ replacedBy[t2] \in Tokens /\ replacedBy[t2] # n
        BY <1>2, <3>2, <4>1, <4>2 DEF IInv, TypeOK
      <4>4. QED
        BY <1>2, <1>5, <4>1, <4>2, <4>3
    <3>3. QED
      BY <3>1, <3>2
  <2>2. ASSUME NEW t1 \in Tokens, NEW t2 \in Tokens,
               replacedBy'[t1] = replacedBy'[t2], replacedBy'[t1] # None
        PROVE  t1 = t2
    BY <1>1, <1>2, <1>3, <2>2 DEF IInv, TypeOK, Tables, ChainIsLinked
  <2>3. QED
    BY <2>1, <2>2 DEF ChainIsLinked
<1>13. \A f \in Families : Live(f)' => Live(f)
  <2> SUFFICES ASSUME NEW f \in Families, Live(f)' PROVE Live(f)
    OBVIOUS
  <2>1. PICK t2 \in rows' \ revoked' : family'[t2] = f
    BY DEF Live, FamilyRows
  <2>2. CASE t2 = n
    BY <1>1, <1>6, <2>1, <2>2 DEF Live, FamilyRows, Spendable
  <2>3. CASE t2 # n
    BY <1>2, <1>5, <2>1, <2>3 DEF Live, FamilyRows, IInv, TypeOK
  <2>4. QED
    BY <2>2, <2>3
<1>14. EndedWasOpened' /\ RevokeAllIsComplete' /\ NoOrphanSession'
  BY <1>2, <1>13 DEF IInv, Tables, EndedWasOpened, RevokeAllIsComplete, NoOrphanSession
<1>15. QED
  BY <1>4, <1>9, <1>10, <1>11, <1>12, <1>14 DEF Tables

\* A login opens family f with token t, both never heard of before.
LEMMA StartSessionKeeps ==
  ASSUME IInv, NEW r \in Requests, NEW f \in Families, NEW t \in Tokens,
         startSession(r, f, t)
  PROVE  IInv'
<1> DEFINE u == req[r].usr
<1>1. u \in Users /\ account[u] # "deleted" /\ req[r].pw \in Nat
  BY DEF startSession, insertToken, ReferenceHolds, IInv, TypeOK, Request, Locals, Local,
         Names, LoginPc
<1>2. /\ family[t] = None /\ owner[f] = None /\ t \notin rows
      /\ family' = [family EXCEPT ![t] = f] /\ owner' = [owner EXCEPT ![f] = u]
      /\ rows' = rows \cup {t} /\ used' = used /\ revoked' = revoked
      /\ replacedBy' = replacedBy /\ account' = account /\ password' = password
      /\ ended' = ended /\ proved' = [proved EXCEPT ![f] = req[r].pw]
  BY DEF startSession, insertToken, FreshToken, FreshFamily, IInv, TypeOK
<1>3. /\ family'[t] = f /\ \A t2 \in Tokens : t2 # t => family'[t2] = family[t2]
      /\ owner'[f] = u /\ \A f2 \in Families : f2 # f => owner'[f2] = owner[f2]
  BY <1>2 DEF IInv, TypeOK
<1>4. /\ \A t2 \in Tokens : family[t2] # f
      /\ t \notin used /\ t \notin revoked /\ \A t2 \in Tokens : replacedBy[t2] # t
  BY <1>2, NoneAssumption DEF IInv, Tables, Marked, Issued
<1>5. \A t2 \in Tokens : t2 # t => (Spendable(t2)' <=> Spendable(t2))
  BY <1>2 DEF Spendable
<1>6. TypeOK'
  <2>1. req' \in [Requests -> Request] /\ served' \in 0..MaxRequests
    BY AnswerRequests DEF startSession
  <2>2. rows' \subseteq {t2 \in Tokens : family'[t2] # None}
    BY <1>2, <1>3, NoneAssumption DEF IInv, TypeOK
  <2>3. /\ family' \in [Tokens -> Families \cup {None}]
        /\ owner' \in [Families -> Users \cup {None}] /\ proved' \in [Families -> Nat]
    BY <1>1, <1>2 DEF IInv, TypeOK
  <2>4. QED
    BY <1>2, <2>1, <2>2, <2>3 DEF IInv, TypeOK
<1>7. Locals'
  <2> SUFFICES ASSUME NEW s \in Requests \ {r} PROVE Local(req[s])'
    BY AnswerLocals DEF startSession
  <2>1. PICK q \in Request : q = req[s] /\ q = req'[s] /\ Local(q)
    BY AnswerRequests DEF IInv, TypeOK, Locals, startSession
  <2>2. Names(q)'
    BY <1>2, <1>3, <2>1, NoneAssumption DEF Local, Names
  <2>3. q.pc \in ClaimedPc => Spendable(q.tok)'
    BY <1>2, <2>1 DEF Local, Spendable
  <2>4. q.pc \in SnapPc => \A h \in q.targets : h \in Tokens /\ h # t /\ family[h] # None
    BY <1>2, <2>1 DEF Local, Issued, Request
  <2>5. q.pc \in SnapPc => Covers(q.targets)'
    <3> SUFFICES ASSUME q.pc \in SnapPc, NEW h \in q.targets, Spendable(h)',
                        NEW t2 \in rows' \ revoked', family'[t2] = family'[h]
                 PROVE  t2 \in q.targets
      BY DEF Covers
    <3>1. Spendable(h) /\ family'[h] = family[h] /\ family[h] # f
      BY <1>3, <1>4, <1>5, <2>4
    <3>2. t2 \in rows \ revoked /\ family[t2] = family[h]
      BY <1>2, <1>3, <3>1 DEF IInv, TypeOK
    <3>3. QED
      BY <2>1, <3>1, <3>2 DEF Local, Covers
  <2>6. q.pc \in WriterPc => \A f2 \in q.doomed : f2 \in Families /\ f2 # f
    BY <1>2, <2>1, NoneAssumption DEF Local, Names, Request, WriterPc, SelfPc, AdminPc
  <2>7. q.pc \in AllSnapPc => CoversDoomed(q)'
    BY <1>2, <1>3, <2>1, <2>6 DEF Local, CoversDoomed, IInv, TypeOK, AllSnapPc, WriterPc
  <2>8. QED
    BY <1>2, <1>3, <2>1, <2>2, <2>3, <2>4, <2>5, <2>6, <2>7 DEF Local, Names, Spendable,
       Covers, CoversDoomed, Issued
<1>8. AtMostOneHead'
  <2>1. \A t2 \in Tokens : Spendable(t2)' /\ t2 # t => Spendable(t2) /\ family'[t2] # f
    BY <1>3, <1>4, <1>5
  <2>2. QED
    BY <1>3, <2>1 DEF AtMostOneHead, IInv, Tables
<1>9. HeadExists'
  <2> SUFFICES ASSUME NEW t2 \in rows' \ revoked'
               PROVE  \E h \in rows' : Spendable(h)' /\ family'[h] = family'[t2]
    BY DEF HeadExists
  <2>1. CASE t2 = t
    BY <1>2, <1>4, <2>1 DEF Spendable
  <2>2. CASE t2 # t
    <3>1. t2 \in rows \ revoked /\ t2 \in Tokens
      BY <1>2, <2>2 DEF IInv, TypeOK
    <3>2. PICK h \in rows : Spendable(h) /\ family[h] = family[t2]
      BY <3>1 DEF IInv, Tables, HeadExists
    <3>3. h \in Tokens /\ h # t
      BY <1>2, <3>2 DEF IInv, TypeOK
    <3>4. QED
      BY <1>2, <1>3, <1>5, <2>2, <3>1, <3>2, <3>3
  <2>3. QED
    BY <2>1, <2>2
<1>10. Marked'
  <2>1. \A t2 \in Tokens : family'[t2] # None => owner'[family'[t2]] # None
    BY <1>1, <1>3, NoneAssumption DEF IInv, TypeOK, Tables, Marked, Issued
  <2>2. \A t2 \in Tokens : family[t2] # None \/ t2 = t => family'[t2] # None
    BY <1>3, NoneAssumption
  <2>3. \A t2 \in used' \cup revoked' : family'[t2] # None
    BY <1>2, <2>2 DEF IInv, Tables, Marked, Issued, TypeOK
  <2>4. \A t2 \in Tokens : replacedBy'[t2] # None => family'[replacedBy'[t2]] # None
    BY <1>2, <2>2 DEF IInv, Tables, Marked, Issued, TypeOK
  <2>5. QED
    BY <2>1, <2>3, <2>4 DEF Marked, Issued
<1>11. ChainIsLinked'
  <2>1. ASSUME NEW t2 \in (rows' \cap used') \ revoked'
        PROVE  replacedBy'[t2] \in rows' /\ family'[replacedBy'[t2]] = family'[t2]
    <3>1. t2 \in (rows \cap used) \ revoked /\ t2 \in Tokens /\ t2 # t
      BY <1>2, <1>4 DEF IInv, TypeOK
    <3>2. replacedBy[t2] \in rows /\ family[replacedBy[t2]] = family[t2]
      BY <3>1 DEF IInv, Tables, ChainIsLinked
    <3>3. replacedBy[t2] \in Tokens /\ replacedBy[t2] # t
      BY <1>4, <3>1, <3>2 DEF IInv, TypeOK
    <3>4. QED
      BY <1>2, <1>3, <3>1, <3>2, <3>3
  <2>2. QED
    BY <1>2, <2>1 DEF ChainIsLinked, IInv, Tables
<1>12. \A f2 \in Families : f2 # f => (Live(f2)' => Live(f2))
  BY <1>2, <1>3 DEF Live, FamilyRows, IInv, TypeOK
<1>13. EndedWasOpened' /\ RevokeAllIsComplete' /\ NoOrphanSession'
  <2>1. ended[f] = {}
    BY <1>2 DEF IInv, Tables, EndedWasOpened
  <2>2. EndedWasOpened'
    BY <1>1, <1>2, <1>3, NoneAssumption DEF EndedWasOpened, IInv, Tables
  <2>3. RevokeAllIsComplete'
    BY <1>2, <1>12, <2>1 DEF RevokeAllIsComplete, IInv, Tables
  <2>4. NoOrphanSession'
    BY <1>1, <1>2, <1>3, <1>12 DEF NoOrphanSession, IInv, Tables
  <2>5. QED
    BY <2>2, <2>3, <2>4
<1>14. QED
  BY <1>6, <1>7, <1>8, <1>9, <1>10, <1>11, <1>13, AnswerRequests
     DEF IInv, Tables, startSession

\* Reactivation, or a deactivation of an inactive user, touches no session.
LEMMA AdminUpdateKeeps ==
  ASSUME IInv, NEW r \in Requests, adminUpdateUser(r) PROVE IInv'
<1>1. /\ req[r].pc = "adminLocked" /\ req[r].usr \in Users
      /\ password' = password /\ rows' = rows /\ family' = family /\ owner' = owner
      /\ used' = used /\ revoked' = revoked /\ replacedBy' = replacedBy
      /\ proved' = proved /\ ended' = ended
      /\ account' = IF req[r].op = "reactivate"
                    THEN [account EXCEPT ![req[r].usr] = "active"] ELSE account
  BY DEF adminUpdateUser, history, IInv, Locals, Local, Names, AdminPc
<1>2. \A u \in Users : account'[u] = account[u] \/ (u = req[r].usr /\ account'[u] = "active")
  BY <1>1 DEF IInv, TypeOK
<1>3. TypeOK' /\ Exclusive'
  <2>1. account' \in [Users -> {"active", "inactive", "deleted"}]
    BY <1>1 DEF IInv, TypeOK
  <2>2. QED
    BY <1>1, <2>1, AnswerRequests DEF adminUpdateUser, IInv, TypeOK
<1>4. Locals'
  <2> SUFFICES ASSUME NEW s \in Requests \ {r} PROVE Local(req[s])'
    BY AnswerLocals DEF adminUpdateUser
  <2>1. PICK q : q = req[s] /\ q = req'[s] /\ Local(q)
    BY AnswerRequests DEF IInv, Locals, adminUpdateUser
  <2>2. q.pc = "active" => account'[q.usr] = "active"
    BY <1>2, <2>1 DEF Local, Names, RotatePc
  <2>3. QED
    BY <1>1, <2>1, <2>2 DEF Local, Names, Spendable, Covers, CoversDoomed, Issued
<1>5. AtMostOneHead' /\ HeadExists' /\ Marked' /\ EndedWasOpened' /\ ChainIsLinked'
  BY <1>1 DEF IInv, Tables, AtMostOneHead, HeadExists, Marked, EndedWasOpened,
              ChainIsLinked, Spendable, Issued
<1>6. RevokeAllIsComplete' /\ NoOrphanSession'
  <2>1. \A f : Live(f)' = Live(f)
    BY <1>1 DEF Live, FamilyRows
  <2>2. \A f \in Families : Live(f) => owner[f] \in Users
    BY DEF Live, FamilyRows, IInv, TypeOK, Tables, Marked, Issued
  <2>3. QED
    BY <1>1, <1>2, <2>1, <2>2 DEF IInv, Tables, RevokeAllIsComplete, NoOrphanSession
<1>7. QED
  BY <1>3, <1>4, <1>5, <1>6 DEF IInv, Tables

\* A deletion takes all rows of the user, none of which another has locked.
LEMMA DeleteKeeps ==
  ASSUME IInv, NEW r \in Requests, deleteUser(r) PROVE IInv'
<1> DEFINE u == req[r].usr
<1>1. /\ req[r].pc = "adminLocked" /\ u \in Users /\ RowsAreFree(r, UserRows(u))
      /\ \A f \in req[r].doomed : owner[f] = u
  BY DEF deleteUser, IInv, Locals, Local, Names, AdminPc, WriterPc
<1>2. /\ rows' = rows \ UserRows(u) /\ account' = [account EXCEPT ![u] = "deleted"]
      /\ password' = password /\ family' = family /\ owner' = owner /\ used' = used
      /\ revoked' = revoked /\ replacedBy' = replacedBy /\ proved' = proved
      /\ ended' = [f \in Families |->
                     IF f \in req[r].doomed THEN ended[f] \cup {"revokeAll"} ELSE ended[f]]
  BY DEF deleteUser
<1>3. \A t \in rows' : t \in rows /\ owner[family[t]] # u
  BY <1>2 DEF UserRows
<1>4. \A t \in rows : owner[family[t]] # u => t \in rows'
  BY <1>2 DEF UserRows
<1>5. TypeOK' /\ Exclusive'
  <2>1. account' \in [Users -> {"active", "inactive", "deleted"}]
    BY <1>2 DEF IInv, TypeOK
  <2>2. ended' \in [Families -> SUBSET Reasons]
    BY <1>2 DEF IInv, TypeOK, Reasons
  <2>3. rows' \subseteq {t \in Tokens : family'[t] # None}
    BY <1>2 DEF IInv, TypeOK
  <2>4. QED
    BY <1>2, <2>1, <2>2, <2>3, AnswerRequests DEF deleteUser, IInv, TypeOK
<1>6. Locals'
  <2> SUFFICES ASSUME NEW s \in Requests \ {r} PROVE Local(req[s])'
    BY AnswerLocals DEF deleteUser
  <2>1. PICK q \in Request : q = req[s] /\ q = req'[s] /\ Local(q) /\ ~Clash(req[r], q)
    BY AnswerRequests DEF IInv, TypeOK, Locals, Exclusive, deleteUser
  <2>2. q.pc \in ClaimedPc => Spendable(q.tok)'
    <3>1. q.pc \in ClaimedPc => q.tok \notin UserRows(u)
      BY <1>1, <2>1 DEF RowsAreFree, HoldsToken, ClaimedPc
    <3>2. QED
      BY <1>2, <2>1, <3>1 DEF Local, Spendable
  <2>3. q.pc = "active" => account'[q.usr] = "active"
    BY <1>1, <1>2, <2>1 DEF Local, Names, Clash, WriterPc, SharePc, RotatePc, IInv, TypeOK
  <2>4. q.pc \in SnapPc => Covers(q.targets)'
    BY <1>2, <2>1 DEF Local, Covers, Spendable
  <2>5. q.pc \in AllSnapPc => CoversDoomed(q)'
    BY <1>2, <2>1 DEF Local, CoversDoomed
  <2>6. QED
    BY <1>2, <2>1, <2>2, <2>3, <2>4, <2>5 DEF Local, Names, Spendable, Covers,
       CoversDoomed, Issued
<1>7. AtMostOneHead' /\ Marked' /\ EndedWasOpened'
  <2>1. EndedWasOpened'
    BY <1>1, <1>2, NoneAssumption DEF IInv, Tables, EndedWasOpened
  <2>2. QED
    BY <1>2, <2>1 DEF IInv, Tables, AtMostOneHead, Marked, Spendable, Issued
<1>8. HeadExists'
  <2> SUFFICES ASSUME NEW t \in rows' \ revoked'
               PROVE  \E h \in rows' : Spendable(h)' /\ family'[h] = family'[t]
    BY DEF HeadExists
  <2>1. PICK h \in rows : Spendable(h) /\ family[h] = family[t]
    BY <1>2, <1>3 DEF IInv, Tables, HeadExists
  <2>2. QED
    BY <1>2, <1>3, <1>4, <2>1 DEF Spendable
<1>9. ChainIsLinked'
  BY <1>2, <1>3, <1>4 DEF IInv, Tables, ChainIsLinked
<1>10. \A f : Live(f)' => Live(f) /\ owner[f] # u
  BY <1>2, <1>3 DEF Live, FamilyRows
<1>11. RevokeAllIsComplete' /\ NoOrphanSession'
  <2>1. \A f \in Families : Live(f) => owner[f] \in Users
    BY DEF Live, FamilyRows, IInv, TypeOK, Tables, Marked, Issued
  <2>2. QED
    BY <1>1, <1>2, <1>10, <2>1 DEF IInv, TypeOK, Tables, RevokeAllIsComplete, NoOrphanSession
<1>12. QED
  BY <1>5, <1>6, <1>7, <1>8, <1>9, <1>11 DEF IInv, Tables

-----------------------------------------------------------------------------
(* All steps together.                                                     *)

Commits(r) ==
  \/ \E f \in Families, t \in Tokens : startSession(r, f, t)
  \/ \E n \in Tokens : rotate(r, n)
  \/ revokeFamily(r) \/ logout(r) \/ commitPassword(r) \/ adminCommits(r)
  \/ adminUpdateUser(r) \/ deleteUser(r)

\* A step of a request either changes no table or commits.
LEMMA StepsOfRequests ==
  ASSUME IInv, NEW r \in Requests, Arrival(r) \/ Step(r) \/ expired(r) \/ rollback(r)
  PROVE  Moves(r) \/ Commits(r)
<1>1. CASE Arrival(r)
  BY <1>1, ArrivalMoves
<1>2. CASE expired(r) \/ rollback(r) \/ startSessionFails(r) \/ ownerIsGone(r)
           \/ notSeen(r) \/ userIsGone(r)
  BY <1>2, GivesUpMoves
     DEF expired, rollback, startSessionFails, ownerIsGone, notSeen, userIsGone
<1>3. CASE Step(r)
  BY <1>2, <1>3, RotateMoves, LockUserMoves, RevokeAllMoves, GuardMoves DEF Step, Commits
<1>4. QED
  BY <1>1, <1>2, <1>3

\* The inductive invariant is kept.
LEMMA NextIInv == IInv /\ [Next]_vars => IInv'
<1> SUFFICES ASSUME IInv, [Next]_vars PROVE IInv'
  OBVIOUS
<1>1. ASSUME NEW r \in Requests, Moves(r) PROVE IInv'
  BY <1>1, MovesKeeps
<1>2. ASSUME NEW r \in Requests, Commits(r) PROVE IInv'
  <2>1. ASSUME NEW n \in Tokens, rotate(r, n) PROVE IInv'
    BY <2>1, RotateLocals, RotateTables, AnswerRequests DEF rotate, IInv
  <2>2. QED
    BY <1>2, <2>1, StartSessionKeeps, RevokeFamilyKeeps, LogoutKeeps, RevokeAllKeeps,
       AdminUpdateKeeps, DeleteKeeps DEF Commits
<1>3. CASE UNCHANGED vars
  <2>1. /\ account' = account /\ password' = password /\ rows' = rows
        /\ family' = family /\ owner' = owner /\ used' = used /\ revoked' = revoked
        /\ replacedBy' = replacedBy /\ proved' = proved /\ ended' = ended
        /\ req' = req /\ served' = served
    BY <1>3 DEF vars
  <2>2. TypeOK' /\ Tables'
    BY <2>1 DEF IInv, TypeOK, Tables, AtMostOneHead, HeadExists, Marked, EndedWasOpened,
       ChainIsLinked, RevokeAllIsComplete, NoOrphanSession, Live, FamilyRows, Spendable,
       Issued
  <2>3. Locals' /\ Exclusive'
    BY <2>1 DEF IInv, Locals, Exclusive, Local, Names, Spendable, Covers, CoversDoomed,
       Issued
  <2>4. QED
    BY <2>2, <2>3 DEF IInv
<1>4. QED
  BY <1>1, <1>2, <1>3, StepsOfRequests DEF Next

\* It holds at every moment.
LEMMA AlwaysIInv == Spec => []IInv
  BY InitIInv, NextIInv, PTL DEF Spec

-----------------------------------------------------------------------------
(* What follows.                                                           *)

\* Tables, requests and history keep their types.
THEOREM Typing == Spec => []TypeOK
<1>1. IInv => TypeOK
  BY DEF IInv
<1>2. QED
  BY AlwaysIInv, <1>1, PTL

\* A live session always has exactly one token that can still be spent,
\* however many rotations, reuses and revocations of it run at once.
THEOREM OneHeadAlways == Spec => []OneHead
<1>1. IInv => OneHead
  <2> SUFFICES ASSUME IInv, NEW f \in Families, Live(f)
               PROVE  \E t \in FamilyRows(f) :
                        /\ Spendable(t)
                        /\ \A t2 \in FamilyRows(f) : Spendable(t2) => t2 = t
    BY DEF OneHead
  <2>1. PICK t \in rows \ revoked : family[t] = f
    BY DEF Live, FamilyRows
  <2>2. PICK h \in rows : Spendable(h) /\ family[h] = family[t]
    BY <2>1 DEF IInv, Tables, HeadExists
  <2>3. QED
    BY <2>1, <2>2 DEF FamilyRows, IInv, TypeOK, Tables, AtMostOneHead
<1>2. QED
  BY AlwaysIInv, <1>1, PTL

\* A spent token always names the row that it was exchanged for.
THEOREM ChainAlwaysLinked == Spec => []ChainIsLinked
<1>1. IInv => ChainIsLinked
  BY DEF IInv, Tables
<1>2. QED
  BY AlwaysIInv, <1>1, PTL

\* A password change, deactivation, role change or deletion leaves none of the
\* sessions live that it found, and none of them becomes live later.
THEOREM RevokeAllAlwaysComplete == Spec => []RevokeAllIsComplete
<1>1. IInv => RevokeAllIsComplete
  BY DEF IInv, Tables
<1>2. QED
  BY AlwaysIInv, <1>1, PTL

\* No session is live whose user has been deleted.
THEOREM NeverOrphaned == Spec => []NoOrphanSession
<1>1. IInv => NoOrphanSession
  BY DEF IInv, Tables
<1>2. QED
  BY AlwaysIInv, <1>1, PTL

\* What every kind of step does to the sessions that exist.
LEMMA SessionsOnlyEnd ==
  ASSUME IInv, [Next]_vars, NEW f \in Families, owner[f] # None
  PROVE  owner'[f] = owner[f] /\ (Live(f)' => Live(f))
<1>1. ASSUME NEW r \in Requests, Moves(r)
      PROVE  owner'[f] = owner[f] /\ (Live(f)' => Live(f))
  BY <1>1 DEF Moves, db, Live, FamilyRows
<1>2. ASSUME NEW r \in Requests, Commits(r)
      PROVE  owner'[f] = owner[f] /\ (Live(f)' => Live(f))
  <2>1. ASSUME NEW g \in Families, NEW t \in Tokens, startSession(r, g, t)
        PROVE  owner'[f] = owner[f] /\ (Live(f)' => Live(f))
    <3>1. /\ family[t] = None /\ owner[g] = None /\ t \notin rows
          /\ family' = [family EXCEPT ![t] = g] /\ rows' = rows \cup {t}
          /\ owner' = [owner EXCEPT ![g] = req[r].usr] /\ revoked' = revoked
      BY <2>1 DEF startSession, insertToken, FreshToken, FreshFamily, IInv, TypeOK
    <3>2. QED
      BY <3>1 DEF Live, FamilyRows, IInv, TypeOK
  <2>2. ASSUME NEW n \in Tokens, rotate(r, n)
        PROVE  owner'[f] = owner[f] /\ (Live(f)' => Live(f))
    <3>1. /\ family[n] = None /\ n \notin rows /\ owner' = owner /\ revoked' = revoked
          /\ family' = [family EXCEPT ![n] = family[req[r].tok]] /\ rows' = rows \cup {n}
      BY <2>2 DEF rotate, insertToken, FreshToken, IInv, TypeOK
    <3>2. Spendable(req[r].tok)
      BY <2>2 DEF rotate, IInv, Locals, Local, ClaimedPc
    <3>3. QED
      BY <3>1, <3>2 DEF Live, FamilyRows, Spendable, IInv, TypeOK
  <2>3. CASE revokeFamily(r) \/ logout(r) \/ commitPassword(r) \/ adminCommits(r)
             \/ adminUpdateUser(r) \/ deleteUser(r)
    <3>1. /\ owner' = owner /\ family' = family /\ rows' \subseteq rows
          /\ revoked \subseteq revoked'
      BY <2>3 DEF revokeFamily, logout, commitPassword, adminCommits, revokeAllForUser,
         adminUpdateUser, deleteUser
    <3>2. QED
      BY <3>1 DEF Live, FamilyRows
  <2>4. QED
    BY <1>2, <2>1, <2>2, <2>3 DEF Commits
<1>3. CASE UNCHANGED vars
  BY <1>3 DEF vars, Live, FamilyRows
<1>4. QED
  BY <1>1, <1>2, <1>3, StepsOfRequests DEF Next

\* A session that has ended never becomes live again, whatever a rotation of it
\* had read before.
THEOREM RevocationAlwaysFinal == Spec => RevocationIsFinal
<1>1. IInv /\ [Next]_vars => \A f \in Families : Dead(f) => Dead(f)'
  BY SessionsOnlyEnd DEF Dead
<1>2. QED
  BY AlwaysIInv, <1>1, PTL DEF Spec, RevocationIsFinal

\* A running session gets a new token only while its user is active.
THEOREM NeverMintsForInactive == Spec => NoMintForInactive
<1>1. ASSUME IInv, [Next]_vars, NEW f \in Families, owner[f] # None,
             NEW t \in rows' \ rows, family'[t] = f
      PROVE  account[owner[f]] = "active"
  <2>1. PICK r \in Requests : \/ \E g \in Families, n \in Tokens : startSession(r, g, n)
                              \/ \E n \in Tokens : rotate(r, n)
    <3>1. ASSUME NEW r \in Requests, Moves(r) PROVE FALSE
      BY <1>1, <3>1 DEF Moves, db
    <3>2. ASSUME NEW r \in Requests,
                 revokeFamily(r) \/ logout(r) \/ commitPassword(r) \/ adminCommits(r)
                 \/ adminUpdateUser(r) \/ deleteUser(r)
          PROVE  FALSE
      BY <1>1, <3>2 DEF revokeFamily, logout, commitPassword, adminCommits,
         adminUpdateUser, deleteUser
    <3>3. CASE UNCHANGED vars
      BY <1>1, <3>3 DEF vars
    <3>4. QED
      BY <1>1, <3>1, <3>2, <3>3, StepsOfRequests DEF Next, Commits
  <2>2. ASSUME NEW g \in Families, NEW n \in Tokens, startSession(r, g, n) PROVE FALSE
    <3>1. t = n /\ family'[t] = g /\ owner[g] = None
      BY <1>1, <2>2 DEF startSession, insertToken, FreshFamily, IInv, TypeOK
    <3>2. QED
      BY <1>1, <3>1
  <2>3. ASSUME NEW n \in Tokens, rotate(r, n) PROVE account[owner[f]] = "active"
    <3>1. /\ rows' = rows \cup {n} /\ family' = [family EXCEPT ![n] = family[req[r].tok]]
          /\ family \in [Tokens -> Families \cup {None}]
      BY <1>1, <2>3 DEF rotate, insertToken, IInv, TypeOK
    <3>2. /\ family[req[r].tok] = req[r].sid /\ owner[req[r].sid] = req[r].usr
          /\ account[req[r].usr] = "active"
      BY <1>1, <2>3 DEF rotate, IInv, Locals, Local, Names, RotatePc
    <3>3. t = n /\ family'[t] = family[req[r].tok]
      BY <1>1, <3>1
    <3>4. QED
      BY <1>1, <3>2, <3>3
  <2>4. QED
    BY <2>1, <2>2, <2>3
<1>2. IInv /\ [Next]_vars =>
        \A f \in Families :
          /\ owner[f] # None
          /\ \E t \in rows' \ rows : family'[t] = f
          => account[owner[f]] = "active"
  BY <1>1
<1>3. QED
  BY AlwaysIInv, <1>2, PTL DEF Spec, NoMintForInactive

-----------------------------------------------------------------------------
(* The tables implement the abstract life cycle of a session.              *)

\* The head of a live session is its one spendable row; others have none.
HeadsAre ==
  \A f \in Families :
    /\ Live(f) => /\ headBar[f] \in rows /\ family[headBar[f]] = f /\ Spendable(headBar[f])
                  /\ \A t \in rows : Spendable(t) /\ family[t] = f => t = headBar[f]
    /\ ~Live(f) => headBar[f] = None

\* That is what headBar chooses.
LEMMA HeadsAreHeads == IInv => HeadsAre
<1> SUFFICES ASSUME IInv, NEW f \in Families
             PROVE  /\ Live(f) =>
                         /\ headBar[f] \in rows /\ family[headBar[f]] = f
                         /\ Spendable(headBar[f])
                         /\ \A t \in rows : Spendable(t) /\ family[t] = f => t = headBar[f]
                    /\ ~Live(f) => headBar[f] = None
  BY DEF HeadsAre
<1>1. ASSUME Live(f) PROVE \E t \in FamilyRows(f) : Spendable(t)
  BY <1>1 DEF Live, FamilyRows, IInv, Tables, HeadExists
<1>2. ASSUME NEW t \in FamilyRows(f), Spendable(t) PROVE Live(f)
  BY <1>2 DEF Live, Spendable
<1>3. CASE Live(f)
  <2>1. headBar[f] = CHOOSE t \in FamilyRows(f) : Spendable(t)
    BY <1>1, <1>3 DEF headBar
  <2>2. headBar[f] \in FamilyRows(f) /\ Spendable(headBar[f])
    BY <1>1, <1>3, <2>1
  <2>3. QED
    BY <1>3, <2>2 DEF FamilyRows, IInv, TypeOK, Tables, AtMostOneHead
<1>4. CASE ~Live(f)
  BY <1>2, <1>4 DEF headBar
<1>5. QED
  BY <1>3, <1>4

\* Empty tables are a system without sessions.
LEMMA InitRefines == Init => SessionFamily!Init
<1> SUFFICES ASSUME Init PROVE SessionFamily!Init
  OBVIOUS
<1>1. stateBar = [f \in Families |-> "none"]
  BY DEF Init, stateBar
<1>2. headBar = [f \in Families |-> None]
  BY DEF Init, headBar, FamilyRows
<1>3. issuedBar = {}
  BY DEF Init, issuedBar
<1>4. QED
  BY <1>1, <1>2, <1>3 DEF SessionFamily!Init

\* A step that only takes rows away, spends or revokes them, ends the sessions
\* that have none left.
LEMMA EndRefines ==
  ASSUME HeadsAre, HeadsAre', IInv, family' = family, owner' = owner, rows' \subseteq rows,
         revoked \subseteq revoked', used \subseteq used',
         NEW F \in SUBSET Families, \A f \in Families : f \in F <=> Live(f) /\ ~Live(f)'
  PROVE  SessionFamily!End(F)
<1>1. \A t : Spendable(t)' => Spendable(t)
  BY DEF Spendable
<1>2. \A f : Live(f)' => Live(f)
  BY DEF Live, FamilyRows
<1>3. \A f \in Families : Live(f) => owner[f] # None
  BY DEF Live, FamilyRows, IInv, TypeOK, Tables, Marked, Issued
<1>4. \A f \in F : stateBar[f] = "live"
  BY <1>3 DEF stateBar
<1>5. stateBar' = [f \in Families |-> IF f \in F THEN "ended" ELSE stateBar[f]]
  BY <1>2, <1>3 DEF stateBar
<1>6. ASSUME NEW f \in Families
      PROVE  headBar'[f] = IF f \in F THEN None ELSE headBar[f]
  <2>1. CASE Live(f)'
    <3>1. (headBar[f] \in rows /\ family[headBar[f]] = f /\ Spendable(headBar[f]))'
      BY <2>1 DEF HeadsAre
    <3>2. PICK h : h = headBar'[f] /\ h \in rows /\ family[h] = f /\ Spendable(h)
      BY <3>1 DEF Spendable
    <3>3. QED
      BY <1>2, <2>1, <3>2 DEF HeadsAre
  <2>2. CASE ~Live(f)'
    BY <2>2 DEF HeadsAre
  <2>3. QED
    BY <2>1, <2>2
<1>7. headBar' = [f \in Families |-> IF f \in F THEN None ELSE headBar[f]]
  BY <1>6 DEF headBar
<1>8. issuedBar' = issuedBar
  BY DEF issuedBar
<1>9. QED
  BY <1>4, <1>5, <1>7, <1>8 DEF SessionFamily!End

\* A login opens a session.
LEMMA OpenRefines ==
  ASSUME HeadsAre, HeadsAre', IInv, NEW r \in Requests, NEW f \in Families,
         NEW t \in Tokens, startSession(r, f, t)
  PROVE  SessionFamily!Open(f, t)
<1>1. /\ family[t] = None /\ owner[f] = None /\ t \notin rows /\ req[r].usr \in Users
      /\ family' = [family EXCEPT ![t] = f] /\ owner' = [owner EXCEPT ![f] = req[r].usr]
      /\ rows' = rows \cup {t} /\ used' = used /\ revoked' = revoked
  BY DEF startSession, insertToken, FreshToken, FreshFamily, IInv, TypeOK, Locals, Local,
         Names, LoginPc
<1>2. t \notin used /\ t \notin revoked /\ \A t2 \in Tokens : family[t2] # f
  BY <1>1, NoneAssumption DEF IInv, Tables, Marked, Issued
<1>3. /\ family'[t] = f /\ \A t2 \in Tokens : t2 # t => family'[t2] = family[t2]
      /\ owner'[f] # None /\ \A g \in Families : g # f => owner'[g] = owner[g]
  BY <1>1, NoneAssumption DEF IInv, TypeOK
<1>4. Live(f)' /\ ~Live(f) /\ \A g \in Families : g # f => (Live(g)' <=> Live(g))
  BY <1>1, <1>2, <1>3, NoneAssumption DEF Live, FamilyRows, IInv, TypeOK
<1>5. stateBar[f] = "none" /\ stateBar' = [stateBar EXCEPT ![f] = "live"]
  BY <1>1, <1>3, <1>4 DEF stateBar
<1>6. headBar'[f] = t
  BY <1>1, <1>2, <1>3, <1>4 DEF HeadsAre, Spendable
<1>7. ASSUME NEW g \in Families, g # f PROVE headBar'[g] = headBar[g]
  <2>1. CASE Live(g)'
    <3>1. PICK h : /\ h = headBar'[g] /\ h \in rows' /\ family'[h] = g
                   /\ Spendable(h)'
      BY <2>1 DEF HeadsAre, Spendable
    <3>2. h # t /\ h \in rows /\ h \in Tokens /\ family[h] = g /\ Spendable(h)
      BY <1>1, <1>3, <1>7, <3>1 DEF Spendable, IInv, TypeOK
    <3>3. QED
      BY <1>4, <1>7, <2>1, <3>1, <3>2 DEF HeadsAre
  <2>2. CASE ~Live(g)'
    BY <1>4, <1>7, <2>2 DEF HeadsAre
  <2>3. QED
    BY <2>1, <2>2
<1>8. headBar' = [headBar EXCEPT ![f] = t]
  BY <1>6, <1>7 DEF headBar
<1>9. SessionFamily!Fresh(t) /\ issuedBar' = issuedBar \cup {t}
  BY <1>1, <1>3, NoneAssumption DEF SessionFamily!Fresh, issuedBar
<1>10. QED
  BY <1>5, <1>8, <1>9 DEF SessionFamily!Open

\* A rotation moves its session on to the next token.
LEMMA AdvanceRefines ==
  ASSUME HeadsAre, HeadsAre', IInv, NEW r \in Requests, NEW n \in Tokens, rotate(r, n)
  PROVE  \E f \in Families : SessionFamily!Advance(f, n)
<1>0. PICK t, f : t = req[r].tok /\ f = req[r].sid
  OBVIOUS
<1>1. Spendable(t) /\ t \in Tokens /\ f \in Families /\ family[t] = f
  BY <1>0 DEF rotate, IInv, Locals, Local, Names, ClaimedPc, RotatePc
<1>2. /\ family[n] = None /\ n \notin rows /\ family' = [family EXCEPT ![n] = f]
      /\ rows' = rows \cup {n} /\ used' = used \cup {t} /\ revoked' = revoked
      /\ owner' = owner
  BY <1>0, <1>1 DEF rotate, insertToken, FreshToken, IInv, TypeOK
<1>3. n # t /\ n \notin used /\ n \notin revoked
  BY <1>1, <1>2 DEF IInv, Tables, Marked, Issued, Spendable
<1>4. family'[n] = f /\ \A t2 \in Tokens : t2 # n => family'[t2] = family[t2]
  BY <1>2 DEF IInv, TypeOK
<1>5. Live(f)
  BY <1>1 DEF Live, FamilyRows, Spendable
<1>6. Live(f)' /\ \A g \in Families : g # f => (Live(g)' <=> Live(g))
  BY <1>1, <1>2, <1>3, <1>4 DEF Live, FamilyRows, IInv, TypeOK
<1>7. owner[f] # None
  BY <1>1, NoneAssumption DEF IInv, Tables, Marked, Issued
<1>8. stateBar[f] = "live" /\ stateBar' = stateBar
  BY <1>1, <1>2, <1>5, <1>6, <1>7 DEF stateBar
<1>9. headBar'[f] = n
  BY <1>1, <1>2, <1>3, <1>4, <1>6 DEF HeadsAre, Spendable
<1>10. ASSUME NEW g \in Families, g # f PROVE headBar'[g] = headBar[g]
  <2>1. CASE Live(g)'
    <3>1. PICK h : h = headBar'[g] /\ h \in rows' /\ family'[h] = g /\ Spendable(h)'
      BY <2>1 DEF HeadsAre, Spendable
    <3>2. h # n /\ h \in rows /\ h \in Tokens /\ family[h] = g /\ Spendable(h)
      BY <1>2, <1>4, <1>10, <3>1 DEF Spendable, IInv, TypeOK
    <3>3. QED
      BY <1>6, <1>10, <2>1, <3>1, <3>2 DEF HeadsAre
  <2>2. CASE ~Live(g)'
    BY <1>6, <1>10, <2>2 DEF HeadsAre
  <2>3. QED
    BY <2>1, <2>2
<1>11. headBar' = [headBar EXCEPT ![f] = n]
  BY <1>9, <1>10 DEF headBar
<1>12. SessionFamily!Fresh(n) /\ issuedBar' = issuedBar \cup {n}
  BY <1>1, <1>2, <1>4, NoneAssumption DEF SessionFamily!Fresh, issuedBar
<1>13. QED
  BY <1>1, <1>8, <1>11, <1>12 DEF SessionFamily!Advance

\* Every step opens, advances or ends sessions, or changes none.
LEMMA NextRefines ==
  ASSUME IInv, HeadsAre, HeadsAre', [Next]_vars
  PROVE  [SessionFamily!Next]_(SessionFamily!vars)
<1>1. ASSUME family' = family, owner' = owner, rows' = rows, used' = used,
             revoked' = revoked
      PROVE  UNCHANGED SessionFamily!vars
  <2>1. stateBar' = stateBar /\ issuedBar' = issuedBar
    BY <1>1 DEF stateBar, issuedBar, Live, FamilyRows
  <2>2. headBar' = headBar
    BY <1>1 DEF headBar, Spendable, FamilyRows
  <2>3. QED
    BY <2>1, <2>2 DEF SessionFamily!vars
<1>2. CASE UNCHANGED vars
  BY <1>1, <1>2 DEF vars
<1>3. ASSUME NEW r \in Requests, Moves(r) PROVE UNCHANGED SessionFamily!vars
  BY <1>1, <1>3 DEF Moves, db
<1>4. ASSUME NEW r \in Requests, Commits(r) PROVE SessionFamily!Next
  <2>1. ASSUME NEW f \in Families, NEW t \in Tokens, startSession(r, f, t)
        PROVE  SessionFamily!Next
    BY <2>1, OpenRefines DEF SessionFamily!Next
  <2>2. ASSUME NEW n \in Tokens, rotate(r, n) PROVE SessionFamily!Next
    BY <2>2, AdvanceRefines DEF SessionFamily!Next
  <2>3. CASE revokeFamily(r) \/ logout(r) \/ commitPassword(r) \/ adminCommits(r)
             \/ adminUpdateUser(r) \/ deleteUser(r)
    <3>1. /\ owner' = owner /\ family' = family /\ rows' \subseteq rows
          /\ revoked \subseteq revoked' /\ used \subseteq used'
      BY <2>3 DEF revokeFamily, logout, commitPassword, adminCommits, revokeAllForUser,
         adminUpdateUser, deleteUser
    <3>2. PICK F \in SUBSET Families : \A f \in Families : f \in F <=> Live(f) /\ ~Live(f)'
      <4>1. {f \in Families : Live(f) /\ ~Live(f)'} \in SUBSET Families
        OBVIOUS
      <4>2. QED
        BY <4>1
    <3>3. SessionFamily!End(F)
      BY <3>1, <3>2, EndRefines
    <3>4. QED
      BY <3>3 DEF SessionFamily!Next
  <2>4. QED
    BY <1>4, <2>1, <2>2, <2>3 DEF Commits
<1>5. QED
  BY <1>2, <1>3, <1>4, StepsOfRequests DEF Next

\* Statements, locks and rows implement a set of sessions that are opened once,
\* move from one fresh token to the next, and end for good.
THEOREM Refinement == Spec => ImplementsSessionFamily
<1>1. IInv /\ IInv' /\ [Next]_vars => [SessionFamily!Next]_(SessionFamily!vars)
  <2>1. IInv => HeadsAre
    BY HeadsAreHeads
  <2>2. IInv' => HeadsAre'
    BY HeadsAreHeads, PTL
  <2>3. QED
    BY <2>1, <2>2, NextRefines
<1>2. QED
  BY <1>1, InitRefines, AlwaysIInv, PTL DEF Spec, ImplementsSessionFamily, SessionFamily!Spec
=============================================================================
