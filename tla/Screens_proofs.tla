---------------------------- MODULE Screens_proofs ----------------------------
(***************************************************************************)
(* Proofs about UsersScreen and RolesScreen, for any list and any number   *)
(* of requests under way, clicks and failures.                             *)
(***************************************************************************)
EXTENDS UsersScreen, RolesScreen, TLAPS, FiniteSetTheorems, SequenceTheorems

Active(c) == userCalls[c].op # "none"

\* A deletion and the reload after it keep the button disabled, and are one at a time.
Deletion == \A c, d \in Under({"delete", "reload"}) : c = d /\ isDeleting

\* The row as a change that is under way will leave it.
Replaced(q) == IF q.status = "answered" /\ data.item = q.user
               THEN [data EXCEPT !.shown = q.answer.shown] ELSE data

\* When the only request under way has been handled without a failure, the screen will be
\* current.
Fresh(c) ==
  LET q == userCalls[c]
  IN /\ q.op \in {"list", "reload", "delete"} => q.page = page
     /\ q.op = "list" => isLoading
     /\ q.op \in {"list", "reload"} /\ q.status = "answered" => q.answer = ListPage(page)
     /\ q.op \in {"toggle", "roles"} /\ q.status # "failed" => Replaced(q) = ListPage(page)

\* As long as nothing excuses the screen, there is one request at a time.
OneByOne ==
  ~excused => /\ (\A c \in UserCalls : ~Active(c)) => data = ListPage(page)
              /\ \A c, d \in UserCalls : Active(c) /\ Active(d) => c = d
              /\ \A c \in UserCalls : Active(c) => Fresh(c)

\* What loads a page, now or later, has one to load.
Paged == \A c \in UserCalls :
           userCalls[c].op \in {"list", "reload", "delete"} => userCalls[c].page # 0

\* The inductive invariant of the users screen.
UsersInv == ScreenTypeOK /\ Paged /\ Deletion /\ OneByOne

-----------------------------------------------------------------------------
(* Lists and records.                                                      *)

LEMMA SetToSeqTypes == SetToSeq(Rows) \in Seq(Rows)
<1>1. IsFiniteSet(Rows)
  BY ScreenAssumption
<1>2. Cardinality(Rows) \in Nat /\ ExistsBijection(1 .. Cardinality(Rows), Rows)
  BY <1>1, FS_CardinalityType
<1>3. \E f \in [1 .. Cardinality(Rows) -> Rows] : IsInjective(f)
  BY <1>2 DEF ExistsBijection, Bijection, Injection, IsInjective
<1>4. SetToSeq(Rows) \in [1 .. Cardinality(Rows) -> Rows]
  BY <1>3 DEF SetToSeq
<1> QED
  BY <1>2, <1>4

LEMMA RemoveAtTypes ==
  ASSUME NEW S, NEW q \in Seq(S), NEW i \in 1 .. Len(q)
  PROVE  RemoveAt(q, i) \in Seq(S)
<1>1. Len(q) \in Nat /\ \A j \in 1 .. Len(q) : q[j] \in S
  BY ElementOfSeq
<1>2. SubSeq(q, 1, i - 1) \in Seq(S)
  <2>1. 1 \in Int /\ i - 1 \in Int /\ \A j \in 1 .. i - 1 : q[j] \in S
    BY <1>1
  <2> QED
    BY <2>1, SubSeqProperties
<1>3. SubSeq(q, i + 1, Len(q)) \in Seq(S)
  <2>1. i + 1 \in Int /\ Len(q) \in Int /\ \A j \in i + 1 .. Len(q) : q[j] \in S
    BY <1>1
  <2> QED
    BY <2>1, SubSeqProperties
<1> QED
  BY <1>2, <1>3, ConcatProperties DEF RemoveAt

LEMMA ListPageTypes ==
  ASSUME ScreenTypeOK, NEW p \in Nat \ {0}
  PROVE  ListPage(p) \in Pages
<1>1. Len(users) \in Nat /\ \A j \in 1 .. Len(users) : users[j] \in Rows
  BY ElementOfSeq DEF ScreenTypeOK
<1>2. CASE p > Len(users)
  <2>1. NoData \in Pages /\ p \in Nat /\ Len(users) \in Nat
    BY <1>1 DEF NoData, Pages, Profiles
  <2>2. [NoData EXCEPT !.currentPage = p, !.totalPages = Len(users)] \in Pages
    BY <2>1 DEF Pages
  <2> QED
    BY <1>2, <2>2 DEF ListPage
<1>3. CASE ~(p > Len(users))
  <2>1. users[p] \in Rows
    BY <1>1, <1>3
  <2>2. profile[users[p]] \in Profiles
    BY <2>1 DEF ScreenTypeOK
  <2> QED
    BY <1>1, <1>3, <2>1, <2>2 DEF ListPage, Pages
<1> QED
  BY <1>2, <1>3

LEMMA NoCallTypes == NoCall \in Call /\ NoData \in Pages /\ NoData.shown \in Profiles
BY DEF NoCall, Call, NoData, Pages, Profiles, Ops

-----------------------------------------------------------------------------
(* Steps that send.                                                        *)

LEMMA SendsTypes ==
  ASSUME ScreenTypeOK, NEW c \in UserCalls, NEW op \in Ops, NEW p \in Nat,
         NEW u \in Rows \cup {NoRow}, NEW body \in Profiles, Sends(c, op, p, u, body)
  PROVE  /\ userCalls' \in [UserCalls -> Call]
         /\ userCalls'[c].op = op /\ userCalls'[c].page = p /\ userCalls'[c].user = u
         /\ userCalls'[c].status = "sent"
         /\ \A d \in UserCalls \ {c} : userCalls'[d] = userCalls[d]
<1> DEFINE q == [NoCall EXCEPT !.op = op, !.page = p, !.user = u, !.body = body,
                               !.inDialog = op = "roles"]
<1>1. q \in Call /\ q.op = op /\ q.page = p /\ q.user = u /\ q.status = "sent"
  BY NoCallTypes DEF NoCall, Call
<1>2. userCalls' = [userCalls EXCEPT ![c] = q]
  BY DEF Sends
<1> HIDE DEF q
<1> QED
  BY <1>1, <1>2 DEF ScreenTypeOK

\* A click that changes the list, sent while something else is under way, excuses the
\* screen; sent alone it leaves one request.
LEMMA ClickKeeps ==
  ASSUME UsersInv, ScreenTypeOK', NEW c \in UserCalls, ~Active(c), NEW op \in Writes,
         NEW p \in Nat, NEW u \in Rows \cup {NoRow}, NEW body \in Profiles,
         Sends(c, op, p, u, body), op = "delete" => p = page /\ isDeleting' /\ ~isDeleting,
         excused' = (Excused(FALSE) \/ Under({"list"}) # {}),
         UNCHANGED <<users, profile, page, data, isLoading>>,
         isDeleting => isDeleting'
  PROVE  UsersInv'
<1>1. /\ userCalls'[c].op = op /\ userCalls'[c].page = p /\ userCalls'[c].status = "sent"
      /\ \A d \in UserCalls \ {c} : userCalls'[d] = userCalls[d]
  BY SendsTypes DEF UsersInv, Writes, Ops
<1>2. Deletion'
  <2>1. \A d \in UserCalls \ {c} : d \in Under({"delete", "reload"})' <=>
                                   d \in Under({"delete", "reload"})
    BY <1>1 DEF Under
  <2>2. op # "delete" => Under({"delete", "reload"})' \subseteq Under({"delete", "reload"})
    BY <1>1 DEF Under, Writes
  <2>3. op = "delete" => Under({"delete", "reload"}) = {}
    BY DEF UsersInv, Deletion
  <2>4. Under({"delete", "reload"})' \subseteq UserCalls
    BY DEF Under
  <2>5. CASE op = "delete"
    <3>1. Under({"delete", "reload"})' \subseteq {c}
      BY <2>1, <2>3, <2>4, <2>5
    <3> QED
      BY <2>5, <3>1 DEF Deletion
  <2>6. CASE op # "delete"
    BY <2>2, <2>6 DEF UsersInv, Deletion
  <2> QED
    BY <2>5, <2>6
<1>3. OneByOne'
  <2> SUFFICES ASSUME ~excused'
               PROVE  /\ \A d \in UserCalls \ {c} : ~Active(d)'
                      /\ Active(c)' /\ Fresh(c)'
    BY DEF OneByOne
  <2>1. ~excused /\ Under({"reload"} \cup Writes) = {} /\ Under({"list"}) = {}
    BY DEF Excused
  <2>2. \A d \in UserCalls : ~Active(d)
    BY <2>1 DEF Under, Active, Writes, UsersInv, ScreenTypeOK, Call, Ops
  <2>3. data = ListPage(page)
    BY <2>1, <2>2 DEF UsersInv, OneByOne
  <2>4. ListPage(page)' = ListPage(page)
    BY DEF ListPage
  <2>5. Fresh(c)'
    BY <1>1, <2>3, <2>4 DEF Fresh, Replaced, Writes
  <2> QED
    BY <1>1, <2>2, <2>5 DEF Active, Writes
<1>4. Paged'
  BY <1>1 DEF UsersInv, Paged, ScreenTypeOK, Writes
<1> QED
  BY <1>2, <1>3, <1>4 DEF UsersInv

\* What happens to dialogs and to history, and answers that are lost, change nothing of
\* the requests that the invariant speaks of.
LEMMA CallsStay ==
  ASSUME UsersInv, ScreenTypeOK',
         \A c \in UserCalls :
           /\ userCalls'[c].op = userCalls[c].op /\ userCalls'[c].page = userCalls[c].page
           /\ userCalls'[c].user = userCalls[c].user
           /\ \/ userCalls'[c].status = "failed"
              \/ /\ userCalls'[c].status = userCalls[c].status
                 /\ userCalls'[c].answer = userCalls[c].answer,
         UNCHANGED <<users, profile, page, data, isLoading, isDeleting, excused>>
  PROVE  UsersInv'
<1>1. ListPage(page)' = ListPage(page)
  BY DEF ListPage
<1>2. Deletion'
  BY DEF UsersInv, Deletion, Under
<1>3. \A c \in UserCalls : Active(c)' <=> Active(c)
  BY DEF Active
<1>4. \A c \in UserCalls : Fresh(c) => Fresh(c)'
  BY <1>1 DEF Fresh, Replaced
<1>5. OneByOne'
  BY <1>1, <1>3, <1>4 DEF UsersInv, OneByOne
<1>6. Paged'
  BY DEF UsersInv, Paged
<1> QED
  BY <1>2, <1>5, <1>6 DEF UsersInv

-----------------------------------------------------------------------------
(* The actions of the users screen.                                        *)

LEMMA TurnKeeps ==
  ASSUME UsersInv, NEW c \in UserCalls, NEW p \in {page - 1, page + 1}, setPage(c, p)
  PROVE  UsersInv'
<1>1. /\ p >= 1 /\ page' = p /\ isLoading = FALSE /\ isLoading' = TRUE
      /\ Clicks(c) /\ Sends(c, "list", p, NoRow, NoData.shown) /\ excused' = Excused(TRUE)
      /\ UNCHANGED <<users, profile, data, isDeleting, pendingDelete, rolesDialog, errors>>
  BY DEF setPage, turnsPage, UsersInv, ScreenTypeOK
<1>2. ScreenTypeOK
  BY DEF UsersInv
<1>3. p \in Nat \ {0}
  BY <1>1, <1>2 DEF ScreenTypeOK
<1>4. /\ userCalls' \in [UserCalls -> Call]
      /\ userCalls'[c].op = "list" /\ userCalls'[c].page = p /\ userCalls'[c].status = "sent"
      /\ \A d \in UserCalls \ {c} : userCalls'[d] = userCalls[d]
  BY <1>1, <1>2, <1>3, NoCallTypes, SendsTypes DEF Ops
<1>5. ScreenTypeOK'
  <2>1. clicks' \in 0 .. MaxClicks
    BY <1>1, <1>2, ScreenAssumption DEF Clicks, ScreenTypeOK
  <2>2. excused' \in BOOLEAN
    BY <1>1, <1>2 DEF Excused, ScreenTypeOK
  <2> QED
    BY <1>1, <1>2, <1>3, <1>4, <2>1, <2>2 DEF ScreenTypeOK
<1>6. Deletion'
  <2>1. Under({"delete", "reload"})' \subseteq Under({"delete", "reload"})
    BY <1>4 DEF Under
  <2> QED
    BY <1>1, <2>1 DEF UsersInv, Deletion
<1>7. OneByOne'
  <2> SUFFICES ASSUME ~excused'
               PROVE  /\ \A d \in UserCalls \ {c} : ~Active(d)'
                      /\ Active(c)' /\ Fresh(c)'
    BY DEF OneByOne
  <2>1. Quiet
    <3>1. SUFFICES ASSUME ~Quiet PROVE FALSE
      OBVIOUS
    <3>2. ~excused /\ Under({"reload"} \cup Writes) = {}
      BY <1>1, <3>1 DEF Excused
    <3>3. PICK d \in UserCalls : userCalls[d].op = "list"
      BY <3>1, <3>2 DEF Quiet, Under, Ops, Writes
    <3> QED
      BY <1>1, <3>2, <3>3 DEF UsersInv, OneByOne, Active, Fresh
  <2>2. \A d \in UserCalls : ~Active(d)
    BY <1>2, <2>1 DEF Quiet, Under, Active, ScreenTypeOK, Call
  <2> QED
    BY <1>1, <1>4, <2>2 DEF Active, Fresh
<1>8. Paged'
  BY <1>3, <1>4 DEF UsersInv, Paged
<1> QED
  BY <1>5, <1>6, <1>7, <1>8 DEF UsersInv

LEMMA ChangeKeeps ==
  ASSUME UsersInv, NEW c \in UserCalls,
         \/ toggleActive(c) \/ confirmDelete(c)
         \/ \E roles \in 0 .. 1 : saveRoles(c, roles)
  PROVE  UsersInv'
<1>1. ScreenTypeOK /\ NoData.shown \in Profiles
  BY NoCallTypes DEF UsersInv
<1>2. PICK op \in Writes, p \in Nat, u \in Rows \cup {NoRow}, body \in Profiles :
        /\ Sends(c, op, p, u, body)
        /\ op = "delete" => p = page /\ isDeleting' /\ ~isDeleting
        /\ op # "delete" => UNCHANGED isDeleting
  <2>1. CASE toggleActive(c)
    <3>1. [data.shown EXCEPT !.isActive = ~@] \in Profiles /\ data.item \in Rows \cup {NoRow}
      BY <1>1 DEF ScreenTypeOK, Pages, Profiles
    <3> QED
      BY <2>1, <3>1 DEF toggleActive, screenState, Writes
  <2>2. CASE confirmDelete(c)
    BY <1>1, <2>2 DEF confirmDelete, deletes, Writes, ScreenTypeOK
  <2>3. CASE \E roles \in 0 .. 1 : saveRoles(c, roles)
    <3>1. PICK roles \in 0 .. 1 : saveRoles(c, roles)
      BY <2>3
    <3>2. [NoData.shown EXCEPT !.roles = roles] \in Profiles
      BY <1>1 DEF Profiles
    <3>3. rolesDialog.user \in Rows \cup {NoRow}
      BY <1>1 DEF ScreenTypeOK
    <3> QED
      BY <3>1, <3>2, <3>3 DEF saveRoles, Writes
  <2> QED
    BY <2>1, <2>2, <2>3
<1>3. /\ Clicks(c) /\ excused' = (Excused(FALSE) \/ Under({"list"}) # {})
      /\ UNCHANGED <<users, profile, page, data, isLoading, pendingDelete, errors>>
  BY DEF toggleActive, confirmDelete, deletes, saveRoles, screenState
<1>4. ~Active(c)
  BY <1>3 DEF Clicks, NextCall, Active, NoCall
<1>5. ScreenTypeOK'
  <2>1. clicks' \in 0 .. MaxClicks
    BY <1>1, <1>3, ScreenAssumption DEF Clicks, ScreenTypeOK
  <2>2. excused' \in BOOLEAN
    BY <1>3
  <2>3. userCalls' \in [UserCalls -> Call]
    BY <1>1, <1>2, SendsTypes DEF Writes, Ops
  <2>4. /\ isDeleting' \in BOOLEAN
        /\ rolesDialog' \in [user: Rows \cup {NoRow}, listed: BOOLEAN, isSaving: BOOLEAN]
    BY <1>1 DEF toggleActive, confirmDelete, deletes, saveRoles, screenState, ScreenTypeOK
  <2> QED
    BY <1>1, <1>3, <2>1, <2>2, <2>3, <2>4 DEF ScreenTypeOK
<1>6. isDeleting => isDeleting'
  BY <1>2
<1> QED
  BY <1>2, <1>3, <1>4, <1>5, <1>6, ClickKeeps

LEMMA DialogKeeps ==
  ASSUME UsersInv, openDialog \/ rolesListed \/ cancel
  PROVE  UsersInv'
<1>1. ScreenTypeOK
  BY DEF UsersInv
<1>2. /\ UNCHANGED <<users, profile, page, data, isLoading, isDeleting, excused, clicks, errors>>
      /\ userCalls' \in {userCalls, Orphaned(userCalls)}
  BY DEF openDialog, rolesListed, cancel
<1>3. /\ userCalls' \in [UserCalls -> Call]
      /\ \A c \in UserCalls :
           /\ userCalls'[c].op = userCalls[c].op /\ userCalls'[c].page = userCalls[c].page
           /\ userCalls'[c].user = userCalls[c].user /\ userCalls'[c].answer = userCalls[c].answer
           /\ userCalls'[c].status = userCalls[c].status
  <2>1. \A q \in Call : LET o == [q EXCEPT !.inDialog = FALSE]
                        IN /\ o \in Call /\ o.op = q.op /\ o.page = q.page /\ o.user = q.user
                           /\ o.answer = q.answer /\ o.status = q.status
    BY DEF Call
  <2>2. userCalls \in [UserCalls -> Call]
    BY <1>1 DEF ScreenTypeOK
  <2> QED
    BY <1>2, <2>1, <2>2 DEF Orphaned
<1>4. /\ pendingDelete' \in Rows \cup {NoRow}
      /\ rolesDialog' \in [user: Rows \cup {NoRow}, listed: BOOLEAN, isSaving: BOOLEAN]
  <2> DEFINE Dialogs == [user: Rows \cup {NoRow}, listed: BOOLEAN, isSaving: BOOLEAN]
  <2>1. Closed \in Dialogs
    BY DEF Closed
  <2>2. \A d \in Dialogs, u \in Rows \cup {NoRow} :
          [d EXCEPT !.user = u] \in Dialogs /\ [d EXCEPT !.listed = TRUE] \in Dialogs
    OBVIOUS
  <2> HIDE DEF Dialogs
  <2>3. /\ data.item \in Rows \cup {NoRow} /\ pendingDelete \in Rows \cup {NoRow}
        /\ rolesDialog \in Dialogs /\ NoRow \in Rows \cup {NoRow}
    BY <1>1 DEF ScreenTypeOK, Pages, Dialogs
  <2>4. pendingDelete' \in Rows \cup {NoRow}
    BY <2>3 DEF openDialog, rolesListed, cancel
  <2>5. rolesDialog' \in Dialogs
    BY <2>1, <2>2, <2>3 DEF openDialog, rolesListed, cancel
  <2> QED
    BY <2>4, <2>5 DEF Dialogs
<1>5. ScreenTypeOK'
  BY <1>1, <1>2, <1>3, <1>4 DEF ScreenTypeOK
<1> QED
  BY <1>2, <1>3, <1>5, CallsStay

LEMMA FailureKeeps ==
  ASSUME UsersInv, NEW c \in UserCalls, requestFails(c)
  PROVE  UsersInv'
<1>1. ScreenTypeOK
  BY DEF UsersInv
<1>2. /\ UNCHANGED <<users, profile, page, data, isLoading, isDeleting, pendingDelete,
                     rolesDialog, excused, clicks>>
      /\ userCalls' = [userCalls EXCEPT ![c].status = "failed"]
  BY DEF requestFails, screenState
<1>3. errors' \in 0 .. MaxErrors
  BY <1>1, ScreenAssumption DEF requestFails, ScreenTypeOK
<1>4. /\ userCalls' \in [UserCalls -> Call]
      /\ \A d \in UserCalls :
           /\ userCalls'[d].op = userCalls[d].op /\ userCalls'[d].page = userCalls[d].page
           /\ userCalls'[d].user = userCalls[d].user /\ userCalls'[d].answer = userCalls[d].answer
           /\ userCalls'[d].status = IF d = c THEN "failed" ELSE userCalls[d].status
  BY <1>1, <1>2 DEF ScreenTypeOK, Call
<1>5. ScreenTypeOK'
  BY <1>1, <1>2, <1>3, <1>4 DEF ScreenTypeOK
<1> QED
  BY <1>2, <1>4, <1>5, CallsStay

LEMMA ServeKeeps ==
  ASSUME UsersInv, NEW c \in UserCalls, serveRequest(c)
  PROVE  UsersInv'
<1>1. ScreenTypeOK /\ userCalls[c] \in Call
  BY DEF UsersInv, ScreenTypeOK
<1>2. PICK q \in Call : q = userCalls[c]
  BY <1>1
<1>3. /\ q.op # "none" /\ q.status = "sent"
      /\ UNCHANGED <<page, data, isLoading, isDeleting, pendingDelete, rolesDialog,
                     excused, clicks, errors>>
  BY <1>2 DEF serveRequest, screenState
<1>4. /\ q.page \in Nat /\ q.user \in Rows \cup {NoRow} /\ q.body \in Profiles /\ q.op \in Ops
      /\ users \in Seq(Rows) /\ Len(users) \in Nat /\ profile \in [Rows -> Profiles]
  BY <1>1 DEF Call, ScreenTypeOK
<1>5. Contains(users, q.user) => q.user \in Rows /\ Changed(q) \in Profiles
  <2> SUFFICES ASSUME Contains(users, q.user) PROVE q.user \in Rows /\ Changed(q) \in Profiles
    OBVIOUS
  <2>1. q.user \in Rows
    BY <1>4, ElementOfSeq DEF Contains
  <2>2. profile[q.user] \in Profiles
    BY <1>4, <2>1
  <2>3. Changed(q) \in Profiles
    BY <1>4, <2>2 DEF Changed, Profiles
  <2> QED
    BY <2>1, <2>3
<1>6. PICK answer \in Pages :
        /\ Answers(c, answer)
        /\ \/ /\ q.op \in {"list", "reload"} /\ answer = ListPage(q.page)
              /\ UNCHANGED <<users, profile>>
           \/ /\ q.op \in {"toggle", "roles"} /\ q.user \in Rows
              /\ profile' = [profile EXCEPT ![q.user] = Changed(q)]
              /\ answer.shown = Changed(q) /\ Changed(q) \in Profiles
              /\ UNCHANGED users
           \/ /\ q.op = "delete" /\ UNCHANGED profile
              /\ \E i \in 1 .. Len(users) : users' = RemoveAt(users, i)
  <2>1. CASE q.op \in {"list", "reload"}
    <3>1. q.page \in Nat \ {0}
      BY <1>2, <1>4, <2>1 DEF UsersInv, Paged
    <3>2. ListPage(q.page) \in Pages
      BY <1>1, <3>1, ListPageTypes
    <3> QED
      BY <1>2, <2>1, <3>2 DEF serveRequest
  <2>2. CASE q.op \in {"toggle", "roles"}
    <3>1. /\ Contains(users, q.user) /\ UNCHANGED users
          /\ profile' = [profile EXCEPT ![q.user] = Changed(q)]
          /\ Answers(c, [NoData EXCEPT !.item = q.user, !.shown = Changed(q)])
      BY <1>2, <2>2 DEF serveRequest
    <3>2. PICK u \in Rows, o \in Profiles : u = q.user /\ o = Changed(q)
      BY <1>5, <3>1
    <3>3. /\ [NoData EXCEPT !.item = u, !.shown = o] \in Pages
          /\ [NoData EXCEPT !.item = u, !.shown = o].shown = o
      BY NoCallTypes DEF Pages
    <3> QED
      BY <2>2, <3>1, <3>2, <3>3
  <2>3. CASE q.op = "delete"
    BY <1>2, <2>3, NoCallTypes DEF serveRequest
  <2> QED
    BY <1>2, <2>1, <2>2, <2>3 DEF serveRequest
<1>7. /\ userCalls' \in [UserCalls -> Call]
      /\ userCalls'[c].op = q.op /\ userCalls'[c].page = q.page /\ userCalls'[c].user = q.user
      /\ userCalls'[c].status = "answered" /\ userCalls'[c].answer = answer
      /\ \A d \in UserCalls \ {c} : userCalls'[d] = userCalls[d]
  BY <1>1, <1>2, <1>6 DEF Answers, ScreenTypeOK, Call
<1>8. ScreenTypeOK'
  <2>1. users' \in Seq(Rows)
    BY <1>4, <1>6, RemoveAtTypes
  <2>2. profile' \in [Rows -> Profiles]
    BY <1>4, <1>6
  <2> QED
    BY <1>1, <1>3, <1>7, <2>1, <2>2 DEF ScreenTypeOK
<1>9. \A d \in UserCalls : userCalls'[d].op = userCalls[d].op /\ userCalls'[d].page = userCalls[d].page
  BY <1>2, <1>7
<1>10. Paged' /\ Deletion'
  BY <1>3, <1>9 DEF UsersInv, Paged, Deletion, Under
<1>11. OneByOne'
  <2> SUFFICES ASSUME ~excused'
               PROVE  /\ \A d \in UserCalls \ {c} : ~Active(d)'
                      /\ Active(c)' /\ Fresh(c)'
    BY DEF OneByOne
  <2>1. /\ Active(c) /\ Fresh(c)
        /\ \A d \in UserCalls \ {c} : ~Active(d)
    BY <1>2, <1>3 DEF UsersInv, OneByOne, Active
  <2>2. CASE q.op \in {"list", "reload"}
    <3>1. ListPage(page)' = ListPage(page)
      BY <1>3, <1>6, <2>2 DEF ListPage
    <3> QED
      BY <1>2, <1>3, <1>6, <1>7, <2>1, <2>2, <3>1 DEF Fresh, Active
  <2>3. CASE q.op \in {"toggle", "roles"}
    <3>1. data = ListPage(page)
      BY <1>2, <1>3, <2>1, <2>3 DEF Fresh, Replaced
    <3>2. /\ q.user \in Rows /\ profile' = [profile EXCEPT ![q.user] = Changed(q)]
          /\ answer.shown = Changed(q) /\ UNCHANGED <<users, page>>
      BY <1>3, <1>6, <2>3
    <3>3. CASE page > Len(users)
      <4>1. data.item = NoRow
        BY <3>1, <3>3 DEF ListPage, NoData
      <4>2. q.user # NoRow
        BY <3>2, ScreenAssumption
      <4>3. ListPage(page)' = ListPage(page)
        BY <3>2, <3>3 DEF ListPage
      <4> QED
        BY <1>2, <1>3, <1>7, <2>1, <2>3, <3>1, <4>1, <4>2, <4>3 DEF Fresh, Replaced, Active
    <3>4. CASE ~(page > Len(users))
      <4>1. data = [currentPage |-> page, totalPages |-> Len(users),
                    item |-> users[page], shown |-> profile[users[page]]]
        BY <3>1, <3>4 DEF ListPage
      <4>2. ListPage(page)' = [currentPage |-> page, totalPages |-> Len(users),
                               item |-> users[page], shown |-> profile'[users[page]]]
        BY <3>2, <3>4 DEF ListPage
      <4>3. users[page] \in Rows
        BY <1>1, <1>4, <3>4, ElementOfSeq DEF ScreenTypeOK
      <4>4. profile'[users[page]] = IF users[page] = q.user THEN Changed(q)
                                    ELSE profile[users[page]]
        BY <1>4, <3>2, <4>3
      <4>5. (IF data.item = q.user THEN [data EXCEPT !.shown = answer.shown] ELSE data)
              = ListPage(page)'
        BY <3>2, <4>1, <4>2, <4>4
      <4> QED
        BY <1>2, <1>3, <1>7, <2>1, <2>3, <4>5 DEF Fresh, Replaced, Active
    <3> QED
      BY <3>3, <3>4
  <2>4. CASE q.op = "delete"
    BY <1>2, <1>3, <1>7, <2>1, <2>4 DEF Fresh, Active
  <2> QED
    BY <1>6, <1>7, <1>2, <2>1, <2>2, <2>3, <2>4
<1> QED
  BY <1>8, <1>10, <1>11 DEF UsersInv

\* An answer that is handled ends its request.
LEMMA EndedTypes ==
  ASSUME ScreenTypeOK, NEW c \in UserCalls
  PROVE  /\ Ended(userCalls, c) \in [UserCalls -> Call]
         /\ Ended(userCalls, c)[c].op = "none"
         /\ \A d \in UserCalls \ {c} : Ended(userCalls, c)[d] = userCalls[d]
         /\ Orphaned(Ended(userCalls, c)) \in [UserCalls -> Call]
         /\ \A d \in UserCalls :
              LET o == Orphaned(Ended(userCalls, c))[d]
                  e == Ended(userCalls, c)[d]
              IN /\ o.op = e.op /\ o.page = e.page /\ o.user = e.user
                 /\ o.answer = e.answer /\ o.status = e.status
<1>1. /\ Ended(userCalls, c) \in [UserCalls -> Call]
      /\ Ended(userCalls, c)[c].op = "none"
      /\ \A d \in UserCalls \ {c} : Ended(userCalls, c)[d] = userCalls[d]
  <2>1. NoCall.op = "none"
    BY DEF NoCall
  <2> QED
    BY <2>1, NoCallTypes DEF Ended, ScreenTypeOK
<1>2. \A q \in Call : LET o == [q EXCEPT !.inDialog = FALSE]
                      IN /\ o \in Call /\ o.op = q.op /\ o.page = q.page /\ o.user = q.user
                         /\ o.answer = q.answer /\ o.status = q.status
  BY DEF Call
<1> QED
  BY <1>1, <1>2 DEF Orphaned

\* What is shown after a request of the list has been handled.
LEMMA HandledKeeps ==
  ASSUME UsersInv, ScreenTypeOK', NEW c \in UserCalls, Active(c),
         userCalls'[c].op = "none",
         \A d \in UserCalls \ {c} :
           /\ userCalls'[d].op = userCalls[d].op /\ userCalls'[d].page = userCalls[d].page
           /\ userCalls'[d].user = userCalls[d].user
           /\ userCalls'[d].answer = userCalls[d].answer
           /\ userCalls'[d].status = userCalls[d].status,
         UNCHANGED <<users, profile, page>>,
         isDeleting => isDeleting' \/ userCalls[c].op \in {"delete", "reload"},
         ~excused' => ~excused /\ data' = ListPage(page)
  PROVE  UsersInv'
<1>1. Deletion'
  <2>1. Under({"delete", "reload"})' \subseteq Under({"delete", "reload"}) \ {c}
    BY DEF Under
  <2>2. userCalls[c].op \in {"delete", "reload"} => Under({"delete", "reload"}) \ {c} = {}
    BY DEF UsersInv, Deletion, Under
  <2> QED
    BY <2>1, <2>2 DEF UsersInv, Deletion
<1>2. Paged'
  BY DEF UsersInv, Paged
<1>3. OneByOne'
  <2>1. ListPage(page)' = ListPage(page)
    BY DEF ListPage
  <2>2. ~excused' => \A d \in UserCalls : ~Active(d)'
    BY DEF UsersInv, OneByOne, Active
  <2> QED
    BY <2>1, <2>2 DEF OneByOne
<1> QED
  BY <1>1, <1>2, <1>3 DEF UsersInv

LEMMA ArriveKeeps ==
  ASSUME UsersInv, NEW c \in UserCalls, answerArrives(c)
  PROVE  UsersInv'
<1>1. /\ ScreenTypeOK /\ userCalls[c] \in Call
      /\ data \in Pages /\ isLoading \in BOOLEAN /\ isDeleting \in BOOLEAN /\ excused \in BOOLEAN
  BY DEF UsersInv, ScreenTypeOK
<1>2. PICK q \in Call : q = userCalls[c]
  BY <1>1
<1>3. /\ q.op \in Ops \ {"none"} /\ q.status # "sent" /\ Active(c)
      /\ UNCHANGED <<users, profile, page, clicks, errors>>
  BY <1>2 DEF answerArrives, loaded, deleted, toggled, rolesSaved, Settles, Active, Ops
<1>4. q.answer \in Pages /\ q.page \in Nat /\ q.status \in {"answered", "failed"}
  BY <1>3 DEF Call
<1>5. Failed(c) <=> q.status # "answered"
  BY <1>2, <1>4 DEF Failed
<1>6. CASE loaded(c, "list") \/ loaded(c, "reload")
  <2>1. PICK op \in {"list", "reload"} :
          /\ q.op = op
          /\ data' = IF Failed(c) THEN data ELSE q.answer
          /\ isLoading' = FALSE /\ isDeleting' = (isDeleting /\ op = "list")
          /\ excused' = (excused \/ Failed(c)) /\ userCalls' = Ended(userCalls, c)
          /\ UNCHANGED <<pendingDelete, rolesDialog>>
    BY <1>2, <1>6 DEF loaded, Settles
  <2>2. ScreenTypeOK'
    BY <1>1, <1>3, <1>4, <2>1, EndedTypes DEF ScreenTypeOK
  <2>3. ~excused' => ~excused /\ data' = ListPage(page)
    BY <1>2, <1>3, <1>4, <1>5, <2>1 DEF UsersInv, OneByOne, Fresh
  <2>4. isDeleting => isDeleting' \/ userCalls[c].op \in {"delete", "reload"}
    BY <1>2, <2>1
  <2> QED
    BY <1>1, <1>3, <2>1, <2>2, <2>3, <2>4, EndedTypes, HandledKeeps
<1>7. CASE deleted(c) /\ Failed(c)
  <2>1. /\ q.op = "delete" /\ pendingDelete' = NoRow /\ isDeleting' = FALSE /\ excused' = TRUE
        /\ userCalls' = Ended(userCalls, c) /\ UNCHANGED <<isLoading, data, rolesDialog>>
    BY <1>2, <1>7 DEF deleted, Settles
  <2>2. ScreenTypeOK'
    BY <1>1, <1>3, <2>1, EndedTypes DEF ScreenTypeOK
  <2> QED
    BY <1>1, <1>2, <1>3, <2>1, <2>2, EndedTypes, HandledKeeps
<1>8. CASE deleted(c) /\ ~Failed(c)
  <2>1. /\ q.op = "delete" /\ pendingDelete' = NoRow /\ isLoading' = TRUE
        /\ Sends(c, "reload", q.page, NoRow, NoData.shown)
        /\ UNCHANGED <<isDeleting, excused, data, rolesDialog>>
    BY <1>2, <1>8 DEF deleted, Settles
  <2>2. /\ userCalls' \in [UserCalls -> Call]
        /\ userCalls'[c].op = "reload" /\ userCalls'[c].page = q.page
        /\ userCalls'[c].status = "sent"
        /\ \A d \in UserCalls \ {c} : userCalls'[d] = userCalls[d]
    BY <1>1, <1>4, <2>1, NoCallTypes, SendsTypes DEF Ops
  <2>3. ScreenTypeOK'
    BY <1>1, <1>3, <2>1, <2>2 DEF ScreenTypeOK
  <2>4. Under({"delete", "reload"})' = Under({"delete", "reload"})
    BY <1>2, <2>1, <2>2 DEF Under
  <2>5. Deletion' /\ Paged'
    BY <1>2, <2>1, <2>2, <2>4 DEF UsersInv, Deletion, Paged
  <2>6. OneByOne'
    <3> SUFFICES ASSUME ~excused'
                 PROVE  /\ \A d \in UserCalls \ {c} : ~Active(d)'
                        /\ Active(c)' /\ Fresh(c)'
      BY DEF OneByOne
    <3>1. Fresh(c) /\ \A d \in UserCalls \ {c} : ~Active(d)
      BY <1>3, <2>1 DEF UsersInv, OneByOne
    <3>2. q.page = page
      BY <1>2, <2>1, <3>1 DEF Fresh
    <3> QED
      BY <1>3, <2>2, <3>1, <3>2 DEF Active, Fresh
  <2> QED
    BY <2>3, <2>5, <2>6 DEF UsersInv
<1>9. CASE toggled(c) \/ rolesSaved(c)
  <2>1. /\ q.op \in {"toggle", "roles"} /\ replaceUser(c)
        /\ excused' = (excused \/ Failed(c))
        /\ userCalls' \in {Ended(userCalls, c), Orphaned(Ended(userCalls, c))}
        /\ UNCHANGED <<isLoading, isDeleting, pendingDelete>>
    BY <1>2, <1>9 DEF toggled, rolesSaved, Settles
  <2>2. data' = IF q.status = "answered" THEN Replaced(q) ELSE data
    BY <1>2, <1>5, <2>1 DEF replaceUser, Replaced
  <2>3. data' \in Pages
    <3>1. q.answer.shown \in Profiles
      BY <1>4 DEF Pages
    <3>2. [data EXCEPT !.shown = q.answer.shown] \in Pages
      BY <1>1, <3>1 DEF Pages
    <3> QED
      BY <1>1, <2>2, <3>2 DEF Replaced
  <2>4. rolesDialog' \in [user: Rows \cup {NoRow}, listed: BOOLEAN, isSaving: BOOLEAN]
    <3>1. Closed \in [user: Rows \cup {NoRow}, listed: BOOLEAN, isSaving: BOOLEAN]
      BY DEF Closed
    <3> QED
      BY <1>1, <1>9, <3>1 DEF toggled, rolesSaved, ScreenTypeOK, Call
  <2>5. ScreenTypeOK'
    BY <1>1, <1>3, <2>1, <2>3, <2>4, EndedTypes DEF ScreenTypeOK
  <2>6. ~excused' => ~excused /\ data' = ListPage(page)
    BY <1>2, <1>3, <1>5, <2>1, <2>2 DEF UsersInv, OneByOne, Fresh
  <2>7. /\ userCalls'[c].op = "none"
        /\ \A d \in UserCalls \ {c} :
             /\ userCalls'[d].op = userCalls[d].op /\ userCalls'[d].page = userCalls[d].page
             /\ userCalls'[d].user = userCalls[d].user
             /\ userCalls'[d].answer = userCalls[d].answer
             /\ userCalls'[d].status = userCalls[d].status
    BY <1>1, <2>1, EndedTypes
  <2> QED
    BY <1>3, <2>1, <2>5, <2>6, <2>7, HandledKeeps
<1> QED
  BY <1>6, <1>7, <1>8, <1>9 DEF answerArrives

-----------------------------------------------------------------------------
(* The theorems about the users screen.                                    *)

LEMMA UsersInitHolds == ScreenInit => UsersInv
<1> SUFFICES ASSUME ScreenInit PROVE UsersInv
  OBVIOUS
<1>1. [NoCall EXCEPT !.op = "list", !.page = 1] \in Call
  BY NoCallTypes DEF Call, Ops
<1>2. ScreenTypeOK
  <2>1. userCalls \in [UserCalls -> Call]
    BY <1>1, NoCallTypes DEF ScreenInit
  <2>2. profile \in [Rows -> Profiles]
    <3>1. [isActive |-> TRUE, roles |-> 0] \in Profiles
      BY DEF Profiles
    <3> QED
      BY <3>1 DEF ScreenInit
  <2>3. data \in Pages
    BY NoCallTypes DEF ScreenInit
  <2> QED
    <3>1. 0 \in 0 .. MaxClicks /\ 0 \in 0 .. MaxErrors
      BY ScreenAssumption
    <3>2. Closed \in [user: Rows \cup {NoRow}, listed: BOOLEAN, isSaving: BOOLEAN]
      BY DEF Closed
    <3>3. /\ users = SetToSeq(Rows) /\ page = 1 /\ pendingDelete = NoRow
          /\ rolesDialog = Closed /\ clicks = 0 /\ errors = 0
      BY DEF ScreenInit
    <3>4. isLoading \in BOOLEAN /\ isDeleting \in BOOLEAN /\ excused \in BOOLEAN
      BY Zenon DEF ScreenInit
    <3> QED
      BY <2>1, <2>2, <2>3, <3>1, <3>2, <3>3, <3>4, SetToSeqTypes DEF ScreenTypeOK
<1>3. PICK c \in UserCalls : \A d \in UserCalls : c <= d
  BY ScreenAssumption
<1>4. /\ userCalls[c].op = "list" /\ userCalls[c].page = 1 /\ userCalls[c].status = "sent"
      /\ \A d \in UserCalls \ {c} : userCalls[d].op = "none"
  <2>1. \A d \in UserCalls \ {c} : ~(d <= c)
    BY <1>3, ScreenAssumption
  <2> QED
    BY <1>3, <2>1 DEF ScreenInit, NoCall
<1>5. Paged /\ Deletion
  BY <1>4 DEF Paged, Deletion, Under
<1>6. OneByOne
  <2>1. page = 1 /\ isLoading
    BY DEF ScreenInit
  <2> QED
    BY <1>4, <2>1 DEF OneByOne, Active, Fresh
<1> QED
  BY <1>2, <1>5, <1>6 DEF UsersInv

LEMMA UsersNextKeeps == UsersInv /\ [ScreenNext]_screenVars => UsersInv'
<1> SUFFICES ASSUME UsersInv, [ScreenNext]_screenVars PROVE UsersInv'
  OBVIOUS
<1>1. CASE UNCHANGED screenVars
  <2>1. /\ UNCHANGED <<users, profile, userCalls, excused, clicks, errors, page, data>>
        /\ UNCHANGED <<isLoading, isDeleting, pendingDelete, rolesDialog>>
    BY <1>1 DEF screenVars, screenState
  <2>2. ScreenTypeOK'
    BY <2>1 DEF UsersInv, ScreenTypeOK
  <2> QED
    BY <2>1, <2>2, CallsStay
<1> QED
  BY <1>1, TurnKeeps, ChangeKeeps, DialogKeeps, FailureKeeps, ServeKeeps, ArriveKeeps
     DEF ScreenNext

THEOREM UsersInvariance == ScreenSpec => []UsersInv
BY UsersInitHolds, UsersNextKeeps, PTL DEF ScreenSpec

\* One deletion is under way at most, with the reload that follows it, whatever dialogs are
\* closed and opened meanwhile (confirmDelete of UsersAdmin.tsx).
THEOREM OneDeletionAlways == ScreenSpec => [](ScreenTypeOK /\ OneDeletionAtATime)
<1>1. UsersInv => ScreenTypeOK /\ OneDeletionAtATime
  BY DEF UsersInv, Deletion, OneDeletionAtATime
<1> QED
  BY <1>1, UsersInvariance, PTL

\* With nothing under way the users screen shows the selected page as the server has it,
\* unless a request failed or overlapped with a change (load and setPage of UsersAdmin.tsx).
THEOREM ShownListAlwaysCurrent == ScreenSpec => []ShownListIsCurrent
<1>1. UsersInv => ShownListIsCurrent
  <2>1. ScreenTypeOK /\ Quiet => \A c \in UserCalls : ~Active(c)
    BY DEF ScreenTypeOK, Quiet, Under, Active, Call
  <2> QED
    BY <2>1 DEF UsersInv, OneByOne, ShownListIsCurrent
<1> QED
  BY <1>1, UsersInvariance, PTL

-----------------------------------------------------------------------------
(* The roles screen.                                                       *)

\* Here too a screen that is not stale has one request at a time, and a load that has been
\* answered has seen the roles as they are.
NoneIsFree == \A c \in RoleCalls : roleCalls[c].op = "none" => IsFree(c)
RolesInv ==
  /\ RolesTypeOK /\ NoneIsFree
  /\ ~stale => /\ AllFree => list = version
               /\ \A c, d \in RoleCalls : ~IsFree(c) /\ ~IsFree(d) => c = d
               /\ \A c \in RoleCalls : roleCalls[c].op = "load" /\ roleCalls[c].status = "answered"
                                         => roleCalls[c].version = version

LEMMA RequestTypes ==
  /\ NoRequest \in Request
  /\ \A op \in {"load", "create", "edit"} :
       /\ [NoRequest EXCEPT !.op = op] \in Request
       /\ [NoRequest EXCEPT !.op = op].op = op
       /\ [NoRequest EXCEPT !.op = op].status = "sent"
       /\ [NoRequest EXCEPT !.op = op, !.inDialog = TRUE] \in Request
       /\ [NoRequest EXCEPT !.op = op, !.inDialog = TRUE].op = op
       /\ [NoRequest EXCEPT !.op = op, !.inDialog = TRUE].status = "sent"
<1>1. NoRequest \in Request /\ NoRequest.status = "sent"
  BY DEF NoRequest, Request
<1>2. \A q \in Request, op \in {"load", "create", "edit"} :
        LET o == [q EXCEPT !.op = op]
            i == [q EXCEPT !.op = op, !.inDialog = TRUE]
        IN /\ o \in Request /\ o.op = op /\ o.status = q.status
           /\ i \in Request /\ i.op = op /\ i.status = q.status
  BY DEF Request
<1> QED
  BY <1>1, <1>2

LEMMA RolesInitHolds == RolesInit => RolesInv
<1> SUFFICES ASSUME RolesInit PROVE RolesInv
  OBVIOUS
<1>1. RolesTypeOK
  <2>1. 0 \in 0 .. MaxSaves /\ 0 \in 0 .. MaxRoleErrors
    BY RolesScreenAssumption
  <2>2. roleCalls \in [RoleCalls -> Request]
    BY RequestTypes DEF RolesInit
  <2>3. version = 1 /\ list = 0 /\ dialog = "none" /\ saves = 0 /\ roleErrors = 0
    BY DEF RolesInit
  <2>4. saving \in BOOLEAN /\ stale \in BOOLEAN
    BY Zenon DEF RolesInit
  <2> QED
    BY <2>1, <2>2, <2>3, <2>4 DEF RolesTypeOK
<1>2. PICK c \in RoleCalls : \A d \in RoleCalls : c <= d
  BY RolesScreenAssumption
<1>3. \A d \in RoleCalls \ {c} : ~(d <= c)
  BY <1>2, RolesScreenAssumption
<1>4. /\ roleCalls[c].op = "load" /\ roleCalls[c].status = "sent"
      /\ \A d \in RoleCalls \ {c} : IsFree(d)
  BY <1>2, <1>3, RequestTypes DEF RolesInit, IsFree
<1>5. ~IsFree(c) /\ \A d \in RoleCalls : IsFree(d) => roleCalls[d].op = "none"
  BY <1>4 DEF IsFree, NoRequest
<1> QED
  BY <1>1, <1>4, <1>5 DEF RolesInv, AllFree, NoneIsFree

\* What is detached from its dialog stays what it is.
LEMMA DetachedTypes ==
  ASSUME RolesTypeOK
  PROVE  /\ Detached(roleCalls) \in [RoleCalls -> Request]
         /\ \A c \in RoleCalls :
              LET o == Detached(roleCalls)[c]
              IN /\ o.op = roleCalls[c].op /\ o.status = roleCalls[c].status
                 /\ o.version = roleCalls[c].version
                 /\ IsFree(c) => o = NoRequest
<1>1. \A q \in Request : LET o == [q EXCEPT !.inDialog = FALSE]
                         IN /\ o \in Request /\ o.op = q.op /\ o.status = q.status
                            /\ o.version = q.version
  BY DEF Request
<1>2. [NoRequest EXCEPT !.inDialog = FALSE] = NoRequest
  <2>1. [NoRequest EXCEPT !.inDialog = FALSE] = [NoRequest EXCEPT !.inDialog = NoRequest.inDialog]
    BY DEF NoRequest
  <2>2. \A q \in Request : [q EXCEPT !.inDialog = q.inDialog] = q
    BY DEF Request
  <2> QED
    BY <2>1, <2>2, RequestTypes
<1> QED
  BY <1>1, <1>2 DEF RolesTypeOK, Detached, IsFree

\* The screen after a step that leaves one request under way at most.
LEMMA OneIsLeft ==
  ASSUME RolesTypeOK', NoneIsFree', NEW c \in RoleCalls,
         ~stale' => /\ \A d \in RoleCalls \ {c} : roleCalls'[d] = NoRequest
                    /\ roleCalls'[c] = NoRequest => list' = version'
                    /\ roleCalls'[c].op = "load" /\ roleCalls'[c].status = "answered"
                         => roleCalls'[c].version = version'
  PROVE  RolesInv'
<1>1. NoRequest.op = "none"
  BY DEF NoRequest
<1>2. \A d \in RoleCalls : IsFree(d)' <=> roleCalls'[d] = NoRequest
  BY DEF IsFree
<1>3. SUFFICES ASSUME ~stale'
               PROVE  /\ AllFree' => list' = version'
                      /\ \A d, e \in RoleCalls : ~IsFree(d)' /\ ~IsFree(e)' => d = e
                      /\ \A d \in RoleCalls :
                           roleCalls'[d].op = "load" /\ roleCalls'[d].status = "answered"
                             => roleCalls'[d].version = version'
  BY DEF RolesInv
<1>4. AllFree' => list' = version'
  BY <1>2, <1>3 DEF AllFree
<1>5. \A d, e \in RoleCalls : ~IsFree(d)' /\ ~IsFree(e)' => d = e
  BY <1>2, <1>3
<1>6. \A d \in RoleCalls : roleCalls'[d].op = "load" /\ roleCalls'[d].status = "answered"
                             => roleCalls'[d].version = version'
  BY <1>1, <1>3
<1> QED
  BY <1>4, <1>5, <1>6

\* A request under way on a screen that is not stale is alone.
LEMMA OneIsUnderWay ==
  ASSUME RolesInv, NEW c \in RoleCalls, ~IsFree(c), ~stale
  PROVE  \A d \in RoleCalls \ {c} : roleCalls[d] = NoRequest
BY DEF RolesInv, IsFree

LEMMA DialogsKeep ==
  ASSUME RolesInv, closes \/ (\E d \in {"create", "edit"} : opens(d)) \/ UNCHANGED rolesVars
  PROVE  RolesInv'
<1>1. RolesTypeOK
  BY DEF RolesInv
<1>2. /\ UNCHANGED <<version, list, stale, saves, roleErrors>>
      /\ roleCalls' \in {roleCalls, Detached(roleCalls)}
      /\ dialog' \in {"none", "create", "edit"} /\ saving' \in BOOLEAN
  BY <1>1 DEF closes, opens, rolesVars, RolesTypeOK
<1>3. /\ roleCalls' \in [RoleCalls -> Request]
      /\ \A c \in RoleCalls :
           /\ roleCalls'[c].op = roleCalls[c].op /\ roleCalls'[c].status = roleCalls[c].status
           /\ roleCalls'[c].version = roleCalls[c].version
           /\ IsFree(c) => roleCalls'[c] = NoRequest
  BY <1>1, <1>2, DetachedTypes DEF RolesTypeOK, IsFree
<1>4. RolesTypeOK' /\ NoneIsFree'
  BY <1>1, <1>2, <1>3 DEF RolesTypeOK, RolesInv, NoneIsFree, IsFree
<1>5. CASE stale
  BY <1>2, <1>4, <1>5 DEF RolesInv
<1>6. CASE \E c \in RoleCalls : ~stale /\ ~IsFree(c)
  <2>1. PICK c \in RoleCalls : ~stale /\ ~IsFree(c)
    BY <1>6
  <2>2. \A d \in RoleCalls \ {c} : roleCalls'[d] = NoRequest
    BY <1>3, <2>1, OneIsUnderWay DEF IsFree
  <2>3. roleCalls'[c] # NoRequest
    <3>1. NoRequest.op = "none" /\ roleCalls[c].op # "none"
      BY <2>1 DEF RolesInv, NoneIsFree, NoRequest
    <3> QED
      BY <1>3, <3>1
  <2> QED
    BY <1>2, <1>3, <1>4, <2>1, <2>2, <2>3, OneIsLeft DEF RolesInv
<1>7. CASE ~stale /\ \A c \in RoleCalls : IsFree(c)
  <2>1. list = version
    BY <1>7 DEF RolesInv, AllFree
  <2>2. PICK c \in RoleCalls : TRUE
    BY RolesScreenAssumption
  <2>3. \A d \in RoleCalls : roleCalls'[d] = NoRequest
    BY <1>3, <1>7
  <2>4. NoRequest.op = "none"
    BY DEF NoRequest
  <2> QED
    BY <1>2, <1>4, <2>1, <2>2, <2>3, <2>4, OneIsLeft
<1> QED
  BY <1>5, <1>6, <1>7

\* Every other step changes one call.
LEMMA CallsKeep ==
  ASSUME RolesInv, NEW c \in RoleCalls,
         \/ submits(c) \/ serves(c) \/ failsToLoad(c)
         \/ shows(c) \/ saved(c) \/ saveFails(c)
  PROVE  RolesInv'
<1>1. /\ RolesTypeOK /\ NoneIsFree
      /\ version \in Nat \ {0} /\ list \in Nat /\ dialog \in {"none", "create", "edit"}
      /\ saving \in BOOLEAN /\ roleCalls \in [RoleCalls -> Request] /\ stale \in BOOLEAN
      /\ saves \in 0 .. MaxSaves /\ roleErrors \in 0 .. MaxRoleErrors
  BY DEF RolesInv, RolesTypeOK
<1>2. PICK q \in Request : q = roleCalls[c]
  BY <1>1
<1>3. NoRequest \in Request /\ NoRequest.op = "none"
  BY RequestTypes DEF NoRequest
<1>4. CASE submits(c)
  <2>1. PICK op \in {"create", "edit"} : op = dialog
    BY <1>1, <1>4 DEF submits
  <2>2. PICK o \in Request : o = [NoRequest EXCEPT !.op = op, !.inDialog = TRUE] /\ o.op = op
    BY RequestTypes
  <2>3. /\ roleCalls' = [roleCalls EXCEPT ![c] = o] /\ saves' \in 0 .. MaxSaves
        /\ saving' = TRUE /\ stale' = (stale \/ ~AllFree)
        /\ UNCHANGED <<version, list, dialog, roleErrors>>
    BY <1>1, <1>4, <2>1, <2>2, RolesScreenAssumption DEF submits
  <2>4. RolesTypeOK' /\ NoneIsFree'
    BY <1>1, <2>1, <2>2, <2>3 DEF RolesTypeOK, NoneIsFree, IsFree
  <2>5. ~stale' => \A d \in RoleCalls \ {c} : roleCalls'[d] = NoRequest
    BY <1>1, <2>3 DEF AllFree, IsFree
  <2>6. roleCalls'[c] # NoRequest /\ roleCalls'[c].op # "load"
    BY <1>1, <1>3, <2>1, <2>2, <2>3
  <2> QED
    BY <2>4, <2>5, <2>6, OneIsLeft
<1>5. CASE serves(c)
  <2>1. PICK v \in Nat \ {0} : v = version' /\ (q.op = "load" => v = version)
    BY <1>1, <1>2, <1>5 DEF serves
  <2>2. PICK o \in Request :
          /\ o = [q EXCEPT !.status = "answered", !.version = v]
          /\ o.op = q.op /\ o.version = v
    <3>1. \A r \in Request, w \in Nat :
            LET o == [r EXCEPT !.status = "answered", !.version = w]
            IN o \in Request /\ o.op = r.op /\ o.version = w
      BY DEF Request
    <3> QED
      BY <2>1, <3>1
  <2>3. /\ roleCalls' = [roleCalls EXCEPT ![c] = o] /\ ~IsFree(c)
        /\ UNCHANGED <<list, dialog, saving, stale, saves, roleErrors>>
    BY <1>1, <1>2, <1>5, <2>1, <2>2 DEF serves
  <2>4. q.op # "none"
    BY <1>1, <1>2, <2>3 DEF NoneIsFree
  <2>5. RolesTypeOK' /\ NoneIsFree'
    BY <1>1, <2>1, <2>2, <2>3, <2>4 DEF RolesTypeOK, NoneIsFree, IsFree
  <2>6. ~stale' => \A d \in RoleCalls \ {c} : roleCalls'[d] = NoRequest
    BY <1>1, <2>3, OneIsUnderWay
  <2>7. roleCalls'[c] # NoRequest /\ roleCalls'[c].version = version'
    BY <1>1, <1>3, <2>1, <2>2, <2>3, <2>4
  <2> QED
    BY <2>5, <2>6, <2>7, OneIsLeft
<1>6. CASE failsToLoad(c)
  <2>1. PICK o \in Request : o = [q EXCEPT !.status = "failed"] /\ o.op = q.op /\ o.status = "failed"
    <3>1. \A r \in Request : LET o == [r EXCEPT !.status = "failed"]
                             IN o \in Request /\ o.op = r.op /\ o.status = "failed"
      BY DEF Request
    <3> QED
      BY <3>1
  <2>2. /\ roleCalls' = [roleCalls EXCEPT ![c] = o] /\ ~IsFree(c)
        /\ roleErrors' \in 0 .. MaxRoleErrors
        /\ UNCHANGED <<version, list, dialog, saving, stale, saves>>
    BY <1>1, <1>2, <1>6, <2>1, RolesScreenAssumption DEF failsToLoad
  <2>3. q.op # "none"
    BY <1>1, <1>2, <2>2 DEF NoneIsFree
  <2>4. RolesTypeOK' /\ NoneIsFree'
    BY <1>1, <2>1, <2>2, <2>3 DEF RolesTypeOK, NoneIsFree, IsFree
  <2>5. ~stale' => \A d \in RoleCalls \ {c} : roleCalls'[d] = NoRequest
    BY <1>1, <2>2, OneIsUnderWay
  <2>6. roleCalls'[c] # NoRequest /\ roleCalls'[c].status # "answered"
    BY <1>1, <1>3, <2>1, <2>2, <2>3
  <2> QED
    BY <2>4, <2>5, <2>6, OneIsLeft
<1>7. CASE shows(c) \/ saveFails(c)
  <2>1. /\ roleCalls' = [roleCalls EXCEPT ![c] = NoRequest] /\ q.op # "none"
        /\ saving' \in BOOLEAN /\ stale' \in BOOLEAN /\ list' \in Nat
        /\ UNCHANGED <<version, dialog, saves, roleErrors>>
    BY <1>1, <1>2, <1>7 DEF shows, saveFails, Request
  <2>2. ~stale' => ~stale /\ q.op = "load" /\ q.status = "answered" /\ list' = q.version
    BY <1>1, <1>2, <1>7 DEF shows, saveFails, Request
  <2>3. RolesTypeOK' /\ NoneIsFree'
    BY <1>1, <1>3, <2>1 DEF RolesTypeOK, NoneIsFree, IsFree
  <2>4. ~IsFree(c)
    BY <1>2, <1>3, <2>1 DEF IsFree
  <2>5. ~stale' => /\ \A d \in RoleCalls \ {c} : roleCalls'[d] = NoRequest
                   /\ list' = version'
    BY <1>1, <1>2, <2>1, <2>2, <2>4, OneIsUnderWay DEF RolesInv
  <2>6. roleCalls'[c].op = "none"
    BY <1>1, <1>3, <2>1
  <2> QED
    BY <2>3, <2>5, <2>6, OneIsLeft
<1>8. CASE saved(c)
  <2>1. PICK o \in Request : /\ o = [NoRequest EXCEPT !.op = "load"]
                             /\ o.op = "load" /\ o.status = "sent"
    BY RequestTypes
  <2>2. /\ dialog' \in {"none", "create", "edit"} /\ saving' \in BOOLEAN /\ stale' \in BOOLEAN
        /\ UNCHANGED <<version, list, saves, roleErrors>> /\ q.op # "none"
        /\ stale' = (stale /\ \E d \in RoleCalls \ {c} : ~IsFree(d))
    BY <1>1, <1>2, <1>8 DEF saved
  <2>3. PICK calls \in {roleCalls, Detached(roleCalls)} : roleCalls' = [calls EXCEPT ![c] = o]
    BY <1>8, <2>1 DEF saved
  <2>4. /\ calls \in [RoleCalls -> Request]
        /\ \A d \in RoleCalls : /\ calls[d].op = roleCalls[d].op
                                /\ IsFree(d) => calls[d] = NoRequest
    BY <1>1, <2>3, DetachedTypes DEF IsFree
  <2>5. /\ roleCalls' \in [RoleCalls -> Request] /\ roleCalls'[c] = o
        /\ \A d \in RoleCalls \ {c} : roleCalls'[d] = calls[d]
    BY <2>3, <2>4
  <2>6. RolesTypeOK'
    BY <1>1, <2>2, <2>5 DEF RolesTypeOK
  <2>7. NoneIsFree'
    BY <1>1, <2>1, <2>4, <2>5 DEF NoneIsFree, IsFree
  <2>8. ~IsFree(c)
    BY <1>2, <1>3, <2>2 DEF IsFree
  <2>9. ~stale' => \A d \in RoleCalls \ {c} : IsFree(d)
    BY <1>1, <2>2, <2>8, OneIsUnderWay DEF IsFree
  <2>10. ~stale' => \A d \in RoleCalls \ {c} : roleCalls'[d] = NoRequest
    BY <2>4, <2>5, <2>9
  <2> QED
    BY <1>3, <2>1, <2>5, <2>6, <2>7, <2>10, OneIsLeft
<1> QED
  BY <1>4, <1>5, <1>6, <1>7, <1>8

THEOREM RolesInvariance == RolesSpec => []RolesInv
<1>1. RolesInv /\ [RolesNext]_rolesVars => RolesInv'
  BY DialogsKeep, CallsKeep DEF RolesNext
<1> QED
  BY <1>1, RolesInitHolds, PTL DEF RolesSpec

\* With nothing under way the roles screen shows the roles of the server, unless a request
\* failed or two overlapped since a load that ran alone (load of RolesAdmin.tsx).
THEOREM ShownRolesAlwaysCurrent == RolesSpec => [](RolesTypeOK /\ ShownRolesAreCurrent)
<1>1. RolesInv => RolesTypeOK /\ ShownRolesAreCurrent
  BY DEF RolesInv, ShownRolesAreCurrent
<1> QED
  BY <1>1, RolesInvariance, PTL

=============================================================================
