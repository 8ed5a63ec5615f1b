----------------------------- MODULE UsersScreen -----------------------------
(***************************************************************************)
(* The users screen (UsersAdmin.tsx), the requests it has under way        *)
(* (admin-service.ts) and the list they change on the server, for one      *)
(* administrator.  Answers arrive in any order; a dialog covers the table  *)
(* and the buttons below it, and closes at once on Cancel or Escape,       *)
(* whatever is under way (Modal.tsx, ConfirmDialog.tsx).  A page holds one *)
(* user.                                                                   *)
(***************************************************************************)
EXTENDS Naturals, Sequences, SequencesExt

CONSTANTS
  Rows,          \* the users of the list, not the one who is signed in
  NoRow,
  UserCalls,     \* bound: requests under way at once, by number
  MaxClicks,     \* bound: clicks that cause a request
  MaxErrors      \* bound: requests that fail

ASSUME ScreenAssumption ==
  /\ IsFiniteSet(Rows) /\ NoRow \notin Rows /\ UserCalls \subseteq Nat
  /\ \E c \in UserCalls : \A d \in UserCalls : c <= d
  /\ MaxClicks \in Nat /\ MaxErrors \in Nat

VARIABLES
  users,          \* the list on the server, in its order
  profile,        \* what the server has of each user: isActive and roles
  page, data, isLoading, isDeleting,
  pendingDelete,  \* the user whose deletion the dialog asks about
  rolesDialog,    \* the roles dialog: its user, its list of roles, its Save button
  userCalls,      \* the requests under way
  excused,        \* history: the list may be of another page, or its rows out of date
  clicks, errors

screenState == <<page, data, isLoading, isDeleting, pendingDelete, rolesDialog>>
screenVars == <<users, profile, screenState, userCalls, excused, clicks, errors>>

Profiles == [isActive: BOOLEAN, roles: 0 .. 1]
NoData == [currentPage |-> 0, totalPages |-> 0, item |-> NoRow, shown |-> [isActive |-> TRUE, roles |-> 0]]
Pages == [currentPage: Nat, totalPages: Nat, item: Rows \cup {NoRow}, shown: Profiles]
Closed == [user |-> NoRow, listed |-> FALSE, isSaving |-> FALSE]

\* A request: what it asks, for which page or user, the answer it has by now, and
\* whether the dialog that sent it is still the one on the screen.  The page of a
\* deletion and its reload is the one that was selected when it was confirmed.
NoCall == [op |-> "none", page |-> 0, user |-> NoRow, body |-> NoData.shown,
           status |-> "sent", answer |-> NoData, inDialog |-> FALSE]
Ops == {"none", "list", "reload", "toggle", "delete", "roles"}
Call == [op: Ops, page: Nat, user: Rows \cup {NoRow}, body: Profiles,
         status: {"sent", "answered", "failed"}, answer: Pages, inDialog: BOOLEAN]

ScreenTypeOK ==
  /\ users \in Seq(Rows) /\ profile \in [Rows -> Profiles]
  /\ page \in Nat \ {0} /\ data \in Pages /\ isLoading \in BOOLEAN /\ isDeleting \in BOOLEAN
  /\ pendingDelete \in Rows \cup {NoRow}
  /\ rolesDialog \in [user: Rows \cup {NoRow}, listed: BOOLEAN, isSaving: BOOLEAN]
  /\ userCalls \in [UserCalls -> Call] /\ excused \in BOOLEAN
  /\ clicks \in 0 .. MaxClicks /\ errors \in 0 .. MaxErrors

Under(ops) == {c \in UserCalls : userCalls[c].op \in ops}
Writes == {"toggle", "delete", "roles"}
Quiet == Under(Ops \ {"none"}) = {}

\* Calls take the numbers that are free in order.
NextCall(c) ==
  userCalls[c] = NoCall /\ \A d \in UserCalls : d < c => userCalls[d] # NoCall
Sends(c, op, p, u, body) ==
  userCalls' = [userCalls EXCEPT ![c] = [NoCall EXCEPT
    !.op = op, !.page = p, !.user = u, !.body = body, !.inDialog = op = "roles"]]

\* The first render, and the effect that loads the first page.
ScreenInit ==
  /\ users = SetToSeq(Rows)
  /\ profile = [u \in Rows |-> [isActive |-> TRUE, roles |-> 0]]
  /\ page = 1 /\ data = NoData /\ isLoading = TRUE /\ isDeleting = FALSE
  /\ pendingDelete = NoRow /\ rolesDialog = Closed
  /\ userCalls = [c \in UserCalls |-> IF \A d \in UserCalls : c <= d
                                      THEN [NoCall EXCEPT !.op = "list", !.page = 1]
                                      ELSE NoCall]
  /\ excused = FALSE /\ clicks = 0 /\ errors = 0

-----------------------------------------------------------------------------
(* The screen.                                                             *)

\* A click that sends its request as call c.
Clicks(c) == NextCall(c) /\ clicks < MaxClicks /\ clicks' = clicks + 1
NoDialog == pendingDelete = NoRow /\ rolesDialog = Closed

\* A load that starts when nothing is under way shows the selected page as it is; what
\* overlaps with a change or its reload may not.
Excused(alone) == IF alone /\ Quiet THEN FALSE
                  ELSE excused \/ Under({"reload"} \cup Writes) # {}

\* Previous and Next, and the effect that loads the page.
turnsPage(c, p) ==
  /\ NoDialog /\ data # NoData /\ Clicks(c)
  /\ (p = page - 1 /\ p >= 1) \/ (p = page + 1 /\ page < data.totalPages)
  /\ page' = p /\ isLoading' = TRUE
  /\ Sends(c, "list", p, NoRow, NoData.shown)
  /\ excused' = Excused(TRUE)
  /\ UNCHANGED <<users, profile, data, isDeleting, pendingDelete, rolesDialog, errors>>

\* Faulty variant: the buttons stay enabled while a page loads.
setPageAnytime(c, p) == turnsPage(c, p)

setPage(c, p) == ~isLoading /\ turnsPage(c, p)

toggleActive(c) ==
  /\ NoDialog /\ data.item # NoRow /\ Clicks(c)
  /\ Sends(c, "toggle", 0, data.item, [data.shown EXCEPT !.isActive = ~@])
  /\ excused' = (Excused(FALSE) \/ Under({"list"}) # {})
  /\ UNCHANGED <<users, profile, screenState, errors>>

\* Delete and Roles of the row open their dialogs.
openDialog ==
  /\ NoDialog /\ data.item # NoRow
  /\ \/ pendingDelete' = data.item /\ UNCHANGED rolesDialog
     \/ rolesDialog' = [Closed EXCEPT !.user = data.item] /\ UNCHANGED pendingDelete
  /\ UNCHANGED <<users, profile, page, data, isLoading, isDeleting,
                 userCalls, excused, clicks, errors>>

\* listRoles answers in the dialog, if it does not fail: only then can Save be pressed.
rolesListed ==
  /\ rolesDialog.user # NoRow /\ ~rolesDialog.listed
  /\ rolesDialog' = [rolesDialog EXCEPT !.listed = TRUE]
  /\ UNCHANGED <<users, profile, page, data, isLoading, isDeleting, pendingDelete,
                 userCalls, excused, clicks, errors>>

\* What is under way is not cancelled with its dialog.
Orphaned(calls) == [c \in UserCalls |-> [calls[c] EXCEPT !.inDialog = FALSE]]

cancel ==
  /\ ~NoDialog
  /\ pendingDelete' = NoRow /\ rolesDialog' = Closed
  /\ userCalls' = Orphaned(userCalls)
  /\ UNCHANGED <<users, profile, page, data, isLoading, isDeleting, excused, clicks, errors>>

deletes(c) ==
  /\ pendingDelete # NoRow /\ Clicks(c)
  /\ isDeleting' = TRUE
  /\ Sends(c, "delete", page, pendingDelete, NoData.shown)
  /\ excused' = (Excused(FALSE) \/ Under({"list"}) # {})
  /\ UNCHANGED <<users, profile, page, data, isLoading, pendingDelete, rolesDialog, errors>>

\* Faulty variant: the dialog is not told that a deletion is pending.
confirmDeleteAgain(c) == deletes(c)

\* isPending disables the button while a deletion is under way.
confirmDelete(c) == ~isDeleting /\ deletes(c)

saveRoles(c, roles) ==
  /\ rolesDialog.listed /\ ~rolesDialog.isSaving /\ Clicks(c)
  /\ rolesDialog' = [rolesDialog EXCEPT !.isSaving = TRUE]
  /\ Sends(c, "roles", 0, rolesDialog.user, [NoData.shown EXCEPT !.roles = roles])
  /\ excused' = (Excused(FALSE) \/ Under({"list"}) # {})
  /\ UNCHANGED <<users, profile, page, data, isLoading, isDeleting, pendingDelete, errors>>

-----------------------------------------------------------------------------
(* The server.                                                             *)

ListPage(p) == IF p > Len(users)
               THEN [NoData EXCEPT !.currentPage = p, !.totalPages = Len(users)]
               ELSE [currentPage |-> p, totalPages |-> Len(users),
                     item |-> users[p], shown |-> profile[users[p]]]

Changed(q) == IF q.op = "toggle"
              THEN [profile[q.user] EXCEPT !.isActive = q.body.isActive]
              ELSE [profile[q.user] EXCEPT !.roles = q.body.roles]
Answers(c, answer) ==
  userCalls' = [userCalls EXCEPT ![c].status = "answered", ![c].answer = answer]

\* listUsers, updateUser and assignUserRoles, and deleteUser.
serveRequest(c) ==
  LET q == userCalls[c]
  IN /\ q.op # "none" /\ q.status = "sent"
     /\ \/ /\ q.op \in {"list", "reload"}
           /\ Answers(c, ListPage(q.page))
           /\ UNCHANGED <<users, profile>>
        \/ /\ q.op \in {"toggle", "roles"} /\ Contains(users, q.user)
           /\ profile' = [profile EXCEPT ![q.user] = Changed(q)]
           /\ Answers(c, [NoData EXCEPT !.item = q.user, !.shown = Changed(q)])
           /\ UNCHANGED users
        \/ /\ q.op = "delete" /\ Answers(c, NoData)
           /\ \E i \in 1 .. Len(users) : users[i] = q.user /\ users' = RemoveAt(users, i)
           /\ UNCHANGED profile
     /\ UNCHANGED <<screenState, excused, clicks, errors>>

\* A request fails on its way, its answer is lost, or the user is gone.
requestFails(c) ==
  LET q == userCalls[c]
      gone == q.op \in Writes /\ q.status = "sent" /\ ~Contains(users, q.user)
  IN /\ q.op # "none" /\ q.status # "failed"
     /\ (gone /\ UNCHANGED errors) \/ (errors < MaxErrors /\ errors' = errors + 1)
     /\ userCalls' = [userCalls EXCEPT ![c].status = "failed"]
     /\ UNCHANGED <<users, profile, screenState, excused, clicks>>

-----------------------------------------------------------------------------
(* What the screen does with an answer.                                    *)

Ended(calls, c) == [calls EXCEPT ![c] = NoCall]
Settles(c, op) == userCalls[c].op = op /\ userCalls[c].status # "sent"
Failed(c) == userCalls[c].status = "failed"

\* Faulty variant: only a load that succeeds ends the loading state.
loadedIfGood(c, op) ==
  /\ Settles(c, op)
  /\ data' = IF Failed(c) THEN data ELSE userCalls[c].answer
  /\ isLoading' = (isLoading /\ Failed(c))
  /\ isDeleting' = (isDeleting /\ op = "list")
  /\ excused' = (excused \/ Failed(c))
  /\ userCalls' = Ended(userCalls, c)
  /\ UNCHANGED <<users, profile, page, pendingDelete, rolesDialog, clicks, errors>>

\* load, and after a deletion the finally of confirmDelete.
loaded(c, op) ==
  /\ Settles(c, op)
  /\ data' = IF Failed(c) THEN data ELSE userCalls[c].answer
  /\ isLoading' = FALSE
  /\ isDeleting' = (isDeleting /\ op = "list")
  /\ excused' = (excused \/ Failed(c))
  /\ userCalls' = Ended(userCalls, c)
  /\ UNCHANGED <<users, profile, page, pendingDelete, rolesDialog, clicks, errors>>

\* A deletion has been answered: the dialog closes, whoever it asks about by now, and
\* the page on which it was confirmed is loaded.
deleted(c) ==
  /\ Settles(c, "delete")
  /\ pendingDelete' = NoRow
  /\ IF Failed(c)
     THEN isDeleting' = FALSE /\ excused' = TRUE /\ userCalls' = Ended(userCalls, c)
          /\ UNCHANGED isLoading
     ELSE /\ isLoading' = TRUE
          /\ Sends(c, "reload", userCalls[c].page, NoRow, NoData.shown)
          /\ UNCHANGED <<isDeleting, excused>>
  /\ UNCHANGED <<users, profile, page, data, rolesDialog, clicks, errors>>

\* replaceUser changes the row where it is shown.
replaceUser(c) ==
  data' = IF ~Failed(c) /\ data.item = userCalls[c].user
          THEN [data EXCEPT !.shown = userCalls[c].answer.shown] ELSE data

toggled(c) ==
  /\ Settles(c, "toggle") /\ replaceUser(c)
  /\ excused' = (excused \/ Failed(c))
  /\ userCalls' = Ended(userCalls, c)
  /\ UNCHANGED <<users, profile, page, isLoading, isDeleting, pendingDelete, rolesDialog,
                 clicks, errors>>

\* Saved roles close whatever roles dialog is open; a failure enables its own button.
rolesSaved(c) ==
  /\ Settles(c, "roles") /\ replaceUser(c)
  /\ excused' = (excused \/ Failed(c))
  /\ IF Failed(c)
     THEN /\ rolesDialog' = [rolesDialog EXCEPT !.isSaving = @ /\ ~userCalls[c].inDialog]
          /\ userCalls' = Ended(userCalls, c)
     ELSE rolesDialog' = Closed /\ userCalls' = Orphaned(Ended(userCalls, c))
  /\ UNCHANGED <<users, profile, page, isLoading, isDeleting, pendingDelete, clicks, errors>>

answerArrives(c) ==
  \/ loaded(c, "list") \/ loaded(c, "reload") \/ deleted(c) \/ toggled(c) \/ rolesSaved(c)

ScreenNext ==
  \/ \E c \in UserCalls :
       \/ \E p \in {page - 1, page + 1} : setPage(c, p)
       \/ toggleActive(c) \/ confirmDelete(c) \/ \E roles \in 0 .. 1 : saveRoles(c, roles)
       \/ serveRequest(c) \/ requestFails(c) \/ answerArrives(c)
  \/ openDialog \/ rolesListed \/ cancel

ScreenSpec == ScreenInit /\ [][ScreenNext]_screenVars

-----------------------------------------------------------------------------
(* Properties.                                                             *)

\* When nothing is under way, the screen shows the selected page, with its row as the
\* server has it.  The exceptions are a request that failed, and one that overlapped
\* with a change of the list, until the next page is loaded on its own; turning pages
\* alone never needs one, as the buttons are disabled while a page loads.
ShownListIsCurrent ==
  Quiet /\ ~excused => data = ListPage(page)

\* There is one deletion at a time, whatever dialogs have been closed and opened since.
OneDeletionAtATime ==
  \A c, d \in Under({"delete", "reload"}) : c = d
=============================================================================
