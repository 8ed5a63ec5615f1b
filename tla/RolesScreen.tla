----------------------------- MODULE RolesScreen -----------------------------
(***************************************************************************)
(* The roles screen (RolesAdmin.tsx): its list, which every saved dialog   *)
(* loads again without waiting for another load, and the two dialogs.      *)
(* The list is its version: the number of changes of the roles.            *)
(***************************************************************************)
EXTENDS Naturals

CONSTANTS
  RoleCalls,      \* bound: requests under way at once, by number
  MaxSaves,       \* bound: saves
  MaxRoleErrors   \* bound: requests that fail

ASSUME RolesScreenAssumption ==
  /\ RoleCalls \subseteq Nat /\ \E c \in RoleCalls : \A d \in RoleCalls : c <= d
  /\ MaxSaves \in Nat /\ MaxRoleErrors \in Nat

VARIABLES
  version,     \* of the roles on the server
  list,        \* the version shown, 0 before the first load
  dialog,      \* the dialog that is open: CreateRoleDialog or EditPermissionsDialog
  saving,      \* its isSaving
  roleCalls,
  stale,       \* history: since a load that ran alone, requests have overlapped or failed
  saves, roleErrors

rolesVars == <<version, list, dialog, saving, roleCalls, stale, saves, roleErrors>>

NoRequest == [op |-> "none", status |-> "sent", version |-> 0, inDialog |-> FALSE]
Request == [op: {"none", "load", "create", "edit"}, status: {"sent", "answered", "failed"},
            version: Nat, inDialog: BOOLEAN]

RolesTypeOK ==
  /\ version \in Nat \ {0} /\ list \in Nat
  /\ dialog \in {"none", "create", "edit"} /\ saving \in BOOLEAN
  /\ roleCalls \in [RoleCalls -> Request] /\ stale \in BOOLEAN
  /\ saves \in 0 .. MaxSaves /\ roleErrors \in 0 .. MaxRoleErrors

IsFree(c) == roleCalls[c] = NoRequest
NextFree(c) == IsFree(c) /\ \A d \in RoleCalls : d < c => ~IsFree(d)
AllFree == \A c \in RoleCalls : IsFree(c)

RolesInit ==
  /\ version = 1 /\ list = 0 /\ dialog = "none" /\ saving = FALSE
  /\ roleCalls = [c \in RoleCalls |-> IF \A d \in RoleCalls : c <= d
                                      THEN [NoRequest EXCEPT !.op = "load"] ELSE NoRequest]
  /\ stale = FALSE /\ saves = 0 /\ roleErrors = 0

\* Create role; or Edit permissions of a row, which needs the list.
opens(d) ==
  /\ dialog = "none" /\ (d = "edit" => list # 0)
  /\ dialog' = d
  /\ UNCHANGED <<version, list, saving, roleCalls, stale, saves, roleErrors>>

\* What is under way is not cancelled with its dialog.
Detached(calls) == [c \in RoleCalls |-> [calls[c] EXCEPT !.inDialog = FALSE]]

\* Cancel or Escape.
closes ==
  /\ dialog # "none"
  /\ dialog' = "none" /\ saving' = FALSE
  /\ roleCalls' = Detached(roleCalls)
  /\ UNCHANGED <<version, list, stale, saves, roleErrors>>

\* onSubmit of the form (with a name that the schema accepts) and save: the button is
\* disabled while its dialog saves.
submits(c) ==
  /\ dialog # "none" /\ ~saving /\ NextFree(c)
  /\ saves < MaxSaves /\ saves' = saves + 1
  /\ saving' = TRUE
  /\ roleCalls' = [roleCalls EXCEPT ![c] = [NoRequest EXCEPT !.op = dialog, !.inDialog = TRUE]]
  /\ stale' = (stale \/ ~AllFree)
  /\ UNCHANGED <<version, list, dialog, roleErrors>>

\* createRole and setRolePermissions change the roles; a load reads them.
serves(c) ==
  /\ ~IsFree(c) /\ roleCalls[c].status = "sent"
  /\ version' = IF roleCalls[c].op = "load" THEN version ELSE version + 1
  /\ roleCalls' = [roleCalls EXCEPT ![c].status = "answered", ![c].version = version']
  /\ UNCHANGED <<list, dialog, saving, stale, saves, roleErrors>>

failsToLoad(c) ==
  /\ ~IsFree(c) /\ roleCalls[c].status # "failed" /\ roleErrors < MaxRoleErrors
  /\ roleErrors' = roleErrors + 1
  /\ roleCalls' = [roleCalls EXCEPT ![c].status = "failed"]
  /\ UNCHANGED <<version, list, dialog, saving, stale, saves>>

\* load: both lists, or neither.
shows(c) ==
  /\ roleCalls[c].op = "load" /\ roleCalls[c].status # "sent"
  /\ list' = IF roleCalls[c].status = "failed" THEN list ELSE roleCalls[c].version
  /\ stale' = (stale \/ roleCalls[c].status = "failed")
  /\ roleCalls' = [roleCalls EXCEPT ![c] = NoRequest]
  /\ UNCHANGED <<version, dialog, saving, saves, roleErrors>>

\* Faulty variant: the list is not loaded again.
savedOnly(c) ==
  /\ roleCalls[c].op \in {"create", "edit"} /\ roleCalls[c].status = "answered"
  /\ dialog' = IF dialog = roleCalls[c].op THEN "none" ELSE dialog
  /\ saving' = (saving /\ dialog' = dialog)
  /\ roleCalls' = [roleCalls EXCEPT ![c] = NoRequest]
  /\ stale' = (stale /\ \E d \in RoleCalls \ {c} : ~IsFree(d))
  /\ UNCHANGED <<version, list, saves, roleErrors>>

\* onCreated and onSaved: the dialog of that kind closes, be it the one that sent the
\* request or another opened since, and the list is loaded again.
saved(c) ==
  /\ roleCalls[c].op \in {"create", "edit"} /\ roleCalls[c].status = "answered"
  /\ dialog' = IF dialog = roleCalls[c].op THEN "none" ELSE dialog
  /\ saving' = (saving /\ dialog' = dialog)
  /\ roleCalls' = [(IF dialog' = dialog THEN roleCalls ELSE Detached(roleCalls))
                     EXCEPT ![c] = [NoRequest EXCEPT !.op = "load"]]
  /\ stale' = (stale /\ \E d \in RoleCalls \ {c} : ~IsFree(d))
  /\ UNCHANGED <<version, list, saves, roleErrors>>

saveFails(c) ==
  /\ roleCalls[c].op \in {"create", "edit"} /\ roleCalls[c].status = "failed"
  /\ saving' = (saving /\ ~roleCalls[c].inDialog)
  /\ stale' = TRUE
  /\ roleCalls' = [roleCalls EXCEPT ![c] = NoRequest]
  /\ UNCHANGED <<version, list, dialog, saves, roleErrors>>

RolesNext ==
  \/ \E d \in {"create", "edit"} : opens(d)
  \/ closes
  \/ \E c \in RoleCalls : \/ submits(c) \/ serves(c) \/ failsToLoad(c)
                          \/ shows(c) \/ saved(c) \/ saveFails(c)

RolesSpec == RolesInit /\ [][RolesNext]_rolesVars

-----------------------------------------------------------------------------
(* Properties.                                                             *)

\* When nothing is under way the list is that of the server, unless a request has
\* failed or two have overlapped since a load that ran alone: loads are not ordered,
\* and the last one to arrive is shown.
ShownRolesAreCurrent == AllFree /\ ~stale => list = version
=============================================================================
