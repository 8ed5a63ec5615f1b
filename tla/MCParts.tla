------------------------------ MODULE MCParts ------------------------------
(***************************************************************************)
(* Instances for TLC of the parts of the system that share no state with   *)
(* one another in these models: the start of the servers, the connection   *)
(* pool, the rate limiter and the two administration screens.  One run     *)
(* checks them all: part says which of them a behaviour is about, and the  *)
(* others keep their initial state.                                        *)
(***************************************************************************)
EXTENDS Boot, Pool, RateLimit, UsersScreen, RolesScreen

CONSTANT email

VARIABLE part

SameEmail == [a \in Attempts |-> email]

Parts == {"boot", "pool", "rate", "users", "roles"}

partsVars == <<part, bootVars, poolVars, rateVars, screenVars, rolesVars>>

Init ==
  /\ part \in Parts
  /\ BootInit /\ PoolInit /\ RateInit /\ ScreenInit /\ RolesInit

Next ==
  \/ /\ part = "boot" /\ BootNext
     /\ UNCHANGED <<part, poolVars, rateVars, screenVars, rolesVars>>
  \/ /\ part = "pool" /\ PoolNext
     /\ UNCHANGED <<part, bootVars, rateVars, screenVars, rolesVars>>
  \/ /\ part = "rate" /\ RateNext
     /\ UNCHANGED <<part, bootVars, poolVars, screenVars, rolesVars>>
  \/ /\ part = "users" /\ ScreenNext
     /\ UNCHANGED <<part, bootVars, poolVars, rateVars, rolesVars>>
  \/ /\ part = "roles" /\ RolesNext
     /\ UNCHANGED <<part, bootVars, poolVars, rateVars, screenVars>>

\* Statements that do not wait are run, exited containers restarted; a request that waits
\* for a connection gets one or times out; requests of the screens settle, if only by a
\* failure.
Fairness ==
  /\ \A s \in Servers : WF_bootVars(part = "boot" /\ Boots(s))
  /\ \A r \in Clients : WF_poolVars(part = "pool" /\ (Runs(r) \/ acquireTimeout(r)))
  /\ \A c \in UserCalls :
       WF_screenVars(part = "users" /\ (serveRequest(c) \/ requestFails(c) \/ answerArrives(c)))
  /\ \A c \in RoleCalls :
       WF_rolesVars(part = "roles" /\ (serves(c) \/ shows(c) \/ saved(c) \/ saveFails(c)))

Spec == Init /\ [][Next]_partsVars /\ Fairness

-----------------------------------------------------------------------------
\* The state of every part has its type.
PartsTypeOK == BootTypeOK /\ PoolTypeOK /\ RateTypeOK /\ ScreenTypeOK /\ RolesTypeOK

\* Whatever crashes, every server listens in the end, or has been stopped: none is left
\* in a loop of restarts or in a wait for another (docker-compose.yml, index.ts).
ServersListen ==
  \A s \in Servers : []<>(part = "boot" => bootPc[s] \in {"listening", "stopped"})

\* A stall of the pool does not last: every request is answered in the end, though
\* perhaps by the timeout of the pool (user.service.ts, sequelize.ts).
EveryRequestEnds == \A r \in Clients : []<>(pc[r] = "idle")

\* The users screen stops loading and deleting, and the dialogs of both screens saving,
\* whatever fails (UsersAdmin.tsx, RolesAdmin.tsx).
ScreensSettle ==
  /\ []<>(part = "users" => ~isLoading)
  /\ []<>~isDeleting
  /\ []<>~rolesDialog.isSaving
  /\ []<>~saving
=============================================================================
