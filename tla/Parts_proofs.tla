----------------------------- MODULE Parts_proofs -----------------------------
(***************************************************************************)
(* Proofs about MCParts: side by side the parts do what each does alone,   *)
(* so that what is proved of them holds of the specification that TLC      *)
(* checks, for every value of the constants.                               *)
(***************************************************************************)
EXTENDS MCParts, ServerParts_proofs, Screens_proofs

LEMMA PartsStep ==
  ASSUME [Next]_partsVars
  PROVE  /\ [BootNext]_bootVars /\ [PoolNext]_poolVars /\ [RateNext]_rateVars
         /\ [ScreenNext]_screenVars /\ [RolesNext]_rolesVars
<1>1. UNCHANGED partsVars => UNCHANGED <<bootVars, poolVars, rateVars, screenVars, rolesVars>>
  BY DEF partsVars
<1> QED
  BY <1>1 DEF Next

\* The parts share no state: a behaviour of all of them is one of each.
LEMMA PartsAlone ==
  Spec => BootSpec /\ PoolSpec /\ RateSpec /\ ScreenSpec /\ RolesSpec
<1>1. Init => BootInit /\ PoolInit /\ RateInit /\ ScreenInit /\ RolesInit
  BY DEF Init
<1>2. [Next]_partsVars => /\ [BootNext]_bootVars /\ [PoolNext]_poolVars /\ [RateNext]_rateVars
                          /\ [ScreenNext]_screenVars /\ [RolesNext]_rolesVars
  BY PartsStep
<1> QED
  BY <1>1, <1>2, PTL DEF Spec, BootSpec, PoolSpec, RateSpec, ScreenSpec, RolesSpec

\* The state of every part keeps its type, whatever crashes, times out, fails or is answered
\* late (index.ts, sequelize.ts, rateLimit.ts, UsersAdmin.tsx, RolesAdmin.tsx).
THEOREM PartsTypes == Spec => []PartsTypeOK
<1>1. /\ BootTypeOK /\ PoolTypeOK /\ RateTypeOK /\ ScreenTypeOK /\ RolesTypeOK => PartsTypeOK
  BY DEF PartsTypeOK
<1> QED
  BY <1>1, PartsAlone, LedgerMatchesSchemaAlways, PoolTyping, FailuresAreBoundedAlways,
     OneDeletionAlways, ShownRolesAlwaysCurrent, PTL

\* What each part promises holds of all of them together: no part is safe only because
\* another one stands still.
THEOREM PartsAreSafe ==
  Spec => /\ [](LedgerMatchesSchema /\ ParallelBootsSucceed /\ ListeningIsReady)
          /\ [](OnlyAssignmentStalls /\ FailuresAreBounded)
          /\ [](ShownListIsCurrent /\ OneDeletionAtATime /\ ShownRolesAreCurrent)
          /\ SeedNeverOverwrites /\ RefusedForFailures
BY PartsAlone, LedgerMatchesSchemaAlways, ParallelBootsSucceedAlways, ListeningIsReadyAlways,
   SeedNeverOverwritesAlways, OnlyAssignmentStallsAlways, FailuresAreBoundedAlways,
   RefusedForFailuresAlways, OneDeletionAlways, ShownListAlwaysCurrent,
   ShownRolesAlwaysCurrent, PTL
=============================================================================
