--------------------------- MODULE SessionFamily ---------------------------
(***************************************************************************)
(* What the refresh-token service promises of a session (a token family):  *)
(* it is opened once, by a login; while it is live it has one current      *)
(* token, which a refresh exchanges for a fresh one; it ends once, for     *)
(* good.  No database, no statements, no locks.                            *)
(***************************************************************************)
CONSTANTS Families, Tokens, None

VARIABLES
  state,   \* of each session: "none" | "live" | "ended"
  head,    \* its current token, if it is live
  issued   \* all tokens ever handed out

vars == <<state, head, issued>>

Init ==
  /\ state = [f \in Families |-> "none"]
  /\ head = [f \in Families |-> None]
  /\ issued = {}

Fresh(t) == t \in Tokens \ issued

\* A login opens session f with token t.
Open(f, t) ==
  /\ state[f] = "none" /\ Fresh(t)
  /\ state' = [state EXCEPT ![f] = "live"]
  /\ head' = [head EXCEPT ![f] = t]
  /\ issued' = issued \cup {t}

\* A refresh replaces the current token.
Advance(f, t) ==
  /\ state[f] = "live" /\ Fresh(t)
  /\ head' = [head EXCEPT ![f] = t]
  /\ issued' = issued \cup {t}
  /\ UNCHANGED state

\* A logout, a reuse, or a change of the user ends the sessions F.
End(F) ==
  /\ \A f \in F : state[f] = "live"
  /\ state' = [f \in Families |-> IF f \in F THEN "ended" ELSE state[f]]
  /\ head' = [f \in Families |-> IF f \in F THEN None ELSE head[f]]
  /\ UNCHANGED issued

Next ==
  \/ \E f \in Families, t \in Tokens : Open(f, t) \/ Advance(f, t)
  \/ \E F \in SUBSET Families : End(F)

Spec == Init /\ [][Next]_vars
=============================================================================
