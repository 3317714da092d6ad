-------------------------- MODULE AgentRefinement --------------------------
(***************************************************************************)
(* The coordinator in its automatic mode implements AgentOwnership.  In the*)
(* external mode it does not: a rollback reports a prepared agent released *)
(* that a concurrent close may still find unconfirmed.                     *)
(***************************************************************************)
EXTENDS AgentLifecycle

\* The phase of an agent, as a caller sees it in a snapshot.
PhaseOf(r) ==
  IF r.status = "absent" THEN "absent"
  ELSE IF ~r.closing THEN "open"
  ELSE IF r.cleanup # "done" THEN "closing"
  ELSE IF r.released THEN "released" ELSE "unconfirmed"

Ownership == INSTANCE AgentOwnership WITH
  Capacity <- MaxResidentAgents - 1,
  phase <- [a \in Agents |-> PhaseOf(agents[a])],
  ancestors <- [a \in Agents |-> agents[a].ancestors],
  live <- LiveSessions

\* Every behaviour of the coordinator is one of the abstract specification:
\* capacity is respected at the moment a session is acquired, a close takes
\* the whole subtree in one step, leaves settle before their parents, and an
\* agent is reported as released only over a released subtree.
ImplementsOwnership == Ownership!Spec
=============================================================================
