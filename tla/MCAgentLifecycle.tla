-------------------------- MODULE MCAgentLifecycle --------------------------
(* Instances of AgentLifecycle and of its refinement for TLC.  The agents are *)
(* model values, the ones in Suspendable are told apart from the others.     *)
EXTENDS AgentRefinement, TLC

CONSTANTS a1, a2, a3, main

MCAllFailures == SessionOps
MCDisposeFails == {"dispose"}

\* Agents that cannot be suspended differ in nothing.
MCSymmetry == Permutations(Agents \ Suspendable)
=============================================================================
