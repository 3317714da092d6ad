--------------------------- MODULE AgentOwnership ---------------------------
(***************************************************************************)
(* What the SubAgent coordinator promises about the agents it owns, without*)
(* turns, queues, signals and cleanup stages: who exists, who is being     *)
(* closed, whose resources are known to be released and whose are not, and *)
(* how many sessions are live.                                             *)
(***************************************************************************)
EXTENDS Integers, FiniteSets

CONSTANTS
  Agents,     \* identifiers of the agents
  Capacity    \* sessions that may be live at once

VARIABLES
  phase,      \* phase of every agent
  ancestors,  \* the agents above an agent
  live        \* the agents whose session holds a runtime

vars == <<phase, ancestors, live>>

Phase == {"absent", "open", "closing", "released", "unconfirmed"}
Settled == {"released", "unconfirmed"}

Below(a) == {d \in Agents : a \in ancestors[d]}

Init ==
  /\ phase = [a \in Agents |-> "absent"]
  /\ ancestors = [a \in Agents |-> {}]
  /\ live = {}

\* A new agent, below nobody or below an open agent, begins its first turn.
Open(a) ==
  /\ phase[a] = "absent"
  /\ Cardinality(live) < Capacity
  /\ \/ ancestors' = ancestors
     \/ \E p \in Agents : /\ phase[p] = "open"
                          /\ ancestors' = [ancestors EXCEPT ![a] = ancestors[p] \cup {p}]
  /\ phase' = [phase EXCEPT ![a] = "open"]
  /\ live' = live \cup {a}

\* An open agent takes up a further turn.
Acquire(a) ==
  /\ phase[a] = "open" /\ a \notin live
  /\ Cardinality(live) < Capacity
  /\ live' = live \cup {a}
  /\ UNCHANGED <<phase, ancestors>>

\* A session lets its runtime go: it is suspended, disposed or never came up.
Yield(a) ==
  /\ live' = live \ {a}
  /\ UNCHANGED <<phase, ancestors>>

\* An agent is closed with everything below it.
Close(S) ==
  /\ \A a \in S : phase[a] # "absent" /\ Below(a) \subseteq S
  /\ phase' = [a \in Agents |-> IF a \in S /\ phase[a] = "open" THEN "closing" ELSE phase[a]]
  /\ UNCHANGED <<ancestors, live>>

\* The closing of an agent ends, after those below it: it is known to be
\* released only if they all are and its own session is not live.
Settle(a, outcome) ==
  /\ phase[a] = "closing"
  /\ \A d \in Below(a) : phase[d] \in Settled
  /\ phase' = [phase EXCEPT ![a] = outcome]
  /\ live' \in {live, live \ {a}}
  /\ outcome = "released" => a \notin live' /\ \A d \in Below(a) : phase[d] = "released"
  /\ UNCHANGED ancestors

Next ==
  \/ \E a \in Agents : \/ Open(a)
                       \/ Acquire(a)
                       \/ Yield(a)
                       \/ \E outcome \in Settled : Settle(a, outcome)
  \/ \E S \in SUBSET Agents : Close(S)

Spec == Init /\ [][Next]_vars
=============================================================================
