-------------------------- MODULE ClaimPublication -------------------------
(***************************************************************************)
(* What the publication of a goal's claim promises, without runs, requests,*)
(* reservations and replies: attempts of the claim are made one after      *)
(* another, an attempt may be given up only until its operation has been   *)
(* approved, the receiver then decides it once, and the goal is complete   *)
(* only over an attempt that the receiver has committed.                   *)
(***************************************************************************)
EXTENDS Naturals

CONSTANT Attempts   \* the attempts of the claim, in their order

VARIABLES
  attempt,  \* what has become of each attempt
  intent,   \* status of the claim
  goal      \* status of the goal

vars == <<attempt, intent, goal>>

\* An attempt that is over without an effect makes room for the next one.
Void == {"retired", "cancelled"}

Init ==
  /\ attempt = [a \in Attempts |-> "absent"]
  /\ intent = "claimed"
  /\ goal = "active"

Moves(a, old, new) ==
  /\ attempt[a] = old
  /\ attempt' = [attempt EXCEPT ![a] = new]
  /\ UNCHANGED <<intent, goal>>

Open(a) ==
  /\ intent = "claimed"
  /\ \A b \in Attempts : b < a => attempt[b] \in Void
  /\ Moves(a, "absent", "open")

\* Nobody has approved the operation, and from now on nobody can.
Retire(a) == Moves(a, "open", "retired")

Approve(a) == Moves(a, "open", "approved")

\* The receiver decides; a later reply, or none, changes nothing.
Publish(a) == \E result \in {"committed", "cancelled"} : Moves(a, "approved", result)

Credit ==
  /\ \E a \in Attempts : attempt[a] = "committed"
  /\ intent' = "committed"
  /\ UNCHANGED <<attempt, goal>>

Complete ==
  /\ goal = "active" /\ intent = "committed"
  /\ goal' = "complete"
  /\ UNCHANGED <<attempt, intent>>

\* The user pauses, resumes or withdraws a goal that is not complete.
Decide ==
  /\ goal \in {"active", "paused"}
  /\ goal' \in {"active", "paused", "withdrawn"}
  /\ UNCHANGED <<attempt, intent>>

Next ==
  \/ \E a \in Attempts : Open(a) \/ Retire(a) \/ Approve(a) \/ Publish(a)
  \/ Credit \/ Complete \/ Decide

Spec == Init /\ [][Next]_vars
=============================================================================
