------------------------ MODULE LifecycleReconciler ------------------------
(***************************************************************************)
(* The LifecycleReconciler for one component: it compares the desired with *)
(* the actual state of the component's provider and activates, replaces or *)
(* retires generations in the provider slot.  An action is a synchronous   *)
(* section.  The leases on a generation only decide when its retirement    *)
(* ends, which may be any time.                                            *)
(***************************************************************************)
EXTENDS Naturals, FiniteSets

CONSTANTS
  MaxRequests,      \* calls that change or confirm the desired state
  MaxReplacements,  \* calls of replaceGeneration
  MaxHealthSignals  \* health signals that are applied

ASSUME BoundsAssumption ==
  MaxRequests \in Nat /\ MaxReplacements \in Nat /\ MaxHealthSignals \in Nat

\* The values of generationSeq: an attempt has a call that asked for it, and a
\* replacement may have a second one follow.
Generations == 1 .. MaxRequests + 2 * MaxReplacements + MaxHealthSignals
None == 0

VARIABLES
  desired,       \* desiredActive
  runtime,       \* runtimeState
  committed,     \* committedGeneration
  sequence,      \* generationSeq
  slot,          \* state of every generation in the provider slot
  flight,        \* the reconcile in flight, or the last one
  replacement,   \* the call of replaceGeneration under way
  background,    \* previous generations that a replacement is retiring
  health,        \* the application of health signals under way
  overlapped,    \* whether calls have run that the single flight excludes
  calls          \* calls made, by kind

vars == <<desired, runtime, committed, sequence, slot, flight, replacement, background,
          health, overlapped, calls>>

-----------------------------------------------------------------------------
(* Types.                                                                   *)

RuntimeState == {"inactive", "activating", "active", "active_degraded", "deactivating",
                 "failed", "blocked_manifest", "cleanup_failed"}
\* "stuck" is a generation whose retirement was rejected; it stays in the slot.
SlotState == {"absent", "preparing", "committed", "retiring", "stuck", "retired", "failed"}
\* Where an attempt stands; "over" is a reconcile whose callers have not run yet.
Stage == {"none", "activating", "stale", "throwing", "blocked", "retiring", "over"}
\* stale: desiredRevision has moved since the attempt began.
\* previous: the generation a replacement replaces.
Attempt == [stage : Stage, generation : Generations \cup {None},
            previous : Generations \cup {None}, stale : BOOLEAN]

TypeOK ==
  /\ desired \in BOOLEAN
  /\ runtime \in RuntimeState
  /\ committed \in Generations \cup {None}
  /\ sequence \in Generations \cup {0}
  /\ slot \in [Generations -> SlotState]
  /\ flight \in Attempt
  /\ replacement \in Attempt
  /\ background \in SUBSET Generations
  /\ health \in Attempt
  /\ overlapped \in BOOLEAN
  /\ calls \in [request : 0 .. MaxRequests, replacement : 0 .. MaxReplacements, health : 0 .. MaxHealthSignals]
  /\ \A a \in {flight, replacement, health} :
       a.stage \notin {"none", "over"} => a.generation # None
  /\ replacement.stage # "none" => replacement.previous # None

At(stage, g, previous) == [stage |-> stage, generation |-> g, previous |-> previous, stale |-> FALSE]
Idle == At("none", None, None)

Init ==
  /\ desired = FALSE
  /\ runtime = "inactive"
  /\ committed = None
  /\ sequence = 0
  /\ slot = [g \in Generations |-> "absent"]
  /\ flight = Idle
  /\ replacement = Idle
  /\ background = {}
  /\ health = Idle
  /\ overlapped = FALSE
  /\ calls = [request |-> 0, replacement |-> 0, health |-> 0]

-----------------------------------------------------------------------------
(* The provider slot, as the reconciler sees it.                            *)

NextGeneration == sequence + 1
Prepared(s) == [s EXCEPT ![NextGeneration] = "preparing"]

\* Variant of Swapped: the previous generation goes on serving.
SwappedBeside(s, g) == [s EXCEPT ![g] = "committed"]

Swapped(s, g) == [h \in Generations |-> IF h = g THEN "committed"
                                        ELSE IF s[h] = "committed" THEN "retiring" ELSE s[h]]

\* retire withdraws a generation at once; it ends, or is rejected, later.  One
\* that has left the slot is not retired again.
Withdrawn(s, g) == [s EXCEPT ![g] = IF @ = "committed" THEN "retiring" ELSE @]
Retired(s, g, ok) ==
  [s EXCEPT ![g] = IF @ \notin {"retiring", "stuck"} THEN @ ELSE IF ok THEN "retired" ELSE "stuck"]

\* A continuation of the callers of a reconcile comes before any new call.
Quiet == flight.stage # "over" /\ health.stage # "over"

-----------------------------------------------------------------------------
(* reconcile: one in flight.                                                *)

\* The synchronous part of runReconcile, from the desired state d, the
\* committed generation c, the slot s and the runtime state r.
RunReconcile(d, c, s, r) ==
  \/ /\ ~d /\ c # None
     /\ flight' = At("retiring", c, None)
     /\ runtime' = "deactivating"
     /\ slot' = Withdrawn(s, c)
     /\ UNCHANGED sequence
  \/ /\ ~d /\ c = None
     /\ flight' = At("over", None, None)
     /\ runtime' = "inactive"
     /\ slot' = s
     /\ UNCHANGED sequence
  \/ /\ d /\ c # None
     /\ flight' = At("over", None, None)
     /\ runtime' = r
     /\ slot' = s
     /\ UNCHANGED sequence
  \/ /\ d /\ c = None /\ NextGeneration \in Generations
     /\ sequence' = NextGeneration
     /\ flight' = At("activating", NextGeneration, None)
     /\ runtime' = "activating"
     /\ slot' = Prepared(s)

\* A call of reconcile starts one, or awaits the one in flight.
Reconcile(d, c, s, r) ==
  IF flight.stage = "none"
  THEN RunReconcile(d, c, s, r)
  ELSE /\ slot' = s /\ runtime' = r
       /\ UNCHANGED <<flight, sequence>>

\* Variant of NeedsWork: a component that is desired again meanwhile is no work.
NeedsRetirement == ~desired /\ committed # None

\* Variant of NeedsWork: an attempt that has failed is repeated.
NeedsWorkAlways ==
  \/ desired /\ committed = None
  \/ ~desired /\ committed # None

\* What reconcile looks at again when the attempt it awaited is over.
NeedsWork ==
  \/ desired /\ committed = None /\ runtime \notin {"failed", "blocked_manifest", "cleanup_failed"}
  \/ ~desired /\ committed # None

\* A replacement or a health signal runs beside a reconcile, or beside the
\* other, and does not learn of it from the desired revision.
Overlap ==
  \/ /\ replacement.stage # "none" /\ ~replacement.stale
     /\ flight.stage # "none" \/ health.stage # "none"
  \/ replacement.stage = "throwing" /\ replacement.stale
  \/ health.stage # "none" /\ flight.stage # "none"
Noted == overlapped' = (overlapped \/ Overlap')

\* The callers of a reconcile that is over run once more if there is work left.
CallersResume ==
  /\ flight.stage = "over"
  /\ IF NeedsWork THEN RunReconcile(desired, committed, slot, runtime)
                  ELSE /\ flight' = [flight EXCEPT !.stage = "none"]
                       /\ UNCHANGED <<runtime, slot, sequence>>
  /\ UNCHANGED <<desired, committed, replacement, background, health, calls>>
  /\ Noted

\* A request moves the desired revision on, past every attempt under way.
Request(d) ==
  /\ Quiet /\ calls.request < MaxRequests
  /\ calls' = [calls EXCEPT !.request = @ + 1]
  /\ desired' = d
  /\ replacement' = [replacement EXCEPT !.stale = @ \/ replacement.stage # "none"]
  /\ IF flight.stage = "none"
     THEN RunReconcile(d, committed, slot, runtime)
     ELSE /\ flight' = [flight EXCEPT !.stale = TRUE]
          /\ UNCHANGED <<runtime, slot, sequence>>
  /\ UNCHANGED <<committed, background, health>>
  /\ Noted

SetDesiredActive == \E d \in BOOLEAN : Request(d)
Retry == desired /\ Request(TRUE)

-----------------------------------------------------------------------------
(* activate and retireCommitted, in flight.                                 *)

\* The adapter has activated: the generation is committed in this section,
\* unless the desired revision has moved.
ActivationReturns ==
  /\ flight.stage = "activating"
  /\ IF flight.stale
     THEN /\ flight' = [flight EXCEPT !.stage = "stale"]
          /\ UNCHANGED <<slot, committed, runtime>>
     ELSE /\ flight' = [flight EXCEPT !.stage = "over"]
          /\ slot' = Swapped(slot, flight.generation)
          /\ committed' = flight.generation
          /\ runtime' = "active"
  /\ UNCHANGED <<desired, sequence, replacement, background, health, calls>>
  /\ Noted

\* The adapter fails, perhaps for want of a manifest.
ActivationThrows ==
  /\ flight.stage = "activating"
  /\ \E stage \in {"throwing", "blocked"} : flight' = [flight EXCEPT !.stage = stage]
  /\ UNCHANGED <<desired, runtime, committed, sequence, slot, replacement, background, health, calls>>
  /\ Noted

\* The scope of the attempt is disposed.
AttemptDiscarded ==
  /\ flight.stage \in {"stale", "throwing", "blocked"}
  /\ flight' = [flight EXCEPT !.stage = "over"]
  /\ slot' = [slot EXCEPT ![flight.generation] = "failed"]
  /\ runtime' = CASE flight.stage = "stale" -> IF desired THEN "activating" ELSE "inactive"
                  [] flight.stage = "blocked" -> "blocked_manifest"
                  [] OTHER -> IF committed # None THEN "active_degraded" ELSE "failed"
  /\ UNCHANGED <<desired, committed, sequence, replacement, background, health, calls>>
  /\ Noted

\* The retirement of a disabled component's generation ends or is rejected.
CommittedRetired ==
  /\ flight.stage = "retiring"
  /\ \E ok \in BOOLEAN :
       /\ slot' = Retired(slot, flight.generation, ok)
       /\ runtime' = IF ok THEN "inactive" ELSE "cleanup_failed"
  /\ committed' = None
  /\ flight' = [flight EXCEPT !.stage = "over"]
  /\ UNCHANGED <<desired, sequence, replacement, background, health, calls>>
  /\ Noted

-----------------------------------------------------------------------------
(* replaceGeneration, beside the flight.                                    *)

\* At most one replacement is under way at a time.
ReplaceGeneration ==
  /\ Quiet /\ replacement.stage = "none" /\ calls.replacement < MaxReplacements
  /\ calls' = [calls EXCEPT !.replacement = @ + 1]
  /\ IF committed = None
     THEN /\ Reconcile(desired, committed, slot, runtime)
          /\ UNCHANGED replacement
     ELSE /\ NextGeneration \in Generations
          /\ sequence' = NextGeneration
          /\ slot' = Prepared(slot)
          /\ replacement' = At("activating", NextGeneration, committed)
          /\ UNCHANGED <<flight, runtime>>
  /\ UNCHANGED <<desired, committed, background, health>>
  /\ Noted

\* Variant of TakeOver: nobody retires the previous generation.
TakeOverOnly ==
  /\ replacement' = Idle
  /\ slot' = Swapped(slot, replacement.generation)
  /\ committed' = replacement.generation
  /\ runtime' = "active"
  /\ UNCHANGED background

\* The new generation takes over; the previous one is retired in the background.
TakeOver ==
  /\ replacement' = Idle
  /\ slot' = Withdrawn(Swapped(slot, replacement.generation), replacement.previous)
  /\ committed' = replacement.generation
  /\ runtime' = "active"
  /\ background' = background \cup {replacement.previous}

\* Variant of ReplacementReturns: the revision is not compared again.
ReplacementReturnsAnyway ==
  /\ replacement.stage = "activating"
  /\ TakeOver
  /\ UNCHANGED <<desired, sequence, flight, health, calls>>
  /\ Noted

\* The adapter has activated the new generation: it takes over in this section,
\* unless the desired revision has moved.
ReplacementReturns ==
  /\ replacement.stage = "activating"
  /\ IF replacement.stale
     THEN /\ replacement' = [replacement EXCEPT !.stage = "stale"]
          /\ UNCHANGED <<slot, committed, runtime, background>>
     ELSE TakeOver
  /\ UNCHANGED <<desired, sequence, flight, health, calls>>
  /\ Noted

ReplacementThrows ==
  /\ replacement.stage = "activating"
  /\ replacement' = [replacement EXCEPT !.stage = "throwing"]
  /\ UNCHANGED <<desired, runtime, committed, sequence, slot, flight, background, health, calls>>
  /\ Noted

ReplacementDiscarded ==
  /\ replacement.stage \in {"stale", "throwing"}
  /\ replacement' = Idle
  /\ slot' = [slot EXCEPT ![replacement.generation] = "failed"]
  /\ runtime' = IF replacement.stage = "stale" THEN runtime ELSE "active_degraded"
  /\ UNCHANGED <<desired, committed, sequence, flight, background, health, calls>>
  /\ Noted

BackgroundRetired(g) ==
  /\ g \in background
  /\ background' = background \ {g}
  /\ \E ok \in BOOLEAN :
       /\ slot' = Retired(slot, g, ok)
       /\ runtime' = IF ok THEN runtime ELSE "cleanup_failed"
  /\ UNCHANGED <<desired, committed, sequence, flight, replacement, health, calls>>
  /\ Noted

-----------------------------------------------------------------------------
(* Health signals, beside the flight.                                       *)

\* A signal about the committed generation; any other changes nothing.
ApplyPendingHealthSignals ==
  /\ Quiet /\ health.stage = "none" /\ committed # None /\ calls.health < MaxHealthSignals
  /\ calls' = [calls EXCEPT !.health = @ + 1]
  /\ health' = At("retiring", committed, None)
  /\ runtime' = "deactivating"
  /\ slot' = Withdrawn(slot, committed)
  /\ UNCHANGED <<desired, committed, sequence, flight, replacement, background>>
  /\ Noted

UnhealthyRetired ==
  /\ health.stage = "retiring"
  /\ \E ok \in BOOLEAN :
       /\ slot' = Retired(slot, health.generation, ok)
       /\ runtime' = IF ok THEN "failed" ELSE "cleanup_failed"
  /\ committed' = None
  /\ health' = [health EXCEPT !.stage = "over"]
  /\ UNCHANGED <<desired, sequence, flight, replacement, background, calls>>
  /\ Noted

\* A component that is still desired is activated anew.
HealthResumes ==
  /\ health.stage = "over"
  /\ health' = Idle
  /\ IF desired THEN Reconcile(desired, committed, slot, runtime)
                ELSE UNCHANGED <<flight, runtime, slot, sequence>>
  /\ UNCHANGED <<desired, committed, replacement, background, calls>>
  /\ Noted

-----------------------------------------------------------------------------
Next ==
  \/ CallersResume \/ SetDesiredActive \/ Retry
  \/ ActivationReturns \/ ActivationThrows \/ AttemptDiscarded \/ CommittedRetired
  \/ ReplaceGeneration \/ ReplacementReturns \/ ReplacementThrows \/ ReplacementDiscarded
  \/ \E g \in Generations : BackgroundRetired(g)
  \/ ApplyPendingHealthSignals \/ UnhealthyRetired \/ HealthResumes

Spec == Init /\ [][Next]_vars

\* The event loop runs what is due; adapters and retirements settle.
Fairness ==
  /\ WF_vars(CallersResume)
  /\ WF_vars(ActivationReturns \/ ActivationThrows)
  /\ WF_vars(AttemptDiscarded)
  /\ WF_vars(CommittedRetired)

FairSpec == Spec /\ Fairness

-----------------------------------------------------------------------------
(* What the reconciler promises.  replaceGeneration and health signals run   *)
(* outside the single flight: the first three promises hold until one of     *)
(* them overlaps a reconcile unnoticed.                                      *)

Quiescent == flight.stage = "none" /\ replacement.stage = "none" /\ health.stage = "none"

\* Whatever requests came while attempts were under way, in the end the
\* component has a generation or a failure if it is desired, and serves
\* nothing if it is not (reconcile, "run once more").
SettledMatchesDesired ==
  Quiescent /\ ~overlapped =>
    IF desired THEN committed # None \/ runtime \in {"failed", "blocked_manifest", "cleanup_failed"}
               ELSE committed = None /\ \A g \in Generations : slot[g] # "committed"

\* A component that is projected as ready has a generation in the slot that
\* grants leases, and the slot serves no generation the projection does not show.
ProjectionTruthful ==
  ~overlapped =>
    /\ runtime \in {"active", "active_degraded"} => committed # None /\ slot[committed] = "committed"
    /\ \A g \in Generations : slot[g] = "committed" => committed = g

BeingRetired == background \cup {a.generation : a \in {b \in {flight, health} : b.stage = "retiring"}}

\* No generation is left behind: one that has stopped serving is being
\* retired by somebody, one that is prepared belongs to an attempt.
NoOrphan ==
  /\ TypeOK
  /\ ~overlapped => \A g \in Generations :
       /\ slot[g] = "retiring" => g \in BeingRetired
       /\ slot[g] = "preparing" => g \in {flight.generation, replacement.generation}

\* A reconcile ends: failed attempts are not repeated for ever, and calls that
\* coalesce onto a reconcile return.
ReconcilesEnd == (flight.stage # "none") ~> (flight.stage = "none")

\* The comment of reconcile, "Requested revision may have moved while we
\* waited; run once more" (line 217): a component that is desired and has
\* nothing committed was tried at the revision last requested.
LastRequestTried ==
  Quiescent /\ ~overlapped /\ desired /\ committed = None => ~flight.stale

LifeOf(g) == CASE slot[g] = "stuck" -> "retiring"
               [] slot[g] = "committed" -> "serving"
               [] OTHER -> slot[g]

Gen == INSTANCE ProviderGenerations WITH life <- [g \in Generations |-> LifeOf(g)]

\* What the reconciler does to the slot is what ProviderGenerations allows,
\* overlapped or not: attempts and retirements never revive a generation.
ImplementsGenerations == Gen!Spec
=============================================================================
