-------------------- MODULE LifecycleReconciler_proofs ---------------------
(***************************************************************************)
(* That the reconciler keeps its promises and uses the provider slot as    *)
(* ProviderGenerations says, for any number of requests, replacements and  *)
(* health signals.                                                         *)
(***************************************************************************)
EXTENDS LifecycleReconciler, TLAPS

-----------------------------------------------------------------------------
(* Records.                                                                 *)

LEMMA AtFields ==
  ASSUME NEW stage \in Stage, NEW g \in Generations \cup {None}, NEW p \in Generations \cup {None}
  PROVE  /\ At(stage, g, p) \in Attempt
         /\ At(stage, g, p).stage = stage /\ At(stage, g, p).generation = g
         /\ At(stage, g, p).previous = p /\ At(stage, g, p).stale = FALSE
BY DEF At, Attempt

LEMMA IdleFields == Idle \in Attempt /\ Idle.stage = "none"
<1>1. "none" \in Stage /\ None \in Generations \cup {None}
  BY DEF Stage
<1>2. At("none", None, None) \in Attempt /\ At("none", None, None).stage = "none"
  BY <1>1, AtFields
<1>3. QED
  BY <1>2 DEF Idle

LEMMA MovedFields ==
  ASSUME NEW a \in Attempt, NEW stage \in Stage
  PROVE  /\ [a EXCEPT !.stage = stage] \in Attempt
         /\ [a EXCEPT !.stage = stage].stage = stage /\ [a EXCEPT !.stage = stage].generation = a.generation
         /\ [a EXCEPT !.stage = stage].previous = a.previous /\ [a EXCEPT !.stage = stage].stale = a.stale
BY DEF Attempt

LEMMA StaleFields ==
  ASSUME NEW a \in Attempt, NEW b \in BOOLEAN
  PROVE  /\ [a EXCEPT !.stale = b] \in Attempt
         /\ [a EXCEPT !.stale = b].stage = a.stage /\ [a EXCEPT !.stale = b].generation = a.generation
         /\ [a EXCEPT !.stale = b].previous = a.previous /\ [a EXCEPT !.stale = b].stale = b
BY DEF Attempt

Calls == [request : 0 .. MaxRequests, replacement : 0 .. MaxReplacements, health : 0 .. MaxHealthSignals]

LEMMA CallsTyped ==
  ASSUME calls \in Calls
  PROVE  /\ calls.request < MaxRequests => [calls EXCEPT !.request = @ + 1] \in Calls
         /\ calls.replacement < MaxReplacements => [calls EXCEPT !.replacement = @ + 1] \in Calls
         /\ calls.health < MaxHealthSignals => [calls EXCEPT !.health = @ + 1] \in Calls
BY BoundsAssumption DEF Calls

LEMMA GenerationFacts == Generations \subseteq Nat /\ None \notin Generations
BY BoundsAssumption DEF Generations, None

-----------------------------------------------------------------------------
(* Types, in parts.                                                         *)

AttemptOK(a) == a \in Attempt /\ (a.stage \notin {"none", "over"} => a.generation \in Generations)

Types ==
  /\ desired \in BOOLEAN /\ runtime \in RuntimeState /\ overlapped \in BOOLEAN /\ calls \in Calls
  /\ committed \in Generations \cup {None} /\ sequence \in Generations \cup {0}
  /\ slot \in [Generations -> SlotState] /\ background \in SUBSET Generations
  /\ AttemptOK(flight) /\ AttemptOK(health) /\ AttemptOK(replacement)
  /\ replacement.stage # "none" => replacement.previous \in Generations

LEMMA TypesAreTypeOK == Types => TypeOK
<1> SUFFICES ASSUME Types PROVE TypeOK
  OBVIOUS
<1>1. \A a \in {flight, replacement, health} : a.stage \notin {"none", "over"} => a.generation # None
  BY GenerationFacts DEF Types, AttemptOK
<1>2. replacement.stage # "none" => replacement.previous # None
  BY GenerationFacts DEF Types
<1>3. QED
  BY <1>1, <1>2 DEF Types, TypeOK, AttemptOK, Calls

\* What the synchronous part of runReconcile does.
LEMMA RunEffects ==
  ASSUME Types, NEW d \in BOOLEAN, RunReconcile(d, committed, slot, runtime)
  PROVE  /\ AttemptOK(flight')
         /\ \/ /\ ~d /\ committed # None /\ flight'.stage = "retiring" /\ flight'.generation = committed
               /\ runtime' = "deactivating" /\ slot' = Withdrawn(slot, committed) /\ UNCHANGED sequence
            \/ /\ flight'.stage = "over" /\ UNCHANGED <<slot, sequence>>
               /\ d \in BOOLEAN /\ (d <=> committed # None) /\ runtime' = IF d THEN runtime ELSE "inactive"
            \/ /\ d /\ committed = None /\ flight'.stage = "activating" /\ flight'.generation = sequence + 1
               /\ runtime' = "activating" /\ slot' = Prepared(slot)
               /\ sequence + 1 \in Generations /\ sequence' = sequence + 1
<1> USE DEF Types
<1>1. CASE /\ ~d /\ committed # None /\ flight' = At("retiring", committed, None)
           /\ runtime' = "deactivating" /\ slot' = Withdrawn(slot, committed) /\ UNCHANGED sequence
  <2>1. committed \in Generations \cup {None}
    BY <1>1
  <2>2. flight' \in Attempt /\ flight'.stage = "retiring" /\ flight'.generation = committed
    BY <1>1, <2>1 DEF At, Attempt, Stage
  <2>3. QED
    BY <1>1, <2>1, <2>2 DEF AttemptOK
<1>2. CASE /\ flight' = At("over", None, None) /\ UNCHANGED <<slot, sequence>>
           /\ (d <=> committed # None) /\ runtime' = IF d THEN runtime ELSE "inactive"
  <2>1. None \in Generations \cup {None}
    BY <1>2
  <2>2. flight' \in Attempt /\ flight'.stage = "over" /\ flight'.generation = None
    BY <1>2, <2>1 DEF At, Attempt, Stage
  <2>3. QED
    BY <1>2, <2>1, <2>2 DEF AttemptOK
<1>3. CASE /\ d /\ committed = None /\ sequence + 1 \in Generations /\ sequence' = sequence + 1
           /\ flight' = At("activating", sequence + 1, None) /\ runtime' = "activating" /\ slot' = Prepared(slot)
  <2>1. sequence + 1 \in Generations \cup {None}
    BY <1>3
  <2>2. flight' \in Attempt /\ flight'.stage = "activating" /\ flight'.generation = sequence + 1
    BY <1>3, <2>1 DEF At, Attempt, Stage
  <2>3. QED
    BY <1>3, <2>1, <2>2 DEF AttemptOK
<1>4. QED
  BY <1>1, <1>2, <1>3 DEF RunReconcile, NextGeneration

LEMMA SlotTyped ==
  ASSUME NEW s \in [Generations -> SlotState]
  PROVE  /\ Prepared(s) \in [Generations -> SlotState]
         /\ \A g \in Generations : /\ Withdrawn(s, g) \in [Generations -> SlotState]
                                   /\ Swapped(s, g) \in [Generations -> SlotState]
                                   /\ \A ok \in BOOLEAN : Retired(s, g, ok) \in [Generations -> SlotState]
                                   /\ [s EXCEPT ![g] = "failed"] \in [Generations -> SlotState]
BY DEF Prepared, Withdrawn, Swapped, Retired, SlotState

-----------------------------------------------------------------------------
(* The invariant.                                                           *)

Attempting(a) == a.stage \in {"activating", "stale", "throwing", "blocked"}
Replacing == replacement.stage # "none"
Used(g) == slot[g] \notin {"absent", "preparing"}
Failures == {"failed", "blocked_manifest", "cleanup_failed"}

\* Overlapped or not: an attempt has a generation of its own, still prepared,
\* and generations are handed out once.
Owned ==
  /\ \A g \in Generations : slot[g] # "absent" => g <= sequence
  /\ Attempting(flight) => slot[flight.generation] = "preparing"
  /\ replacement.stage \in {"none", "activating", "stale", "throwing"}
  /\ health.stage \in {"none", "retiring", "over"}
  /\ Replacing => slot[replacement.generation] = "preparing" /\ Used(replacement.previous)
  /\ Attempting(flight) /\ Replacing => flight.generation # replacement.generation
  /\ committed # None => Used(committed)

\* Up to an overlap: what committedGeneration, the slot and the attempts under
\* way say of each other.
Agree ==
  /\ \A g \in Generations : slot[g] = "committed" => committed = g
  /\ runtime \in {"active", "active_degraded"} => committed # None /\ slot[committed] = "committed"
  /\ committed # None /\ slot[committed] # "committed" => flight.stage = "retiring" \/ health.stage = "retiring"
  /\ Attempting(flight) => committed = None
  /\ flight.stage = "retiring" => committed = flight.generation /\ slot[committed] # "committed"
  /\ health.stage = "retiring" => committed = health.generation /\ slot[committed] # "committed"
  /\ health.stage = "over" => committed = None
  /\ Replacing /\ ~replacement.stale => committed = replacement.previous

Settled ==
  flight.stage = "none" /\ health.stage = "none" =>
    IF desired THEN committed # None \/ runtime \in Failures ELSE committed = None

Kept ==
  \A g \in Generations :
    /\ slot[g] = "retiring" => \/ g \in background
                               \/ flight.stage = "retiring" /\ g = flight.generation
                               \/ health.stage = "retiring" /\ g = health.generation
    /\ slot[g] = "preparing" => \/ Attempting(flight) /\ g = flight.generation
                                \/ Replacing /\ g = replacement.generation

ReconcilerSafe ==
  /\ Types
  /\ Owned
  /\ ~overlapped => ~Overlap /\ Agree /\ Settled /\ Kept

\* The operations on the slot, generation by generation.
LEMMA SlotAt ==
  ASSUME NEW s \in [Generations -> SlotState], NEW g \in Generations
  PROVE  \A h \in Generations :
           /\ Withdrawn(s, g)[h] = IF h = g /\ s[h] = "committed" THEN "retiring" ELSE s[h]
           /\ Swapped(s, g)[h] = IF h = g THEN "committed" ELSE IF s[h] = "committed" THEN "retiring" ELSE s[h]
           /\ \A ok \in BOOLEAN : Retired(s, g, ok)[h] =
                IF h = g /\ s[h] \in {"retiring", "stuck"} THEN IF ok THEN "retired" ELSE "stuck" ELSE s[h]
           /\ [s EXCEPT ![g] = "failed"][h] = IF h = g THEN "failed" ELSE s[h]
BY DEF Withdrawn, Swapped, Retired

LEMMA PreparedAt ==
  ASSUME NEW s \in [Generations -> SlotState], NEW h \in Generations
  PROVE  Prepared(s)[h] = IF h = sequence + 1 THEN "preparing" ELSE s[h]
BY DEF Prepared, NextGeneration

-----------------------------------------------------------------------------
(* One lemma per action.                                                    *)

LEMMA DiscardAt ==
  ASSUME NEW s \in [Generations -> SlotState], NEW g \in Generations
  PROVE  /\ [s EXCEPT ![g] = "failed"] \in [Generations -> SlotState]
         /\ \A h \in Generations : [s EXCEPT ![g] = "failed"][h] = IF h = g THEN "failed" ELSE s[h]
BY DEF SlotState

\* Each lemma describes the step field by field; Types and Owned are then kept,
\* and, if the step leaves no overlap behind, so are the other three parts.
LEMMA CommittedRetiredSafe == ASSUME ReconcilerSafe, CommittedRetired PROVE ReconcilerSafe'
<1> DEFINE g == flight.generation
<1>1. Types /\ Owned /\ g \in Generations /\ flight.stage = "retiring"
  BY DEF ReconcilerSafe, CommittedRetired, Types, AttemptOK
<1>2. flight' \in Attempt /\ flight'.stage = "over" /\ flight'.generation = g
  BY <1>1, MovedFields DEF CommittedRetired, Types, AttemptOK, Stage
<1>3. PICK ok \in BOOLEAN : slot' = Retired(slot, g, ok) /\ runtime' = IF ok THEN "inactive" ELSE "cleanup_failed"
  BY DEF CommittedRetired
<1>4. /\ slot' \in [Generations -> SlotState]
      /\ \A h \in Generations : slot'[h] = IF h = g /\ slot[h] \in {"retiring", "stuck"}
                                        THEN IF ok THEN "retired" ELSE "stuck" ELSE slot[h]
  <2>1. slot \in [Generations -> SlotState]
    BY <1>1 DEF Types
  <2>2. slot' = Retired(slot, g, ok)
    BY <1>3
  <2>3. QED
    BY <1>1, <2>1, <2>2, SlotAt, SlotTyped
<1>5. /\ committed' = None /\ UNCHANGED <<desired, sequence, replacement, background, health, calls>>
      /\ overlapped' = (overlapped \/ Overlap')
  BY DEF CommittedRetired, Noted
<1>6. Types'
  BY <1>1, <1>2, <1>3, <1>4, <1>5 DEF Types, AttemptOK, RuntimeState
<1>7. Owned'
  BY <1>1, <1>2, <1>4, <1>5 DEF Owned, Types, AttemptOK, Attempting, Replacing, Used
<1>8. ASSUME ~overlapped' PROVE ~Overlap' /\ Agree' /\ Settled' /\ Kept'
  <2>1. ~overlapped /\ ~Overlap /\ ~Overlap' /\ Agree /\ Settled /\ Kept
    BY <1>5, <1>1, <1>8 DEF ReconcilerSafe, Types
  <2>2. Agree'
    BY <1>1, <1>2, <1>3, <1>4, <1>5, <2>1 DEF Agree, Replacing, Overlap
  <2>3. Settled'
    BY <1>2 DEF Settled
  <2>4. Kept'
    BY <1>1, <1>4, <1>5, <2>1, GenerationFacts DEF Kept, Agree, Replacing
  <2>5. QED
    BY <2>1, <2>2, <2>3, <2>4
<1>9. QED
  BY <1>6, <1>7, <1>8 DEF ReconcilerSafe

LEMMA UnhealthyRetiredSafe == ASSUME ReconcilerSafe, UnhealthyRetired PROVE ReconcilerSafe'
<1> DEFINE g == health.generation
<1>1. Types /\ Owned /\ g \in Generations /\ health.stage = "retiring"
  BY DEF ReconcilerSafe, UnhealthyRetired, Types, AttemptOK
<1>2. health' \in Attempt /\ health'.stage = "over" /\ health'.generation = g
  BY <1>1, MovedFields DEF UnhealthyRetired, Types, AttemptOK, Stage
<1>3. PICK ok \in BOOLEAN : slot' = Retired(slot, g, ok) /\ runtime' = IF ok THEN "failed" ELSE "cleanup_failed"
  BY DEF UnhealthyRetired
<1>4. /\ slot' \in [Generations -> SlotState]
      /\ \A h \in Generations : slot'[h] = IF h = g /\ slot[h] \in {"retiring", "stuck"}
                                        THEN IF ok THEN "retired" ELSE "stuck" ELSE slot[h]
  <2>1. slot \in [Generations -> SlotState]
    BY <1>1 DEF Types
  <2>2. slot' = Retired(slot, g, ok)
    BY <1>3
  <2>3. QED
    BY <1>1, <2>1, <2>2, SlotAt, SlotTyped
<1>5. /\ committed' = None /\ UNCHANGED <<desired, sequence, replacement, background, flight, calls>>
      /\ overlapped' = (overlapped \/ Overlap')
  BY DEF UnhealthyRetired, Noted
<1>6. Types'
  BY <1>1, <1>2, <1>3, <1>4, <1>5 DEF Types, AttemptOK, RuntimeState
<1>7. Owned'
  BY <1>1, <1>2, <1>4, <1>5 DEF Owned, Types, AttemptOK, Attempting, Replacing, Used
<1>8. ASSUME ~overlapped' PROVE ~Overlap' /\ Agree' /\ Settled' /\ Kept'
  <2>1. ~overlapped /\ ~Overlap /\ ~Overlap' /\ Agree /\ Settled /\ Kept
    BY <1>5, <1>1, <1>8 DEF ReconcilerSafe, Types
  <2>2. Agree'
    BY <1>1, <1>2, <1>3, <1>4, <1>5, <2>1 DEF Agree, Replacing, Overlap
  <2>3. Settled'
    BY <1>2 DEF Settled
  <2>4. Kept'
    BY <1>4, <1>5, <2>1 DEF Kept, Replacing
  <2>5. QED
    BY <2>1, <2>2, <2>3, <2>4
<1>9. QED
  BY <1>6, <1>7, <1>8 DEF ReconcilerSafe

LEMMA BackgroundRetiredSafe == ASSUME NEW gen \in Generations, ReconcilerSafe, BackgroundRetired(gen) PROVE ReconcilerSafe'
<1>1. Types /\ Owned /\ gen \in Generations /\ gen \in background
  BY DEF ReconcilerSafe, BackgroundRetired
<1>2. background' = background \ {gen}
  BY DEF BackgroundRetired
<1>3. PICK ok \in BOOLEAN : slot' = Retired(slot, gen, ok) /\ runtime' = IF ok THEN runtime ELSE "cleanup_failed"
  BY DEF BackgroundRetired
<1>4. /\ slot' \in [Generations -> SlotState]
      /\ \A h \in Generations : slot'[h] = IF h = gen /\ slot[h] \in {"retiring", "stuck"}
                                        THEN IF ok THEN "retired" ELSE "stuck" ELSE slot[h]
  <2>1. slot \in [Generations -> SlotState]
    BY <1>1 DEF Types
  <2>2. slot' = Retired(slot, gen, ok)
    BY <1>3
  <2>3. QED
    BY <1>1, <2>1, <2>2, SlotAt, SlotTyped
<1>5. /\ UNCHANGED <<desired, committed, sequence, flight, replacement, health, calls>>
      /\ overlapped' = (overlapped \/ Overlap')
  BY DEF BackgroundRetired, Noted
<1>6. Types'
  BY <1>1, <1>2, <1>3, <1>4, <1>5 DEF Types, RuntimeState
<1>7. Owned'
  BY <1>1, <1>4, <1>5 DEF Owned, Types, AttemptOK, Attempting, Replacing, Used
<1>8. ASSUME ~overlapped' PROVE ~Overlap' /\ Agree' /\ Settled' /\ Kept'
  <2>1. ~overlapped /\ ~Overlap /\ ~Overlap' /\ Agree /\ Settled /\ Kept
    BY <1>5, <1>1, <1>8 DEF ReconcilerSafe, Types
  <2>2. Agree'
    BY <1>1, <1>3, <1>4, <1>5, <2>1 DEF Agree, Types, AttemptOK, Replacing
  <2>3. Settled'
    BY <1>3, <1>5, <2>1 DEF Settled, Failures
  <2>4. Kept'
    BY <1>2, <1>4, <1>5, <2>1 DEF Kept, Replacing
  <2>5. QED
    BY <2>1, <2>2, <2>3, <2>4
<1>9. QED
  BY <1>6, <1>7, <1>8 DEF ReconcilerSafe

LEMMA ActivationStaleSafe == ASSUME ReconcilerSafe, flight.stale, ActivationReturns PROVE ReconcilerSafe'
<1>1. Types /\ Owned /\ flight.generation \in Generations /\ flight.stage = "activating"
  BY DEF ReconcilerSafe, ActivationReturns, Types, AttemptOK
<1>2. flight' \in Attempt /\ flight'.stage = "stale" /\ flight'.generation = flight.generation
  <2>1. flight' = [flight EXCEPT !.stage = "stale"] /\ flight \in Attempt /\ "stale" \in Stage
    BY <1>1 DEF ActivationReturns, Types, AttemptOK, Stage
  <2>2. QED
    BY <1>1, <2>1, MovedFields
<1>3. UNCHANGED <<slot, committed, runtime>>
  BY DEF ActivationReturns
<1>4. /\ UNCHANGED <<desired, sequence, replacement, background, health, calls>>
      /\ overlapped' = (overlapped \/ Overlap')
  BY DEF ActivationReturns, Noted
<1>5. Types'
  BY <1>1, <1>2, <1>3, <1>4 DEF Types, AttemptOK
<1>6. Owned'
  BY <1>1, <1>2, <1>3, <1>4 DEF Owned, Attempting, Replacing, Used
<1>7. ASSUME ~overlapped' PROVE ~Overlap' /\ Agree' /\ Settled' /\ Kept'
  <2>1. ~overlapped /\ ~Overlap /\ ~Overlap' /\ Agree /\ Settled /\ Kept
    BY <1>4, <1>1, <1>7 DEF ReconcilerSafe, Types
  <2>2. Agree'
    BY <1>1, <1>2, <1>3, <1>4, <2>1 DEF Agree, Attempting, Replacing
  <2>3. Settled'
    BY <1>2 DEF Settled
  <2>4. Kept'
    BY <1>1, <1>2, <1>3, <1>4, <2>1 DEF Kept, Attempting, Replacing
  <2>5. QED
    BY <2>1, <2>2, <2>3, <2>4
<1>8. QED
  BY <1>5, <1>6, <1>7 DEF ReconcilerSafe

LEMMA ActivationCommitsSafe == ASSUME ReconcilerSafe, ~flight.stale, ActivationReturns PROVE ReconcilerSafe'
<1> DEFINE g == flight.generation
<1>1. Types /\ Owned /\ g \in Generations /\ flight.stage = "activating"
  BY DEF ReconcilerSafe, ActivationReturns, Types, AttemptOK
<1>2. flight' \in Attempt /\ flight'.stage = "over" /\ flight'.generation = g
  <2>1. flight' = [flight EXCEPT !.stage = "over"] /\ flight \in Attempt /\ "over" \in Stage
    BY <1>1 DEF ActivationReturns, Types, AttemptOK, Stage
  <2>2. QED
    BY <1>1, <2>1, MovedFields
<1>3. committed' = g /\ runtime' = "active" /\ slot' = Swapped(slot, g)
  BY DEF ActivationReturns
<1>4. /\ slot' \in [Generations -> SlotState]
      /\ \A h \in Generations : slot'[h] = IF h = g THEN "committed" ELSE IF slot[h] = "committed" THEN "retiring" ELSE slot[h]
  <2>1. slot \in [Generations -> SlotState]
    BY <1>1 DEF Types
  <2>2. slot' = Swapped(slot, g)
    BY <1>3
  <2>3. QED
    BY <1>1, <2>1, <2>2, SlotAt, SlotTyped
<1>5. /\ UNCHANGED <<desired, sequence, replacement, background, health, calls>>
      /\ overlapped' = (overlapped \/ Overlap')
  BY DEF ActivationReturns, Noted
<1>6. Types'
  BY <1>1, <1>2, <1>3, <1>4, <1>5 DEF Types, AttemptOK, RuntimeState
<1>7. Owned'
  BY <1>1, <1>2, <1>3, <1>4, <1>5 DEF Owned, Types, AttemptOK, Attempting, Replacing, Used
<1>8. ASSUME ~overlapped' PROVE ~Overlap' /\ Agree' /\ Settled' /\ Kept'
  <2>1. ~overlapped /\ ~Overlap /\ ~Overlap' /\ Agree /\ Settled /\ Kept
    BY <1>5, <1>1, <1>8 DEF ReconcilerSafe, Types
  <2>2. Agree'
    BY <1>1, <1>2, <1>3, <1>4, <2>1, GenerationFacts
       DEF Agree, AttemptOK, Attempting, Replacing, Used, Overlap
  <2>3. Settled'
    BY <1>2 DEF Settled
  <2>4. Kept'
    BY <1>1, <1>4, <1>5, <2>1, GenerationFacts DEF Kept, Agree, Attempting, Replacing
  <2>5. QED
    BY <2>1, <2>2, <2>3, <2>4
<1>9. QED
  BY <1>6, <1>7, <1>8 DEF ReconcilerSafe

LEMMA ActivationThrowsSafe == ASSUME ReconcilerSafe, ActivationThrows PROVE ReconcilerSafe'
<1>1. Types /\ Owned /\ flight.generation \in Generations /\ flight.stage = "activating"
  BY DEF ReconcilerSafe, ActivationThrows, Types, AttemptOK
<1>2. flight' \in Attempt /\ flight'.stage \in {"throwing", "blocked"} /\ flight'.generation = flight.generation
  <2>1. PICK stage \in {"throwing", "blocked"} : flight' = [flight EXCEPT !.stage = stage]
    BY DEF ActivationThrows
  <2>2. flight \in Attempt /\ stage \in Stage
    BY <1>1 DEF Types, AttemptOK, Stage
  <2>3. QED
    BY <2>1, <2>2, MovedFields
<1>3. /\ UNCHANGED <<desired, runtime, committed, sequence, slot, replacement, background, health, calls>>
      /\ overlapped' = (overlapped \/ Overlap')
  BY DEF ActivationThrows, Noted
<1>4. Types'
  BY <1>1, <1>2, <1>3 DEF Types, AttemptOK
<1>5. Owned'
  BY <1>1, <1>2, <1>3 DEF Owned, Attempting, Replacing, Used
<1>6. ASSUME ~overlapped' PROVE ~Overlap' /\ Agree' /\ Settled' /\ Kept'
  <2>1. ~overlapped /\ ~Overlap /\ ~Overlap' /\ Agree /\ Settled /\ Kept
    BY <1>3, <1>1, <1>6 DEF ReconcilerSafe, Types
  <2>2. Agree'
    BY <1>1, <1>2, <1>3, <2>1 DEF Agree, Attempting, Replacing
  <2>3. Settled'
    BY <1>2 DEF Settled
  <2>4. Kept'
    BY <1>1, <1>2, <1>3, <2>1 DEF Kept, Attempting, Replacing
  <2>5. QED
    BY <2>1, <2>2, <2>3, <2>4
<1>7. QED
  BY <1>4, <1>5, <1>6 DEF ReconcilerSafe

LEMMA AttemptDiscardedSafe == ASSUME ReconcilerSafe, AttemptDiscarded PROVE ReconcilerSafe'
<1> DEFINE g == flight.generation
<1>1. Types /\ Owned /\ g \in Generations /\ Attempting(flight)
  BY DEF ReconcilerSafe, AttemptDiscarded, Types, AttemptOK, Attempting
<1>2. flight' \in Attempt /\ flight'.stage = "over" /\ flight'.generation = g
  <2>1. flight' = [flight EXCEPT !.stage = "over"] /\ flight \in Attempt /\ "over" \in Stage
    BY <1>1 DEF AttemptDiscarded, Types, AttemptOK, Stage
  <2>2. QED
    BY <1>1, <2>1, MovedFields
<1>3. /\ runtime' \in {"activating", "inactive", "blocked_manifest", "active_degraded", "failed"}
      /\ runtime' = "active_degraded" => committed # None
  BY DEF AttemptDiscarded
<1>4. /\ slot' \in [Generations -> SlotState]
      /\ \A h \in Generations : slot'[h] = IF h = g THEN "failed" ELSE slot[h]
  <2>1. slot \in [Generations -> SlotState]
    BY <1>1 DEF Types
  <2>2. slot' = [slot EXCEPT ![g] = "failed"]
    BY DEF AttemptDiscarded
  <2>3. QED
    BY <1>1, <2>1, <2>2, DiscardAt
<1>5. /\ UNCHANGED <<desired, committed, sequence, replacement, background, health, calls>>
      /\ overlapped' = (overlapped \/ Overlap')
  BY DEF AttemptDiscarded, Noted
<1>6. Types'
  BY <1>1, <1>2, <1>3, <1>4, <1>5 DEF Types, AttemptOK, RuntimeState
<1>7. Owned'
  BY <1>1, <1>2, <1>4, <1>5 DEF Owned, Types, AttemptOK, Attempting, Replacing, Used
<1>8. ASSUME ~overlapped' PROVE ~Overlap' /\ Agree' /\ Settled' /\ Kept'
  <2>1. ~overlapped /\ ~Overlap /\ ~Overlap' /\ Agree /\ Settled /\ Kept
    BY <1>5, <1>1, <1>8 DEF ReconcilerSafe, Types
  <2>2. Agree'
    BY <1>1, <1>2, <1>3, <1>4, <1>5, <2>1 DEF Agree, Types, AttemptOK, Replacing
  <2>3. Settled'
    BY <1>2 DEF Settled
  <2>4. Kept'
    BY <1>4, <1>5, <2>1 DEF Kept, Replacing
  <2>5. QED
    BY <2>1, <2>2, <2>3, <2>4
<1>9. QED
  BY <1>6, <1>7, <1>8 DEF ReconcilerSafe

LEMMA ReplacementStaleSafe == ASSUME ReconcilerSafe, replacement.stale, ReplacementReturns PROVE ReconcilerSafe'
<1>1. Types /\ Owned /\ replacement.generation \in Generations /\ replacement.stage = "activating"
  BY DEF ReconcilerSafe, ReplacementReturns, Types, AttemptOK
<1>2. /\ replacement' \in Attempt /\ replacement'.stage = "stale" /\ replacement'.generation = replacement.generation
      /\ replacement'.previous = replacement.previous /\ replacement'.stale
  <2>1. replacement' = [replacement EXCEPT !.stage = "stale"] /\ replacement \in Attempt /\ "stale" \in Stage
    BY <1>1 DEF ReplacementReturns, Types, AttemptOK, Stage
  <2>2. QED
    BY <1>1, <2>1, MovedFields
<1>3. UNCHANGED <<slot, committed, runtime, background>>
  BY DEF ReplacementReturns
<1>4. /\ UNCHANGED <<desired, sequence, flight, health, calls>>
      /\ overlapped' = (overlapped \/ Overlap')
  BY DEF ReplacementReturns, Noted
<1>5. Types'
  BY <1>1, <1>2, <1>3, <1>4 DEF Types, AttemptOK
<1>6. Owned'
  BY <1>1, <1>2, <1>3, <1>4 DEF Owned, Replacing, Used
<1>7. ASSUME ~overlapped' PROVE ~Overlap' /\ Agree' /\ Settled' /\ Kept'
  <2>1. ~overlapped /\ ~Overlap /\ ~Overlap' /\ Agree /\ Settled /\ Kept
    BY <1>4, <1>1, <1>7 DEF ReconcilerSafe, Types
  <2>2. Agree'
    BY <1>2, <1>3, <1>4, <2>1 DEF Agree
  <2>3. Settled'
    BY <1>3, <1>4, <2>1 DEF Settled
  <2>4. Kept'
    BY <1>2, <1>3, <1>4, <2>1 DEF Kept, Replacing
  <2>5. QED
    BY <2>1, <2>2, <2>3, <2>4
<1>8. QED
  BY <1>5, <1>6, <1>7 DEF ReconcilerSafe

LEMMA ReplacementTakesOverSafe == ASSUME ReconcilerSafe, ~replacement.stale, ReplacementReturns PROVE ReconcilerSafe'
<1> DEFINE g == replacement.generation
           p == replacement.previous
<1>1. /\ Types /\ Owned /\ g \in Generations /\ p \in Generations
      /\ replacement.stage = "activating" /\ ~replacement.stale
  BY DEF ReconcilerSafe, ReplacementReturns, Types, AttemptOK
<1>2. replacement' \in Attempt /\ replacement'.stage = "none"
  BY IdleFields DEF ReplacementReturns, TakeOver
<1>3. committed' = g /\ runtime' = "active" /\ background' = background \cup {p}
  BY DEF ReplacementReturns, TakeOver
<1>4. /\ slot' \in [Generations -> SlotState]
      /\ \A h \in Generations : slot'[h] = IF h = g THEN "committed" ELSE IF slot[h] = "committed" THEN "retiring" ELSE slot[h]
  <2>1. slot \in [Generations -> SlotState] /\ g # p
    BY <1>1 DEF Types, Owned, Used, Replacing
  <2>2. slot' = Withdrawn(Swapped(slot, g), p)
    BY DEF ReplacementReturns, TakeOver
  <2>3. Swapped(slot, g) \in [Generations -> SlotState]
    BY <1>1, <2>1, SlotTyped
  <2>4. /\ slot' \in [Generations -> SlotState]
    BY <1>1, <2>2, <2>3, SlotTyped
  <2>5. \A h \in Generations : slot'[h] = IF h = p /\ Swapped(slot, g)[h] = "committed" THEN "retiring" ELSE Swapped(slot, g)[h]
    BY <1>1, <2>2, <2>3, SlotAt
  <2>6. \A h \in Generations : Swapped(slot, g)[h] = IF h = g THEN "committed" ELSE IF slot[h] = "committed" THEN "retiring" ELSE slot[h]
    BY <1>1, <2>1, SlotAt
  <2>7. QED
    BY <2>1, <2>4, <2>5, <2>6
<1>5. /\ UNCHANGED <<desired, sequence, flight, health, calls>>
      /\ overlapped' = (overlapped \/ Overlap')
  BY DEF ReplacementReturns, Noted
<1>6. Types'
  BY <1>1, <1>2, <1>3, <1>4, <1>5 DEF Types, AttemptOK, RuntimeState
<1>7. Owned'
  BY <1>1, <1>2, <1>3, <1>4, <1>5 DEF Owned, Types, AttemptOK, Attempting, Replacing, Used
<1>8. ASSUME ~overlapped' PROVE ~Overlap' /\ Agree' /\ Settled' /\ Kept'
  <2>1. ~overlapped /\ ~Overlap /\ ~Overlap' /\ Agree /\ Settled /\ Kept
    BY <1>5, <1>1, <1>8 DEF ReconcilerSafe, Types
  <2>2. Agree'
    BY <1>1, <1>2, <1>3, <1>4, <1>5, <2>1, GenerationFacts DEF Agree, Replacing, Overlap
  <2>3. Settled'
    BY <1>1, <1>3, <1>5, <2>1, GenerationFacts DEF Agree, Settled, Replacing
  <2>4. Kept'
    BY <1>1, <1>3, <1>4, <1>5, <2>1 DEF Kept, Agree, Replacing
  <2>5. QED
    BY <2>1, <2>2, <2>3, <2>4
<1>9. QED
  BY <1>6, <1>7, <1>8 DEF ReconcilerSafe

LEMMA ReplacementThrowsSafe == ASSUME ReconcilerSafe, ReplacementThrows PROVE ReconcilerSafe'
<1>1. Types /\ Owned /\ replacement.generation \in Generations /\ replacement.stage = "activating"
  BY DEF ReconcilerSafe, ReplacementThrows, Types, AttemptOK
<1>2. /\ replacement' \in Attempt /\ replacement'.stage = "throwing" /\ replacement'.generation = replacement.generation
      /\ replacement'.previous = replacement.previous /\ replacement'.stale = replacement.stale
  <2>1. replacement' = [replacement EXCEPT !.stage = "throwing"] /\ replacement \in Attempt /\ "throwing" \in Stage
    BY <1>1 DEF ReplacementThrows, Types, AttemptOK, Stage
  <2>2. QED
    BY <1>1, <2>1, MovedFields
<1>3. /\ UNCHANGED <<desired, runtime, committed, sequence, slot, flight, background, health, calls>>
      /\ overlapped' = (overlapped \/ Overlap')
  BY DEF ReplacementThrows, Noted
<1>4. Types'
  BY <1>1, <1>2, <1>3 DEF Types, AttemptOK
<1>5. Owned'
  BY <1>1, <1>2, <1>3 DEF Owned, Replacing, Used
<1>6. ASSUME ~overlapped' PROVE ~Overlap' /\ Agree' /\ Settled' /\ Kept'
  <2>1. ~overlapped /\ ~Overlap /\ ~Overlap' /\ Agree /\ Settled /\ Kept
    BY <1>3, <1>1, <1>6 DEF ReconcilerSafe, Types
  <2>2. Agree'
    BY <1>1, <1>2, <1>3, <2>1 DEF Agree, Replacing
  <2>3. Settled'
    BY <1>3, <2>1 DEF Settled
  <2>4. Kept'
    BY <1>2, <1>3, <2>1 DEF Kept, Replacing
  <2>5. QED
    BY <2>1, <2>2, <2>3, <2>4
<1>7. QED
  BY <1>4, <1>5, <1>6 DEF ReconcilerSafe

LEMMA ReplacementDiscardedSafe == ASSUME ReconcilerSafe, ReplacementDiscarded PROVE ReconcilerSafe'
<1> DEFINE g == replacement.generation
<1>1. Types /\ Owned /\ g \in Generations /\ replacement.stage \in {"stale", "throwing"}
  BY DEF ReconcilerSafe, ReplacementDiscarded, Types, AttemptOK
<1>2. replacement' \in Attempt /\ replacement'.stage = "none"
  BY IdleFields DEF ReplacementDiscarded
<1>3. runtime' = IF replacement.stage = "stale" THEN runtime ELSE "active_degraded"
  BY DEF ReplacementDiscarded
<1>4. /\ slot' \in [Generations -> SlotState]
      /\ \A h \in Generations : slot'[h] = IF h = g THEN "failed" ELSE slot[h]
  <2>1. slot \in [Generations -> SlotState]
    BY <1>1 DEF Types
  <2>2. slot' = [slot EXCEPT ![g] = "failed"]
    BY DEF ReplacementDiscarded
  <2>3. QED
    BY <1>1, <2>1, <2>2, DiscardAt
<1>5. /\ UNCHANGED <<desired, committed, sequence, flight, background, health, calls>>
      /\ overlapped' = (overlapped \/ Overlap')
  BY DEF ReplacementDiscarded, Noted
<1>6. Types'
  BY <1>1, <1>2, <1>3, <1>4, <1>5 DEF Types, AttemptOK, RuntimeState
<1>7. Owned'
  BY <1>1, <1>2, <1>4, <1>5 DEF Owned, Types, AttemptOK, Attempting, Replacing, Used
<1>8. ASSUME ~overlapped' PROVE ~Overlap' /\ Agree' /\ Settled' /\ Kept'
  <2>1. ~overlapped /\ ~Overlap /\ ~Overlap' /\ Agree /\ Settled /\ Kept
    BY <1>5, <1>1, <1>8 DEF ReconcilerSafe, Types
  <2>2. Agree'
    BY <1>1, <1>2, <1>3, <1>4, <1>5, <2>1, GenerationFacts
       DEF Owned, Agree, Types, AttemptOK, Replacing, Overlap
  <2>3. Settled'
    BY <1>1, <1>3, <1>5, <2>1, GenerationFacts DEF Agree, Settled, Types, Replacing, Overlap
  <2>4. Kept'
    BY <1>4, <1>5, <2>1 DEF Kept
  <2>5. QED
    BY <2>1, <2>2, <2>3, <2>4
<1>9. QED
  BY <1>6, <1>7, <1>8 DEF ReconcilerSafe

LEMMA HealthSignalSafe == ASSUME ReconcilerSafe, ApplyPendingHealthSignals PROVE ReconcilerSafe'
<1> DEFINE g == committed
<1>1. Types /\ Owned /\ g \in Generations /\ health.stage = "none"
  BY DEF ReconcilerSafe, ApplyPendingHealthSignals, Types
<1>2. health' \in Attempt /\ health'.stage = "retiring" /\ health'.generation = g
  BY <1>1 DEF ApplyPendingHealthSignals, At, Attempt, Stage
<1>3. runtime' = "deactivating" /\ calls' \in Calls
  BY <1>1, CallsTyped DEF ApplyPendingHealthSignals, Types
<1>4. /\ slot' \in [Generations -> SlotState]
      /\ \A h \in Generations : slot'[h] = IF h = g /\ slot[h] = "committed" THEN "retiring" ELSE slot[h]
  <2>1. slot \in [Generations -> SlotState]
    BY <1>1 DEF Types
  <2>2. slot' = Withdrawn(slot, g)
    BY DEF ApplyPendingHealthSignals
  <2>3. QED
    BY <1>1, <2>1, <2>2, SlotAt, SlotTyped
<1>5. /\ UNCHANGED <<desired, committed, sequence, flight, replacement, background>>
      /\ overlapped' = (overlapped \/ Overlap')
  BY DEF ApplyPendingHealthSignals, Noted
<1>6. Types'
  BY <1>1, <1>2, <1>3, <1>4, <1>5 DEF Types, AttemptOK, RuntimeState
<1>7. Owned'
  BY <1>1, <1>2, <1>4, <1>5 DEF Owned, Types, AttemptOK, Attempting, Replacing, Used
<1>8. ASSUME ~overlapped' PROVE ~Overlap' /\ Agree' /\ Settled' /\ Kept'
  <2>1. ~overlapped /\ ~Overlap /\ ~Overlap' /\ Agree /\ Settled /\ Kept
    BY <1>5, <1>1, <1>8 DEF ReconcilerSafe, Types
  <2>2. Agree'
    BY <1>1, <1>2, <1>3, <1>4, <1>5, <2>1 DEF Agree, Replacing
  <2>3. Settled'
    BY <1>2 DEF Settled
  <2>4. Kept'
    BY <1>1, <1>2, <1>4, <1>5, <2>1 DEF Kept, Replacing
  <2>5. QED
    BY <2>1, <2>2, <2>3, <2>4
<1>9. QED
  BY <1>6, <1>7, <1>8 DEF ReconcilerSafe

\* A run of reconcile, whoever starts it: it retires, finds nothing to do, or
\* activates.
LEMMA RunRetiresSafe ==
  ASSUME ReconcilerSafe, NEW d \in BOOLEAN, RunReconcile(d, committed, slot, runtime),
         flight.stage \in {"none", "over"},
         desired' = d, UNCHANGED <<committed, background>>, calls' \in Calls,
         replacement' \in Attempt, replacement'.stage = replacement.stage, replacement'.generation = replacement.generation,
         replacement'.previous = replacement.previous, replacement.stale /\ Replacing => replacement'.stale,
         UNCHANGED health \/ (health' = Idle /\ health.stage = "over"),
         overlapped' = (overlapped \/ Overlap'),
         ~d /\ committed # None /\ flight'.stage = "retiring" /\ flight'.generation = committed
            /\ runtime' = "deactivating" /\ slot' = Withdrawn(slot, committed) /\ UNCHANGED sequence
  PROVE  ReconcilerSafe'
<1>1. /\ Types /\ Owned /\ d \in BOOLEAN /\ AttemptOK(flight') /\ flight.stage \in {"none", "over"} /\ calls' \in Calls
      /\ ~d /\ committed # None /\ flight'.stage = "retiring" /\ flight'.generation = committed
               /\ runtime' = "deactivating" /\ slot' = Withdrawn(slot, committed) /\ UNCHANGED sequence
  BY RunEffects DEF ReconcilerSafe
<1>2. /\ health' \in Attempt /\ health'.generation \in Generations \cup {None}
      /\ \/ UNCHANGED health
         \/ health'.stage = "none" /\ health.stage = "over"
  BY <1>1, IdleFields DEF Types, AttemptOK, Attempt
<1>3. /\ desired' = d /\ UNCHANGED <<committed, background>>
      /\ replacement' \in Attempt /\ replacement'.stage = replacement.stage /\ replacement'.generation = replacement.generation
      /\ replacement'.previous = replacement.previous /\ (replacement.stale /\ Replacing => replacement'.stale)
  OBVIOUS
<1>4. /\ slot' \in [Generations -> SlotState]
      /\ \A h \in Generations : slot'[h] = IF h = committed /\ slot[h] = "committed" THEN "retiring" ELSE slot[h]
  <2>1. slot \in [Generations -> SlotState] /\ (committed # None => committed \in Generations)
    BY <1>1 DEF Types
  <2>2. QED
    BY <1>1, <2>1, SlotAt, SlotTyped
<1>5. overlapped' = (overlapped \/ Overlap')
  OBVIOUS
<1>6. Types'
  BY <1>1, <1>2, <1>4 DEF Types, AttemptOK, RuntimeState
<1>7. Owned'
  BY <1>1, <1>2, <1>4 DEF Owned, Types, AttemptOK, Attempting, Replacing, Used
<1>8. ASSUME ~overlapped' PROVE ~Overlap' /\ Agree' /\ Settled' /\ Kept'
  <2>1. ~overlapped /\ ~Overlap /\ ~Overlap' /\ Agree /\ Settled /\ Kept
    BY <1>5, <1>1, <1>8 DEF ReconcilerSafe, Types
  <2>2. Agree'
    BY <1>1, <1>4, <2>1 DEF Agree, Types, Attempting, Replacing
  <2>3. Settled'
    BY DEF Settled
  <2>4. Kept'
    BY <1>4, <2>1 DEF Kept, Agree, Replacing
  <2>5. QED
    BY <2>1, <2>2, <2>3, <2>4
<1>9. QED
  BY <1>6, <1>7, <1>8 DEF ReconcilerSafe

LEMMA RunIsDoneSafe ==
  ASSUME ReconcilerSafe, NEW d \in BOOLEAN, RunReconcile(d, committed, slot, runtime),
         flight.stage \in {"none", "over"},
         desired' = d, UNCHANGED <<committed, background>>, calls' \in Calls,
         replacement' \in Attempt, replacement'.stage = replacement.stage, replacement'.generation = replacement.generation,
         replacement'.previous = replacement.previous, replacement.stale /\ Replacing => replacement'.stale,
         UNCHANGED health \/ (health' = Idle /\ health.stage = "over"),
         overlapped' = (overlapped \/ Overlap'),
         flight'.stage = "over" /\ UNCHANGED <<slot, sequence>>
            /\ (d <=> committed # None) /\ runtime' = IF d THEN runtime ELSE "inactive"
  PROVE  ReconcilerSafe'
<1>1. /\ Types /\ Owned /\ d \in BOOLEAN /\ AttemptOK(flight') /\ flight.stage \in {"none", "over"} /\ calls' \in Calls
      /\ flight'.stage = "over" /\ UNCHANGED <<slot, sequence>>
               /\ (d <=> committed # None) /\ runtime' = IF d THEN runtime ELSE "inactive"
  BY RunEffects DEF ReconcilerSafe
<1>2. /\ health' \in Attempt /\ health'.generation \in Generations \cup {None}
      /\ \/ UNCHANGED health
         \/ health'.stage = "none" /\ health.stage = "over"
  BY <1>1, IdleFields DEF Types, AttemptOK, Attempt
<1>3. /\ desired' = d /\ UNCHANGED <<committed, background>>
      /\ replacement' \in Attempt /\ replacement'.stage = replacement.stage /\ replacement'.generation = replacement.generation
      /\ replacement'.previous = replacement.previous /\ (replacement.stale /\ Replacing => replacement'.stale)
  OBVIOUS
<1>4. /\ slot' \in [Generations -> SlotState]
      /\ \A h \in Generations : slot'[h] = slot[h]
  <2>1. slot \in [Generations -> SlotState] /\ (committed # None => committed \in Generations)
    BY <1>1 DEF Types
  <2>2. QED
    BY <1>1, <2>1
<1>5. overlapped' = (overlapped \/ Overlap')
  OBVIOUS
<1>6. Types'
  BY <1>1, <1>2 DEF Types, AttemptOK, RuntimeState
<1>7. Owned'
  BY <1>1, <1>2 DEF Owned, Attempting, Replacing, Used
<1>8. ASSUME ~overlapped' PROVE ~Overlap' /\ Agree' /\ Settled' /\ Kept'
  <2>1. ~overlapped /\ ~Overlap /\ ~Overlap' /\ Agree /\ Settled /\ Kept
    BY <1>5, <1>1, <1>8 DEF ReconcilerSafe, Types
  <2>2. Agree'
    BY <1>2, <2>1 DEF Agree, Attempting, Replacing
  <2>3. Settled'
    BY DEF Settled
  <2>4. Kept'
    BY <2>1 DEF Kept, Attempting, Replacing
  <2>5. QED
    BY <2>1, <2>2, <2>3, <2>4
<1>9. QED
  BY <1>6, <1>7, <1>8 DEF ReconcilerSafe

LEMMA RunActivatesSafe ==
  ASSUME ReconcilerSafe, NEW d \in BOOLEAN, RunReconcile(d, committed, slot, runtime),
         flight.stage \in {"none", "over"},
         desired' = d, UNCHANGED <<committed, background>>, calls' \in Calls,
         replacement' \in Attempt, replacement'.stage = replacement.stage, replacement'.generation = replacement.generation,
         replacement'.previous = replacement.previous, replacement.stale /\ Replacing => replacement'.stale,
         UNCHANGED health \/ (health' = Idle /\ health.stage = "over"),
         overlapped' = (overlapped \/ Overlap'),
         d /\ committed = None /\ flight'.stage = "activating" /\ flight'.generation = sequence + 1
            /\ runtime' = "activating" /\ slot' = Prepared(slot)
            /\ sequence + 1 \in Generations /\ sequence' = sequence + 1
  PROVE  ReconcilerSafe'
<1>1. /\ Types /\ Owned /\ d \in BOOLEAN /\ AttemptOK(flight') /\ flight.stage \in {"none", "over"} /\ calls' \in Calls
      /\ d /\ committed = None /\ flight'.stage = "activating" /\ flight'.generation = sequence + 1
               /\ runtime' = "activating" /\ slot' = Prepared(slot)
               /\ sequence + 1 \in Generations /\ sequence' = sequence + 1
  BY RunEffects DEF ReconcilerSafe
<1>2. /\ health' \in Attempt /\ health'.generation \in Generations \cup {None}
      /\ \/ UNCHANGED health
         \/ health'.stage = "none" /\ health.stage = "over"
  BY <1>1, IdleFields DEF Types, AttemptOK, Attempt
<1>3. /\ desired' = d /\ UNCHANGED <<committed, background>>
      /\ replacement' \in Attempt /\ replacement'.stage = replacement.stage /\ replacement'.generation = replacement.generation
      /\ replacement'.previous = replacement.previous /\ (replacement.stale /\ Replacing => replacement'.stale)
  OBVIOUS
<1>4. /\ slot' \in [Generations -> SlotState]
      /\ \A h \in Generations : slot'[h] = IF h = sequence + 1 THEN "preparing" ELSE slot[h]
  <2>1. slot \in [Generations -> SlotState] /\ (committed # None => committed \in Generations)
    BY <1>1 DEF Types
  <2>2. QED
    BY <1>1, <2>1, PreparedAt, SlotTyped
<1>5. sequence \in Nat /\ slot[sequence + 1] = "absent" /\ (\A h \in Generations : slot'[h] # "absent" => h <= sequence')
  <2>1. sequence \in Nat
    BY <1>1, GenerationFacts DEF Types
  <2>2. sequence + 1 \in Generations /\ sequence' = sequence + 1 /\ Generations \subseteq Nat
    BY <1>1, GenerationFacts
  <2>3. slot[sequence + 1] = "absent"
    BY <1>1, <2>1, <2>2 DEF Owned
  <2>4. \A h \in Generations : slot[h] # "absent" => h <= sequence
    BY <1>1 DEF Owned
  <2>5. QED
    BY <1>4, <2>1, <2>2, <2>3, <2>4
<1>6. overlapped' = (overlapped \/ Overlap')
  OBVIOUS
<1>7. Types'
  BY <1>1, <1>2, <1>4 DEF Types, AttemptOK, RuntimeState
<1>8. Owned'
  BY <1>1, <1>2, <1>4, <1>5 DEF Owned, Types, AttemptOK, Replacing, Used
<1>9. ASSUME ~overlapped' PROVE ~Overlap' /\ Agree' /\ Settled' /\ Kept'
  <2>1. ~overlapped /\ ~Overlap /\ ~Overlap' /\ Agree /\ Settled /\ Kept
    BY <1>6, <1>1, <1>9 DEF ReconcilerSafe, Types
  <2>2. Agree'
    BY <1>1, <1>2, <1>4, <2>1 DEF Agree, Types, AttemptOK, Replacing
  <2>3. Settled'
    BY DEF Settled
  <2>4. Kept'
    BY <1>4, <2>1 DEF Kept, Attempting, Replacing
  <2>5. QED
    BY <2>1, <2>2, <2>3, <2>4
<1>10. QED
  BY <1>7, <1>8, <1>9 DEF ReconcilerSafe

LEMMA RunSafe ==
  ASSUME ReconcilerSafe,
         NEW d \in BOOLEAN, RunReconcile(d, committed, slot, runtime), flight.stage \in {"none", "over"},
         desired' = d, UNCHANGED <<committed, background>>, calls' \in Calls,
         replacement' \in Attempt, replacement'.stage = replacement.stage, replacement'.generation = replacement.generation,
         replacement'.previous = replacement.previous, replacement.stale /\ Replacing => replacement'.stale,
         UNCHANGED health \/ (health' = Idle /\ health.stage = "over"),
         overlapped' = (overlapped \/ Overlap')
  PROVE  ReconcilerSafe'
<1>1. Types
  BY DEF ReconcilerSafe
<1>2. QED
  BY <1>1, RunEffects, RunRetiresSafe, RunIsDoneSafe, RunActivatesSafe

\* The actions that may start a run.
LEMMA CallersGoHomeSafe == ASSUME ReconcilerSafe, ~NeedsWork, CallersResume PROVE ReconcilerSafe'
<1>1. Types /\ Owned /\ flight.stage = "over"
  BY DEF ReconcilerSafe, CallersResume
<1>2. flight' \in Attempt /\ flight'.stage = "none" /\ flight'.generation = flight.generation
  <2>1. flight' = [flight EXCEPT !.stage = "none"] /\ flight \in Attempt /\ "none" \in Stage
    BY <1>1 DEF CallersResume, Types, AttemptOK, Stage
  <2>2. QED
    BY <2>1, MovedFields
<1>3. /\ desired => committed # None \/ runtime \in Failures
      /\ ~desired => committed = None
  BY DEF NeedsWork, Failures
<1>4. /\ UNCHANGED <<desired, runtime, committed, sequence, slot, replacement, background, health, calls>>
      /\ overlapped' = (overlapped \/ Overlap')
  BY DEF CallersResume, Noted
<1>5. Types'
  BY <1>1, <1>2, <1>4 DEF Types, AttemptOK
<1>6. Owned'
  BY <1>1, <1>2, <1>4 DEF Owned, Attempting, Replacing, Used
<1>7. ASSUME ~overlapped' PROVE ~Overlap' /\ Agree' /\ Settled' /\ Kept'
  <2>1. ~overlapped /\ ~Overlap /\ ~Overlap' /\ Agree /\ Settled /\ Kept
    BY <1>4, <1>1, <1>7 DEF ReconcilerSafe, Types
  <2>2. Agree'
    BY <1>1, <1>2, <1>4, <2>1 DEF Agree, Attempting, Replacing
  <2>3. Settled'
    BY <1>3, <1>4 DEF Settled
  <2>4. Kept'
    BY <1>1, <1>4, <2>1 DEF Kept, Attempting, Replacing
  <2>5. QED
    BY <2>1, <2>2, <2>3, <2>4
<1>8. QED
  BY <1>5, <1>6, <1>7 DEF ReconcilerSafe

LEMMA CallersResumeSafe == ASSUME ReconcilerSafe, CallersResume PROVE ReconcilerSafe'
<1>1. CASE ~NeedsWork
  BY <1>1, CallersGoHomeSafe
<1>2. CASE NeedsWork
  <2>1. /\ RunReconcile(desired, committed, slot, runtime) /\ flight.stage = "over"
        /\ UNCHANGED <<desired, committed, replacement, background, health, calls>>
        /\ overlapped' = (overlapped \/ Overlap')
    BY <1>2 DEF CallersResume, Noted
  <2>2. desired \in BOOLEAN /\ calls \in Calls /\ replacement \in Attempt
    BY DEF ReconcilerSafe, Types, AttemptOK
  <2>3. QED
    BY <2>1, <2>2, RunSafe
<1>3. QED
  BY <1>1, <1>2

LEMMA RequestMarks ==
  ASSUME Types, NEW d \in BOOLEAN, Request(d)
  PROVE  /\ replacement' \in Attempt /\ replacement'.stage = replacement.stage
         /\ replacement'.generation = replacement.generation /\ replacement'.previous = replacement.previous
         /\ replacement'.stale = (replacement.stale \/ replacement.stage # "none")
         /\ flight.stage # "none" =>
              flight' \in Attempt /\ flight'.stage = flight.stage /\ flight'.generation = flight.generation
<1>1. replacement \in Attempt /\ flight \in Attempt
  BY DEF Types, AttemptOK
<1>2. (replacement.stale \/ replacement.stage # "none") \in BOOLEAN
  OBVIOUS
<1>3. replacement' = [replacement EXCEPT !.stale = (replacement.stale \/ replacement.stage # "none")]
  BY DEF Request
<1>4. flight.stage # "none" => flight' = [flight EXCEPT !.stale = TRUE]
  BY DEF Request
<1>5. QED
  BY <1>1, <1>2, <1>3, <1>4, StaleFields

LEMMA RequestCoalescesSafe == ASSUME NEW d \in BOOLEAN, ReconcilerSafe, flight.stage # "none", Request(d) PROVE ReconcilerSafe'
<1>1. Types /\ Owned /\ d \in BOOLEAN /\ flight.stage \notin {"none", "over"}
  BY DEF ReconcilerSafe, Request, Quiet
<1>2. /\ flight' \in Attempt /\ flight'.stage = flight.stage /\ flight'.generation = flight.generation
      /\ replacement' \in Attempt /\ replacement'.stage = replacement.stage
      /\ replacement'.generation = replacement.generation /\ replacement'.previous = replacement.previous
      /\ replacement'.stale = (replacement.stale \/ replacement.stage # "none")
  BY <1>1, RequestMarks DEF Types, AttemptOK, Request
<1>3. desired' = d /\ calls' \in Calls
  BY <1>1, CallsTyped DEF Request, Types
<1>4. /\ UNCHANGED <<runtime, slot, sequence, committed, background, health>>
      /\ overlapped' = (overlapped \/ Overlap')
  BY <1>1 DEF Request, Noted
<1>5. Types'
  BY <1>1, <1>2, <1>3, <1>4 DEF Types, AttemptOK
<1>6. Owned'
  BY <1>1, <1>2, <1>4 DEF Owned, Attempting, Replacing, Used
<1>7. ASSUME ~overlapped' PROVE ~Overlap' /\ Agree' /\ Settled' /\ Kept'
  <2>1. ~overlapped /\ ~Overlap /\ ~Overlap' /\ Agree /\ Settled /\ Kept
    BY <1>4, <1>1, <1>7 DEF ReconcilerSafe, Types
  <2>2. Agree'
    BY <1>2, <1>4, <2>1 DEF Agree, Attempting, Replacing
  <2>3. Settled'
    BY <1>2 DEF Settled
  <2>4. Kept'
    BY <1>2, <1>4, <2>1 DEF Kept, Attempting, Replacing
  <2>5. QED
    BY <2>1, <2>2, <2>3, <2>4
<1>8. QED
  BY <1>5, <1>6, <1>7 DEF ReconcilerSafe

LEMMA RequestSafe == ASSUME ReconcilerSafe, NEW d \in BOOLEAN, Request(d) PROVE ReconcilerSafe'
<1>1. CASE flight.stage # "none"
  BY <1>1, RequestCoalescesSafe
<1>2. CASE flight.stage = "none"
  <2>1. /\ RunReconcile(d, committed, slot, runtime) /\ desired' = d
        /\ UNCHANGED <<committed, background, health>> /\ overlapped' = (overlapped \/ Overlap')
    BY <1>2 DEF Request, Noted
  <2>2. calls' \in Calls
    BY CallsTyped DEF Request, ReconcilerSafe, Types
  <2>3. /\ replacement' \in Attempt /\ replacement'.stage = replacement.stage
        /\ replacement'.generation = replacement.generation /\ replacement'.previous = replacement.previous
        /\ (replacement.stale /\ Replacing => replacement'.stale)
    BY RequestMarks DEF ReconcilerSafe, Replacing
  <2>4. QED
    BY <1>2, <2>1, <2>2, <2>3, RunSafe
<1>3. QED
  BY <1>1, <1>2

LEMMA ReplacementBeginsSafe == ASSUME ReconcilerSafe, committed # None, ReplaceGeneration PROVE ReconcilerSafe'
<1>1. /\ Types /\ Owned /\ replacement.stage = "none" /\ committed \in Generations
      /\ sequence + 1 \in Generations /\ sequence' = sequence + 1
  BY DEF ReconcilerSafe, ReplaceGeneration, NextGeneration, Types
<1>2. /\ replacement' \in Attempt /\ replacement'.stage = "activating" /\ replacement'.generation = sequence + 1
      /\ replacement'.previous = committed /\ replacement'.stale = FALSE
  <2>1. "activating" \in {"activating", "retiring", "over"}
    OBVIOUS
  <2>2. replacement' = At("activating", sequence + 1, committed)
    BY DEF ReplaceGeneration, NextGeneration
  <2>3. QED
    BY <1>1, <2>2 DEF At, Attempt, Stage
<1>3. calls' \in Calls /\ slot' = Prepared(slot) /\ slot \in [Generations -> SlotState]
  BY <1>1, CallsTyped DEF ReplaceGeneration, Types
<1>4. /\ slot' \in [Generations -> SlotState]
      /\ \A h \in Generations : slot'[h] = IF h = sequence + 1 THEN "preparing" ELSE slot[h]
  BY <1>3, PreparedAt, SlotTyped
<1>5. sequence \in Nat /\ slot[sequence + 1] = "absent" /\ (\A h \in Generations : slot'[h] # "absent" => h <= sequence')
  <2>1. sequence \in Nat
    BY <1>1, GenerationFacts DEF Types
  <2>2. Generations \subseteq Nat
    BY GenerationFacts
  <2>3. slot[sequence + 1] = "absent"
    BY <1>1, <2>1, <2>2 DEF Owned
  <2>4. \A h \in Generations : slot[h] # "absent" => h <= sequence
    BY <1>1 DEF Owned
  <2>5. QED
    BY <1>1, <1>4, <2>1, <2>2, <2>4
<1>6. /\ UNCHANGED <<desired, committed, background, health, flight, runtime>>
      /\ overlapped' = (overlapped \/ Overlap')
  BY DEF ReplaceGeneration, Noted
<1>7. Types'
  BY <1>1, <1>2, <1>3, <1>4, <1>6 DEF Types, AttemptOK
<1>8. Owned'
  BY <1>1, <1>2, <1>4, <1>5, <1>6 DEF Owned, Types, AttemptOK, Attempting, Used
<1>9. ASSUME ~overlapped' PROVE ~Overlap' /\ Agree' /\ Settled' /\ Kept'
  <2>1. ~overlapped /\ ~Overlap /\ ~Overlap' /\ Agree /\ Settled /\ Kept
    BY <1>6, <1>1, <1>9 DEF ReconcilerSafe, Types
  <2>2. Agree'
    BY <1>1, <1>2, <1>4, <1>5, <1>6, <2>1 DEF Agree
  <2>3. Settled'
    BY <1>6, <2>1 DEF Settled
  <2>4. Kept'
    BY <1>1, <1>2, <1>4, <1>6, <2>1 DEF Kept, Replacing
  <2>5. QED
    BY <2>1, <2>2, <2>3, <2>4
<1>10. QED
  BY <1>7, <1>8, <1>9 DEF ReconcilerSafe

LEMMA ReplaceCoalescesSafe == ASSUME ReconcilerSafe, committed = None, flight.stage # "none", ReplaceGeneration PROVE ReconcilerSafe'
<1>1. Types /\ Owned /\ flight.stage # "none"
  BY DEF ReconcilerSafe
<1>2. calls' \in Calls
  BY <1>1, CallsTyped DEF ReplaceGeneration, Types
<1>3. UNCHANGED <<slot, runtime, flight, sequence>>
  BY DEF ReplaceGeneration, Reconcile
<1>4. /\ UNCHANGED <<desired, committed, replacement, background, health>>
      /\ overlapped' = (overlapped \/ Overlap')
  BY DEF ReplaceGeneration, Noted
<1>5. Types'
  BY <1>1, <1>2, <1>3, <1>4 DEF Types
<1>6. Owned'
  BY <1>1, <1>3, <1>4 DEF Owned, Replacing, Used
<1>7. ASSUME ~overlapped' PROVE ~Overlap' /\ Agree' /\ Settled' /\ Kept'
  <2>1. ~overlapped /\ ~Overlap /\ ~Overlap' /\ Agree /\ Settled /\ Kept
    BY <1>4, <1>1, <1>7 DEF ReconcilerSafe, Types
  <2>2. Agree'
    BY <1>3, <1>4, <2>1 DEF Agree, Replacing
  <2>3. Settled'
    BY <1>3 DEF Settled
  <2>4. Kept'
    BY <1>3, <1>4, <2>1 DEF Kept, Replacing
  <2>5. QED
    BY <2>1, <2>2, <2>3, <2>4
<1>8. QED
  BY <1>5, <1>6, <1>7 DEF ReconcilerSafe

LEMMA ReplaceGenerationSafe == ASSUME ReconcilerSafe, ReplaceGeneration PROVE ReconcilerSafe'
<1>1. CASE committed # None
  BY <1>1, ReplacementBeginsSafe
<1>2. CASE committed = None /\ flight.stage # "none"
  BY <1>2, ReplaceCoalescesSafe
<1>3. CASE committed = None /\ flight.stage = "none"
  <2>1. /\ RunReconcile(desired, committed, slot, runtime)
        /\ UNCHANGED <<desired, committed, replacement, background, health>>
        /\ overlapped' = (overlapped \/ Overlap')
    BY <1>3 DEF ReplaceGeneration, Reconcile, Noted
  <2>2. desired \in BOOLEAN /\ calls' \in Calls /\ replacement \in Attempt
    BY CallsTyped DEF ReconcilerSafe, Types, AttemptOK, ReplaceGeneration
  <2>3. QED
    BY <1>3, <2>1, <2>2, RunSafe
<1>4. QED
  BY <1>1, <1>2, <1>3

LEMMA HealthEndsSafe == ASSUME ReconcilerSafe, desired => flight.stage # "none", HealthResumes PROVE ReconcilerSafe'
<1>1. Types /\ Owned /\ health.stage = "over" /\ (desired => flight.stage # "none")
  BY DEF ReconcilerSafe, HealthResumes
<1>2. health' \in Attempt /\ health'.stage = "none"
  BY IdleFields DEF HealthResumes
<1>3. UNCHANGED <<flight, runtime, slot, sequence>>
  BY <1>1 DEF HealthResumes, Reconcile
<1>4. /\ UNCHANGED <<desired, committed, replacement, background, calls>>
      /\ overlapped' = (overlapped \/ Overlap')
  BY DEF HealthResumes, Noted
<1>5. Types'
  BY <1>1, <1>2, <1>3, <1>4 DEF Types, AttemptOK
<1>6. Owned'
  BY <1>1, <1>2, <1>3, <1>4 DEF Owned, Replacing, Used
<1>7. ASSUME ~overlapped' PROVE ~Overlap' /\ Agree' /\ Settled' /\ Kept'
  <2>1. ~overlapped /\ ~Overlap /\ ~Overlap' /\ Agree /\ Settled /\ Kept
    BY <1>4, <1>1, <1>7 DEF ReconcilerSafe, Types
  <2>2. Agree'
    BY <1>1, <1>2, <1>3, <1>4, <2>1 DEF Agree, Replacing
  <2>3. Settled'
    BY <1>1, <1>3, <1>4, <2>1 DEF Agree, Settled
  <2>4. Kept'
    BY <1>1, <1>3, <1>4, <2>1 DEF Kept, Replacing
  <2>5. QED
    BY <2>1, <2>2, <2>3, <2>4
<1>8. QED
  BY <1>5, <1>6, <1>7 DEF ReconcilerSafe

LEMMA HealthResumesSafe == ASSUME ReconcilerSafe, HealthResumes PROVE ReconcilerSafe'
<1>1. CASE desired => flight.stage # "none"
  BY <1>1, HealthEndsSafe
<1>2. CASE desired /\ flight.stage = "none"
  <2>1. /\ RunReconcile(desired, committed, slot, runtime) /\ health' = Idle /\ health.stage = "over"
        /\ UNCHANGED <<desired, committed, replacement, background, calls>>
        /\ overlapped' = (overlapped \/ Overlap')
    BY <1>2 DEF HealthResumes, Reconcile, Noted
  <2>2. desired \in BOOLEAN /\ calls' \in Calls /\ replacement \in Attempt
    BY <2>1 DEF ReconcilerSafe, Types, AttemptOK
  <2>3. QED
    BY <1>2, <2>1, <2>2, RunSafe
<1>3. QED
  BY <1>1, <1>2

-----------------------------------------------------------------------------
(* The invariant, and what follows from it.                                 *)

LEMMA InitSafe == ASSUME Init PROVE ReconcilerSafe
<1>1. Types
  <2>1. 0 \in 0 .. MaxRequests /\ 0 \in 0 .. MaxReplacements /\ 0 \in 0 .. MaxHealthSignals
    BY BoundsAssumption
  <2>2. QED
    BY <2>1, IdleFields DEF Init, Types, AttemptOK, Calls, RuntimeState, SlotState
<1>2. Owned /\ ~Overlap /\ Agree /\ Settled /\ Kept
  BY IdleFields DEF Init, Owned, Agree, Settled, Kept, Attempting, Replacing, Overlap
<1>3. QED
  BY <1>1, <1>2 DEF ReconcilerSafe

LEMMA StutterSafe == ASSUME ReconcilerSafe, UNCHANGED vars PROVE ReconcilerSafe'
BY DEF vars, ReconcilerSafe, Types, Owned, Replacing, Used, Overlap, Agree, Settled, Kept

LEMMA NextSafe == ASSUME ReconcilerSafe, [Next]_vars PROVE ReconcilerSafe'
<1>1. CASE SetDesiredActive \/ Retry
  BY <1>1, RequestSafe DEF SetDesiredActive, Retry
<1>2. CASE ActivationReturns
  BY <1>2, ActivationStaleSafe, ActivationCommitsSafe
<1>3. CASE ReplacementReturns
  BY <1>3, ReplacementStaleSafe, ReplacementTakesOverSafe
<1>4. CASE \E g \in Generations : BackgroundRetired(g)
  BY <1>4, BackgroundRetiredSafe
<1>5. CASE CallersResume \/ ActivationThrows \/ AttemptDiscarded \/ CommittedRetired
  BY <1>5, CallersResumeSafe, ActivationThrowsSafe, AttemptDiscardedSafe, CommittedRetiredSafe
<1>6. CASE ReplaceGeneration \/ ReplacementThrows \/ ReplacementDiscarded
  BY <1>6, ReplaceGenerationSafe, ReplacementThrowsSafe, ReplacementDiscardedSafe
<1>7. CASE ApplyPendingHealthSignals \/ UnhealthyRetired \/ HealthResumes
  BY <1>7, HealthSignalSafe, UnhealthyRetiredSafe, HealthResumesSafe
<1>8. CASE UNCHANGED vars
  BY <1>8, StutterSafe
<1>9. QED
  BY <1>1, <1>2, <1>3, <1>4, <1>5, <1>6, <1>7, <1>8 DEF Next

LEMMA AlwaysSafe == Spec => []ReconcilerSafe
BY InitSafe, NextSafe, PTL DEF Spec

\* Whatever requests came while attempts were under way, and whatever failed,
\* a component that has settled is what it was last asked to be (reconcile).
THEOREM SettlesAsDesired == Spec => []SettledMatchesDesired
<1>1. ReconcilerSafe => SettledMatchesDesired
  <2> SUFFICES ASSUME ReconcilerSafe, Quiescent, ~overlapped
               PROVE  IF desired THEN committed # None \/ runtime \in Failures
                      ELSE committed = None /\ \A g \in Generations : slot[g] # "committed"
    BY DEF SettledMatchesDesired, Failures
  <2>1. Agree /\ Settled
    BY DEF ReconcilerSafe
  <2>2. QED
    BY <2>1, GenerationFacts DEF Agree, Settled, Quiescent
<1>2. QED
  BY <1>1, AlwaysSafe, PTL

\* A component projected as ready has a generation that grants leases, and the
\* slot serves no generation the projection does not show (updateRuntimeState).
THEOREM ProjectionIsTruthful == Spec => []ProjectionTruthful
<1>1. ReconcilerSafe => ProjectionTruthful
  BY DEF ReconcilerSafe, Agree, ProjectionTruthful
<1>2. QED
  BY <1>1, AlwaysSafe, PTL

\* No generation is left behind: one that has stopped serving is being retired,
\* one that is prepared belongs to an attempt (activate, replaceGeneration).
THEOREM NothingOrphaned == Spec => []NoOrphan
<1>1. ReconcilerSafe => NoOrphan
  <2> SUFFICES ASSUME ReconcilerSafe PROVE NoOrphan
    OBVIOUS
  <2>1. TypeOK
    BY TypesAreTypeOK DEF ReconcilerSafe
  <2>2. ASSUME ~overlapped, NEW g \in Generations, slot[g] = "retiring" PROVE g \in BeingRetired
    BY <2>2 DEF ReconcilerSafe, Kept, BeingRetired
  <2>3. ASSUME ~overlapped, NEW g \in Generations, slot[g] = "preparing"
        PROVE  g \in {flight.generation, replacement.generation}
    BY <2>3 DEF ReconcilerSafe, Kept
  <2>4. QED
    BY <2>1, <2>2, <2>3 DEF NoOrphan
<1>2. QED
  BY <1>1, AlwaysSafe, PTL

-----------------------------------------------------------------------------
(* ProviderGenerations, implemented.                                        *)

Life == [g \in Generations |-> LifeOf(g)]

\* The five ways in which the reconciler touches the slot: each is a step of
\* ProviderGenerations, or none.
LEMMA PrepareMoves ==
  ASSUME Types, slot' = Prepared(slot), sequence + 1 \in Generations, slot[sequence + 1] = "absent"
  PROVE  [Gen!Next]_Life
<1>1. \A h \in Generations : slot'[h] = IF h = sequence + 1 THEN "preparing" ELSE slot[h]
  BY PreparedAt DEF Types
<1>2. Life[sequence + 1] = "absent" /\ Life' = [Life EXCEPT ![sequence + 1] = "preparing"]
  BY <1>1 DEF Life, LifeOf
<1>3. Gen!Prepare(sequence + 1)
  BY <1>2 DEF Gen!Prepare, Life
<1>4. QED
  BY <1>3 DEF Gen!Next

LEMMA SwapMoves ==
  ASSUME NEW g \in Generations, slot[g] = "preparing",
         \A h \in Generations : slot'[h] = IF h = g THEN "committed" ELSE IF slot[h] = "committed" THEN "retiring" ELSE slot[h],
         slot \in [Generations -> SlotState]
  PROVE  [Gen!Next]_Life
<1>1. /\ Life[g] = "preparing"
      /\ Life' = [h \in Generations |-> IF h = g THEN "serving" ELSE IF Life[h] = "serving" THEN "retiring" ELSE Life[h]]
  BY DEF Life, LifeOf, SlotState
<1>2. Gen!Swap(g)
  BY <1>1 DEF Gen!Swap, Life
<1>3. QED
  BY <1>2 DEF Gen!Next

LEMMA DiscardMoves ==
  ASSUME Types, NEW g \in Generations, slot[g] = "preparing", slot' = [slot EXCEPT ![g] = "failed"]
  PROVE  [Gen!Next]_Life
<1>1. \A h \in Generations : slot'[h] = IF h = g THEN "failed" ELSE slot[h]
  BY DiscardAt DEF Types
<1>2. \A h \in Generations : Life'[h] = IF h = g THEN "failed" ELSE Life[h]
  BY <1>1 DEF Life, LifeOf
<1>3. Life[g] = "preparing" /\ Life' = [Life EXCEPT ![g] = "failed"]
  BY <1>2 DEF Life, LifeOf
<1>4. Gen!Fail(g)
  BY <1>3 DEF Gen!Fail, Life
<1>5. QED
  BY <1>4 DEF Gen!Next

LEMMA WithdrawMoves ==
  ASSUME Types, NEW g \in Generations, slot' = Withdrawn(slot, g)
  PROVE  [Gen!Next]_Life
<1>1. \A h \in Generations : slot'[h] = IF h = g /\ slot[h] = "committed" THEN "retiring" ELSE slot[h]
  BY SlotAt DEF Types
<1>2. CASE slot[g] = "committed"
  <2>1. Life[g] = "serving" /\ Life' = [Life EXCEPT ![g] = "retiring"]
    BY <1>1, <1>2 DEF Life, LifeOf
  <2>2. Gen!Withdraw(g)
    BY <2>1 DEF Gen!Withdraw, Life
  <2>3. QED
    BY <2>2 DEF Gen!Next
<1>3. CASE slot[g] # "committed"
  BY <1>1, <1>3 DEF Life, LifeOf
<1>4. QED
  BY <1>2, <1>3

\* A rejected retirement leaves the generation where it is.
LEMMA RetireMoves ==
  ASSUME Types, NEW g \in Generations, NEW ok \in BOOLEAN, slot' = Retired(slot, g, ok)
  PROVE  [Gen!Next]_Life
<1>1. \A h \in Generations : slot'[h] = IF h = g /\ slot[h] \in {"retiring", "stuck"}
                                        THEN IF ok THEN "retired" ELSE "stuck" ELSE slot[h]
  BY SlotAt DEF Types
<1>2. CASE ok /\ slot[g] \in {"retiring", "stuck"}
  <2>1. Life[g] = "retiring" /\ Life' = [Life EXCEPT ![g] = "retired"]
    BY <1>1, <1>2 DEF Life, LifeOf
  <2>2. Gen!Retired(g)
    BY <2>1 DEF Gen!Retired, Life
  <2>3. QED
    BY <2>2 DEF Gen!Next
<1>3. CASE ~(ok /\ slot[g] \in {"retiring", "stuck"})
  BY <1>1, <1>3 DEF Life, LifeOf
<1>4. QED
  BY <1>2, <1>3

LEMMA SameMoves == ASSUME UNCHANGED slot PROVE [Gen!Next]_Life
BY DEF Life, LifeOf

LEMMA NextIsFresh ==
  ASSUME ReconcilerSafe, sequence + 1 \in Generations
  PROVE  slot[sequence + 1] = "absent"
<1>1. sequence \in Nat
  BY GenerationFacts DEF ReconcilerSafe, Types
<1>2. QED
  BY <1>1 DEF ReconcilerSafe, Owned

LEMMA RunMoves ==
  ASSUME ReconcilerSafe, NEW d \in BOOLEAN, RunReconcile(d, committed, slot, runtime)
  PROVE  [Gen!Next]_Life
<1>1. Types
  BY DEF ReconcilerSafe
<1>2. \/ committed # None /\ slot' = Withdrawn(slot, committed)
      \/ UNCHANGED slot
      \/ slot' = Prepared(slot) /\ sequence + 1 \in Generations
  BY <1>1, RunEffects
<1>3. CASE committed # None /\ slot' = Withdrawn(slot, committed)
  BY <1>1, <1>3, WithdrawMoves DEF Types
<1>4. CASE slot' = Prepared(slot) /\ sequence + 1 \in Generations
  BY <1>1, <1>4, NextIsFresh, PrepareMoves
<1>5. QED
  BY <1>2, <1>3, <1>4, SameMoves

LEMMA ReturnsMove == ASSUME ReconcilerSafe, ActivationReturns \/ ReplacementReturns PROVE [Gen!Next]_Life
<1>1. slot \in [Generations -> SlotState] /\ Types /\ Owned
  BY DEF ReconcilerSafe, Types
<1>2. CASE ActivationReturns
  <2> DEFINE g == flight.generation
  <2>1. g \in Generations /\ slot[g] = "preparing"
    BY <1>1, <1>2 DEF ActivationReturns, Types, AttemptOK, Owned, Attempting
  <2>2. slot' = Swapped(slot, g) \/ UNCHANGED slot
    BY <1>2 DEF ActivationReturns
  <2>3. CASE slot' = Swapped(slot, g)
    <3>1. \A h \in Generations : slot'[h] = IF h = g THEN "committed" ELSE IF slot[h] = "committed" THEN "retiring" ELSE slot[h]
      BY <1>1, <2>1, <2>3, SlotAt
    <3>2. QED
      BY <1>1, <2>1, <3>1, SwapMoves
  <2>4. QED
    BY <2>2, <2>3, SameMoves
<1>3. CASE ReplacementReturns
  <2> DEFINE g == replacement.generation
             p == replacement.previous
  <2>1. g \in Generations /\ p \in Generations /\ slot[g] = "preparing" /\ g # p
    BY <1>1, <1>3 DEF ReplacementReturns, Types, AttemptOK, Owned, Replacing, Used
  <2>2. slot' = Withdrawn(Swapped(slot, g), p) \/ UNCHANGED slot
    BY <1>3 DEF ReplacementReturns, TakeOver
  <2>3. CASE slot' = Withdrawn(Swapped(slot, g), p)
    <3>1. Swapped(slot, g) \in [Generations -> SlotState]
      BY <1>1, <2>1, SlotTyped
    <3>2. \A h \in Generations : slot'[h] = IF h = p /\ Swapped(slot, g)[h] = "committed" THEN "retiring" ELSE Swapped(slot, g)[h]
      BY <2>1, <2>3, <3>1, SlotAt
    <3>3. \A h \in Generations : Swapped(slot, g)[h] = IF h = g THEN "committed" ELSE IF slot[h] = "committed" THEN "retiring" ELSE slot[h]
      BY <1>1, <2>1, SlotAt
    <3>4. \A h \in Generations : slot'[h] = IF h = g THEN "committed" ELSE IF slot[h] = "committed" THEN "retiring" ELSE slot[h]
      BY <2>1, <3>2, <3>3
    <3>5. QED
      BY <1>1, <2>1, <3>4, SwapMoves
  <2>4. QED
    BY <2>2, <2>3, SameMoves
<1>4. QED
  BY <1>2, <1>3

\* Each step of the reconciler is a step of ProviderGenerations, or none.
LEMMA StepMoves == ASSUME ReconcilerSafe, [Next]_vars PROVE [Gen!Next]_Life
<1>1. Types /\ Owned /\ desired \in BOOLEAN
  BY DEF ReconcilerSafe, Types
<1>2. ASSUME NEW d \in BOOLEAN, Request(d) PROVE [Gen!Next]_Life
  BY <1>2, RunMoves, SameMoves DEF Request
<1>3. CASE CallersResume
  BY <1>1, <1>3, RunMoves, SameMoves DEF CallersResume
<1>4. CASE ActivationReturns \/ ReplacementReturns
  BY <1>4, ReturnsMove
<1>5. CASE ActivationThrows \/ ReplacementThrows
  BY <1>5, SameMoves DEF ActivationThrows, ReplacementThrows
<1>6. CASE AttemptDiscarded
  <2>1. flight.generation \in Generations /\ slot[flight.generation] = "preparing"
    BY <1>1, <1>6 DEF AttemptDiscarded, Types, AttemptOK, Owned, Attempting
  <2>2. QED
    BY <1>1, <1>6, <2>1, DiscardMoves DEF AttemptDiscarded
<1>7. CASE ReplacementDiscarded
  <2>1. replacement.generation \in Generations /\ slot[replacement.generation] = "preparing"
    BY <1>1, <1>7 DEF ReplacementDiscarded, Types, AttemptOK, Owned, Replacing
  <2>2. QED
    BY <1>1, <1>7, <2>1, DiscardMoves DEF ReplacementDiscarded
<1>8. CASE CommittedRetired
  <2>1. flight.generation \in Generations
    BY <1>1, <1>8 DEF CommittedRetired, Types, AttemptOK
  <2>2. QED
    BY <1>1, <1>8, <2>1, RetireMoves DEF CommittedRetired
<1>9. CASE UnhealthyRetired
  <2>1. health.generation \in Generations
    BY <1>1, <1>9 DEF UnhealthyRetired, Types, AttemptOK
  <2>2. QED
    BY <1>1, <1>9, <2>1, RetireMoves DEF UnhealthyRetired
<1>10. ASSUME NEW g \in Generations, BackgroundRetired(g) PROVE [Gen!Next]_Life
  BY <1>1, <1>10, RetireMoves DEF BackgroundRetired
<1>11. CASE ReplaceGeneration
  <2>1. CASE committed = None
    BY <1>1, <1>11, <2>1, RunMoves, SameMoves DEF ReplaceGeneration, Reconcile
  <2>2. CASE committed # None
    <3>1. slot' = Prepared(slot) /\ sequence + 1 \in Generations
      BY <1>11, <2>2 DEF ReplaceGeneration, NextGeneration
    <3>2. QED
      BY <1>1, <3>1, NextIsFresh, PrepareMoves
  <2>3. QED
    BY <2>1, <2>2
<1>12. CASE ApplyPendingHealthSignals
  <2>1. committed \in Generations /\ slot' = Withdrawn(slot, committed)
    BY <1>1, <1>12 DEF ApplyPendingHealthSignals, Types
  <2>2. QED
    BY <1>1, <2>1, WithdrawMoves
<1>13. CASE HealthResumes
  BY <1>13, RunMoves, SameMoves DEF HealthResumes, Reconcile
<1>14. CASE UNCHANGED vars
  BY <1>14, SameMoves DEF vars
<1>15. QED
  BY <1>2, <1>3, <1>4, <1>5, <1>6, <1>7, <1>8, <1>9, <1>10, <1>11, <1>12, <1>13, <1>14
     DEF Next, SetDesiredActive, Retry

\* What the reconciler does to the slot is what ProviderGenerations allows,
\* overlapped or not: attempts and retirements never revive a generation
\* (activate, replaceGeneration, retireCommitted).
THEOREM ReconcilerImplementsGenerations == Spec => ImplementsGenerations
<1>1. Init => Gen!Init
  BY DEF Init, Gen!Init, LifeOf
<1>2. ReconcilerSafe /\ [Next]_vars => [Gen!Next]_Life
  BY StepMoves
<1>3. QED
  BY <1>1, <1>2, AlwaysSafe, PTL DEF Spec, ImplementsGenerations, Gen!Spec, Life

-----------------------------------------------------------------------------
(* What the refinement says of the slot.                                     *)

\* Of the generations of a component at most one serves.
OneServes ==
  \A g, h \in Generations : slot[g] = "committed" /\ slot[h] = "committed" => g = h

\* Whichever attempts, replacements and health signals overlap, the slot never
\* has two committed generations: a commit displaces what the other committed.
THEOREM OneGenerationServes == Spec => []OneServes
<1>1. Init => OneServes
  BY DEF Init, OneServes
<1>2. ASSUME OneServes, ReconcilerSafe, [Next]_vars PROVE OneServes'
  <2>1. [Gen!Next]_Life
    BY <1>2, StepMoves
  <2>2. \A g \in Generations : Life[g] = "serving" <=> slot[g] = "committed"
    BY <1>2 DEF ReconcilerSafe, Types, SlotState, Life, LifeOf
  <2>3. \A g \in Generations : Life'[g] = "serving" <=> slot'[g] = "committed"
    <3>1. slot' \in [Generations -> SlotState]
      BY <1>2, NextSafe DEF ReconcilerSafe, Types
    <3>2. QED
      BY <3>1 DEF SlotState, Life, LifeOf
  <2>4. \A g, h \in Generations : Life'[g] = "serving" /\ Life'[h] = "serving" => g = h
    <3>1. \A g, h \in Generations : Life[g] = "serving" /\ Life[h] = "serving" => g = h
      BY <1>2, <2>2 DEF OneServes
    <3>2. CASE \E k \in Generations : Gen!Swap(k)
      BY <3>1, <3>2 DEF Gen!Swap, Life
    <3>3. CASE UNCHANGED Life
      BY <3>1, <3>3
    <3>4. ASSUME NEW k \in Generations,
                 Gen!Prepare(k) \/ Gen!Fail(k) \/ Gen!Withdraw(k) \/ Gen!Retired(k),
                 NEW g \in Generations, Life'[g] = "serving"
          PROVE  Life[g] = "serving"
      BY <3>4 DEF Gen!Prepare, Gen!Fail, Gen!Withdraw, Gen!Retired, Life
    <3>5. QED
      BY <2>1, <3>1, <3>2, <3>3, <3>4 DEF Gen!Next
  <2>5. QED
    BY <2>3, <2>4 DEF OneServes
<1>3. QED
  BY <1>1, <1>2, AlwaysSafe, PTL DEF Spec

\* A generation that was committed, or displaced, or has failed, is never prepared
\* or committed again.
NoneRevived ==
  [][\A g \in Generations :
       /\ slot[g] = "committed" => slot'[g] # "preparing"
       /\ slot[g] \notin {"absent", "preparing", "committed"} =>
            slot'[g] \notin {"absent", "preparing", "committed"}]_vars

\* A late result of an attempt, of a replacement or of a retirement never brings
\* an earlier generation back.
THEOREM NothingRevived == Spec => NoneRevived
<1>1. ASSUME ReconcilerSafe, [Next]_vars, NEW g \in Generations
      PROVE  /\ slot[g] = "committed" => slot'[g] # "preparing"
             /\ slot[g] \notin {"absent", "preparing", "committed"} =>
                  slot'[g] \notin {"absent", "preparing", "committed"}
  <2>1. [Gen!Next]_Life
    BY <1>1, StepMoves
  <2>2. slot[g] \in SlotState /\ slot'[g] \in SlotState
    BY <1>1, NextSafe DEF ReconcilerSafe, Types
  <2>3. /\ Life[g] = "serving" => Life'[g] # "preparing"
        /\ Life[g] \notin {"absent", "preparing", "serving"} =>
             Life'[g] \notin {"absent", "preparing", "serving"}
    BY <2>1 DEF Gen!Next, Gen!Prepare, Gen!Swap, Gen!Fail, Gen!Withdraw, Gen!Retired, Life
  <2>4. /\ Life[g] = (IF slot[g] = "stuck" THEN "retiring"
                      ELSE IF slot[g] = "committed" THEN "serving" ELSE slot[g])
        /\ Life'[g] = (IF slot'[g] = "stuck" THEN "retiring"
                       ELSE IF slot'[g] = "committed" THEN "serving" ELSE slot'[g])
    BY DEF Life, LifeOf
  <2>5. QED
    BY <2>2, <2>3, <2>4 DEF SlotState
<1>2. ReconcilerSafe /\ [Next]_vars =>
        [\A g \in Generations :
           /\ slot[g] = "committed" => slot'[g] # "preparing"
           /\ slot[g] \notin {"absent", "preparing", "committed"} =>
                slot'[g] \notin {"absent", "preparing", "committed"}]_vars
  BY <1>1
<1>3. QED
  BY <1>2, AlwaysSafe, PTL DEF Spec, NoneRevived

-----------------------------------------------------------------------------
(* That no attempt is made unasked.                                         *)

\* The reconcile in flight will be followed by another: a request has moved the
\* revision, or its callers find work left.
Pending ==
  /\ flight.stage # "none"
  /\ flight.stale \/ (flight.stage = "over" /\ desired /\ committed = None /\ runtime \notin Failures)
Healing == health.stage # "none"

One(b) == IF b THEN 1 ELSE 0
Asked == calls.request + 2 * calls.replacement + calls.health

\* Attempts made, and those that calls under way may still bring about.
Attempts == sequence + One(Pending) + One(Replacing) + One(Healing)

\* Every attempt was asked for by a call: a failed one is not repeated, the callers
\* of one reconcile make at most one attempt more for each request that came
\* meanwhile, and none of them runs out of generations to prepare.
AttemptsAsked ==
  /\ sequence <= Asked
  /\ flight.stage = "over" /\ desired /\ committed = None /\ runtime \notin Failures => NextGeneration \in Generations

\* A reconcile that retires, or discards what it has activated, has been overtaken
\* by a request if the component is desired.
Overtaken ==
  /\ flight.stage = "retiring" /\ desired => flight.stale
  /\ flight.stage = "stale" => flight.stale

Counted == Types /\ Overtaken /\ Attempts <= Asked

LEMMA Numbers ==
  ASSUME Types
  PROVE  /\ sequence \in Nat /\ calls.request \in Nat /\ calls.replacement \in Nat /\ calls.health \in Nat
         /\ Asked \in Nat
<1>1. /\ calls.request \in 0 .. MaxRequests /\ calls.replacement \in 0 .. MaxReplacements
      /\ calls.health \in 0 .. MaxHealthSignals
  BY DEF Types, Calls
<1>2. sequence \in Nat
  BY GenerationFacts DEF Types
<1>3. QED
  BY <1>1, <1>2, BoundsAssumption DEF Asked

\* A step without a call and without an attempt, that brings none about.
LEMMA CountKept ==
  ASSUME Counted, Types', UNCHANGED <<sequence, calls>>, Overtaken',
         Pending' => Pending, Replacing' => Replacing, Healing' => Healing
  PROVE  Counted'
<1>1. One(Pending') <= One(Pending) /\ One(Replacing') <= One(Replacing) /\ One(Healing') <= One(Healing)
  BY DEF One
<1>2. /\ One(Pending') \in Nat /\ One(Replacing') \in Nat /\ One(Healing') \in Nat
      /\ One(Pending) \in Nat /\ One(Replacing) \in Nat /\ One(Healing) \in Nat
  BY DEF One
<1>3. sequence \in Nat /\ Asked \in Nat /\ Asked' = Asked /\ Attempts <= Asked
  BY Numbers DEF Counted, Asked
<1>4. sequence + One(Pending') + One(Replacing') + One(Healing') <= sequence + One(Pending) + One(Replacing) + One(Healing)
  BY <1>1, <1>2, <1>3
<1>5. Attempts' <= Attempts
  BY <1>4 DEF Attempts
<1>6. Attempts \in Nat /\ Attempts' \in Nat
  BY <1>2, <1>3 DEF Attempts
<1>7. Attempts' <= Asked'
  BY <1>3, <1>5, <1>6
<1>8. QED
  BY <1>7 DEF Counted

\* An attempt at most, where one was asked for: of what stands for it, one thing
\* that was pending is so no more, or a call is made.
LEMMA CountOne ==
  ASSUME Counted, Types', Overtaken', sequence' \in {sequence, sequence + 1}, ~Pending',
         \/ Pending /\ UNCHANGED calls /\ (Replacing' => Replacing) /\ (Healing' => Healing)
         \/ Healing /\ ~Healing' /\ UNCHANGED calls /\ (Replacing' => Replacing)
         \/ Asked' = Asked + 1 /\ (Replacing' => Replacing) /\ (Healing' => Healing)
         \/ Asked' = Asked + 2 /\ (Healing' => Healing)
  PROVE  Counted'
<1>1. /\ sequence \in Nat /\ sequence' \in Nat /\ Asked \in Nat /\ Asked' \in Nat /\ sequence' <= sequence + 1
      /\ sequence + One(Pending) + One(Replacing) + One(Healing) <= Asked
  BY Numbers DEF Counted, Attempts, Asked, Types
<1>2. /\ One(Pending) \in {0, 1} /\ One(Replacing) \in {0, 1} /\ One(Healing) \in {0, 1}
      /\ One(Replacing') \in {0, 1} /\ One(Healing') \in {0, 1} /\ One(Pending') = 0
  BY DEF One
<1>3. CASE Pending /\ UNCHANGED calls /\ (Replacing' => Replacing) /\ (Healing' => Healing)
  <2>1. One(Pending) = 1 /\ One(Replacing') <= One(Replacing) /\ One(Healing') <= One(Healing) /\ Asked' = Asked
    BY <1>3 DEF One, Asked
  <2>2. sequence' + One(Pending') + One(Replacing') + One(Healing') <= Asked'
    BY <1>1, <1>2, <2>1
  <2>3. QED
    BY <2>2 DEF Counted, Attempts
<1>4. CASE Healing /\ ~Healing' /\ UNCHANGED calls /\ (Replacing' => Replacing)
  <2>1. One(Healing) = 1 /\ One(Healing') = 0 /\ One(Replacing') <= One(Replacing) /\ Asked' = Asked
    BY <1>4 DEF One, Asked
  <2>2. sequence' + One(Pending') + One(Replacing') + One(Healing') <= Asked'
    BY <1>1, <1>2, <2>1
  <2>3. QED
    BY <2>2 DEF Counted, Attempts
<1>5. CASE Asked' = Asked + 1 /\ (Replacing' => Replacing) /\ (Healing' => Healing)
  <2>1. One(Replacing') <= One(Replacing) /\ One(Healing') <= One(Healing)
    BY <1>5 DEF One
  <2>2. sequence' + One(Pending') + One(Replacing') + One(Healing') <= Asked'
    BY <1>1, <1>2, <1>5, <2>1
  <2>3. QED
    BY <2>2 DEF Counted, Attempts
<1>6. CASE Asked' = Asked + 2 /\ (Healing' => Healing)
  <2>1. One(Healing') <= One(Healing)
    BY <1>6 DEF One
  <2>2. sequence' + One(Pending') + One(Replacing') + One(Healing') <= Asked'
    BY <1>1, <1>2, <1>6, <2>1
  <2>3. QED
    BY <2>2 DEF Counted, Attempts
<1>7. QED
  BY <1>3, <1>4, <1>5, <1>6

\* The calls that are counted.
LEMMA CallCounted ==
  ASSUME Types
  PROVE  /\ calls' = [calls EXCEPT !.request = @ + 1] => Asked' = Asked + 1
         /\ calls' = [calls EXCEPT !.replacement = @ + 1] => Asked' = Asked + 2
         /\ calls' = [calls EXCEPT !.health = @ + 1] => Asked' = Asked + 1
<1>1. /\ calls.request \in Nat /\ calls.replacement \in Nat /\ calls.health \in Nat /\ calls \in Calls
  BY Numbers DEF Types
<1>2. ASSUME calls' = [calls EXCEPT !.request = @ + 1] PROVE Asked' = Asked + 1
  <2>1. calls'.request = calls.request + 1 /\ calls'.replacement = calls.replacement /\ calls'.health = calls.health
    BY <1>1, <1>2 DEF Calls
  <2>2. QED
    BY <1>1, <2>1 DEF Asked
<1>3. ASSUME calls' = [calls EXCEPT !.replacement = @ + 1] PROVE Asked' = Asked + 2
  <2>1. calls'.request = calls.request /\ calls'.replacement = calls.replacement + 1 /\ calls'.health = calls.health
    BY <1>1, <1>3 DEF Calls
  <2>2. QED
    BY <1>1, <2>1 DEF Asked
<1>4. ASSUME calls' = [calls EXCEPT !.health = @ + 1] PROVE Asked' = Asked + 1
  <2>1. calls'.request = calls.request /\ calls'.replacement = calls.replacement /\ calls'.health = calls.health + 1
    BY <1>1, <1>4 DEF Calls
  <2>2. QED
    BY <1>1, <2>1 DEF Asked
<1>5. QED
  BY <1>2, <1>3, <1>4

\* A reconcile that begins leaves nothing pending, and makes an attempt only if the
\* component is desired and has nothing.
LEMMA RunCounts ==
  ASSUME Types, NEW d \in BOOLEAN, RunReconcile(d, committed, slot, runtime), desired' = d, committed' = committed
  PROVE  /\ ~Pending' /\ Overtaken' /\ sequence' \in {sequence, sequence + 1}
         /\ sequence' # sequence => d /\ committed = None
<1>1. flight'.stale = FALSE
  BY DEF RunReconcile, At
<1>2. /\ flight'.stage = "over" => (d <=> committed # None)
      /\ flight'.stage = "retiring" => ~d
      /\ flight'.stage # "stale" /\ sequence' \in {sequence, sequence + 1}
      /\ sequence' # sequence => d /\ committed = None
  BY RunEffects
<1>3. QED
  BY <1>1, <1>2 DEF Pending, Overtaken

\* A call that is counted may leave something under way; a replacement also makes
\* an attempt.
LEMMA CountCall ==
  ASSUME Counted, Types', Overtaken',
         \/ /\ Asked' = Asked + 1 /\ UNCHANGED sequence
            /\ (Replacing' => Replacing) /\ (Healing' => Healing)
         \/ /\ Asked' = Asked + 1 /\ UNCHANGED sequence
            /\ (Replacing' => Replacing) /\ (Pending' => Pending)
         \/ /\ Asked' = Asked + 2 /\ sequence' \in {sequence, sequence + 1}
            /\ (Pending' => Pending) /\ (Healing' => Healing)
  PROVE  Counted'
<1>1. /\ sequence \in Nat /\ sequence' \in Nat /\ Asked \in Nat /\ Asked' \in Nat
      /\ sequence + One(Pending) + One(Replacing) + One(Healing) <= Asked
  BY Numbers DEF Counted, Attempts, Asked, Types
<1>2. /\ One(Pending) \in {0, 1} /\ One(Replacing) \in {0, 1} /\ One(Healing) \in {0, 1}
      /\ One(Replacing') \in {0, 1} /\ One(Healing') \in {0, 1} /\ One(Pending') \in {0, 1}
  BY DEF One
<1>3. CASE /\ Asked' = Asked + 1 /\ UNCHANGED sequence /\ (Replacing' => Replacing) /\ (Healing' => Healing)
  <2>1. One(Replacing') <= One(Replacing) /\ One(Healing') <= One(Healing)
    BY <1>3 DEF One
  <2>2. sequence' + One(Pending') + One(Replacing') + One(Healing') <= Asked'
    BY <1>1, <1>2, <1>3, <2>1
  <2>3. QED
    BY <2>2 DEF Counted, Attempts
<1>4. CASE /\ Asked' = Asked + 1 /\ UNCHANGED sequence /\ (Replacing' => Replacing) /\ (Pending' => Pending)
  <2>1. One(Replacing') <= One(Replacing) /\ One(Pending') <= One(Pending)
    BY <1>4 DEF One
  <2>2. sequence' + One(Pending') + One(Replacing') + One(Healing') <= Asked'
    BY <1>1, <1>2, <1>4, <2>1
  <2>3. QED
    BY <2>2 DEF Counted, Attempts
<1>5. CASE /\ Asked' = Asked + 2 /\ sequence' \in {sequence, sequence + 1} /\ (Pending' => Pending) /\ (Healing' => Healing)
  <2>1. One(Healing') <= One(Healing) /\ One(Pending') <= One(Pending)
    BY <1>5 DEF One
  <2>2. sequence' + One(Pending') + One(Replacing') + One(Healing') <= Asked'
    BY <1>1, <1>2, <1>5, <2>1
  <2>3. QED
    BY <2>2 DEF Counted, Attempts
<1>6. QED
  BY <1>3, <1>4, <1>5

LEMMA CallersResumeCounts == ASSUME Counted, Types', CallersResume PROVE Counted'
<1>1. /\ flight.stage = "over" /\ Types
      /\ UNCHANGED <<desired, committed, calls, replacement, health>>
      /\ UNCHANGED <<Replacing, Healing>>
  BY DEF CallersResume, Counted, Replacing, Healing
<1>2. CASE NeedsWork
  <2>1. RunReconcile(desired, committed, slot, runtime) /\ desired' = desired /\ committed' = committed
    BY <1>1, <1>2 DEF CallersResume
  <2>2. desired \in BOOLEAN
    BY <1>1 DEF Types
  <2>3. /\ ~Pending' /\ Overtaken' /\ sequence' \in {sequence, sequence + 1}
        /\ sequence' # sequence => desired /\ committed = None
    BY <1>1, <2>1, <2>2, RunCounts
  <2>4. CASE sequence' = sequence
    BY <1>1, <2>3, <2>4, CountKept
  <2>5. CASE sequence' # sequence
    <3>1. Pending
      BY <1>1, <1>2, <2>3, <2>5 DEF NeedsWork, Pending, Failures
    <3>2. QED
      BY <1>1, <2>3, <3>1, CountOne
  <2>6. QED
    BY <2>4, <2>5
<1>3. CASE ~NeedsWork
  <2>1. flight' = [flight EXCEPT !.stage = "none"] /\ UNCHANGED sequence /\ flight \in Attempt /\ "none" \in Stage
    BY <1>1, <1>3 DEF CallersResume, Types, AttemptOK, Stage
  <2>2. flight'.stage = "none"
    BY <2>1, MovedFields
  <2>3. ~Pending' /\ Overtaken'
    BY <2>2 DEF Pending, Overtaken
  <2>4. QED
    BY <1>1, <2>1, <2>3, CountKept
<1>4. QED
  BY <1>2, <1>3

LEMMA RequestCounts == ASSUME Counted, Types', NEW d \in BOOLEAN, Request(d) PROVE Counted'
<1>1. /\ Types /\ desired' = d /\ UNCHANGED <<committed, health>> /\ (Healing' => Healing)
      /\ calls' = [calls EXCEPT !.request = @ + 1]
  BY DEF Request, Counted, Healing
<1>2. Asked' = Asked + 1
  BY <1>1, CallCounted
<1>3. Replacing' => Replacing
  <2>1. replacement \in Attempt /\ replacement.stale \in BOOLEAN
    BY <1>1 DEF Types, AttemptOK, Attempt
  <2>2. (replacement.stale \/ replacement.stage # "none") \in BOOLEAN
    OBVIOUS
  <2>3. replacement' = [replacement EXCEPT !.stale = replacement.stale \/ replacement.stage # "none"]
    BY DEF Request
  <2>4. replacement'.stage = replacement.stage
    BY <2>1, <2>2, <2>3, StaleFields
  <2>5. QED
    BY <2>4 DEF Replacing
<1>4. CASE flight.stage = "none"
  <2>1. RunReconcile(d, committed, slot, runtime) /\ committed' = committed
    BY <1>4 DEF Request
  <2>2. ~Pending' /\ Overtaken' /\ sequence' \in {sequence, sequence + 1}
    BY <1>1, <2>1, RunCounts
  <2>3. QED
    BY <1>1, <1>2, <1>3, <2>2, CountOne
<1>5. CASE flight.stage # "none"
  <2>1. flight' = [flight EXCEPT !.stale = TRUE] /\ UNCHANGED sequence /\ flight \in Attempt
    BY <1>1, <1>5 DEF Request, Types, AttemptOK
  <2>2. flight'.stale = TRUE
    BY <2>1, StaleFields
  <2>3. Overtaken'
    BY <2>2 DEF Overtaken
  <2>4. QED
    BY <1>1, <1>2, <1>3, <2>1, <2>3, CountCall
<1>6. QED
  BY <1>4, <1>5

\* Where an attempt stands when its flight has moved on.
LEMMA FlightMoves ==
  ASSUME Types, NEW stage \in Stage, flight' = [flight EXCEPT !.stage = stage]
  PROVE  flight'.stage = stage /\ flight'.stale = flight.stale
<1>1. flight \in Attempt
  BY DEF Types, AttemptOK
<1>2. QED
  BY <1>1, MovedFields

LEMMA ActivationReturnsCounts == ASSUME Counted, Types', ActivationReturns PROVE Counted'
<1>1. /\ flight.stage = "activating" /\ Types
      /\ UNCHANGED <<sequence, calls, replacement, health>> /\ UNCHANGED <<Replacing, Healing>>
  BY DEF ActivationReturns, Counted, Replacing, Healing
<1>2. CASE flight.stale
  <2>1. flight' = [flight EXCEPT !.stage = "stale"] /\ "stale" \in Stage
    BY <1>2 DEF ActivationReturns, Stage
  <2>2. flight'.stage = "stale" /\ flight'.stale
    BY <1>1, <1>2, <2>1, FlightMoves
  <2>3. Overtaken' /\ (Pending' => Pending)
    BY <1>1, <1>2, <2>2 DEF Overtaken, Pending
  <2>4. QED
    BY <1>1, <2>3, CountKept
<1>3. CASE ~flight.stale
  <2>1. flight' = [flight EXCEPT !.stage = "over"] /\ "over" \in Stage /\ committed' = flight.generation
    BY <1>3 DEF ActivationReturns, Stage
  <2>2. flight'.stage = "over" /\ flight'.stale = flight.stale
    BY <1>1, <2>1, FlightMoves
  <2>3. committed' # None
    BY <1>1, <2>1, GenerationFacts DEF Types, AttemptOK
  <2>4. Overtaken' /\ ~Pending'
    BY <1>3, <2>2, <2>3 DEF Overtaken, Pending
  <2>5. QED
    BY <1>1, <2>4, CountKept
<1>4. QED
  BY <1>2, <1>3

LEMMA ActivationThrowsCounts == ASSUME Counted, Types', ActivationThrows PROVE Counted'
<1>1. /\ flight.stage = "activating" /\ Types
      /\ UNCHANGED <<sequence, calls, replacement, health>> /\ UNCHANGED <<Replacing, Healing>>
  BY DEF ActivationThrows, Counted, Replacing, Healing
<1>2. PICK stage \in {"throwing", "blocked"} : flight' = [flight EXCEPT !.stage = stage]
  BY DEF ActivationThrows
<1>3. stage \in Stage
  BY DEF Stage
<1>4. flight'.stage = stage /\ flight'.stale = flight.stale
  BY <1>1, <1>2, <1>3, FlightMoves
<1>5. Overtaken' /\ (Pending' => Pending)
  BY <1>1, <1>4 DEF Overtaken, Pending
<1>6. QED
  BY <1>1, <1>5, CountKept

LEMMA AttemptDiscardedCounts == ASSUME Counted, Types', AttemptDiscarded PROVE Counted'
<1>1. /\ flight.stage \in {"stale", "throwing", "blocked"} /\ Types /\ Overtaken
      /\ UNCHANGED <<desired, committed, sequence, calls, replacement, health>> /\ UNCHANGED <<Replacing, Healing>>
  BY DEF AttemptDiscarded, Counted, Replacing, Healing
<1>2. flight' = [flight EXCEPT !.stage = "over"] /\ "over" \in Stage
  BY DEF AttemptDiscarded, Stage
<1>3. flight'.stage = "over" /\ flight'.stale = flight.stale
  BY <1>1, <1>2, FlightMoves
<1>4. Overtaken'
  BY <1>3 DEF Overtaken
<1>5. CASE flight.stage = "stale"
  <2>1. Pending
    BY <1>1, <1>5 DEF Overtaken, Pending
  <2>2. QED
    BY <1>1, <1>4, <2>1, CountKept
<1>6. CASE flight.stage \in {"throwing", "blocked"}
  <2>1. committed' # None \/ runtime' \in Failures
    BY <1>1, <1>6 DEF AttemptDiscarded, Failures
  <2>2. Pending' => Pending
    BY <1>1, <1>3, <1>6, <2>1 DEF Pending
  <2>3. QED
    BY <1>1, <1>4, <2>2, CountKept
<1>7. QED
  BY <1>1, <1>5, <1>6

LEMMA CommittedRetiredCounts == ASSUME Counted, Types', CommittedRetired PROVE Counted'
<1>1. /\ flight.stage = "retiring" /\ Types /\ Overtaken
      /\ UNCHANGED <<desired, sequence, calls, replacement, health>> /\ UNCHANGED <<Replacing, Healing>>
  BY DEF CommittedRetired, Counted, Replacing, Healing
<1>2. flight' = [flight EXCEPT !.stage = "over"] /\ "over" \in Stage
  BY DEF CommittedRetired, Stage
<1>3. flight'.stage = "over" /\ flight'.stale = flight.stale
  BY <1>1, <1>2, FlightMoves
<1>4. Overtaken' /\ (Pending' => Pending)
  BY <1>1, <1>3 DEF Overtaken, Pending
<1>5. QED
  BY <1>1, <1>4, CountKept

LEMMA ReplaceGenerationCounts == ASSUME Counted, Types', ReplaceGeneration PROVE Counted'
<1>1. /\ Types /\ Overtaken /\ UNCHANGED <<desired, committed, health>> /\ (Healing' => Healing)
      /\ calls' = [calls EXCEPT !.replacement = @ + 1]
  BY DEF ReplaceGeneration, Counted, Healing
<1>2. Asked' = Asked + 2
  BY <1>1, CallCounted
<1>3. CASE committed = None /\ flight.stage = "none"
  <2>1. RunReconcile(desired, committed, slot, runtime) /\ desired' = desired /\ committed' = committed
    BY <1>1, <1>3 DEF ReplaceGeneration, Reconcile
  <2>2. desired \in BOOLEAN
    BY <1>1 DEF Types
  <2>3. ~Pending' /\ Overtaken' /\ sequence' \in {sequence, sequence + 1}
    BY <1>1, <2>1, <2>2, RunCounts
  <2>4. QED
    BY <1>1, <1>2, <2>3, CountCall
<1>4. CASE ~(committed = None /\ flight.stage = "none")
  <2>1. UNCHANGED <<flight, runtime>>
    BY <1>4 DEF ReplaceGeneration, Reconcile
  <2>2. sequence' \in {sequence, sequence + 1}
    BY <1>4 DEF ReplaceGeneration, Reconcile, NextGeneration
  <2>3. Overtaken' /\ (Pending' => Pending)
    BY <1>1, <2>1 DEF Overtaken, Pending
  <2>4. QED
    BY <1>1, <1>2, <2>2, <2>3, CountCall
<1>5. QED
  BY <1>3, <1>4

LEMMA ReplacementReturnsCounts == ASSUME Counted, Types', ReplacementReturns PROVE Counted'
<1>1. /\ Types /\ Overtaken /\ Replacing
      /\ UNCHANGED <<desired, sequence, flight, calls, health>> /\ UNCHANGED Healing
  BY DEF ReplacementReturns, Counted, Replacing, Healing
<1>2. Overtaken'
  BY <1>1 DEF Overtaken
<1>3. CASE replacement.stale
  <2>1. UNCHANGED <<committed, runtime>>
    BY <1>3 DEF ReplacementReturns
  <2>2. Pending' => Pending
    BY <1>1, <2>1 DEF Pending
  <2>3. QED
    BY <1>1, <1>2, <2>2, CountKept
<1>4. CASE ~replacement.stale
  <2>1. committed' = replacement.generation /\ replacement.stage = "activating"
    BY <1>4 DEF ReplacementReturns, TakeOver
  <2>2. committed' # None
    BY <1>1, <2>1, GenerationFacts DEF Types, AttemptOK
  <2>3. Pending' => Pending
    BY <1>1, <2>2 DEF Pending
  <2>4. QED
    BY <1>1, <1>2, <2>3, CountKept
<1>5. QED
  BY <1>3, <1>4

LEMMA ReplacementThrowsCounts == ASSUME Counted, Types', ReplacementThrows PROVE Counted'
<1>1. /\ Overtaken /\ Replacing /\ UNCHANGED <<desired, runtime, committed, sequence, flight, calls, health>>
      /\ UNCHANGED Healing
  BY DEF ReplacementThrows, Counted, Replacing, Healing
<1>2. Overtaken' /\ (Pending' => Pending)
  BY <1>1 DEF Overtaken, Pending
<1>3. QED
  BY <1>1, <1>2, CountKept

\* A discarded replacement may make a failed attempt look worth repeating: it was
\* counted twice.
LEMMA ReplacementDiscardedCounts == ASSUME Counted, Types', ReplacementDiscarded PROVE Counted'
<1>1. /\ Types /\ Overtaken /\ Replacing /\ ~Replacing'
      /\ UNCHANGED <<desired, committed, sequence, flight, calls, health>> /\ UNCHANGED Healing /\ UNCHANGED Asked
  BY IdleFields DEF ReplacementDiscarded, Counted, Replacing, Healing, Asked
<1>2. Overtaken'
  BY <1>1 DEF Overtaken
<1>3. /\ sequence \in Nat /\ Asked \in Nat /\ sequence' = sequence /\ Asked' = Asked
      /\ sequence + One(Pending) + One(Replacing) + One(Healing) <= Asked
  BY <1>1, Numbers DEF Counted, Attempts
<1>4. /\ One(Pending) \in {0, 1} /\ One(Pending') \in {0, 1} /\ One(Healing) \in {0, 1} /\ One(Healing') = One(Healing)
      /\ One(Replacing) = 1 /\ One(Replacing') = 0
  BY <1>1 DEF One
<1>5. sequence' + One(Pending') + One(Replacing') + One(Healing') <= Asked'
  BY <1>3, <1>4
<1>6. QED
  BY <1>2, <1>5 DEF Counted, Attempts

LEMMA BackgroundRetiredCounts == ASSUME Counted, Types', NEW g \in Generations, BackgroundRetired(g) PROVE Counted'
<1>1. /\ Overtaken /\ UNCHANGED <<desired, committed, sequence, flight, calls, health, replacement>>
      /\ UNCHANGED <<Replacing, Healing>>
  BY DEF BackgroundRetired, Counted, Replacing, Healing
<1>2. runtime' \in {runtime, "cleanup_failed"}
  BY DEF BackgroundRetired
<1>3. Overtaken' /\ (Pending' => Pending)
  BY <1>1, <1>2 DEF Overtaken, Pending, Failures
<1>4. QED
  BY <1>1, <1>3, CountKept

LEMMA HealthSignalCounts == ASSUME Counted, Types', ApplyPendingHealthSignals PROVE Counted'
<1>1. /\ Types /\ Overtaken /\ committed # None /\ calls' = [calls EXCEPT !.health = @ + 1]
      /\ UNCHANGED <<desired, committed, sequence, flight, replacement>> /\ UNCHANGED Replacing
  BY DEF ApplyPendingHealthSignals, Counted, Replacing
<1>2. Asked' = Asked + 1
  BY <1>1, CallCounted
<1>3. Overtaken' /\ (Pending' => Pending)
  BY <1>1 DEF Overtaken, Pending
<1>4. QED
  BY <1>1, <1>2, <1>3, CountCall

LEMMA UnhealthyRetiredCounts == ASSUME Counted, Types', UnhealthyRetired PROVE Counted'
<1>1. /\ Overtaken /\ Healing /\ UNCHANGED <<desired, sequence, flight, replacement, calls>> /\ UNCHANGED Replacing
  BY DEF UnhealthyRetired, Counted, Replacing, Healing
<1>2. runtime' \in Failures
  BY DEF UnhealthyRetired, Failures
<1>3. Overtaken' /\ (Pending' => Pending)
  BY <1>1, <1>2 DEF Overtaken, Pending
<1>4. QED
  BY <1>1, <1>3, CountKept

LEMMA HealthResumesCounts == ASSUME Counted, Types', HealthResumes PROVE Counted'
<1>1. /\ Types /\ Overtaken /\ Healing /\ ~Healing'
      /\ UNCHANGED <<desired, committed, replacement, calls>> /\ UNCHANGED Replacing
  BY IdleFields DEF HealthResumes, Counted, Replacing, Healing
<1>2. CASE desired /\ flight.stage = "none"
  <2>1. RunReconcile(desired, committed, slot, runtime) /\ desired' = desired /\ committed' = committed
    BY <1>1, <1>2 DEF HealthResumes, Reconcile
  <2>2. desired \in BOOLEAN
    BY <1>1 DEF Types
  <2>3. ~Pending' /\ Overtaken' /\ sequence' \in {sequence, sequence + 1}
    BY <1>1, <2>1, <2>2, RunCounts
  <2>4. QED
    BY <1>1, <2>3, CountOne
<1>3. CASE ~(desired /\ flight.stage = "none")
  <2>1. UNCHANGED <<flight, runtime, sequence>>
    BY <1>3 DEF HealthResumes, Reconcile
  <2>2. Overtaken' /\ (Pending' => Pending)
    BY <1>1, <2>1 DEF Overtaken, Pending
  <2>3. QED
    BY <1>1, <2>1, <2>2, CountKept
<1>4. QED
  BY <1>2, <1>3

LEMMA NextCounts == ASSUME Counted, Types', [Next]_vars PROVE Counted'
<1>1. ASSUME NEW d \in BOOLEAN, Request(d) PROVE Counted'
  BY <1>1, RequestCounts
<1>2. CASE SetDesiredActive
  BY <1>1, <1>2 DEF SetDesiredActive
<1>3. CASE Retry
  BY <1>1, <1>3 DEF Retry
<1>4. CASE ActivationReturns \/ ActivationThrows \/ AttemptDiscarded \/ CommittedRetired
  BY <1>4, ActivationReturnsCounts, ActivationThrowsCounts, AttemptDiscardedCounts, CommittedRetiredCounts
<1>5. CASE ReplaceGeneration \/ ReplacementReturns \/ ReplacementThrows \/ ReplacementDiscarded
  BY <1>5, ReplaceGenerationCounts, ReplacementReturnsCounts, ReplacementThrowsCounts, ReplacementDiscardedCounts
<1>6. CASE \E g \in Generations : BackgroundRetired(g)
  BY <1>6, BackgroundRetiredCounts
<1>7. CASE ApplyPendingHealthSignals \/ UnhealthyRetired \/ HealthResumes
  BY <1>7, HealthSignalCounts, UnhealthyRetiredCounts, HealthResumesCounts
<1>8. CASE CallersResume
  BY <1>8, CallersResumeCounts
<1>9. CASE UNCHANGED vars
  <2>1. /\ UNCHANGED <<sequence, calls>> /\ Overtaken' /\ (Pending' => Pending)
        /\ (Replacing' => Replacing) /\ (Healing' => Healing)
    BY <1>9 DEF vars, Counted, Overtaken, Pending, Replacing, Healing
  <2>2. QED
    BY <2>1, CountKept
<1>10. QED
  BY <1>2, <1>3, <1>4, <1>5, <1>6, <1>7, <1>8, <1>9 DEF Next

LEMMA CountedSuffices == ASSUME Counted PROVE AttemptsAsked
<1>1. /\ sequence \in Nat /\ Asked \in Nat /\ Types
      /\ sequence + One(Pending) + One(Replacing) + One(Healing) <= Asked
  BY Numbers DEF Counted, Attempts
<1>2. One(Pending) \in {0, 1} /\ One(Replacing) \in {0, 1} /\ One(Healing) \in {0, 1}
  BY DEF One
<1>3. sequence + One(Pending) <= Asked
  BY <1>1, <1>2
<1>4. sequence <= Asked
  BY <1>1, <1>2
<1>5. ASSUME flight.stage = "over", desired, committed = None, runtime \notin Failures
      PROVE  NextGeneration \in Generations
  <2>1. One(Pending) = 1
    BY <1>5 DEF One, Pending
  <2>2. /\ calls.request \in 0 .. MaxRequests /\ calls.replacement \in 0 .. MaxReplacements
        /\ calls.health \in 0 .. MaxHealthSignals
    BY <1>1 DEF Types, Calls
  <2>3. Asked <= MaxRequests + 2 * MaxReplacements + MaxHealthSignals
    BY <2>2, BoundsAssumption DEF Asked
  <2>4. sequence + 1 <= MaxRequests + 2 * MaxReplacements + MaxHealthSignals
    BY <1>1, <1>3, <2>1, <2>3, BoundsAssumption
  <2>5. QED
    BY <1>1, <2>4, BoundsAssumption DEF NextGeneration, Generations
<1>6. QED
  BY <1>4, <1>5 DEF AttemptsAsked

\* No attempt is made that no call asked for, and the callers of a reconcile that is
\* over always have a generation left for theirs (runReconcile, "run once more").
THEOREM NoAttemptUnasked == Spec => []AttemptsAsked
<1>1. Init => Counted
  <2> SUFFICES ASSUME Init PROVE Counted
    OBVIOUS
  <2>1. Types
    BY InitSafe DEF ReconcilerSafe
  <2>2. ~Pending /\ ~Replacing /\ ~Healing /\ Overtaken
    BY IdleFields DEF Init, Pending, Replacing, Healing, Overtaken
  <2>3. sequence = 0 /\ Asked = 0
    BY DEF Init, Asked
  <2>4. One(Pending) = 0 /\ One(Replacing) = 0 /\ One(Healing) = 0
    BY <2>2 DEF One
  <2>5. Attempts <= Asked
    BY <2>3, <2>4 DEF Attempts
  <2>6. QED
    BY <2>1, <2>2, <2>5 DEF Counted
<1>2. ReconcilerSafe' /\ Counted /\ [Next]_vars => Counted'
  BY NextCounts DEF ReconcilerSafe
<1>3. Counted => AttemptsAsked
  BY CountedSuffices
<1>4. QED
  BY <1>1, <1>2, <1>3, AlwaysSafe, PTL DEF Spec

=============================================================================
