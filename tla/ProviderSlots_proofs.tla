------------------------ MODULE ProviderSlots_proofs ------------------------
(***************************************************************************)
(* Theorems about ProviderSlots, for any set of generations and leases.    *)
(***************************************************************************)
EXTENDS ProviderSlots, TLAPS

-----------------------------------------------------------------------------
(* The inductive invariant.                                                 *)

\* A revoked lease was acquired; only revoked leases have a tombstone.
TombstonesRevoked ==
  /\ \A l \in Leases : phase[l] = "new" => deadline[l] = "off"
  /\ \A g \in Generations : \A l \in tombstones[g] : deadline[l] = "revoked"

\* A generation that is being retired serves no more, and leaves the slot last.
RetirementState ==
  \A g \in Generations :
    /\ retire[g] \in {"draining", "closing", "disposing", "rejected"} => state[g] = "retiring"
    /\ retire[g] = "done" => state[g] = "retired"

\* A retirement that has left its loop has an empty ledger.
LoopLeft ==
  \A g \in Generations : retire[g] \in {"closing", "disposing", "rejected", "done"} => active[g] = {}

SlotInvariant == TypeOK /\ LedgerExact /\ TombstonesRevoked /\ RetirementState /\ LoopLeft

\* The invariant holds of an empty slot.
LEMMA InitSlot == Init => SlotInvariant
BY NoGenerationAssumption
   DEF Init, SlotInvariant, TypeOK, LedgerExact, TombstonesRevoked, RetirementState, LoopLeft,
       GenerationState, Child, Retirement, Phase, AbortSource, Deadline, Unsettled

\* prepare, commit and markFailed change the state and child of generations
\* that are not being retired, and no ledger.
LEMMA SlotStep ==
  ASSUME SlotInvariant,
         UNCHANGED <<groupClose, retire, watched, ledgerVars, leaseVars, gateOpen>>,
         state' \in [Generations -> GenerationState],
         child' \in [Generations -> Child],
         \A g \in Generations : retire[g] # "none" => state'[g] = state[g]
  PROVE  SlotInvariant'
<1> USE DEF SlotInvariant, ledgerVars, leaseVars
<1>1. TypeOK'
  BY DEF TypeOK
<1>2. LedgerExact'
  BY DEF LedgerExact, Unsettled
<1>3. TombstonesRevoked'
  BY DEF TombstonesRevoked
<1>4. RetirementState'
  BY DEF RetirementState, TypeOK, Retirement
<1>5. LoopLeft'
  BY DEF LoopLeft
<1> QED BY <1>1, <1>2, <1>3, <1>4, <1>5

\* Preparing a generation, and displacing the one prepared before, preserves
\* the invariant: neither is being retired.
LEMMA PrepareStep == ASSUME SlotInvariant, NEW g \in Generations, Prepare(g) PROVE SlotInvariant'
<1>1. /\ state' \in [Generations -> GenerationState]
      /\ child' \in [Generations -> Child]
  BY DEF Prepare, SlotInvariant, TypeOK, GenerationState, Child
<1>2. \A h \in Generations : retire[h] # "none" => state'[h] = state[h]
  BY DEF Prepare, SlotInvariant, TypeOK, RetirementState, Retirement
<1> QED BY <1>1, <1>2, SlotStep DEF Prepare

\* Committing preserves the invariant: only prepared and committed generations
\* change their state.
LEMMA CommitStep == ASSUME SlotInvariant, NEW g \in Generations, Commit(g) PROVE SlotInvariant'
<1>1. /\ state' \in [Generations -> GenerationState]
      /\ child' \in [Generations -> Child]
  BY DEF Commit, SlotInvariant, TypeOK, GenerationState
<1>2. \A h \in Generations : retire[h] # "none" => state'[h] = state[h]
  BY DEF Commit, SlotInvariant, TypeOK, RetirementState, Retirement
<1> QED BY <1>1, <1>2, SlotStep DEF Commit

\* Marking a generation failed preserves the invariant: it is not being retired.
LEMMA MarkFailedStep == ASSUME SlotInvariant, NEW g \in Generations, MarkFailed(g) PROVE SlotInvariant'
<1>1. /\ state' \in [Generations -> GenerationState]
      /\ child' \in [Generations -> Child]
  BY DEF MarkFailed, SlotInvariant, TypeOK, GenerationState
<1>2. \A h \in Generations : retire[h] # "none" => state'[h] = state[h]
  BY DEF MarkFailed, SlotInvariant, TypeOK, RetirementState, Retirement
<1> QED BY <1>1, <1>2, SlotStep DEF MarkFailed

-----------------------------------------------------------------------------
(* Retirement.                                                              *)

\* One look of the loop of retire at the ledger.
LEMMA LoopStep ==
  ASSUME SlotInvariant, NEW g \in Generations, RetireLoop(g),
         state' = [state EXCEPT ![g] = "retiring"],
         groupClose' \in [Generations -> BOOLEAN],
         UNCHANGED <<ledgerVars, leaseVars, gateOpen>>
  PROVE  SlotInvariant'
<1> USE DEF SlotInvariant, ledgerVars, leaseVars
<1>1. /\ retire' \in [Generations -> Retirement]
      /\ \A h \in Generations : h # g => retire'[h] = retire[h]
      /\ retire'[g] \in {"draining", "closing", "disposing"}
      /\ retire'[g] # "draining" => active[g] = {}
  BY DEF RetireLoop, TypeOK, Retirement
<1>2. /\ state' \in [Generations -> GenerationState]
      /\ state'[g] = "retiring"
      /\ \A h \in Generations : h # g => state'[h] = state[h]
  BY DEF TypeOK, GenerationState
<1>3. watched' \in [Generations -> SUBSET Leases] /\ child' \in [Generations -> Child]
  BY DEF RetireLoop, TypeOK, Child
<1>4. TypeOK'
  BY <1>1, <1>2, <1>3 DEF TypeOK
<1>5. LedgerExact' /\ TombstonesRevoked'
  BY DEF LedgerExact, Unsettled, TombstonesRevoked
<1>6. RetirementState'
  BY <1>1, <1>2 DEF RetirementState
<1>7. LoopLeft'
  BY <1>1 DEF LoopLeft
<1> QED BY <1>4, <1>5, <1>6, <1>7

\* A call of retire preserves the invariant.
LEMMA RetireStep == ASSUME SlotInvariant, NEW g \in Generations, Retire(g) PROVE SlotInvariant'
BY LoopStep DEF Retire, SlotInvariant, TypeOK

\* A retirement that looks at its ledger again preserves the invariant.
LEMMA RetireResumesStep ==
  ASSUME SlotInvariant, NEW g \in Generations, RetireResumes(g) PROVE SlotInvariant'
<1>1. state[g] = "retiring" /\ state \in [Generations -> GenerationState]
  BY DEF RetireResumes, SlotInvariant, RetirementState, TypeOK
<1>2. state' = [state EXCEPT ![g] = "retiring"]
  BY <1>1 DEF RetireResumes
<1> QED BY <1>2, LoopStep DEF RetireResumes, SlotInvariant, TypeOK

\* The settling of closeOnce moves a retirement past its loop only if it had
\* left it.
LEMMA ChildClosesStep ==
  ASSUME SlotInvariant, NEW g \in Generations, ChildCloses(g) PROVE SlotInvariant'
<1> USE DEF SlotInvariant, ChildCloses, ledgerVars, leaseVars
<1>1. /\ retire' \in [Generations -> Retirement]
      /\ \A h \in Generations : h # g => retire'[h] = retire[h]
      /\ \/ retire'[g] = retire[g]
         \/ retire[g] = "closing" /\ retire'[g] \in {"disposing", "rejected"}
  BY DEF TypeOK, Retirement
<1>2. TypeOK'
  BY <1>1 DEF TypeOK, Child
<1>3. LedgerExact' /\ TombstonesRevoked'
  BY DEF LedgerExact, Unsettled, TombstonesRevoked
<1>4. RetirementState' /\ LoopLeft'
  BY <1>1 DEF RetirementState, LoopLeft
<1> QED BY <1>2, <1>3, <1>4

\* The end of a retirement preserves the invariant, and drops tombstones only.
LEMMA ScopeDisposedStep ==
  ASSUME SlotInvariant, NEW g \in Generations, ScopeDisposed(g) PROVE SlotInvariant'
<1> USE DEF SlotInvariant, ScopeDisposed, leaseVars
<1>1. TypeOK'
  BY DEF TypeOK, Retirement, GenerationState
<1>2. LedgerExact'
  BY DEF LedgerExact, Unsettled
<1>3. TombstonesRevoked'
  BY DEF TombstonesRevoked, TypeOK
<1>4. RetirementState' /\ LoopLeft'
  BY DEF RetirementState, LoopLeft, TypeOK
<1> QED BY <1>1, <1>2, <1>3, <1>4

-----------------------------------------------------------------------------
(* Leases.                                                                  *)

\* A step that leaves the slot alone preserves what is said of retirements,
\* if no ledger of a retired generation grows.
LEMMA LeaseStep ==
  ASSUME SlotInvariant, UNCHANGED <<state, retire>>,
         \A g \in Generations : active[g] = {} => state[g] = "committed" \/ active'[g] = {}
  PROVE  RetirementState' /\ LoopLeft'
BY DEF SlotInvariant, RetirementState, LoopLeft

\* Only a committed generation grants a lease, and none that is committed has
\* a retirement that has left its loop.
LEMMA AcquireStep ==
  ASSUME SlotInvariant, NEW l \in Leases, NEW g \in Generations, Acquire(l, g) PROVE SlotInvariant'
<1> USE DEF SlotInvariant, Acquire, slotVars
<1>1. TypeOK'
  BY NoGenerationAssumption DEF TypeOK, Phase, AbortSource, Deadline
<1>2. LedgerExact'
  BY NoGenerationAssumption DEF LedgerExact, Unsettled, TypeOK
<1>3. TombstonesRevoked'
  BY DEF TombstonesRevoked, TypeOK
<1>4. RetirementState' /\ LoopLeft'
  BY LeaseStep DEF TypeOK
<1> QED BY <1>1, <1>2, <1>3, <1>4

\* Steps that change only abort sources and handles.
LEMMA QuietStep ==
  ASSUME SlotInvariant, UNCHANGED <<slotVars, ledgerVars, owner, phase, deadline, gateOpen>>,
         abortSource' \in [Leases -> AbortSource], handles' \in [Leases -> BOOLEAN]
  PROVE  SlotInvariant'
<1> USE DEF SlotInvariant, slotVars, ledgerVars
<1>1. TypeOK'
  BY DEF TypeOK
<1>2. LedgerExact' /\ TombstonesRevoked'
  BY DEF LedgerExact, Unsettled, TombstonesRevoked
<1>3. RetirementState' /\ LoopLeft'
  BY LeaseStep
<1> QED BY <1>1, <1>2, <1>3

\* abortLease sets no source but its own.
LEMMA AbortedFromType ==
  ASSUME TypeOK, NEW source \in AbortSource, NEW S
  PROVE  AbortedFrom(source, S) \in [Leases -> AbortSource]
BY DEF AbortedFrom, TypeOK

\* Finalizing a lease leaves it in the ledger and disarms its deadline.
LEMMA BeginFinalizingStep ==
  ASSUME SlotInvariant, NEW l \in Leases, BeginFinalizing(l) PROVE SlotInvariant'
<1> USE DEF SlotInvariant, BeginFinalizing, slotVars
<1>1. TypeOK'
  BY DEF TypeOK, Phase, Deadline
<1>2. LedgerExact'
  BY DEF LedgerExact, Unsettled, TypeOK
<1>3. TombstonesRevoked'
  BY DEF TombstonesRevoked, TypeOK
<1>4. RetirementState' /\ LoopLeft'
  BY LeaseStep
<1> QED BY <1>1, <1>2, <1>3, <1>4

\* A released lease leaves the ledger, unless its revocation took it out before.
LEMMA ReleaseLeaseStep ==
  ASSUME SlotInvariant, NEW l \in Leases, ReleaseLease(l) PROVE SlotInvariant'
<1> USE DEF SlotInvariant, ReleaseLease
<1>1. owner[l] \in Generations
  BY DEF TypeOK
<1>2. TypeOK'
  <2>1. /\ active' \in [Generations -> SUBSET Leases]
        /\ protected' \in [Generations -> SUBSET Leases]
    <3>1. /\ active' = active \/ active' = [active EXCEPT ![owner[l]] = @ \ {l}]
          /\ protected' = protected \/ protected' = [protected EXCEPT ![owner[l]] = @ \ {l}]
      OBVIOUS
    <3> HIDE DEF ReleaseLease
    <3> QED BY <1>1, <3>1 DEF TypeOK
  <2>2. child' \in [Generations -> Child]
    <3>1. child' = child \/ child' = [child EXCEPT ![owner[l]] = "closing"]
      OBVIOUS
    <3> HIDE DEF ReleaseLease
    <3> QED BY <1>1, <3>1 DEF TypeOK, Child
  <2>3. /\ phase' = [phase EXCEPT ![l] = "settled"] /\ phase' \in [Leases -> Phase]
        /\ deadline' \in [Leases -> Deadline]
        /\ \A k \in Leases : deadline'[k] = "armed" => deadline[k] = "armed" /\ k # l
    BY DEF TypeOK, Phase, Deadline
  <2>4. \A k \in Leases : /\ phase'[k] = "new" <=> owner[k] = NoGeneration
                          /\ deadline'[k] = "armed" => phase'[k] = "executing"
    BY <2>3 DEF TypeOK
  <2> QED BY <2>1, <2>2, <2>3, <2>4 DEF TypeOK
<1>3. /\ phase' = [phase EXCEPT ![l] = "settled"] /\ owner' = owner
      /\ \A k \in Leases : (deadline'[k] = "revoked") = (deadline[k] = "revoked")
  BY DEF TypeOK
<1>4. LedgerExact'
  <2>1. CASE InGrave(l)
    <3>1. deadline[l] = "revoked" /\ active' = active
      BY <1>1, <2>1 DEF InGrave, TombstonesRevoked
    <3> QED BY <1>3, <3>1 DEF LedgerExact, Unsettled, TypeOK
  <2>2. CASE ~InGrave(l)
    <3>1. active' = [active EXCEPT ![owner[l]] = @ \ {l}]
      BY <2>2
    <3> QED BY <1>1, <1>3, <3>1 DEF LedgerExact, Unsettled, TypeOK
  <2> QED BY <2>1, <2>2
<1>5. TombstonesRevoked'
  BY DEF TombstonesRevoked, TypeOK
<1>6. RetirementState' /\ LoopLeft'
  <2>1. \A g \in Generations : active'[g] \subseteq active[g]
    BY <1>1 DEF TypeOK
  <2> QED BY <2>1, LeaseStep
<1> QED BY <1>2, <1>4, <1>5, <1>6

\* Reaching a deadline revokes nothing yet.
LEMMA DeadlineReachedStep ==
  ASSUME SlotInvariant, NEW l \in Leases, DeadlineReached(l) PROVE SlotInvariant'
<1> USE DEF SlotInvariant, DeadlineReached, slotVars, ledgerVars
<1>1. abortSource' \in [Leases -> AbortSource]
  BY AbortedFromType DEF AbortSource
<1>2. TypeOK'
  BY <1>1 DEF TypeOK, Deadline
<1>3. LedgerExact' /\ TombstonesRevoked'
  BY DEF LedgerExact, Unsettled, TombstonesRevoked, TypeOK
<1>4. RetirementState' /\ LoopLeft'
  BY LeaseStep
<1> QED BY <1>2, <1>3, <1>4

\* A lease that is revoked leaves the ledger and gets its tombstone at once.
LEMMA EntombStep ==
  ASSUME SlotInvariant, NEW l \in Leases, phase[l] # "new", Entomb(l),
         deadline' = [deadline EXCEPT ![l] = "revoked"],
         UNCHANGED <<slotVars, protected, owner, phase, abortSource, handles, gateOpen>>
  PROVE  SlotInvariant'
<1> USE DEF SlotInvariant, Entomb, slotVars
<1>1. owner[l] \in Generations
  BY DEF TypeOK
<1>2. TypeOK'
  BY <1>1 DEF TypeOK, Deadline
<1>3. LedgerExact'
  BY <1>1 DEF LedgerExact, Unsettled, TypeOK
<1>4. TombstonesRevoked'
  BY <1>1 DEF TombstonesRevoked, TypeOK
<1>5. RetirementState' /\ LoopLeft'
  <2>1. \A g \in Generations : active'[g] \subseteq active[g]
    BY <1>1 DEF TypeOK
  <2> QED BY <2>1, LeaseStep
<1> QED BY <1>2, <1>3, <1>4, <1>5

\* The end of a grace revokes a lease, or lets its handles be disposed, or
\* leaves a lease that executes no more alone.
LEMMA GraceOverStep ==
  ASSUME SlotInvariant, NEW l \in Leases, GraceOver(l) PROVE SlotInvariant'
<1> USE DEF SlotInvariant, slotVars
<1>1. phase[l] # "new" /\ deadline[l] = "grace"
  BY DEF GraceOver, TombstonesRevoked
<1>2. CASE UNCHANGED <<active, tombstones>>
           /\ \E d \in {"off", "revoking"} : deadline' = [deadline EXCEPT ![l] = d]
  <2> USE <1>1, <1>2 DEF GraceOver
  <2>1. TypeOK'
    BY DEF TypeOK, Deadline
  <2>2. LedgerExact' /\ TombstonesRevoked'
    BY DEF LedgerExact, Unsettled, TombstonesRevoked, TypeOK
  <2>3. RetirementState' /\ LoopLeft'
    BY LeaseStep
  <2> QED BY <2>1, <2>2, <2>3
<1>3. CASE deadline' = [deadline EXCEPT ![l] = "revoked"] /\ Entomb(l)
  BY <1>1, <1>3, EntombStep DEF GraceOver
<1> QED BY <1>2, <1>3 DEF GraceOver

\* The disposal of the handles ends a revocation.
LEMMA HandlesDisposedStep ==
  ASSUME SlotInvariant, NEW l \in Leases, HandlesDisposed(l) PROVE SlotInvariant'
<1>1. phase[l] # "new"
  BY DEF HandlesDisposed, SlotInvariant, TombstonesRevoked
<1> QED BY <1>1, EntombStep DEF HandlesDisposed

\* Shutdown closes the gate and freezes groups; the ledgers stay.
LEMMA BeginShutdownStep == ASSUME SlotInvariant, BeginShutdown PROVE SlotInvariant'
<1> USE DEF SlotInvariant, BeginShutdown, ledgerVars, leaseVars
<1>1. TypeOK'
  BY DEF TypeOK
<1>2. LedgerExact' /\ TombstonesRevoked'
  BY DEF LedgerExact, Unsettled, TombstonesRevoked
<1>3. RetirementState' /\ LoopLeft'
  BY DEF RetirementState, LoopLeft
<1> QED BY <1>1, <1>2, <1>3

-----------------------------------------------------------------------------
(* The theorems.                                                            *)

\* Every step preserves the invariant.
LEMMA SlotInductive == SlotInvariant /\ [Next]_vars => SlotInvariant'
<1> SUFFICES ASSUME SlotInvariant, [Next]_vars PROVE SlotInvariant'
  OBVIOUS
<1>1. CASE BeginShutdown
  BY <1>1, BeginShutdownStep
<1>2. CASE AbortNonProtected
  <2>1. abortSource' \in [Leases -> AbortSource]
    BY <1>2, AbortedFromType DEF AbortNonProtected, AbortSource, SlotInvariant
  <2> QED BY <1>2, <2>1, QuietStep DEF AbortNonProtected, SlotInvariant, TypeOK
<1>3. ASSUME NEW g \in Generations,
             \/ Prepare(g) \/ Commit(g) \/ MarkFailed(g)
             \/ Retire(g) \/ RetireResumes(g) \/ ChildCloses(g) \/ ScopeDisposed(g)
      PROVE  SlotInvariant'
  BY <1>3, PrepareStep, CommitStep, MarkFailedStep, RetireStep, RetireResumesStep,
     ChildClosesStep, ScopeDisposedStep
<1>4. ASSUME NEW g \in Generations, NEW l \in Leases, Acquire(l, g) PROVE SlotInvariant'
  BY <1>4, AcquireStep
<1>5. ASSUME NEW l \in Leases, RegisterInvocationHandle(l) PROVE SlotInvariant'
  BY <1>5, QuietStep DEF RegisterInvocationHandle, SlotInvariant, TypeOK
<1>6. ASSUME NEW l \in Leases, CallerAborts(l) PROVE SlotInvariant'
  <2>1. abortSource' \in [Leases -> AbortSource]
    BY <1>6, AbortedFromType DEF CallerAborts, AbortSource, SlotInvariant
  <2> QED BY <1>6, <2>1, QuietStep DEF CallerAborts, SlotInvariant, TypeOK
<1>7. ASSUME NEW l \in Leases,
             \/ BeginFinalizing(l) \/ ReleaseLease(l) \/ DeadlineReached(l)
             \/ GraceOver(l) \/ HandlesDisposed(l)
      PROVE  SlotInvariant'
  BY <1>7, BeginFinalizingStep, ReleaseLeaseStep, DeadlineReachedStep, GraceOverStep, HandlesDisposedStep
<1>8. CASE UNCHANGED vars
  <2>1. abortSource' \in [Leases -> AbortSource] /\ handles' \in [Leases -> BOOLEAN]
    BY <1>8 DEF vars, leaseVars, SlotInvariant, TypeOK
  <2> QED BY <1>8, <2>1, QuietStep DEF vars, leaseVars
<1> QED BY <1>1, <1>2, <1>3, <1>4, <1>5, <1>6, <1>7, <1>8 DEF Next

\* The invariant holds in every reachable state.
LEMMA SlotAlways == Spec => []SlotInvariant
BY InitSlot, SlotInductive, PTL DEF Spec

\* The slot is well typed; only acquired leases have an owner, and a deadline
\* is armed only for a lease that executes.
THEOREM TypeCorrect == Spec => []TypeOK
<1>1. SlotInvariant => TypeOK
  BY DEF SlotInvariant
<1> QED BY <1>1, SlotAlways, PTL

\* The ledger never drifts: whatever the order of release, deadline, grace,
\* revocation and retirement, it holds exactly the leases that are not over.
THEOREM LedgerNeverDrifts == Spec => []LedgerExact
<1>1. SlotInvariant => LedgerExact
  BY DEF SlotInvariant
<1> QED BY <1>1, SlotAlways, PTL

\* retire disposes no scope under a lease that is neither released nor revoked.
THEOREM ScopeDisposedAfterUse == Spec => []ScopeOutlivesLeases
<1>1. SlotInvariant => ScopeOutlivesLeases
  BY DEF SlotInvariant, ScopeOutlivesLeases, LoopLeft, LedgerExact, TypeOK, Unsettled
<1> QED BY <1>1, SlotAlways, PTL

\* Until a generation is retired, only a shutdown allows its group to close the
\* child, and the leases that finalize are in the group.
GroupState ==
  /\ \A g \in Generations : retire[g] = "none" /\ groupClose[g] => ~gateOpen
  /\ \A g \in Generations : retire[g] = "none" /\ child[g] \notin {"none", "open"} => groupClose[g]
  /\ \A l \in Leases : phase[l] = "finalizing" => l \in protected[owner[l]]

\* What the steps that neither begin to finalize nor release leave alone.
LEMMA GroupKept ==
  ASSUME SlotInvariant, GroupState, GroupClosedLast, UNCHANGED <<groupClose, protected, gateOpen>>,
         \A l \in Leases : phase'[l] = "finalizing" => phase[l] = "finalizing" /\ owner'[l] = owner[l],
         \A g \in Generations : retire'[g] = "none" => retire[g] = "none" /\ child'[g] \in {child[g], "none", "open"}
  PROVE  GroupState' /\ GroupClosedLast'
<1>1. \A l \in Leases : phase[l] = "finalizing" => owner[l] \in Generations
  BY DEF SlotInvariant, TypeOK
<1>2. GroupState'
  BY DEF GroupState
<1>3. GroupClosedLast'
  BY <1>1 DEF GroupClosedLast
<1> QED BY <1>2, <1>3

\* A retirement, as it begins and as it goes on, leaves the groups of the other
\* generations alone.
LEMMA GroupRetiring ==
  ASSUME SlotInvariant, GroupState, GroupClosedLast, NEW g \in Generations, retire'[g] # "none",
         UNCHANGED <<protected, gateOpen, phase, owner>>,
         \A h \in Generations : h # g =>
           retire'[h] = retire[h] /\ child'[h] = child[h] /\ groupClose'[h] = groupClose[h]
  PROVE  GroupState' /\ GroupClosedLast'
<1>1. \A l \in Leases : phase[l] = "finalizing" => owner[l] \in Generations
  BY DEF SlotInvariant, TypeOK
<1>2. GroupState'
  BY DEF GroupState
<1>3. GroupClosedLast'
  BY <1>1 DEF GroupClosedLast
<1> QED BY <1>2, <1>3

LEMMA GroupReleases ==
  ASSUME SlotInvariant, GroupState, GroupClosedLast, NEW l \in Leases, ReleaseLease(l)
  PROVE  GroupState' /\ GroupClosedLast'
<1> DEFINE g == owner[l]
<1> USE DEF SlotInvariant, TypeOK
<1>1. g \in Generations /\ UNCHANGED <<groupClose, retire, owner, gateOpen>>
  BY DEF ReleaseLease
<1>2. \A m \in Leases : phase'[m] = IF m = l THEN "settled" ELSE phase[m]
  BY DEF ReleaseLease
<1>3. CASE UNCHANGED <<protected, child>>
  <2>1. GroupState'
    BY <1>1, <1>2, <1>3 DEF GroupState
  <2>2. GroupClosedLast'
    BY <1>1, <1>2, <1>3 DEF GroupClosedLast
  <2> QED BY <2>1, <2>2
<1>4. CASE ~InGrave(l)
  <2>1. \A h \in Generations : protected'[h] = IF h = g THEN protected[h] \ {l} ELSE protected[h]
    BY <1>1, <1>4 DEF ReleaseLease
  <2>2. \A m \in Leases : phase'[m] = "finalizing" => owner[m] \in Generations /\ m \in protected'[owner[m]]
    <3>1. \A m \in Leases : phase'[m] = "finalizing" => m # l /\ phase[m] = "finalizing"
      BY <1>2
    <3>2. \A m \in Leases : phase[m] = "finalizing" => owner[m] \in Generations /\ m \in protected[owner[m]]
      BY DEF GroupState
    <3> QED BY <1>1, <2>1, <3>1, <3>2
  <2>3. CASE GroupDrained(l, g)
    <3>1. child' = [child EXCEPT ![g] = "closing"] /\ groupClose[g] /\ protected[g] = {l}
      BY <1>4, <2>3 DEF ReleaseLease, GroupDrained
    <3>2. GroupState'
      BY <1>1, <2>2, <3>1 DEF GroupState
    <3>3. \A m \in Leases : phase'[m] = "finalizing" => owner[m] # g
      BY <1>1, <2>1, <2>2, <3>1
    <3>4. GroupClosedLast'
      BY <1>1, <1>2, <2>2, <3>1, <3>3 DEF GroupClosedLast
    <3> QED BY <3>2, <3>4
  <2>4. CASE ~GroupDrained(l, g)
    <3>1. child' = child
      BY <1>4, <2>4 DEF ReleaseLease
    <3>2. GroupState'
      BY <1>1, <2>2, <3>1 DEF GroupState
    <3>3. GroupClosedLast'
      BY <1>1, <1>2, <3>1 DEF GroupClosedLast
    <3> QED BY <3>2, <3>3
  <2> QED BY <2>3, <2>4
<1> QED BY <1>3, <1>4 DEF ReleaseLease

\* A lease begins to finalize while the gate is open: no group has closed.
LEMMA GroupFinalizes ==
  ASSUME SlotInvariant, GroupState, GroupClosedLast, NEW l \in Leases, BeginFinalizing(l)
  PROVE  GroupState' /\ GroupClosedLast'
<1> USE DEF SlotInvariant, TypeOK
<1>1. /\ owner[l] \in Generations /\ gateOpen
      /\ UNCHANGED <<groupClose, child, retire, owner, gateOpen>>
  BY DEF BeginFinalizing, slotVars
<1>2. \A m \in Leases : phase'[m] = IF m = l THEN "finalizing" ELSE phase[m]
  BY DEF BeginFinalizing
<1>3. \A h \in Generations : protected'[h] = IF h = owner[l] THEN protected[h] \cup {l} ELSE protected[h]
  BY <1>1 DEF BeginFinalizing
<1>4. GroupState'
  <2>1. \A m \in Leases : phase'[m] = "finalizing" => m \in protected'[owner[m]]
    <3>1. \A m \in Leases : phase[m] = "finalizing" => owner[m] \in Generations /\ m \in protected[owner[m]]
      BY DEF GroupState
    <3> QED BY <1>1, <1>2, <1>3, <3>1
  <2> QED BY <1>1, <2>1 DEF GroupState
<1>5. GroupClosedLast'
  BY <1>1, <1>2 DEF GroupState, GroupClosedLast
<1> QED BY <1>4, <1>5

LEMMA GroupStep ==
  ASSUME SlotInvariant, GroupState, GroupClosedLast, [Next]_vars
  PROVE  GroupState' /\ GroupClosedLast'
<1> USE DEF SlotInvariant, TypeOK
<1>1. CASE UNCHANGED vars
  BY <1>1, GroupKept DEF vars, slotVars, ledgerVars, leaseVars
<1>2. CASE BeginShutdown
  <2>1. ~gateOpen' /\ UNCHANGED <<child, retire, protected, phase, owner>>
    BY <1>2 DEF BeginShutdown, ledgerVars, leaseVars
  <2>2. \A g \in Generations : groupClose[g] => groupClose'[g]
    BY <1>2 DEF BeginShutdown
  <2>3. GroupState'
    BY <2>1, <2>2 DEF GroupState
  <2>4. GroupClosedLast'
    BY <2>1 DEF GroupClosedLast
  <2> QED BY <2>3, <2>4
<1>3. CASE AbortNonProtected
  BY <1>3, GroupKept DEF AbortNonProtected, slotVars, ledgerVars
<1>4. ASSUME NEW g \in Generations, Prepare(g) PROVE GroupState' /\ GroupClosedLast'
  BY <1>4, GroupKept DEF Prepare, ledgerVars, leaseVars
<1>5. ASSUME NEW g \in Generations, Commit(g) \/ MarkFailed(g) PROVE GroupState' /\ GroupClosedLast'
  BY <1>5, GroupKept DEF Commit, MarkFailed, ledgerVars, leaseVars
<1>6. ASSUME NEW g \in Generations, Retire(g) \/ RetireResumes(g) PROVE GroupState' /\ GroupClosedLast'
  <2>1. /\ UNCHANGED <<protected, gateOpen, phase, owner>>
        /\ \A h \in Generations : h # g => groupClose'[h] = groupClose[h]
    BY <1>6 DEF Retire, RetireResumes, ledgerVars, leaseVars
  <2>2. RetireLoop(g)
    BY <1>6 DEF Retire, RetireResumes
  <2>3. retire'[g] # "none" /\ \A h \in Generations : h # g => retire'[h] = retire[h] /\ child'[h] = child[h]
    BY <2>2 DEF RetireLoop
  <2> QED BY <2>1, <2>3, GroupRetiring
<1>7. ASSUME NEW g \in Generations, ScopeDisposed(g) PROVE GroupState' /\ GroupClosedLast'
  <2>1. /\ UNCHANGED <<protected, gateOpen, phase, owner, groupClose, child>>
        /\ retire'[g] # "none" /\ \A h \in Generations : h # g => retire'[h] = retire[h]
    BY <1>7 DEF ScopeDisposed, leaseVars
  <2> QED BY <2>1, GroupRetiring
<1>8. ASSUME NEW g \in Generations, ChildCloses(g) PROVE GroupState' /\ GroupClosedLast'
  <2>1. UNCHANGED <<protected, gateOpen, phase, owner, groupClose>> /\ child[g] = "closing"
    BY <1>8 DEF ChildCloses, ledgerVars, leaseVars
  <2>2. \A h \in Generations : /\ retire'[h] = "none" => retire[h] = "none"
                               /\ h # g => child'[h] = child[h]
    BY <1>8 DEF ChildCloses
  <2>3. GroupState'
    BY <2>1, <2>2 DEF GroupState
  <2>4. GroupClosedLast'
    BY <2>1, <2>2 DEF GroupClosedLast
  <2> QED BY <2>3, <2>4
<1>9. ASSUME NEW g \in Generations, NEW l \in Leases, Acquire(l, g) PROVE GroupState' /\ GroupClosedLast'
  BY <1>9, GroupKept DEF Acquire, slotVars
<1>10. ASSUME NEW l \in Leases, RegisterInvocationHandle(l) \/ CallerAborts(l) \/ DeadlineReached(l) \/ HandlesDisposed(l)
       PROVE  GroupState' /\ GroupClosedLast'
  BY <1>10, GroupKept DEF RegisterInvocationHandle, CallerAborts, DeadlineReached, HandlesDisposed, slotVars, ledgerVars
<1>11. ASSUME NEW l \in Leases, GraceOver(l) PROVE GroupState' /\ GroupClosedLast'
  BY <1>11, GroupKept DEF GraceOver, slotVars
<1> QED BY <1>1, <1>2, <1>3, <1>4, <1>5, <1>6, <1>7, <1>8, <1>9, <1>10, <1>11, GroupReleases, GroupFinalizes DEF Next

\* What is said of groups holds in every reachable state.
LEMMA GroupAlways == Spec => [](GroupState /\ GroupClosedLast)
<1>1. Init => GroupState /\ GroupClosedLast
  BY DEF Init, GroupState, GroupClosedLast
<1>2. SlotInvariant /\ GroupState /\ GroupClosedLast /\ [Next]_vars => GroupState' /\ GroupClosedLast'
  BY GroupStep
<1> QED BY <1>1, <1>2, SlotAlways, PTL DEF Spec

\* beginShutdown freezes the group: the shared child is closed only when the
\* last of its protected leases is released.
THEOREM ChildClosedLast == Spec => []GroupClosedLast
BY GroupAlways, PTL

\* No step aborts a finalizing lease or decides to revoke it.
THEOREM FinalizingIsProtected == Spec => FinalizingProtected
<1> DEFINE Protected == \A l \in Leases : phase[l] = "finalizing" =>
             /\ abortSource'[l] = abortSource[l]
             /\ deadline'[l] \in {"revoking", "revoked"} => deadline[l] \in {"revoking", "revoked"}
<1>1. SlotInvariant /\ [Next]_vars => [Protected]_vars
  <2> SUFFICES ASSUME SlotInvariant, Next PROVE Protected
    OBVIOUS
  <2> USE DEF SlotInvariant, TypeOK
  <2>1. ASSUME UNCHANGED <<abortSource, deadline>> PROVE Protected
    BY <2>1
  <2>2. ASSUME NEW source, NEW S, abortSource' = AbortedFrom(source, S), UNCHANGED deadline
        PROVE  Protected
    BY <2>2 DEF AbortedFrom
  <2>3. CASE BeginShutdown
    BY <2>1, <2>3 DEF BeginShutdown, leaseVars
  <2>4. CASE AbortNonProtected
    BY <2>2, <2>4 DEF AbortNonProtected, leaseVars
  <2>5. ASSUME NEW g \in Generations,
               \/ Prepare(g) \/ Commit(g) \/ MarkFailed(g)
               \/ Retire(g) \/ RetireResumes(g) \/ ChildCloses(g) \/ ScopeDisposed(g)
        PROVE  Protected
    BY <2>1, <2>5 DEF Prepare, Commit, MarkFailed, Retire, RetireResumes, ChildCloses, ScopeDisposed, leaseVars
  <2>6. ASSUME NEW g \in Generations, NEW l \in Leases, Acquire(l, g) PROVE Protected
    BY <2>6 DEF Acquire
  <2>7. ASSUME NEW l \in Leases, RegisterInvocationHandle(l) PROVE Protected
    BY <2>1, <2>7 DEF RegisterInvocationHandle
  <2>8. ASSUME NEW l \in Leases, CallerAborts(l) PROVE Protected
    BY <2>2, <2>8 DEF CallerAborts
  <2>9. ASSUME NEW l \in Leases, BeginFinalizing(l) \/ ReleaseLease(l) PROVE Protected
    BY <2>9 DEF BeginFinalizing, ReleaseLease
  <2>10. ASSUME NEW l \in Leases, DeadlineReached(l) PROVE Protected
    BY <2>10 DEF DeadlineReached, AbortedFrom
  <2>11. ASSUME NEW l \in Leases, GraceOver(l) \/ HandlesDisposed(l) PROVE Protected
    BY <2>11 DEF GraceOver, HandlesDisposed
  <2> QED BY <2>3, <2>4, <2>5, <2>6, <2>7, <2>8, <2>9, <2>10, <2>11 DEF Next
<1> QED BY <1>1, SlotAlways, PTL DEF Spec, FinalizingProtected

\* The slot implements ProviderGenerations: every step moves one generation
\* along its life, or swaps two, or moves none.
THEOREM SlotImplementsGenerations == Spec => ImplementsGenerations
<1>1. Init => Gen!Init
  BY DEF Init, Gen!Init, Life, LifeOf
<1>2. SlotInvariant /\ [Next]_vars => [Gen!Next]_Life
  <2> SUFFICES ASSUME SlotInvariant, [Next]_vars PROVE [Gen!Next]_Life
    OBVIOUS
  <2> USE DEF Life
  <2>1. \A g \in Generations : state[g] \in GenerationState
    BY DEF SlotInvariant, TypeOK
  <2>2. ASSUME UNCHANGED state PROVE [Gen!Next]_Life
    BY <2>2 DEF LifeOf
  <2>3. ASSUME NEW g \in Generations, Prepare(g) PROVE [Gen!Next]_Life
    <3>1. CASE state[g] = "absent"
      <4>1. Life[g] = "absent" /\ Life' = [Life EXCEPT ![g] = "preparing"]
        BY <2>1, <2>3, <3>1 DEF Prepare, LifeOf, GenerationState, SlotInvariant, TypeOK
      <4> QED BY <4>1 DEF Gen!Next, Gen!Prepare
    <3>2. CASE state[g] # "absent"
      BY <2>1, <2>3, <3>2 DEF Prepare, LifeOf, GenerationState, SlotInvariant, TypeOK
    <3> QED BY <3>1, <3>2
  <2>4. ASSUME NEW g \in Generations, Commit(g) PROVE [Gen!Next]_Life
    <3>1. Gen!Swap(g)
      BY <2>1, <2>4 DEF Commit, LifeOf, Gen!Swap, GenerationState, SlotInvariant, TypeOK
    <3> QED BY <3>1 DEF Gen!Next
  <2>5. ASSUME NEW g \in Generations, MarkFailed(g) PROVE [Gen!Next]_Life
    <3>1. Gen!Fail(g)
      BY <2>1, <2>5 DEF MarkFailed, LifeOf, Gen!Fail, GenerationState, SlotInvariant, TypeOK
    <3> QED BY <3>1 DEF Gen!Next
  <2>6. ASSUME NEW g \in Generations, Retire(g) PROVE [Gen!Next]_Life
    <3>1. CASE state[g] = "committed"
      <4>1. Gen!Withdraw(g)
        BY <2>1, <2>6, <3>1 DEF Retire, LifeOf, Gen!Withdraw, GenerationState, SlotInvariant, TypeOK
      <4> QED BY <4>1 DEF Gen!Next
    <3>2. CASE state[g] = "retiring"
      BY <2>2, <2>6, <3>2 DEF Retire, SlotInvariant, TypeOK
    <3> QED BY <2>6, <3>1, <3>2 DEF Retire
  <2>7. ASSUME NEW g \in Generations, ScopeDisposed(g) PROVE [Gen!Next]_Life
    <3>1. state[g] = "retiring"
      BY <2>7 DEF ScopeDisposed, SlotInvariant, RetirementState
    <3>2. Gen!Retired(g)
      BY <2>1, <2>7, <3>1 DEF ScopeDisposed, LifeOf, Gen!Retired, GenerationState, SlotInvariant, TypeOK
    <3> QED BY <3>2 DEF Gen!Next
  <2>8. ASSUME NEW g \in Generations, RetireResumes(g) \/ ChildCloses(g) PROVE [Gen!Next]_Life
    BY <2>2, <2>8 DEF RetireResumes, ChildCloses
  <2>9. ASSUME NEW g \in Generations, NEW l \in Leases, Acquire(l, g) PROVE [Gen!Next]_Life
    BY <2>2, <2>9 DEF Acquire, slotVars
  <2>10. ASSUME NEW l \in Leases,
                \/ RegisterInvocationHandle(l) \/ CallerAborts(l) \/ BeginFinalizing(l)
                \/ ReleaseLease(l) \/ DeadlineReached(l) \/ GraceOver(l) \/ HandlesDisposed(l)
         PROVE  [Gen!Next]_Life
    BY <2>2, <2>10 DEF RegisterInvocationHandle, CallerAborts, BeginFinalizing, ReleaseLease,
       DeadlineReached, GraceOver, HandlesDisposed, slotVars
  <2>11. CASE BeginShutdown \/ AbortNonProtected \/ UNCHANGED vars
    BY <2>2, <2>11 DEF BeginShutdown, AbortNonProtected, vars, slotVars
  <2> QED BY <2>3, <2>4, <2>5, <2>6, <2>7, <2>8, <2>9, <2>10, <2>11 DEF Next
<1> QED BY <1>1, <1>2, SlotAlways, PTL DEF Spec, ImplementsGenerations, Gen!Spec

-----------------------------------------------------------------------------
(* What a retirement and a shutdown wait for.                               *)

\* A generation that has never been committed has no lease and no group to close.
NotCommitted == {"absent", "preparing", "overwritten"}

\* A lease that executes has its deadline, its grace or its revocation before it,
\* or was revoked.
Timed(l) == phase[l] = "executing" => deadline[l] # "off"

OwnerCommitted(l) == owner[l] # NoGeneration => state[owner[l]] \notin NotCommitted

\* Who is protected has yet to be released, or was revoked and is never taken out.
ProtectedState(g) ==
  \A l \in protected[g] : owner[l] = g /\ (phase[l] = "finalizing" \/ (phase[l] = "settled" /\ deadline[l] = "revoked"))

\* What the loop of retire awaits: leases of the generation, all that are in its ledger.
WatchedState(g) ==
  /\ retire[g] = "draining" => watched[g] # {} /\ active[g] \subseteq watched[g]
  /\ \A l \in watched[g] : owner[l] = g
  /\ retire[g] = "closing" => child[g] = "closing"

\* A group that is to close the child, and is not retired, has a member left.
GroupLeft(g) ==
  /\ state[g] \in NotCommitted => ~groupClose[g]
  /\ retire[g] # "none" => groupClose[g]
  /\ groupClose[g] /\ child[g] = "open" => retire[g] = "draining" \/ (retire[g] = "none" /\ protected[g] # {})

WaitingState ==
  /\ \A l \in Leases : Timed(l) /\ OwnerCommitted(l)
  /\ \A g \in Generations : ProtectedState(g) /\ WatchedState(g) /\ GroupLeft(g)

LEMMA TimedStep ==
  ASSUME SlotInvariant, NEW l \in Leases, Timed(l), [Next]_vars
  PROVE  Timed(l)'
<1> USE DEF SlotInvariant, TypeOK
<1>1. ASSUME UNCHANGED <<phase, deadline>> PROVE Timed(l)'
  BY <1>1 DEF Timed
<1>2. CASE BeginShutdown \/ AbortNonProtected \/ UNCHANGED vars
  BY <1>1, <1>2 DEF BeginShutdown, AbortNonProtected, vars, leaseVars
<1>3. ASSUME NEW g \in Generations, \/ Prepare(g) \/ Commit(g) \/ MarkFailed(g)
                                   \/ Retire(g) \/ RetireResumes(g) \/ ChildCloses(g) \/ ScopeDisposed(g)
      PROVE  Timed(l)'
  BY <1>1, <1>3 DEF Prepare, Commit, MarkFailed, Retire, RetireResumes, ChildCloses, ScopeDisposed, leaseVars
<1>4. ASSUME NEW m \in Leases, NEW g \in Generations, Acquire(m, g) PROVE Timed(l)'
  BY <1>4 DEF Acquire, Timed
<1>5. ASSUME NEW m \in Leases, RegisterInvocationHandle(m) \/ CallerAborts(m) PROVE Timed(l)'
  BY <1>1, <1>5 DEF RegisterInvocationHandle, CallerAborts
<1>6. ASSUME NEW m \in Leases, BeginFinalizing(m) \/ ReleaseLease(m) PROVE Timed(l)'
  <2>1. /\ phase'[m] # "executing"
        /\ l # m => phase'[l] = phase[l] /\ deadline'[l] = deadline[l]
    BY <1>6 DEF BeginFinalizing, ReleaseLease
  <2> QED BY <2>1 DEF Timed
<1>7. ASSUME NEW m \in Leases, DeadlineReached(m) \/ GraceOver(m) \/ HandlesDisposed(m) PROVE Timed(l)'
  <2>1. /\ UNCHANGED phase
        /\ phase[m] = "executing" => deadline'[m] # "off"
        /\ l # m => deadline'[l] = deadline[l]
    BY <1>7 DEF DeadlineReached, GraceOver, HandlesDisposed
  <2> QED BY <2>1 DEF Timed
<1> QED BY <1>2, <1>3, <1>4, <1>5, <1>6, <1>7 DEF Next

\* What has been committed once is never prepared again.
LEMMA NeverUncommitted ==
  ASSUME SlotInvariant, NEW g \in Generations, [Next]_vars
  PROVE  state'[g] \in NotCommitted => state[g] \in NotCommitted
<1> USE DEF SlotInvariant, TypeOK
<1>1. ASSUME NEW h \in Generations,
             \/ Prepare(h) \/ Commit(h) \/ MarkFailed(h) \/ Retire(h) \/ ScopeDisposed(h)
      PROVE  state'[g] \in NotCommitted => state[g] \in NotCommitted
  BY <1>1 DEF Prepare, Commit, MarkFailed, Retire, ScopeDisposed, NotCommitted
<1>2. ASSUME NEW h \in Generations, RetireResumes(h) \/ ChildCloses(h) PROVE UNCHANGED state
  BY <1>2 DEF RetireResumes, ChildCloses
<1>3. ASSUME NEW l \in Leases, NEW h \in Generations, Acquire(l, h) PROVE UNCHANGED state
  BY <1>3 DEF Acquire, slotVars
<1>4. ASSUME NEW l \in Leases,
             \/ RegisterInvocationHandle(l) \/ CallerAborts(l) \/ BeginFinalizing(l)
             \/ ReleaseLease(l) \/ DeadlineReached(l) \/ GraceOver(l) \/ HandlesDisposed(l)
      PROVE  UNCHANGED state
  BY <1>4 DEF RegisterInvocationHandle, CallerAborts, BeginFinalizing, ReleaseLease,
     DeadlineReached, GraceOver, HandlesDisposed, slotVars
<1>5. ASSUME BeginShutdown \/ AbortNonProtected \/ UNCHANGED vars PROVE UNCHANGED state
  BY <1>5 DEF BeginShutdown, AbortNonProtected, vars, slotVars
<1> QED BY <1>1, <1>2, <1>3, <1>4, <1>5 DEF Next

\* Only acquiring gives a lease an owner, which it keeps.
LEMMA OwnerStep ==
  ASSUME [Next]_vars, SlotInvariant
  PROVE  \/ UNCHANGED owner
         \/ \E l \in Leases, g \in Generations : Acquire(l, g)
BY DEF Next, vars, leaseVars, BeginShutdown, AbortNonProtected, Prepare, Commit, MarkFailed, Retire, RetireResumes,
   ChildCloses, ScopeDisposed, RegisterInvocationHandle, CallerAborts, BeginFinalizing, ReleaseLease, DeadlineReached,
   GraceOver, HandlesDisposed

LEMMA OwnerCommittedStep ==
  ASSUME SlotInvariant, NEW l \in Leases, OwnerCommitted(l), [Next]_vars
  PROVE  OwnerCommitted(l)'
<1>1. CASE UNCHANGED owner
  <2>1. owner[l] # NoGeneration => owner[l] \in Generations
    BY DEF SlotInvariant, TypeOK
  <2> QED BY <1>1, <2>1, NeverUncommitted DEF OwnerCommitted
<1>2. ASSUME NEW m \in Leases, NEW g \in Generations, Acquire(m, g) PROVE OwnerCommitted(l)'
  <2>1. UNCHANGED state /\ state[g] = "committed" /\ owner' = [owner EXCEPT ![m] = g]
    BY <1>2 DEF Acquire, slotVars
  <2> QED BY <2>1 DEF OwnerCommitted, SlotInvariant, TypeOK, NotCommitted
<1> QED BY <1>1, <1>2, OwnerStep

\* An owned lease keeps its owner.
LEMMA OwnerKept ==
  ASSUME SlotInvariant, [Next]_vars, NEW l \in Leases, owner[l] # NoGeneration
  PROVE  owner'[l] = owner[l]
<1>1. ASSUME NEW m \in Leases, NEW g \in Generations, Acquire(m, g) PROVE owner'[l] = owner[l]
  BY <1>1 DEF Acquire, SlotInvariant, TypeOK
<1> QED BY <1>1, OwnerStep

LEMMA ProtectedStep ==
  ASSUME SlotInvariant, NEW g \in Generations, ProtectedState(g), [Next]_vars
  PROVE  ProtectedState(g)'
<1> USE DEF SlotInvariant, TypeOK
<1>0. \A l \in protected[g] : /\ l \in Leases /\ owner[l] = g /\ owner'[l] = g
                              /\ phase[l] = "finalizing" \/ (phase[l] = "settled" /\ deadline[l] = "revoked")
  <2>1. \A l \in protected[g] : l \in Leases /\ owner[l] = g /\ owner[l] # NoGeneration
    BY NoGenerationAssumption DEF ProtectedState
  <2> QED BY <2>1, OwnerKept DEF ProtectedState
<1>1. ASSUME UNCHANGED <<protected, phase>>, \A l \in Leases : deadline[l] = "revoked" => deadline'[l] = "revoked"
      PROVE  ProtectedState(g)'
  BY <1>0, <1>1 DEF ProtectedState
<1>2. CASE BeginShutdown \/ AbortNonProtected \/ UNCHANGED vars
  BY <1>1, <1>2 DEF BeginShutdown, AbortNonProtected, vars, leaseVars, ledgerVars
<1>3. ASSUME NEW h \in Generations, \/ Prepare(h) \/ Commit(h) \/ MarkFailed(h)
                                   \/ Retire(h) \/ RetireResumes(h) \/ ChildCloses(h) \/ ScopeDisposed(h)
      PROVE  ProtectedState(g)'
  BY <1>1, <1>3 DEF Prepare, Commit, MarkFailed, Retire, RetireResumes, ChildCloses, ScopeDisposed, leaseVars, ledgerVars
<1>4. ASSUME NEW m \in Leases, NEW h \in Generations, Acquire(m, h) PROVE ProtectedState(g)'
  <2>1. /\ UNCHANGED protected /\ phase[m] = "new"
        /\ \A l \in Leases : l # m => phase'[l] = phase[l] /\ deadline'[l] = deadline[l]
    BY <1>4 DEF Acquire
  <2> QED BY <1>0, <2>1 DEF ProtectedState
<1>5. ASSUME NEW m \in Leases, RegisterInvocationHandle(m) \/ CallerAborts(m) PROVE ProtectedState(g)'
  BY <1>1, <1>5 DEF RegisterInvocationHandle, CallerAborts, ledgerVars
<1>6. ASSUME NEW m \in Leases, BeginFinalizing(m) PROVE ProtectedState(g)'
  <2>1. /\ owner[m] \in Generations /\ owner' = owner /\ phase'[m] = "finalizing" /\ phase[m] = "executing"
        /\ \A l \in Leases : l # m => phase'[l] = phase[l] /\ deadline'[l] = deadline[l]
    BY <1>6 DEF BeginFinalizing
  <2>2. protected'[g] = IF owner[m] = g THEN protected[g] \cup {m} ELSE protected[g]
    BY <1>6, <2>1 DEF BeginFinalizing
  <2> QED BY <1>0, <2>1, <2>2 DEF ProtectedState
<1>7. ASSUME NEW m \in Leases, ReleaseLease(m) PROVE ProtectedState(g)'
  <2>1. /\ owner[m] \in Generations /\ phase[m] # "settled" /\ phase'[m] = "settled"
        /\ \A l \in Leases : /\ l # m => phase'[l] = phase[l]
                             /\ deadline[l] = "revoked" => deadline'[l] = "revoked"
    BY <1>7 DEF ReleaseLease
  <2>2. CASE InGrave(m)
    <3>1. deadline[m] = "revoked" /\ UNCHANGED protected
      BY <1>7, <2>1, <2>2 DEF ReleaseLease, InGrave, TombstonesRevoked
    <3> QED BY <1>0, <2>1, <3>1 DEF ProtectedState
  <2>3. CASE ~InGrave(m)
    <3>1. protected' = [protected EXCEPT ![owner[m]] = @ \ {m}]
      BY <1>7, <2>3 DEF ReleaseLease
    <3>2. \A l \in protected'[g] : l \in protected[g] /\ l # m
      BY <1>0, <2>1, <3>1
    <3> QED BY <1>0, <2>1, <3>2 DEF ProtectedState
  <2> QED BY <2>2, <2>3
<1>8. ASSUME NEW m \in Leases, DeadlineReached(m) \/ GraceOver(m) \/ HandlesDisposed(m) PROVE ProtectedState(g)'
  <2>1. UNCHANGED <<protected, phase>> /\ \A l \in Leases : deadline[l] = "revoked" => deadline'[l] = "revoked"
    BY <1>8 DEF DeadlineReached, GraceOver, HandlesDisposed, ledgerVars
  <2> QED BY <1>1, <2>1
<1> QED BY <1>2, <1>3, <1>4, <1>5, <1>6, <1>7, <1>8 DEF Next

\* A step that neither adds to a ledger nor touches retirements, and leaves the
\* child of a retirement that closes it alone.
LEMMA WatchedKept ==
  ASSUME SlotInvariant, [Next]_vars, NEW g \in Generations, WatchedState(g),
         retire'[g] = retire[g], watched'[g] = watched[g],
         retire[g] = "draining" => active'[g] \subseteq active[g],
         child'[g] = child[g] \/ retire[g] # "closing" \/ child'[g] = "closing"
  PROVE  WatchedState(g)'
<1>1. \A l \in watched[g] : owner'[l] = g
  <2>1. \A l \in watched[g] : l \in Leases /\ owner[l] = g /\ owner[l] # NoGeneration
    BY NoGenerationAssumption DEF WatchedState, SlotInvariant, TypeOK
  <2> QED BY <2>1, OwnerKept
<1> QED BY <1>1 DEF WatchedState

\* A look of the loop of retire at the ledger.
LEMMA WatchedLoop ==
  ASSUME SlotInvariant, NEW g \in Generations, RetireLoop(g), UNCHANGED <<active, owner>>
  PROVE  WatchedState(g)'
<1> USE DEF SlotInvariant, TypeOK
<1>1. \A l \in active[g] : owner[l] = g
  BY DEF LedgerExact
<1>2. CASE active[g] # {}
  BY <1>1, <1>2 DEF RetireLoop, WatchedState
<1>3. CASE active[g] = {}
  <2>1. watched'[g] = {} /\ retire'[g] # "draining"
    BY <1>3 DEF RetireLoop
  <2>2. retire'[g] = "closing" => child'[g] = "closing"
    BY <1>3 DEF RetireLoop
  <2> QED BY <2>1, <2>2 DEF WatchedState
<1> QED BY <1>2, <1>3

LEMMA WatchedStep ==
  ASSUME SlotInvariant, NEW g \in Generations, WatchedState(g), [Next]_vars
  PROVE  WatchedState(g)'
<1> USE DEF SlotInvariant, TypeOK
<1>1. ASSUME UNCHANGED <<retire, watched, active, child>> PROVE WatchedState(g)'
  BY <1>1, WatchedKept
<1>2. CASE BeginShutdown \/ AbortNonProtected \/ UNCHANGED vars
  BY <1>1, <1>2 DEF BeginShutdown, AbortNonProtected, vars, slotVars, ledgerVars
<1>3. ASSUME NEW h \in Generations, Prepare(h) PROVE WatchedState(g)'
  <2>1. UNCHANGED <<retire, watched, active>> /\ (h # g => child'[g] = child[g])
    BY <1>3 DEF Prepare, ledgerVars
  <2>2. h = g => retire[g] # "closing"
    BY <1>3 DEF Prepare, RetirementState
  <2> QED BY <2>1, <2>2, WatchedKept
<1>4. ASSUME NEW h \in Generations, Commit(h) \/ MarkFailed(h) PROVE WatchedState(g)'
  BY <1>1, <1>4 DEF Commit, MarkFailed, ledgerVars
<1>5. ASSUME NEW h \in Generations, Retire(h) \/ RetireResumes(h) PROVE WatchedState(g)'
  <2>1. RetireLoop(h) /\ UNCHANGED <<active, owner>>
    BY <1>5 DEF Retire, RetireResumes, ledgerVars, leaseVars
  <2>2. CASE h = g
    BY <2>1, <2>2, WatchedLoop
  <2>3. CASE h # g
    <3>1. retire'[g] = retire[g] /\ watched'[g] = watched[g] /\ child'[g] = child[g]
      BY <2>1, <2>3 DEF RetireLoop
    <3> QED BY <2>1, <3>1, WatchedKept
  <2> QED BY <2>2, <2>3
<1>6. ASSUME NEW h \in Generations, ChildCloses(h) PROVE WatchedState(g)'
  <2>1. UNCHANGED <<watched, active, owner>>
    BY <1>6 DEF ChildCloses, ledgerVars, leaseVars
  <2>2. CASE h = g
    <3>1. retire'[g] # "closing" /\ (retire'[g] = "draining" => retire[g] = "draining")
      BY <1>6, <2>2 DEF ChildCloses
    <3> QED BY <2>1, <3>1 DEF WatchedState
  <2>3. CASE h # g
    <3>1. retire'[g] = retire[g] /\ child'[g] = child[g]
      BY <1>6, <2>3 DEF ChildCloses
    <3> QED BY <2>1, <3>1, WatchedKept
  <2> QED BY <2>2, <2>3
<1>7. ASSUME NEW h \in Generations, ScopeDisposed(h) PROVE WatchedState(g)'
  <2>1. UNCHANGED <<watched, active, owner, child>> /\ retire'[g] \in {retire[g], "done"}
    BY <1>7 DEF ScopeDisposed, leaseVars
  <2> QED BY <2>1 DEF WatchedState
<1>8. ASSUME NEW m \in Leases, NEW h \in Generations, Acquire(m, h) PROVE WatchedState(g)'
  <2>1. UNCHANGED <<retire, watched, child>> /\ state[h] = "committed"
    BY <1>8 DEF Acquire, slotVars
  <2>2. retire[g] = "draining" => h # g
    BY <2>1 DEF RetirementState
  <2>3. h # g => active'[g] = active[g]
    BY <1>8 DEF Acquire
  <2> QED BY <2>1, <2>2, <2>3, WatchedKept
<1>9. ASSUME NEW m \in Leases,
             \/ RegisterInvocationHandle(m) \/ CallerAborts(m) \/ BeginFinalizing(m) \/ DeadlineReached(m)
      PROVE  WatchedState(g)'
  BY <1>1, <1>9 DEF RegisterInvocationHandle, CallerAborts, BeginFinalizing, DeadlineReached, slotVars, ledgerVars
<1>10. ASSUME NEW m \in Leases, ReleaseLease(m) PROVE WatchedState(g)'
  <2>1. UNCHANGED <<retire, watched>> /\ owner[m] \in Generations
    BY <1>10 DEF ReleaseLease
  <2>2. child'[g] \in {child[g], "closing"}
    BY <1>10, <2>1 DEF ReleaseLease
  <2>3. active'[g] \subseteq active[g]
    BY <1>10, <2>1 DEF ReleaseLease
  <2> QED BY <2>1, <2>2, <2>3, WatchedKept
<1>11. ASSUME NEW m \in Leases, GraceOver(m) \/ HandlesDisposed(m) PROVE WatchedState(g)'
  <2>1. UNCHANGED <<retire, watched, child>>
    BY <1>11 DEF GraceOver, HandlesDisposed, slotVars
  <2>2. active'[g] \subseteq active[g]
    BY <1>11 DEF GraceOver, HandlesDisposed, Entomb
  <2> QED BY <2>1, <2>2, WatchedKept
<1> QED BY <1>2, <1>3, <1>4, <1>5, <1>6, <1>7, <1>8, <1>9, <1>10, <1>11 DEF Next

LEMMA GroupLeftStep ==
  ASSUME SlotInvariant, GroupState, NEW g \in Generations, GroupLeft(g), WatchedState(g)', [Next]_vars,
         \A l \in Leases : OwnerCommitted(l)
  PROVE  GroupLeft(g)'
<1> USE DEF SlotInvariant, TypeOK
<1>0. state'[g] \in NotCommitted => state[g] \in NotCommitted
  BY NeverUncommitted
<1>1. ASSUME UNCHANGED <<groupClose, retire, child, protected>> PROVE GroupLeft(g)'
  BY <1>0, <1>1 DEF GroupLeft
<1>2. CASE BeginShutdown
  <2>1. UNCHANGED <<state, retire, child, protected>>
    BY <1>2 DEF BeginShutdown, ledgerVars
  <2>2. CASE groupClose'[g] = groupClose[g]
    BY <2>1, <2>2 DEF GroupLeft
  <2>3. CASE groupClose'[g] # groupClose[g]
    <3>1. ~groupClose[g] /\ groupClose'[g] /\ ProtectedIn(g) # {}
      BY <1>2, <2>3 DEF BeginShutdown
    <3>2. PICK l \in active[g] : phase[l] = "finalizing"
      BY <3>1 DEF ProtectedIn
    <3>3. l \in Leases /\ owner[l] = g
      BY <3>2 DEF LedgerExact
    <3>4. l \in protected[g] /\ state[g] \notin NotCommitted
      BY <3>2, <3>3, NoGenerationAssumption DEF GroupState, OwnerCommitted
    <3> QED BY <2>1, <3>1, <3>4 DEF GroupLeft
  <2> QED BY <2>2, <2>3
<1>3. CASE AbortNonProtected \/ UNCHANGED vars
  BY <1>1, <1>3 DEF AbortNonProtected, vars, slotVars, ledgerVars
<1>4. ASSUME NEW h \in Generations, Prepare(h) PROVE GroupLeft(g)'
  <2>1. UNCHANGED <<groupClose, retire, protected>> /\ (h # g => child'[g] = child[g])
    BY <1>4 DEF Prepare, ledgerVars
  <2>2. h = g => state[g] \in NotCommitted
    BY <1>4 DEF Prepare, NotCommitted
  <2> QED BY <1>0, <2>1, <2>2 DEF GroupLeft
<1>5. ASSUME NEW h \in Generations, Commit(h) \/ MarkFailed(h) PROVE GroupLeft(g)'
  BY <1>1, <1>5 DEF Commit, MarkFailed, ledgerVars
<1>6. ASSUME NEW h \in Generations, Retire(h) \/ RetireResumes(h) PROVE GroupLeft(g)'
  <2>1. RetireLoop(h) /\ UNCHANGED protected
    BY <1>6 DEF Retire, RetireResumes, ledgerVars
  <2>2. CASE h = g
    <3>1. groupClose'[g] /\ state'[g] \notin NotCommitted
      <4>1. CASE Retire(g)
        BY <4>1 DEF Retire, NotCommitted
      <4>2. CASE RetireResumes(g)
        BY <4>2 DEF RetireResumes, RetirementState, GroupLeft, NotCommitted
      <4> QED BY <1>6, <2>2, <4>1, <4>2
    <3>2. retire'[g] = "draining" \/ child'[g] # "open"
      BY <2>1, <2>2 DEF RetireLoop
    <3> QED BY <3>1, <3>2 DEF GroupLeft
  <2>3. CASE h # g
    <3>1. retire'[g] = retire[g] /\ child'[g] = child[g]
      BY <2>1, <2>3 DEF RetireLoop
    <3>2. groupClose'[g] = groupClose[g]
      BY <1>6, <2>3 DEF Retire, RetireResumes
    <3> QED BY <1>0, <2>1, <3>1, <3>2 DEF GroupLeft
  <2> QED BY <2>2, <2>3
<1>7. ASSUME NEW h \in Generations, ChildCloses(h) PROVE GroupLeft(g)'
  <2>1. UNCHANGED <<groupClose, protected>> /\ (retire'[g] # "none" => retire[g] # "none")
    BY <1>7 DEF ChildCloses, ledgerVars
  <2>2. child'[g] = "open" => child[g] = "open" /\ retire'[g] = retire[g]
    BY <1>7 DEF ChildCloses
  <2> QED BY <1>0, <2>1, <2>2 DEF GroupLeft
<1>8. ASSUME NEW h \in Generations, ScopeDisposed(h) PROVE GroupLeft(g)'
  <2>1. UNCHANGED <<groupClose, protected, child>>
    BY <1>8 DEF ScopeDisposed
  <2>2. retire'[g] = retire[g] \/ (retire[g] = "disposing" /\ retire'[g] = "done")
    BY <1>8 DEF ScopeDisposed
  <2> QED BY <1>0, <2>1, <2>2 DEF GroupLeft
<1>9. ASSUME NEW m \in Leases, NEW h \in Generations, Acquire(m, h) PROVE GroupLeft(g)'
  BY <1>1, <1>9 DEF Acquire, slotVars
<1>10. ASSUME NEW m \in Leases, RegisterInvocationHandle(m) \/ CallerAborts(m) \/ DeadlineReached(m)
                                \/ GraceOver(m) \/ HandlesDisposed(m)
       PROVE  GroupLeft(g)'
  BY <1>1, <1>10 DEF RegisterInvocationHandle, CallerAborts, DeadlineReached, GraceOver, HandlesDisposed, slotVars, ledgerVars
<1>11. ASSUME NEW m \in Leases, BeginFinalizing(m) PROVE GroupLeft(g)'
  <2>1. UNCHANGED <<groupClose, retire, child>> /\ protected[g] \subseteq protected'[g]
    BY <1>11 DEF BeginFinalizing, slotVars
  <2> QED BY <1>0, <2>1 DEF GroupLeft
<1>12. ASSUME NEW m \in Leases, ReleaseLease(m) PROVE GroupLeft(g)'
  <2>1. UNCHANGED <<groupClose, retire>> /\ owner[m] \in Generations
    BY <1>12 DEF ReleaseLease
  <2>2. CASE child'[g] = child[g] /\ (protected'[g] = protected[g] \/ protected'[g] # {})
    BY <1>0, <2>1, <2>2 DEF GroupLeft
  <2>3. CASE child'[g] = "closing"
    BY <1>0, <2>1, <2>3 DEF GroupLeft
  \* The group has lost its last member without closing the child.
  <2>4. CASE child'[g] # "closing" /\ protected'[g] # protected[g] /\ protected'[g] = {}
    <3>1. ~InGrave(m) /\ owner[m] = g /\ protected'[g] = protected[g] \ {m}
      BY <1>12, <2>1, <2>4 DEF ReleaseLease
    <3>2. protected[g] = {m}
      BY <2>4, <3>1
    <3>3. child'[g] = IF GroupDrained(m, g) THEN "closing" ELSE child[g]
      BY <1>12, <3>1 DEF ReleaseLease
    <3>4. ~(groupClose'[g] /\ child'[g] = "open")
      BY <2>1, <2>4, <3>2, <3>3 DEF GroupDrained
    <3> QED BY <1>0, <2>1, <3>4 DEF GroupLeft
  <2>5. child'[g] \in {child[g], "closing"}
    BY <1>12, <2>1 DEF ReleaseLease
  <2> QED BY <2>2, <2>3, <2>4, <2>5
<1> QED BY <1>2, <1>3, <1>4, <1>5, <1>6, <1>7, <1>8, <1>9, <1>10, <1>11, <1>12 DEF Next

LEMMA WaitingInit == Init => WaitingState
BY DEF Init, WaitingState, Timed, OwnerCommitted, ProtectedState, WatchedState, GroupLeft

LEMMA WaitingStep == SlotInvariant /\ GroupState /\ WaitingState /\ [Next]_vars => WaitingState'
<1> SUFFICES ASSUME SlotInvariant, GroupState, WaitingState, [Next]_vars PROVE WaitingState'
  OBVIOUS
<1>1. \A l \in Leases : Timed(l)' /\ OwnerCommitted(l)'
  BY TimedStep, OwnerCommittedStep DEF WaitingState
<1>2. \A g \in Generations : ProtectedState(g)' /\ WatchedState(g)'
  BY ProtectedStep, WatchedStep DEF WaitingState
<1>3. \A g \in Generations : GroupLeft(g)'
  BY <1>2, GroupLeftStep DEF WaitingState
<1> QED BY <1>1, <1>2, <1>3 DEF WaitingState

LEMMA WaitingAlways == Spec => []WaitingState
BY SlotAlways, GroupAlways, WaitingInit, WaitingStep, PTL DEF Spec

\* A retirement waits for a promise that settles, or a lease it awaits has settled
\* or is in the hands of its caller; while it executes, its deadline or its
\* revocation is ahead, or it was revoked.
RetirementGoesOn ==
  \A g \in Generations :
    /\ retire[g] = "closing" => child[g] = "closing"
    /\ retire[g] = "draining" =>
         \E l \in watched[g] : /\ owner[l] = g /\ (HasSettled(l) \/ Unsettled(l))
                              /\ phase[l] = "executing" => deadline[l] # "off"

\* A group frozen by a shutdown closes its child: a protected lease is still to be
\* released, or was revoked while it finalized, or the retirement will close it.
GroupGoesOn ==
  \A g \in Generations : groupClose[g] /\ child[g] = "open" =>
    retire[g] = "draining" \/ \E l \in protected[g] : phase[l] = "finalizing" \/ deadline[l] = "revoked"

RetirementLeft(r) ==
  IF r = "none" THEN 5 ELSE IF r = "draining" THEN 4 ELSE IF r = "closing" THEN 3
  ELSE IF r = "disposing" THEN 2 ELSE 1

\* A retirement only comes nearer to its end, and every round of its loop awaits
\* fewer leases.
RetirementRunsDown ==
  [][\A g \in Generations :
       \/ retire'[g] = retire[g] /\ watched'[g] = watched[g]
       \/ RetirementLeft(retire'[g]) < RetirementLeft(retire[g])
       \/ /\ retire[g] = "draining" /\ retire'[g] = "draining"
          /\ watched'[g] \subseteq watched[g] /\ watched'[g] # watched[g]]_vars

\* A retirement is never left waiting for nothing: RetirementEnds without time.
THEOREM RetirementNeverStuck == Spec => []RetirementGoesOn
<1>1. SlotInvariant /\ WaitingState => RetirementGoesOn
  <2> SUFFICES ASSUME SlotInvariant, WaitingState, NEW g \in Generations PROVE
        /\ retire[g] = "closing" => child[g] = "closing"
        /\ retire[g] = "draining" =>
             \E l \in watched[g] : /\ owner[l] = g /\ (HasSettled(l) \/ Unsettled(l))
                                  /\ phase[l] = "executing" => deadline[l] # "off"
    BY DEF RetirementGoesOn
  <2>1. retire[g] = "closing" => child[g] = "closing"
    BY DEF WaitingState, WatchedState
  <2>2. ASSUME retire[g] = "draining"
        PROVE  \E l \in watched[g] : /\ owner[l] = g /\ (HasSettled(l) \/ Unsettled(l))
                                    /\ phase[l] = "executing" => deadline[l] # "off"
    <3>1. PICK l \in watched[g] : owner[l] = g
      BY <2>2 DEF WaitingState, WatchedState
    <3>2. l \in Leases /\ phase[l] \in Phase /\ phase[l] # "new"
      BY <3>1, NoGenerationAssumption DEF SlotInvariant, TypeOK
    <3>3. Timed(l)
      BY <3>2 DEF WaitingState
    <3> QED BY <3>1, <3>2, <3>3 DEF Timed, HasSettled, Unsettled, Phase
  <2> QED BY <2>1, <2>2
<1> QED BY <1>1, SlotAlways, WaitingAlways, PTL

\* A group that is to close the child is never left without somebody who will:
\* ShutdownClosesChild without time.
THEOREM ShutdownNeverStuck == Spec => []GroupGoesOn
<1>1. SlotInvariant /\ WaitingState => GroupGoesOn
  BY DEF GroupGoesOn, WaitingState, GroupLeft, ProtectedState, SlotInvariant, TypeOK
<1> QED BY <1>1, SlotAlways, WaitingAlways, PTL

\* What a retirement still has to wait for only becomes less.
THEOREM RetirementRunsOut == Spec => RetirementRunsDown
<1> DEFINE Down(g) ==
             \/ retire'[g] = retire[g] /\ watched'[g] = watched[g]
             \/ RetirementLeft(retire'[g]) < RetirementLeft(retire[g])
             \/ /\ retire[g] = "draining" /\ retire'[g] = "draining"
                /\ watched'[g] \subseteq watched[g] /\ watched'[g] # watched[g]
<1>1. SlotInvariant /\ WaitingState /\ [Next]_vars => [\A g \in Generations : Down(g)]_vars
  <2> SUFFICES ASSUME SlotInvariant, WaitingState, Next, NEW g \in Generations PROVE Down(g)
    OBVIOUS
  <2> USE DEF SlotInvariant, TypeOK
  <2>1. ASSUME retire'[g] = retire[g], watched'[g] = watched[g] PROVE Down(g)
    BY <2>1
  <2>2. ASSUME RetirementLeft(retire'[g]) < RetirementLeft(retire[g]) PROVE Down(g)
    BY <2>2
  <2>3. CASE Retire(g)
    <3>1. retire[g] = "none" /\ retire'[g] \in {"draining", "closing", "disposing"}
      BY <2>3 DEF Retire, RetireLoop
    <3> QED BY <3>1, <2>2 DEF RetirementLeft
  <2>4. CASE RetireResumes(g)
    <3>1. retire[g] = "draining" /\ RetireLoop(g)
      BY <2>4 DEF RetireResumes
    <3>2. CASE active[g] = {}
      <4>1. retire'[g] \in {"closing", "disposing"}
        BY <3>1, <3>2 DEF RetireLoop
      <4> QED BY <2>2, <3>1, <4>1 DEF RetirementLeft
    <3>3. CASE active[g] # {}
      <4>1. retire'[g] = "draining" /\ watched'[g] = active[g]
        BY <3>1, <3>3 DEF RetireLoop
      <4>2. active[g] \subseteq watched[g]
        BY <3>1 DEF WaitingState, WatchedState
      \* The one that has settled is in the ledger no more.
      <4>3. PICK l \in watched[g] : phase[l] = "settled"
        BY <2>4 DEF RetireResumes, HasSettled
      <4>4. l \notin active[g]
        BY <4>3 DEF LedgerExact, Unsettled
      <4> QED BY <3>1, <4>1, <4>2, <4>3, <4>4
    <3> QED BY <3>2, <3>3
  <2>5. CASE ChildCloses(g)
    <3>1. watched'[g] = watched[g] /\ (retire'[g] = retire[g] \/ (retire[g] = "closing" /\ retire'[g] \in {"disposing", "rejected"}))
      BY <2>5 DEF ChildCloses
    <3> QED BY <2>1, <2>2, <3>1 DEF RetirementLeft
  <2>6. CASE ScopeDisposed(g)
    <3>1. retire[g] = "disposing" /\ retire'[g] = "done"
      BY <2>6 DEF ScopeDisposed
    <3> QED BY <2>2, <3>1 DEF RetirementLeft
  <2>7. ASSUME NEW h \in Generations, h # g, Retire(h) \/ RetireResumes(h) \/ ChildCloses(h) \/ ScopeDisposed(h)
        PROVE  Down(g)
    BY <2>1, <2>7 DEF Retire, RetireResumes, RetireLoop, ChildCloses, ScopeDisposed
  <2>8. ASSUME NEW h \in Generations, Prepare(h) \/ Commit(h) \/ MarkFailed(h) PROVE Down(g)
    BY <2>1, <2>8 DEF Prepare, Commit, MarkFailed
  <2>9. ASSUME NEW l \in Leases, NEW h \in Generations, Acquire(l, h) PROVE Down(g)
    BY <2>1, <2>9 DEF Acquire, slotVars
  <2>10. ASSUME NEW l \in Leases,
                \/ RegisterInvocationHandle(l) \/ CallerAborts(l) \/ BeginFinalizing(l)
                \/ ReleaseLease(l) \/ DeadlineReached(l) \/ GraceOver(l) \/ HandlesDisposed(l)
         PROVE  Down(g)
    BY <2>1, <2>10 DEF RegisterInvocationHandle, CallerAborts, BeginFinalizing, ReleaseLease,
       DeadlineReached, GraceOver, HandlesDisposed, slotVars
  <2>11. CASE BeginShutdown \/ AbortNonProtected
    BY <2>1, <2>11 DEF BeginShutdown, AbortNonProtected, slotVars
  <2> HIDE DEF Down
  <2> QED BY <2>3, <2>4, <2>5, <2>6, <2>7, <2>8, <2>9, <2>10, <2>11 DEF Next
<1> QED BY <1>1, SlotAlways, WaitingAlways, PTL DEF Spec, RetirementRunsDown
=============================================================================
