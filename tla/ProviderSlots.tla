--------------------------- MODULE ProviderSlots ---------------------------
(***************************************************************************)
(* One slot of the ProviderSlotDirectory: the generations of a provider    *)
(* and the leases that invocations hold on them.  The code runs on one     *)
(* thread: an action is a synchronous section, from a call or the settling *)
(* of an awaited promise to the next await.                                *)
(***************************************************************************)
EXTENDS Naturals, FiniteSets

CONSTANTS
  Generations,  \* identifiers of generations, each used once
  Leases,       \* identifiers of leases, each used once
  Closable,     \* the generations that have a child to close
  Leasable,     \* bound: the generations on which leases are taken
  NoGeneration

ASSUME NoGenerationAssumption == NoGeneration \notin Generations

VARIABLES
  state,        \* state of a generation and its place in the slot
  active,       \* the ledger of a generation: the leases it has granted
  tombstones,   \* leases of a generation that were force-revoked
  protected,    \* protectedLeases of a generation
  groupClose,   \* closeWhenProtectedDrained of a generation
  child,        \* closeOnce of a generation
  retire,       \* where the call of retire for a generation stands
  watched,      \* the leases whose settling that call awaits
  gateOpen,     \* transitionGateOpen
  owner,        \* the generation of a lease
  phase,        \* phase of a lease; "settled" is also its released flag
  abortSource,  \* abortSource of a lease; its signal is aborted unless "none"
  deadline,     \* where runtimeDeadlineReached stands for a lease
  handles       \* whether a lease has invocation handles

slotVars == <<state, groupClose, child, retire, watched>>
ledgerVars == <<active, tombstones, protected>>
leaseVars == <<owner, phase, abortSource, deadline, handles>>
vars == <<slotVars, ledgerVars, leaseVars, gateOpen>>

-----------------------------------------------------------------------------
(* Types.                                                                   *)

\* "overwritten" and "failed" are in the slot no more, "retired" neither.
GenerationState ==
  {"absent", "preparing", "overwritten", "committed", "retiring", "failed", "retired"}
\* "none" is a generation without closeOnce, "open" one whose child is not closed.
Child == {"none", "open", "closing", "closed", "failed"}
Retirement == {"none", "draining", "closing", "disposing", "rejected", "done"}
Phase == {"new", "executing", "finalizing", "settled"}
AbortSource == {"none", "caller", "runtime"}
Deadline == {"off", "armed", "grace", "revoking", "revoked"}

TypeOK ==
  /\ state \in [Generations -> GenerationState]
  /\ active \in [Generations -> SUBSET Leases]
  /\ tombstones \in [Generations -> SUBSET Leases]
  /\ protected \in [Generations -> SUBSET Leases]
  /\ groupClose \in [Generations -> BOOLEAN]
  /\ child \in [Generations -> Child]
  /\ retire \in [Generations -> Retirement]
  /\ watched \in [Generations -> SUBSET Leases]
  /\ gateOpen \in BOOLEAN
  /\ owner \in [Leases -> Generations \cup {NoGeneration}]
  /\ phase \in [Leases -> Phase]
  /\ abortSource \in [Leases -> AbortSource]
  /\ deadline \in [Leases -> Deadline]
  /\ handles \in [Leases -> BOOLEAN]
  /\ \A l \in Leases : /\ phase[l] = "new" <=> owner[l] = NoGeneration
                       /\ deadline[l] = "armed" => phase[l] = "executing"

Init ==
  /\ state = [g \in Generations |-> "absent"]
  /\ active = [g \in Generations |-> {}]
  /\ tombstones = [g \in Generations |-> {}]
  /\ protected = [g \in Generations |-> {}]
  /\ groupClose = [g \in Generations |-> FALSE]
  /\ child = [g \in Generations |-> "none"]
  /\ retire = [g \in Generations |-> "none"]
  /\ watched = [g \in Generations |-> {}]
  /\ gateOpen = TRUE
  /\ owner = [l \in Leases |-> NoGeneration]
  /\ phase = [l \in Leases |-> "new"]
  /\ abortSource = [l \in Leases |-> "none"]
  /\ deadline = [l \in Leases |-> "off"]
  /\ handles = [l \in Leases |-> FALSE]

-----------------------------------------------------------------------------
(* Generations.                                                             *)

\* Preparing a generation, with its child, displaces the one that was being
\* prepared.
Prepare(g) ==
  /\ state[g] \in {"absent", "preparing", "overwritten"}
  /\ state' = [h \in Generations |-> IF h = g THEN "preparing"
                                     ELSE IF state[h] = "preparing" THEN "overwritten" ELSE state[h]]
  /\ child' = [child EXCEPT ![g] = IF g \in Closable THEN "open" ELSE "none"]
  /\ UNCHANGED <<groupClose, retire, watched, ledgerVars, leaseVars, gateOpen>>

\* Variant of Commit: the generation that was committed stays so.
CommitBeside(g) ==
  /\ state[g] = "preparing"
  /\ state' = [state EXCEPT ![g] = "committed"]
  /\ UNCHANGED <<groupClose, child, retire, watched, ledgerVars, leaseVars, gateOpen>>

\* The generation that was committed, if any, stops serving in the same section.
Commit(g) ==
  /\ state[g] = "preparing"
  /\ state' = [h \in Generations |-> IF h = g THEN "committed"
                                     ELSE IF state[h] = "committed" THEN "retiring" ELSE state[h]]
  /\ UNCHANGED <<groupClose, child, retire, watched, ledgerVars, leaseVars, gateOpen>>

MarkFailed(g) ==
  /\ state[g] \in {"preparing", "committed"}
  /\ state' = [state EXCEPT ![g] = "failed"]
  /\ UNCHANGED <<groupClose, child, retire, watched, ledgerVars, leaseVars, gateOpen>>

\* The loop of retire looks at the ledger: it awaits the leases in it, or
\* closes the child, unless that was done before, and disposes the scope.
RetireLoop(g) ==
  IF active[g] # {}
  THEN /\ retire' = [retire EXCEPT ![g] = "draining"]
       /\ watched' = [watched EXCEPT ![g] = active[g]]
       /\ child' = child
  ELSE /\ watched' = [watched EXCEPT ![g] = {}]
       /\ IF child[g] = "open"
          THEN /\ child' = [child EXCEPT ![g] = "closing"]
               /\ retire' = [retire EXCEPT ![g] = "closing"]
          ELSE /\ child' = child
               /\ retire' = [retire EXCEPT ![g] = "disposing"]

\* Bound: one call of retire for a generation.
Retire(g) ==
  /\ state[g] \in {"committed", "retiring"} /\ retire[g] = "none"
  /\ state' = [state EXCEPT ![g] = "retiring"]
  /\ groupClose' = [groupClose EXCEPT ![g] = TRUE]
  /\ RetireLoop(g)
  /\ UNCHANGED <<ledgerVars, leaseVars, gateOpen>>

\* Variant of HasSettled: a release after a revocation returns before resolveSettled.
HasSettledUnrevoked(l) == phase[l] = "settled" /\ deadline[l] # "revoked"

\* The promise settled of a lease: resolved by its release, and by nothing else.
HasSettled(l) == phase[l] = "settled"

\* Variant of RetireResumes: a test of the ledger in place of a loop.
RetireResumesOnce(g) ==
  /\ retire[g] = "draining"
  /\ \E l \in watched[g] : HasSettled(l)
  /\ retire' = [retire EXCEPT ![g] = "disposing"]
  /\ UNCHANGED <<state, groupClose, child, watched, ledgerVars, leaseVars, gateOpen>>

\* One of the awaited leases has settled.
RetireResumes(g) ==
  /\ retire[g] = "draining"
  /\ \E l \in watched[g] : HasSettled(l)
  /\ RetireLoop(g)
  /\ UNCHANGED <<state, groupClose, ledgerVars, leaseVars, gateOpen>>

\* closeOnce settles; retire goes on, or rejects, if it was the one to call it.
ChildCloses(g) ==
  /\ child[g] = "closing"
  /\ \E ok \in BOOLEAN :
       /\ child' = [child EXCEPT ![g] = IF ok THEN "closed" ELSE "failed"]
       /\ retire' = [retire EXCEPT ![g] = IF @ # "closing" THEN @
                                          ELSE IF ok THEN "disposing" ELSE "rejected"]
  /\ UNCHANGED <<state, groupClose, watched, ledgerVars, leaseVars, gateOpen>>

\* The scope is disposed; the generation leaves the slot.
ScopeDisposed(g) ==
  /\ retire[g] = "disposing"
  /\ retire' = [retire EXCEPT ![g] = "done"]
  /\ state' = [state EXCEPT ![g] = "retired"]
  /\ tombstones' = [tombstones EXCEPT ![g] = {}]
  /\ UNCHANGED <<groupClose, child, watched, active, protected, leaseVars, gateOpen>>

-----------------------------------------------------------------------------
(* Leases.                                                                  *)

\* A lease of the committed generation, by a caller whose signal may have
\* aborted already.
Acquire(l, g) ==
  /\ phase[l] = "new" /\ state[g] = "committed" /\ g \in Leasable
  /\ owner' = [owner EXCEPT ![l] = g]
  /\ phase' = [phase EXCEPT ![l] = "executing"]
  /\ active' = [active EXCEPT ![g] = @ \cup {l}]
  /\ \E source \in {"none", "caller"} : abortSource' = [abortSource EXCEPT ![l] = source]
  /\ deadline' = [deadline EXCEPT ![l] = "armed"]
  /\ UNCHANGED <<slotVars, tombstones, protected, handles, gateOpen>>

RegisterInvocationHandle(l) ==
  /\ phase[l] \in {"executing", "finalizing"} /\ ~handles[l]
  /\ handles' = [handles EXCEPT ![l] = TRUE]
  /\ UNCHANGED <<slotVars, ledgerVars, owner, phase, abortSource, deadline, gateOpen>>

\* abortLease: only an executing lease, and the first source stays.
AbortedFrom(source, S) ==
  [l \in Leases |-> IF l \in S /\ phase[l] = "executing" /\ abortSource[l] = "none"
                    THEN source ELSE abortSource[l]]

CallerAborts(l) ==
  /\ phase[l] # "new"
  /\ abortSource' = AbortedFrom("caller", {l})
  /\ UNCHANGED <<slotVars, ledgerVars, owner, phase, deadline, handles, gateOpen>>

\* The gateway has parsed its result.  The deadline is disarmed, but a grace
\* that has begun goes on.
BeginFinalizing(l) ==
  /\ phase[l] = "executing" /\ gateOpen
  /\ phase' = [phase EXCEPT ![l] = "finalizing"]
  /\ deadline' = [deadline EXCEPT ![l] = IF @ = "armed" THEN "off" ELSE @]
  /\ protected' = [protected EXCEPT ![owner[l]] = @ \cup {l}]
  /\ UNCHANGED <<slotVars, active, tombstones, owner, abortSource, handles, gateOpen>>

\* Variant of GroupDrained: the size of the group is not looked at.
GroupReduced(l, g) == l \in protected[g] /\ groupClose[g] /\ child[g] = "open"

\* Variant of GroupDrained: only a retirement closes the child.
GroupRetired(l, g) == protected[g] = {l} /\ retire[g] # "none" /\ child[g] = "open"

\* The last protected lease of a group closes the child, when it may.
GroupDrained(l, g) == protected[g] = {l} /\ groupClose[g] /\ child[g] = "open"

\* Variant of InGrave: a lease is taken for revoked while it is being revoked.
InGraveEarly(l) == deadline[l] \in {"revoking", "revoked"}

\* Whether a lease was force-revoked, and is in the ledger no more.
InGrave(l) == l \in tombstones[owner[l]]

\* Releasing ends the deadline and the grace; handles being closed go on.
ReleaseLease(l) ==
  LET g == owner[l] IN
  /\ phase[l] \in {"executing", "finalizing"}
  /\ phase' = [phase EXCEPT ![l] = "settled"]
  /\ deadline' = [deadline EXCEPT ![l] = IF @ \in {"armed", "grace"} THEN "off" ELSE @]
  /\ IF InGrave(l)
     THEN UNCHANGED <<active, protected, child>>
     ELSE /\ active' = [active EXCEPT ![g] = @ \ {l}]
          /\ protected' = [protected EXCEPT ![g] = @ \ {l}]
          /\ child' = IF GroupDrained(l, g) THEN [child EXCEPT ![g] = "closing"] ELSE child
  /\ UNCHANGED <<state, groupClose, retire, watched, tombstones, owner, abortSource, handles, gateOpen>>

\* Variant of DeadlineReached: a lease its caller has aborted is left alone.
DeadlineReachedUnaborted(l) ==
  /\ deadline[l] = "armed"
  /\ deadline' = [deadline EXCEPT ![l] = IF abortSource[l] = "none" THEN "grace" ELSE "off"]
  /\ abortSource' = AbortedFrom("runtime", {l})
  /\ UNCHANGED <<slotVars, ledgerVars, owner, phase, handles, gateOpen>>

\* runtimeDeadlineReached: the lease is aborted and given a grace.
DeadlineReached(l) ==
  /\ deadline[l] = "armed"
  /\ deadline' = [deadline EXCEPT ![l] = "grace"]
  /\ abortSource' = AbortedFrom("runtime", {l})
  /\ UNCHANGED <<slotVars, ledgerVars, owner, phase, handles, gateOpen>>

\* The end of forceRevoke.
Entomb(l) ==
  /\ active' = [active EXCEPT ![owner[l]] = @ \ {l}]
  /\ tombstones' = [tombstones EXCEPT ![owner[l]] = @ \cup {l}]

\* Variant of GraceOver: the phase is not looked at again after the grace.
GraceOverAnyway(l) ==
  /\ deadline[l] = "grace"
  /\ deadline' = [deadline EXCEPT ![l] = "revoked"]
  /\ Entomb(l)
  /\ UNCHANGED <<slotVars, protected, owner, phase, abortSource, handles, gateOpen>>

\* A lease that still executes after its grace is revoked: at once, or when
\* its invocation handles are disposed.
GraceOver(l) ==
  /\ deadline[l] = "grace"
  /\ IF phase[l] # "executing"
     THEN /\ deadline' = [deadline EXCEPT ![l] = "off"]
          /\ UNCHANGED <<active, tombstones>>
     ELSE IF handles[l]
     THEN /\ deadline' = [deadline EXCEPT ![l] = "revoking"]
          /\ UNCHANGED <<active, tombstones>>
     ELSE /\ deadline' = [deadline EXCEPT ![l] = "revoked"]
          /\ Entomb(l)
  /\ UNCHANGED <<slotVars, protected, owner, phase, abortSource, handles, gateOpen>>

HandlesDisposed(l) ==
  /\ deadline[l] = "revoking"
  /\ deadline' = [deadline EXCEPT ![l] = "revoked"]
  /\ Entomb(l)
  /\ UNCHANGED <<slotVars, protected, owner, phase, abortSource, handles, gateOpen>>

-----------------------------------------------------------------------------
(* Shutdown.                                                                *)

InSlot(g) == state[g] \in {"preparing", "committed", "retiring"}
ProtectedIn(g) == {l \in active[g] : phase[l] = "finalizing"}

BeginShutdown ==
  /\ gateOpen
  /\ gateOpen' = FALSE
  /\ groupClose' = [g \in Generations |-> groupClose[g] \/ (InSlot(g) /\ ProtectedIn(g) # {})]
  /\ UNCHANGED <<state, child, retire, watched, ledgerVars, leaseVars>>

AbortNonProtected ==
  /\ ~gateOpen
  /\ abortSource' = AbortedFrom("runtime", UNION {active[g] : g \in {h \in Generations : InSlot(h)}})
  /\ UNCHANGED <<slotVars, ledgerVars, owner, phase, deadline, handles, gateOpen>>

-----------------------------------------------------------------------------
Next ==
  \/ BeginShutdown
  \/ AbortNonProtected
  \/ \E g \in Generations : \/ Prepare(g) \/ Commit(g) \/ MarkFailed(g)
                            \/ Retire(g) \/ RetireResumes(g) \/ ChildCloses(g) \/ ScopeDisposed(g)
                            \/ \E l \in Leases : Acquire(l, g)
  \/ \E l \in Leases : \/ RegisterInvocationHandle(l) \/ CallerAborts(l) \/ BeginFinalizing(l)
                       \/ ReleaseLease(l) \/ DeadlineReached(l) \/ GraceOver(l) \/ HandlesDisposed(l)

Spec == Init /\ [][Next]_vars

\* The timers fire, and the awaited promises of closeOnce, of the scope and of
\* the handles settle.  No caller is obliged to release.
Fairness ==
  /\ \A g \in Generations : WF_vars(RetireResumes(g)) /\ WF_vars(ChildCloses(g)) /\ WF_vars(ScopeDisposed(g))
  /\ \A l \in Leases : WF_vars(DeadlineReached(l)) /\ WF_vars(GraceOver(l)) /\ WF_vars(HandlesDisposed(l))

FairSpec == Spec /\ Fairness

-----------------------------------------------------------------------------
(* What the slot promises its leases and its provider.                      *)

Unsettled(l) == phase[l] \in {"executing", "finalizing"}

\* The ledger never drifts (header, lines 7-8): a generation's ledger holds
\* exactly the leases on it that are neither released nor force-revoked, in
\* whatever order release, deadline, grace and the disposal of handles come.
LedgerExact ==
  \A g \in Generations :
    active[g] = {l \in Leases : owner[l] = g /\ Unsettled(l) /\ deadline[l] # "revoked"}

\* retire disposes the scope of a generation only when every lease on it is
\* over, however the leases end while it waits.
ScopeOutlivesLeases ==
  \A l \in Leases : Unsettled(l) /\ retire[owner[l]] \in {"disposing", "done"} => deadline[l] = "revoked"

\* beginShutdown freezes the group of protected leases of a generation: as long
\* as the generation is not being retired, which closes the child when its ledger
\* is empty, its shared child is not closed while one of them is finalizing.
GroupClosedLast ==
  \A l \in Leases : phase[l] = "finalizing" /\ retire[owner[l]] = "none" => child[owner[l]] \in {"none", "open"}

\* A finalizing lease is protected: no abort reaches it, and neither a deadline
\* nor a grace that had begun before decides to revoke it.
FinalizingProtected ==
  [][\A l \in Leases : phase[l] = "finalizing" =>
       /\ abortSource'[l] = abortSource[l]
       /\ deadline'[l] \in {"revoking", "revoked"} => deadline[l] \in {"revoking", "revoked"}]_vars

\* The gateways release in a finally block.
CallersRelease == \A l \in Leases : []<>~Unsettled(l)

\* If callers release their leases, every retirement comes to an end, whether
\* the leases were revoked before or not.
RetirementEnds ==
  CallersRelease => \A g \in Generations : (retire[g] = "draining") ~> (retire[g] \in {"done", "rejected"})

\* If callers release their leases, a shutdown closes the child of every group
\* it has frozen.  A group with a lease that began to finalize while it was
\* being revoked is left out: that lease never leaves protectedLeases.
ShutdownClosesChild ==
  CallersRelease => \A g \in Generations :
    (~gateOpen /\ groupClose[g] /\ child[g] = "open")
      ~> (child[g] # "open" \/ \E l \in protected[g] : deadline[l] \in {"revoking", "revoked"})

\* The budget of a lease is enforced without its caller: an invocation that is
\* never released and never finalizes is revoked.
OverdueLeaseEnds ==
  \A l \in Leases : (phase[l] = "executing") ~> (phase[l] # "executing" \/ deadline[l] = "revoked")

\* The comment of retire, "wait for the ledger to drain, then dispose its
\* scope" (lines 355-356): a retirement whose ledger is empty goes on.
DrainedIsRetired ==
  \A g \in Generations : (retire[g] = "draining" /\ active[g] = {}) ~> (retire[g] # "draining")

LifeOf(g) == CASE state[g] = "overwritten" -> "preparing"
               [] state[g] = "committed" -> "serving"
               [] OTHER -> state[g]

Life == [g \in Generations |-> LifeOf(g)]

Gen == INSTANCE ProviderGenerations WITH life <- Life

\* The slot implements ProviderGenerations: whatever leases, deadlines and
\* shutdown do, a generation serves once and is then retired for good, and the
\* one that displaces it serves from that very step on.
ImplementsGenerations == Gen!Spec
=============================================================================
