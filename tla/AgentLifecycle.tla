--------------------------- MODULE AgentLifecycle ---------------------------
(***************************************************************************)
(* The SubAgent coordinator of src/src/ai/agents/multi-agent-coordinator.ts*)
(* : which agents exist, which of their turns run, and how an agent and    *)
(* its descendants are closed and their resources released.                *)
(*                                                                         *)
(* The coordinator runs on one JavaScript thread.  An action of this       *)
(* module is one synchronous section of the code, from the resumption of a *)
(* callback, a call or an await to the next await.  Everything another     *)
(* actor can do between two sections of one agent is therefore an          *)
(* interleaving of actions.                                                *)
(*                                                                         *)
(* Abstracted: task names and message texts (a queue is the number of its  *)
(* messages), progress reports, timestamps and the mailbox.  Observers     *)
(* (onEvent) only look at the state, they never call the coordinator back. *)
(***************************************************************************)
EXTENDS Integers, FiniteSets

CONSTANTS
  Agents,             \* identifiers of the agents that can be spawned
  Root,               \* ROOT_AGENT_ID, the agent the coordinator starts with
  MaxResidentAgents,  \* options.maxResidentAgents, Root included
  MaxDepth,           \* options.maxDepth, depth of Root is 0
  Suspendable,        \* agents whose session implements suspend()
  External,           \* executionMode = 'externally_activated'
  Failing,            \* the session operations that may reject
  MaxTurns            \* bound: messages an agent is ever given

SessionOps == {"create", "run", "suspend", "deactivate", "dispose", "publish"}

ASSUME AgentsAssumption ==
  /\ IsFiniteSet(Agents)
  /\ Root \notin Agents
  /\ Suspendable \subseteq Agents
ASSUME LimitsAssumption ==
  /\ MaxResidentAgents \in Nat /\ MaxResidentAgents >= 2
  /\ MaxDepth \in Nat /\ MaxDepth >= 1
  /\ MaxTurns \in Nat
ASSUME ModeAssumption == External \in BOOLEAN /\ Failing \subseteq SessionOps

VARIABLES
  agents,    \* records: the AgentRecord of every agent
  closers,   \* closeAgent calls in progress: target -> records left to close
  disposed   \* the coordinator's own disposal: "no", "closing", "closed"

vars == <<agents, closers, disposed>>

-----------------------------------------------------------------------------
(* Type definitions. *)

Status == {"absent", "pending", "running", "completed", "failed",
           "interrupted", "closed"}

\* Where the promise in record.execution stands: not started ("starting", the
\* microtask of an external activation), awaiting createSession or run, about
\* to enter the finally callback of schedule, or awaiting suspend there.
Execution == {"none", "starting", "creating", "running", "settling", "suspending"}

\* Where the promise in record.cleanup stands: awaiting deactivate of the
\* session it found, awaiting the execution and the children, awaiting
\* dispose, awaiting onPhysicalResourcesClosed, settled.
Cleanup == {"none", "deactivating", "draining", "disposing", "publishing", "done"}

\* "factory": createSession is set; "open": session is set; "gone": neither.
SessionField == {"factory", "open", "gone"}

\* What the session holds outside the coordinator; no field of the record.
Native == {"none", "live", "suspended", "closed"}

AgentRecord ==
  [status: Status, parent: Agents \cup {Root}, ancestors: SUBSET Agents,
   queue: Nat, turn: Nat,
   signal: {"none", "live", "aborted"}, exec: Execution,
   session: SessionField, native: Native,
   closing: BOOLEAN, timedOut: BOOLEAN,
   resident: BOOLEAN, reserved: BOOLEAN,
   prepared: BOOLEAN, followup: BOOLEAN,
   cleanup: Cleanup, cleanupError: BOOLEAN, released: BOOLEAN]

AbsentRecord ==
  [status |-> "absent", parent |-> Root, ancestors |-> {},
   queue |-> 0, turn |-> 0, signal |-> "none", exec |-> "none",
   session |-> "gone", native |-> "none", closing |-> FALSE,
   timedOut |-> FALSE, resident |-> FALSE, reserved |-> FALSE,
   prepared |-> FALSE, followup |-> FALSE,
   cleanup |-> "none", cleanupError |-> FALSE, released |-> FALSE]

-----------------------------------------------------------------------------
(* The tree of agents, the capacity and who may change what. *)

Exists(a) == agents[a].status # "absent"
Children(a) == {c \in Agents : Exists(c) /\ agents[c].parent = a}
Subtree(a) == {a} \cup {d \in Agents : a \in agents[d].ancestors}
Depth(a) == Cardinality(agents[a].ancestors) + 1
Deepest(S) == {a \in S : \A b \in S : Depth(b) <= Depth(a)}

IsClosed(r) == r.status = "closed" \/ r.closing
InClosingSubtree(a) ==
  \E b \in {a} \cup agents[a].ancestors : agents[b].closing

\* An agent that counts against the capacity.
HoldsSlot(r) == (r.resident \/ r.reserved) /\ ~r.released
Residents == {a \in Agents : HoldsSlot(agents[a])}
HasCapacity == Cardinality(Residents) + 1 < MaxResidentAgents

IsDescendantOf(a, c) == c = Root \/ c \in agents[a].ancestors

\* A caller the coordinator accepts.  In the external mode an agent in
\* preparation has no authority yet, the host does not let it call.
OpenCaller(c) ==
  \/ c = Root
  \/ /\ c \in Agents
     /\ Exists(c)
     /\ agents[c].status # "closed"
     /\ ~InClosingSubtree(c)
     /\ ~agents[c].prepared

MayMutate(t) ==
  /\ disposed = "no"
  /\ Exists(t)
  /\ \E c \in Agents \cup {Root}, source \in {"user", "agent"} :
       /\ OpenCaller(c)
       /\ t # c
       /\ source = "agent" => IsDescendantOf(t, c)

-----------------------------------------------------------------------------
(* The turns of one agent, as functions of its record. *)

\* The condition of the loop of processQueue and of schedule.
CanRun(r) == r.queue > 0 /\ ~IsClosed(r) /\ ~r.cleanupError

\* One iteration of processQueue up to its first await: createSession for a
\* first turn, run for a session that is open.
BeginTurn(r) ==
  LET opened == r.session = "open"
  IN  [r EXCEPT !.queue = @ - 1,
                !.turn = IF External THEN @ ELSE @ + 1,
                !.signal = IF External THEN @ ELSE "live",
                !.timedOut = FALSE,
                !.native = "live",
                !.status = IF opened THEN "running" ELSE @,
                !.exec = IF opened THEN "running" ELSE "creating"]

\* A turn that returns out of processQueue: its agent is closed or timed out.
AbandonTurn(r) == [r EXCEPT !.signal = "none", !.exec = "settling"]

\* A turn that ends with a status: the finally block, and the next iteration.
EndTurn(r, status) ==
  LET ended == [r EXCEPT !.status = status, !.signal = "none"]
  IN  IF CanRun(ended) THEN BeginTurn(ended)
                       ELSE [ended EXCEPT !.exec = "settling"]

\* The status of a turn whose awaited operation settled with an outcome.
TurnStatus(r, outcome) ==
  CASE r.signal = "aborted" \/ outcome = "abort" -> "interrupted"
    [] r.signal # "aborted" /\ outcome = "ok"    -> "completed"
    [] OTHER                                     -> "failed"

\* Variants of FinishExecution: what was queued meanwhile is not scheduled;
\* the callback returns early for a closing agent.
FinishWithoutReschedule(r) == [r EXCEPT !.exec = "none", !.signal = "none"]
FinishUnlessClosing(r) ==
  IF r.closing THEN r ELSE [r EXCEPT !.exec = "none", !.signal = "none"]

\* The end of the finally callback of schedule, which schedules what was
\* queued while the execution was settling.
FinishExecution(r) ==
  LET idle == [r EXCEPT !.exec = "none", !.signal = "none"]
  IN  IF CanRun(idle) THEN BeginTurn([idle EXCEPT !.status = "pending"])
                      ELSE idle

-----------------------------------------------------------------------------
(* Closing one agent, as functions of its record. *)

Freeze(r) == [r EXCEPT !.closing = TRUE, !.queue = 0]

\* Variant of CloseRecord: closing an agent again repeats its cleanup.
CloseRecordAgain(r, preserveFailure) ==
  [Freeze(r) EXCEPT
     !.status = IF preserveFailure THEN @ ELSE "closed",
     !.signal = IF @ = "live" THEN "aborted" ELSE @,
     !.cleanup = IF @ \in {"none", "done"} THEN "draining" ELSE @]

\* The synchronous part of closeRecord.
CloseRecord(r, preserveFailure) ==
  LET status == IF preserveFailure THEN r.status ELSE "closed"
  IN  IF r.cleanup # "none"
      THEN [r EXCEPT !.status = status]
      ELSE [Freeze(r) EXCEPT
              !.status = status,
              !.signal = IF @ = "live" THEN "aborted" ELSE @,
              !.cleanup = IF r.session = "open" THEN "deactivating" ELSE "draining"]

\* The end of cleanup(): what was closed without a failure is released.
Confirm(r) ==
  IF r.cleanupError
  THEN [r EXCEPT !.cleanup = "done", !.released = FALSE]
  ELSE [r EXCEPT !.cleanup = "done", !.released = TRUE, !.session = "gone",
                 !.resident = FALSE, !.reserved = FALSE]

\* Either cleanup() ends here with a failure, or it goes on to publish.
PublishUnlessFailed(r) ==
  IF r.cleanupError THEN Confirm(r) ELSE [r EXCEPT !.cleanup = "publishing"]

-----------------------------------------------------------------------------
Init ==
  /\ agents = [a \in Agents |-> AbsentRecord]
  /\ closers = [a \in Agents |-> {}]
  /\ disposed = "no"

Becomes(a, r) ==
  /\ agents' = [agents EXCEPT ![a] = r]
  /\ UNCHANGED <<closers, disposed>>

\* createSpawnRecord: the new record of agent a under caller p.
NewRecord(p) ==
  [AbsentRecord EXCEPT
     !.status = "pending", !.parent = p, !.session = "factory",
     !.ancestors = IF p = Root THEN {} ELSE agents[p].ancestors \cup {p}]

CanSpawn(p, a) ==
  /\ disposed = "no"
  /\ ~Exists(a)
  /\ OpenCaller(p)
  /\ Cardinality(NewRecord(p).ancestors) + 1 <= MaxDepth
  /\ HasCapacity
  /\ MaxTurns > 0

\* spawn(): the first turn begins within the call.
Spawn(p, a) ==
  /\ ~External
  /\ CanSpawn(p, a)
  /\ Becomes(a, BeginTurn([NewRecord(p) EXCEPT !.resident = TRUE, !.queue = 1]))

\* Variant of FollowupTask: the abort of the execution is not looked at.
FollowupDuringAbort(t) ==
  LET r == agents[t]
      queued == [r EXCEPT !.resident = TRUE, !.queue = @ + 1, !.status = "pending"]
  IN  /\ ~External /\ MayMutate(t) /\ r.status # "closed"
      /\ ~InClosingSubtree(t) /\ ~r.cleanupError
      /\ r.resident \/ HasCapacity
      /\ r.turn + r.queue < MaxTurns
      /\ Becomes(t, IF r.exec = "none" THEN BeginTurn(queued) ELSE queued)

\* followupTask(): queued behind the execution in progress, or started.
FollowupTask(t) ==
  LET r == agents[t]
      queued == [r EXCEPT !.resident = TRUE, !.queue = @ + 1,
                          !.status = IF @ = "running" THEN @ ELSE "pending"]
  IN  /\ ~External
      /\ MayMutate(t)
      /\ r.status # "closed"
      /\ ~(r.timedOut /\ r.exec # "none")
      /\ ~InClosingSubtree(t)
      /\ ~r.cleanupError
      /\ ~(r.signal = "aborted" /\ r.exec # "none")
      /\ r.resident \/ HasCapacity
      /\ r.turn + r.queue < MaxTurns
      /\ Becomes(t, IF r.exec = "none" THEN BeginTurn(queued) ELSE queued)

\* interruptAgent(), when there is something to interrupt.
InterruptAgent(t) ==
  LET r == agents[t]
  IN  /\ MayMutate(t)
      /\ ~InClosingSubtree(t)
      /\ r.signal = "live" \/ r.queue > 0
      /\ Becomes(t, [r EXCEPT !.queue = 0, !.status = "interrupted",
                              !.signal = IF @ = "live" THEN "aborted" ELSE @])

-----------------------------------------------------------------------------
(* The external mode: a turn is reserved first, and activated or rolled     *)
(* back later by the host.  The host rolls a follow-up back only within the *)
(* section that prepared it, which leaves the record as it was.             *)

\* prepareSpawn()
PrepareSpawn(p, a) ==
  /\ External
  /\ CanSpawn(p, a)
  /\ Becomes(a, [NewRecord(p) EXCEPT !.turn = 1, !.reserved = TRUE,
                                     !.prepared = TRUE])

\* prepareFollowup()
PrepareFollowup(t) ==
  LET r == agents[t]
  IN  /\ External
      /\ MayMutate(t)
      /\ ~InClosingSubtree(t)
      /\ r.status # "closed" /\ ~r.released
      /\ r.exec = "none" /\ r.signal = "none" /\ ~r.prepared
      /\ ~r.cleanupError
      /\ r.resident \/ HasCapacity
      /\ r.turn < MaxTurns
      /\ Becomes(t, [r EXCEPT !.turn = @ + 1, !.status = "pending",
                              !.reserved = TRUE, !.prepared = TRUE,
                              !.followup = TRUE])

\* Variants of ActivatePreparedTurn: the reservation is dropped without
\* becoming a residence; an agent frozen since its preparation is started.
ActivateWithoutResidence(a, aborted) ==
  LET r == agents[a]
  IN  /\ External /\ disposed = "no" /\ r.prepared
      /\ ~InClosingSubtree(a) /\ r.status = "pending"
      /\ Becomes(a, [r EXCEPT !.prepared = FALSE, !.reserved = FALSE,
                              !.queue = @ + 1, !.signal = "live",
                              !.exec = "starting"])
ActivateWhileClosing(a, aborted) ==
  LET r == agents[a]
  IN  /\ External /\ disposed = "no" /\ r.prepared /\ r.status = "pending"
      /\ Becomes(a, [r EXCEPT !.prepared = FALSE, !.reserved = FALSE,
                              !.resident = TRUE, !.queue = @ + 1,
                              !.signal = "live", !.exec = "starting"])

\* activatePreparedTurn(), with a host signal that may be aborted already.
ActivatePreparedTurn(a, aborted) ==
  LET r == agents[a]
  IN  /\ External
      /\ disposed = "no"
      /\ r.prepared
      /\ ~InClosingSubtree(a)
      /\ r.status = "pending"
      /\ Becomes(a, [r EXCEPT !.prepared = FALSE, !.reserved = FALSE,
                              !.resident = TRUE, !.queue = @ + 1,
                              !.signal = IF aborted THEN "aborted" ELSE "live",
                              !.exec = "starting"])

\* Variant of RollbackSpawn: that the turn was activated meanwhile is not seen.
RollbackAfterActivation(a) ==
  LET r == agents[a]
  IN  /\ External
      /\ Exists(a) /\ ~r.released
      /\ r.exec = "none" /\ r.signal = "none"
      /\ Becomes(a, [r EXCEPT !.prepared = FALSE, !.reserved = FALSE,
                              !.status = "closed", !.closing = TRUE,
                              !.session = "gone", !.released = TRUE,
                              !.resident = FALSE])

\* rollbackPrepared() of a spawn.
RollbackSpawn(a) ==
  LET r == agents[a]
  IN  /\ External
      /\ r.prepared /\ ~r.followup
      /\ r.exec = "none" /\ r.signal = "none"
      /\ Becomes(a, [r EXCEPT !.prepared = FALSE, !.reserved = FALSE,
                              !.status = "closed", !.closing = TRUE,
                              !.session = "gone", !.released = TRUE,
                              !.resident = FALSE])

\* abort() of the execution handle, or of the signal given at activation.
AbortExecution(a) ==
  /\ External
  /\ agents[a].exec # "none" /\ agents[a].signal = "live"
  /\ Becomes(a, [agents[a] EXCEPT !.signal = "aborted"])

\* The microtask that enters processQueue after an external activation.
StartExternal(a) ==
  LET r == agents[a]
      begun == [r EXCEPT !.queue = @ - 1, !.timedOut = FALSE]
  IN  /\ r.exec = "starting"
      /\ Becomes(a, IF ~CanRun(r) THEN [r EXCEPT !.exec = "settling"]
                    ELSE IF r.signal = "aborted" THEN EndTurn(begun, "interrupted")
                    ELSE BeginTurn(r))

-----------------------------------------------------------------------------
(* The awaits of processQueue and of the finally callback of schedule. *)

\* createSession resolves, perhaps after its agent was interrupted or closed.
CreateSettled(a) ==
  LET opened == [agents[a] EXCEPT !.session = "open"]
  IN  /\ agents[a].exec = "creating"
      /\ Becomes(a, IF IsClosed(opened) THEN AbandonTurn(opened)
                    ELSE IF opened.signal = "aborted" THEN EndTurn(opened, "interrupted")
                    ELSE [opened EXCEPT !.status = "running", !.exec = "running"])

\* createSession rejects.  A "leak" is a ManagedAgentSessionCreationError: the
\* factory could not clean up what it had acquired.
CreateFailed(a, outcome) ==
  LET leak == outcome = "leak"
      r == agents[a]
      failed == [r EXCEPT !.native = IF leak THEN "live" ELSE "none",
                          !.session = IF leak THEN "gone" ELSE @,
                          !.cleanupError = @ \/ leak]
  IN  /\ "create" \in Failing
      /\ r.exec = "creating"
      /\ Becomes(a, IF IsClosed(r) \/ r.timedOut THEN AbandonTurn(failed)
                    ELSE EndTurn(failed, TurnStatus(failed, outcome)))

\* session.run settles.
RunSettled(a, outcome) ==
  LET r == agents[a]
  IN  /\ outcome # "ok" => "run" \in Failing
      /\ r.exec = "running"
      /\ Becomes(a, IF IsClosed(r) \/ r.timedOut THEN AbandonTurn(r)
                    ELSE EndTurn(r, TurnStatus(r, outcome)))

\* Variant of Idle: an agent with a cleanup error gives its slot back.
IdleDespiteError(r) == ~r.closing /\ r.queue = 0

Idle(r) == ~r.closing /\ r.queue = 0 /\ ~r.cleanupError

\* The finally callback of schedule: an idle agent is suspended first.
BeginSuspend(a) ==
  LET r == agents[a]
  IN  /\ r.exec = "settling"
      /\ Idle(r) /\ r.session = "open" /\ a \in Suspendable
      /\ Becomes(a, [r EXCEPT !.exec = "suspending"])

SettleExecution(a) ==
  LET r == agents[a]
  IN  /\ r.exec = "settling"
      /\ ~(Idle(r) /\ r.session = "open" /\ a \in Suspendable)
      /\ Becomes(a, FinishExecution(
            [r EXCEPT !.resident = @ /\ ~(Idle(r) /\ r.session # "open")]))

SuspendSettled(a) ==
  LET r == agents[a]
  IN  /\ r.exec = "suspending"
      /\ Becomes(a, FinishExecution(
            [r EXCEPT !.native = "suspended",
                      !.resident = @ /\ (r.closing \/ r.queue > 0)]))

SuspendFailed(a) ==
  LET r == agents[a]
  IN  /\ "suspend" \in Failing
      /\ r.exec = "suspending"
      /\ Becomes(a, FinishExecution(
            [r EXCEPT !.cleanupError = TRUE, !.queue = 0,
                      !.status = IF r.queue > 0 /\ ~IsClosed(r) THEN "failed" ELSE @]))

\* A watchdog of startWatchdog fires: the agent fails and its whole subtree is
\* frozen and closed, leaves first, in the same section.
Timeout(a) ==
  LET r == agents[a]
  IN  /\ r.exec \in {"creating", "running"}
      /\ r.signal = "live" /\ ~IsClosed(r) /\ ~r.timedOut
      /\ agents' = [b \in Agents |->
           CASE b = a -> CloseRecord([r EXCEPT !.timedOut = TRUE, !.status = "failed"], TRUE)
             [] b # a /\ a \in agents[b].ancestors -> CloseRecord(agents[b], FALSE)
             [] OTHER -> agents[b]]
      /\ UNCHANGED <<closers, disposed>>

-----------------------------------------------------------------------------
(* Closing a subtree, and the asynchronous cleanup of one record. *)

\* closeAgent(): the whole subtree is frozen and its first leaf closed.  A call
\* on an agent that another call is closing comes to the same records, those
\* that are closed included, which stay as they are.
CloseAgent(t) ==
  /\ MayMutate(t)
  /\ \E d \in Deepest(Subtree(t)) :
       /\ agents' = [b \in Agents |->
            CASE b = d -> CloseRecord(Freeze(agents[b]), FALSE)
              [] b # d /\ b \in Subtree(t) -> Freeze(agents[b])
              [] OTHER -> agents[b]]
       /\ closers' = [closers EXCEPT ![t] = (IF @ = {} THEN Subtree(t) ELSE @) \ {d}]
  /\ UNCHANGED disposed

\* closeAgent() goes on, once the cleanup it waits for has settled or its
\* bounded wait is over.
CloseNext(t) ==
  /\ \E d \in Deepest(closers[t]) :
       /\ agents' = [agents EXCEPT ![d] = CloseRecord(@, FALSE)]
       /\ closers' = [closers EXCEPT ![t] = @ \ {d}]
  /\ UNCHANGED disposed

\* dispose()
Dispose ==
  /\ disposed = "no"
  /\ disposed' = "closing"
  /\ agents' = [b \in Agents |->
       IF Exists(b) /\ ~agents[b].released THEN CloseRecord(agents[b], FALSE)
                                           ELSE agents[b]]
  /\ UNCHANGED closers

\* dispose() closes Root after its bounded waits.
DisposeEnds ==
  /\ disposed = "closing"
  /\ disposed' = "closed"
  /\ UNCHANGED <<agents, closers>>

\* deactivate() of the session that was open when the cleanup began settles.
DeactivateSettled(a, ok) ==
  LET r == agents[a]
  IN  /\ ok \/ "deactivate" \in Failing
      /\ r.cleanup = "deactivating"
      /\ Becomes(a, [r EXCEPT !.cleanup = "draining", !.cleanupError = @ \/ ~ok])

\* What cleanup() does once nothing is in flight any more.
AfterDrain(r) ==
  IF r.session = "open" THEN [r EXCEPT !.cleanup = "disposing"]
                        ELSE PublishUnlessFailed(r)

\* Variants of Drain: the execution is not awaited; the outcome of the
\* children is not looked at; a child that failed is awaited for ever.
DrainDuringExecution(a) ==
  /\ agents[a].cleanup = "draining"
  /\ Becomes(a, AfterDrain(agents[a]))
DrainIgnoringChildren(a) ==
  /\ agents[a].cleanup = "draining" /\ agents[a].exec = "none"
  /\ \A c \in Children(a) : agents[c].cleanup \in {"none", "done"}
  /\ Becomes(a, AfterDrain(agents[a]))
DrainReleasedChildren(a) ==
  /\ agents[a].cleanup = "draining" /\ agents[a].exec = "none"
  /\ \A c \in Children(a) : agents[c].released
  /\ Becomes(a, AfterDrain(agents[a]))

\* The execution has settled and so have the cleanups of all children.
Drain(a) ==
  LET r == agents[a]
      unconfirmed == \E c \in Children(a) : ~agents[c].released \/ agents[c].cleanupError
      drained == [r EXCEPT !.cleanupError = @ \/ unconfirmed]
  IN  /\ r.cleanup = "draining"
      /\ r.exec = "none"
      /\ \A c \in Children(a) : agents[c].cleanup \in {"none", "done"}
      /\ Becomes(a, AfterDrain(drained))

\* dispose() of the session settles, after the deactivate() of a session that
\* was created while the cleanup was already waiting.
DisposeSettled(a, ok) ==
  LET r == agents[a]
  IN  /\ ok \/ "dispose" \in Failing
      /\ r.cleanup = "disposing"
      /\ Becomes(a, PublishUnlessFailed(
            [r EXCEPT !.cleanupError = @ \/ ~ok,
                      !.native = IF ok THEN "closed" ELSE @]))

\* onPhysicalResourcesClosed settles.
PublishSettled(a, ok) ==
  LET r == agents[a]
  IN  /\ ok \/ "publish" \in Failing
      /\ r.cleanup = "publishing"
      /\ Becomes(a, Confirm([r EXCEPT !.cleanupError = @ \/ ~ok]))

-----------------------------------------------------------------------------
CreateReturns(a) ==
  \/ CreateSettled(a)
  \/ \E outcome \in {"error", "abort", "leak"} : CreateFailed(a, outcome)
RunReturns(a) == \E outcome \in {"ok", "error", "abort"} : RunSettled(a, outcome)
SuspendReturns(a) == SuspendSettled(a) \/ SuspendFailed(a)
DeactivateReturns(a) == \E ok \in BOOLEAN : DeactivateSettled(a, ok)
DisposeReturns(a) == \E ok \in BOOLEAN : DisposeSettled(a, ok)
PublishReturns(a) == \E ok \in BOOLEAN : PublishSettled(a, ok)

Calls ==
  \/ \E a \in Agents, p \in Agents \cup {Root} : Spawn(p, a) \/ PrepareSpawn(p, a)
  \/ \E a \in Agents : \/ FollowupTask(a)
                       \/ InterruptAgent(a)
                       \/ CloseAgent(a)
                       \/ PrepareFollowup(a)
                       \/ \E aborted \in BOOLEAN : ActivatePreparedTurn(a, aborted)
                       \/ RollbackSpawn(a)
                       \/ AbortExecution(a)
  \/ Dispose

Turns ==
  \E a \in Agents : \/ StartExternal(a)
                    \/ CreateReturns(a)
                    \/ RunReturns(a)
                    \/ BeginSuspend(a)
                    \/ SettleExecution(a)
                    \/ SuspendReturns(a)
                    \/ Timeout(a)

Closings ==
  \/ \E a \in Agents : \/ CloseNext(a)
                       \/ DeactivateReturns(a)
                       \/ Drain(a)
                       \/ DisposeReturns(a)
                       \/ PublishReturns(a)
  \/ DisposeEnds

Next == Calls \/ Turns \/ Closings

Spec == Init /\ [][Next]_vars

\* The event loop runs every continuation that is due, the bounded waits of
\* closeAgent and dispose end by their timers, and a session operation that
\* was called settles in the end.  Nothing obliges anyone to call again, to
\* activate what was prepared, or a watchdog to fire.
Fairness ==
  /\ \A a \in Agents :
       /\ WF_vars(StartExternal(a))
       /\ WF_vars(CreateReturns(a))
       /\ WF_vars(RunReturns(a))
       /\ WF_vars(BeginSuspend(a) \/ SettleExecution(a))
       /\ WF_vars(SuspendReturns(a))
       /\ WF_vars(CloseNext(a))
       /\ WF_vars(DeactivateReturns(a))
       /\ WF_vars(Drain(a))
       /\ WF_vars(DisposeReturns(a))
       /\ WF_vars(PublishReturns(a))
  /\ WF_vars(DisposeEnds)

FairSpec == Spec /\ Fairness

-----------------------------------------------------------------------------
(* Safety. *)

\* Every record, every closeAgent in progress and the disposal has its type.
TypeOK ==
  /\ agents \in [Agents -> AgentRecord]
  /\ closers \in [Agents -> SUBSET Agents]
  /\ disposed \in {"no", "closing", "closed"}

\* The sessions that hold a runtime, those being created, those whose agent
\* was closed and those that could not be cleaned up included, never exceed
\* maxResidentAgents with Root: no slot is given away before what it stands
\* for has really gone.
LiveSessions == {a \in Agents : agents[a].native = "live"}
BoundedLiveSessions == Cardinality(LiveSessions) + 1 <= MaxResidentAgents

\* closeRecord disposes a session only when no turn, no creation and no
\* suspension of its agent is in flight and every descendant's cleanup is over.
DisposedAfterUse ==
  /\ TypeOK
  /\ \A a \in Agents : agents[a].cleanup \in {"disposing", "publishing", "done"} =>
       /\ agents[a].exec = "none"
       /\ \A d \in Subtree(a) \ {a} : agents[d].cleanup \in {"none", "done"}

\* An agent reported as resourcesReleased holds no session, also not one its
\* factory delivered late, and all of its descendants are released as well.
ReleasedSubtree ==
  \A a \in Agents : agents[a].released =>
    /\ agents[a].exec = "none"
    /\ agents[a].native \in {"none", "closed"}
    /\ \A d \in Subtree(a) : agents[d].released

\* What holds of a release in the external mode as well, where a rollback reports
\* a prepared agent as released that a close may still come to: the agent and
\* all of its descendants execute nothing and hold no session.
ReleasedHoldsNothing ==
  \A a \in Agents : agents[a].released =>
    \A d \in Subtree(a) :
      agents[d].exec = "none" /\ agents[d].native \in {"none", "closed"}

\* A message accepted for an agent is never left in its queue with nothing
\* that will run it, whatever it raced with: a turn that ends, the finally
\* callback, a suspension, an interrupt.  The exception is an agent whose
\* resources could not be cleaned up, which starts no more turns.
NoLostFollowup ==
  \A a \in Agents :
    agents[a].queue > 0 /\ ~agents[a].cleanupError => agents[a].exec # "none"

-----------------------------------------------------------------------------
(* What a step may never do. *)

\* Nothing begins below a closing agent: no agent is created, no turn starts,
\* no execution comes back, and nothing is un-closed.
ClosingSubtreeStill ==
  [][\A a \in Agents : agents[a].closing =>
       /\ agents[a].closing' /\ Subtree(a)' = Subtree(a)
       /\ \A d \in Subtree(a) :
            /\ agents[d].turn' = agents[d].turn
            /\ agents[d].exec = "none" => agents[d].exec' = "none"
            /\ agents[d].status = "closed" => agents[d].status' = "closed"]_vars

\* While the execution an interrupt aborted is still settling, its agent stays
\* interrupted: a late result does not complete it and a follow-up does not
\* get queued into it.  Only a close may overtake the interrupt.
InterruptSticks ==
  [][\A a \in Agents :
       agents[a].status = "interrupted" /\ agents[a].signal = "aborted" =>
         /\ agents[a].status' \in {"interrupted", "closed"}
         /\ agents[a].queue' = 0]_vars

\* The confirmation of a release is never taken back.
ReleaseIsFinal ==
  [][\A a \in Agents : agents[a].released => agents[a].released']_vars

-----------------------------------------------------------------------------
(* Liveness. *)

\* Once the session operations settle, every execution ends: no agent stays
\* executionActive for ever, whatever was queued, interrupted or closed.
ExecutionsEnd ==
  \A a \in Agents : agents[a].exec # "none" ~> agents[a].exec = "none"

\* Every close comes to an end, with the resources confirmed or not: a parent
\* waiting for its children and the children waiting for their executions
\* never wait on each other.
ClosingEnds ==
  \A a \in Agents : agents[a].closing ~> agents[a].cleanup = "done"
=============================================================================
