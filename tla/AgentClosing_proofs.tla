------------------------ MODULE AgentClosing_proofs ------------------------
(***************************************************************************)
(* How a subtree of agents is closed and released: the properties of       *)
(* AgentLifecycle about ancestors and descendants, what of them survives   *)
(* a host that rolls prepared agents back, and, in the automatic mode,     *)
(* that it implements AgentOwnership.                                      *)
(***************************************************************************)
EXTENDS AgentRefinement, AgentLifecycle_proofs, WellFoundedInduction

-----------------------------------------------------------------------------
(* How the record of one agent may change.                                  *)

\* The fields a turn may touch.
TurnFields == {"status", "queue", "turn", "signal", "exec", "session", "native",
               "timedOut", "resident", "reserved", "prepared", "followup", "cleanupError"}

\* The turns of an agent go on, from record r to record s.
Goes(r, s) ==
  /\ Same(s, r, TurnFields)
  /\ s.status # "absent"
  /\ r.closing => s.turn = r.turn /\ (r.status = "closed" => s.status = "closed")
  /\ r.cleanupError => s.cleanupError
  /\ s.native = "suspended" /\ s.session # "open" => r.native = "suspended" /\ r.session # "open"
  /\ s.prepared /\ ~s.followup => r.prepared /\ ~r.followup /\ s.session = r.session

\* An interrupt whose execution still settles is not overtaken by a turn.
Sticks(r, s) ==
  r.status = "interrupted" /\ r.signal = "aborted" =>
    s.status \in {"interrupted", "closed"} /\ s.queue = 0

\* What Goes says of the fields a turn leaves alone.
LEMMA GoesElim ==
  ASSUME NEW r, NEW s, Goes(r, s)
  PROVE  /\ s.parent = r.parent /\ s.ancestors = r.ancestors
         /\ s.closing = r.closing /\ s.cleanup = r.cleanup /\ s.released = r.released
<1>1. Same(s, r, TurnFields)
  BY DEF Goes
<1> QED BY <1>1, SameElim DEF TurnFields

\* Same for some fields is Same for more.
LEMMA SameMore ==
  ASSUME NEW s, NEW r, NEW few, NEW many, few \subseteq many, Same(s, r, few)
  PROVE  Same(s, r, many)
BY DEF Same

\* A turn that goes on twice goes on.
LEMMA GoesTwice ==
  ASSUME NEW r, NEW s, NEW t, Goes(r, s), Goes(s, t)
  PROVE  Goes(r, t)
<1>1. Same(t, r, TurnFields)
  BY DEF Goes, Same
<1>2. s.closing = r.closing
  BY GoesElim
<1> QED BY <1>1, <1>2 DEF Goes

\* An iteration of processQueue.
LEMMA BeginTurnGoes ==
  ASSUME NEW r, IsRecord(r), CanRun(r), r.status # "absent"
  PROVE  /\ Goes(r, BeginTurn(r))
         /\ BeginTurn(r).exec \in {"creating", "running"}
         /\ BeginTurn(r).signal = IF External THEN r.signal ELSE "live"
<1> DEFINE s == BeginTurn(r)
<1>1. /\ s.native = "live"
      /\ s.signal = (IF External THEN r.signal ELSE "live")
      /\ s.status = (IF r.session = "open" THEN "running" ELSE r.status)
      /\ s.exec = (IF r.session = "open" THEN "running" ELSE "creating")
      /\ Same(s, r, {"queue", "turn", "signal", "timedOut", "native", "status", "exec"})
  BY DEF IsRecord, BeginTurn, Fields, Same
<1> HIDE DEF s
<1>2. /\ s.cleanupError = r.cleanupError /\ s.session = r.session
      /\ s.prepared = r.prepared /\ s.followup = r.followup
  BY <1>1, SameElim
<1>3. Same(s, r, TurnFields)
  BY <1>1, SameMore DEF TurnFields
<1> QED BY <1>1, <1>2, <1>3 DEF s, Goes, CanRun, IsClosed

\* A turn that returns out of processQueue.
LEMMA AbandonTurnGoes ==
  ASSUME NEW r, IsRecord(r), r.status # "absent"
  PROVE  /\ Goes(r, AbandonTurn(r))
         /\ AbandonTurn(r).exec = "settling" /\ AbandonTurn(r).signal = "none"
         /\ AbandonTurn(r).status = r.status /\ AbandonTurn(r).queue = r.queue
<1> DEFINE s == AbandonTurn(r)
<1>1. s.signal = "none" /\ s.exec = "settling" /\ Same(s, r, {"signal", "exec"})
  BY DEF IsRecord, AbandonTurn, Fields, Same
<1> HIDE DEF s
<1>2. /\ s.status = r.status /\ s.queue = r.queue /\ s.turn = r.turn
      /\ s.cleanupError = r.cleanupError
      /\ s.native = r.native /\ s.session = r.session
      /\ s.prepared = r.prepared /\ s.followup = r.followup
  BY <1>1, SameElim
<1>3. Same(s, r, TurnFields)
  BY <1>1, SameMore DEF TurnFields
<1> QED BY <1>1, <1>2, <1>3 DEF s, Goes

\* The end of a turn of an agent that is not closing; with nothing queued it
\* is the end of the execution, too.
LEMMA EndTurnGoes ==
  ASSUME NEW r, IsRecord(r), NEW status \in Status \ {"absent", "closed"}, ~r.closing
  PROVE  /\ Goes(r, EndTurn(r, status))
         /\ EndTurn(r, status).exec # "none"
         /\ EndTurn(r, status).signal \in {"none", "live"}
         /\ External => EndTurn(r, status).signal = "none"
         /\ r.queue = 0 => EndTurn(r, status).status = status /\ EndTurn(r, status).queue = 0
<1> DEFINE ended == [r EXCEPT !.status = status, !.signal = "none"]
           s == [ended EXCEPT !.exec = "settling"]
<1>1. IsRecord(ended)
  BY DEF IsRecord
<1>2. /\ ended.status = status /\ ended.signal = "none"
      /\ Same(ended, r, {"status", "signal"})
  BY DEF IsRecord, Fields, Same
<1>3. s.exec = "settling" /\ Same(s, ended, {"exec"})
  BY ZenonT(60), <1>1 DEF IsRecord, Fields, Same
<1>4. EndTurn(r, status) = IF CanRun(ended) THEN BeginTurn(ended) ELSE s
  BY DEF EndTurn
<1> HIDE DEF ended, s
<1>5. /\ ended.queue = r.queue /\ ended.turn = r.turn /\ ended.cleanupError = r.cleanupError
      /\ ended.native = r.native /\ ended.session = r.session
      /\ ended.prepared = r.prepared /\ ended.followup = r.followup
  BY <1>2, SameElim
<1>6. Same(ended, r, TurnFields)
  BY <1>2, SameMore DEF TurnFields
<1>7. Goes(r, ended)
  BY <1>2, <1>5, <1>6 DEF Goes
<1>8. CASE CanRun(ended)
  <2>1. /\ Goes(ended, BeginTurn(ended)) /\ BeginTurn(ended).exec # "none"
        /\ BeginTurn(ended).signal = IF External THEN "none" ELSE "live"
    BY <1>1, <1>2, <1>8, BeginTurnGoes
  <2>2. r.queue # 0
    BY <1>5, <1>8 DEF CanRun
  <2> QED BY <1>4, <1>7, <1>8, <2>1, <2>2, GoesTwice
<1>9. CASE ~CanRun(ended)
  <2>1. /\ s.status = ended.status /\ s.queue = ended.queue /\ s.turn = ended.turn
        /\ s.cleanupError = ended.cleanupError
        /\ s.signal = ended.signal
        /\ s.native = ended.native /\ s.session = ended.session
        /\ s.prepared = ended.prepared /\ s.followup = ended.followup
    BY <1>3, SameElim
  <2>2. Same(s, ended, TurnFields)
    BY <1>3, SameMore DEF TurnFields
  <2>3. Goes(ended, s)
    BY <1>2, <2>1, <2>2 DEF Goes
  <2> QED BY <1>2, <1>3, <1>4, <1>5, <1>7, <1>9, <2>1, <2>3, GoesTwice
<1> QED BY <1>8, <1>9

\* The end of the finally callback of schedule; with nothing queued the agent
\* is idle, with its status.
LEMMA FinishExecutionGoes ==
  ASSUME NEW r, IsRecord(r), r.status # "absent"
  PROVE  LET s == FinishExecution(r)
         IN  /\ Goes(r, s)
             /\ s.signal \in {"none", "live"} /\ (External => s.signal = "none")
             /\ s.exec = "none" => s.signal = "none"
             /\ r.closing \/ r.queue = 0 =>
                  s.exec = "none" /\ s.status = r.status /\ s.queue = r.queue
<1> DEFINE idle == [r EXCEPT !.exec = "none", !.signal = "none"]
           s == [idle EXCEPT !.status = "pending"]
<1>1. IsRecord(idle) /\ IsRecord(s)
  BY DEF IsRecord
<1>2. /\ idle.exec = "none" /\ idle.signal = "none"
      /\ Same(idle, r, {"exec", "signal"})
  BY DEF IsRecord, Fields, Same
<1>3. s.status = "pending" /\ Same(s, idle, {"status"})
  BY <1>1 DEF IsRecord, Fields, Same
<1>4. FinishExecution(r) = IF CanRun(idle) THEN BeginTurn(s) ELSE idle
  BY DEF FinishExecution
<1> HIDE DEF idle, s
<1>5. /\ idle.status = r.status /\ idle.closing = r.closing
      /\ idle.queue = r.queue /\ idle.turn = r.turn /\ idle.cleanupError = r.cleanupError
      /\ idle.native = r.native /\ idle.session = r.session
      /\ idle.prepared = r.prepared /\ idle.followup = r.followup
  BY <1>2, SameElim
<1>6. Same(idle, r, TurnFields)
  BY <1>2, SameMore DEF TurnFields
<1>7. Goes(r, idle)
  BY <1>5, <1>6 DEF Goes
<1>8. CASE CanRun(idle)
  <2>1. /\ s.closing = idle.closing /\ s.signal = idle.signal
        /\ s.queue = idle.queue /\ s.turn = idle.turn /\ s.cleanupError = idle.cleanupError
        /\ s.native = idle.native /\ s.session = idle.session
        /\ s.prepared = idle.prepared /\ s.followup = idle.followup
    BY <1>3, SameElim
  <2>2. Same(s, idle, TurnFields)
    BY <1>3, SameMore DEF TurnFields
  <2>3. Goes(idle, s) /\ CanRun(s)
    BY <1>3, <1>8, <2>1, <2>2 DEF Goes, CanRun, IsClosed
  <2>4. /\ Goes(s, BeginTurn(s)) /\ BeginTurn(s).exec # "none"
        /\ BeginTurn(s).signal = IF External THEN "none" ELSE "live"
    BY <1>1, <1>2, <1>3, <2>1, <2>3, BeginTurnGoes
  <2>5. ~(r.closing \/ r.queue = 0)
    BY <1>5, <1>8 DEF CanRun, IsClosed
  <2>6. Goes(r, BeginTurn(s))
    BY <1>7, <2>3, <2>4, GoesTwice
  <2> QED BY <1>4, <1>8, <2>4, <2>5, <2>6
<1>9. CASE ~CanRun(idle)
  BY <1>2, <1>4, <1>5, <1>7, <1>9
<1> QED BY <1>8, <1>9

-----------------------------------------------------------------------------
(* The sections that carry the turns of one agent.                          *)

\* What the invariant says of a record's interrupt: an aborted signal belongs
\* to an execution, and nothing is queued behind an interrupted one.
InterruptSafe(r) ==
  /\ r.signal # "none" => r.exec # "none"
  /\ r.status = "interrupted" /\ r.signal = "aborted" => r.queue = 0
  /\ External /\ r.status = "interrupted" => r.signal # "live"

\* An agent that was never spawned has the record it started with.
Born == \A a \in Agents : ~Exists(a) => agents[a] = AbsentRecord

\* A section in which the turns of a, and nothing else, go on.  If the agent is
\* closing, it has an execution.
TurnStep(a) ==
  /\ Becomes(a, agents'[a])
  /\ Exists(a)
  /\ agents[a].closing => agents[a].exec # "none"
  /\ Goes(agents[a], agents'[a])
  /\ Sticks(agents[a], agents'[a])
  /\ InterruptSafe(agents'[a])

\* What is assumed before each of these sections.
TurnsSafe == SlotInvariant /\ Born /\ \A a \in Agents : InterruptSafe(agents[a])

\* A section that replaces one record.
LEMMA BecomesElim ==
  ASSUME SlotInvariant, NEW a \in Agents, NEW s, Becomes(a, s)
  PROVE  agents'[a] = s /\ Becomes(a, agents'[a])
BY DEF Becomes, SlotInvariant, TypeOK

\* An agent with an execution exists.
LEMMA ExecutionExists ==
  ASSUME Born, NEW a \in Agents, agents[a].exec # "none" \/ agents[a].prepared
  PROVE  Exists(a)
BY DEF Born, AbsentRecord

\* Goes and the rest, for a record whose every changed field is known.
LEMMA TurnStepIntro ==
  ASSUME TurnsSafe, NEW a \in Agents, NEW s, Becomes(a, s),
         Exists(a), agents[a].closing => agents[a].exec # "none",
         Goes(agents[a], s), Sticks(agents[a], s), InterruptSafe(s)
  PROVE  TurnStep(a)
BY BecomesElim DEF TurnStep, TurnsSafe

\* followupTask
LEMMA FollowupTaskGoes ==
  ASSUME TurnsSafe, NEW a \in Agents, FollowupTask(a)
  PROVE  TurnStep(a)
<1> DEFINE r == agents[a]
           s == [r EXCEPT !.resident = TRUE, !.queue = r.queue + 1,
                          !.status = IF r.status = "running" THEN r.status ELSE "pending"]
<1>1. Good(r) /\ InterruptSafe(r)
  BY GoodAgents DEF TurnsSafe
<1>2. /\ Becomes(a, IF r.exec = "none" THEN BeginTurn(s) ELSE s)
      /\ ~External /\ ~r.cleanupError /\ Exists(a) /\ ~r.closing
      /\ r.signal # "aborted" \/ r.exec = "none"
  BY DEF FollowupTask, InClosingSubtree, MayMutate
<1> HIDE DEF r
<1>3. /\ IsRecord(s) /\ s.queue = r.queue + 1
      /\ s.status = (IF r.status = "running" THEN r.status ELSE "pending")
      /\ Same(s, r, {"resident", "queue", "status"})
  BY <1>1 DEF IsRecord, Fields, Same, Good
<1> HIDE DEF s
<1>4. /\ s.signal = r.signal /\ s.exec = r.exec /\ s.closing = r.closing
      /\ s.cleanupError = r.cleanupError /\ s.native = r.native /\ s.session = r.session
      /\ s.prepared = r.prepared /\ s.followup = r.followup
  BY <1>3, SameElim
<1>5. Same(s, r, TurnFields)
  BY <1>3, SameMore DEF TurnFields
<1>6. Goes(r, s) /\ r.signal # "aborted"
  BY <1>1, <1>2, <1>3, <1>4, <1>5 DEF Goes, InterruptSafe
<1>7. CASE r.exec = "none"
  <2>1. CanRun(s)
    BY <1>1, <1>2, <1>3, <1>4 DEF CanRun, IsClosed, Good, FieldsTyped
  <2>2. /\ Goes(s, BeginTurn(s)) /\ BeginTurn(s).exec # "none"
        /\ BeginTurn(s).signal = "live"
    BY <1>2, <1>3, <2>1, BeginTurnGoes
  <2>3. Goes(r, BeginTurn(s))
    BY <1>6, <2>2, GoesTwice
  <2> QED BY <1>2, <1>6, <1>7, <2>2, <2>3, TurnStepIntro DEF Sticks, InterruptSafe, r
<1>8. CASE r.exec # "none"
  BY <1>2, <1>4, <1>6, <1>8, TurnStepIntro DEF Sticks, InterruptSafe, r
<1> QED BY <1>7, <1>8

\* interruptAgent
LEMMA InterruptAgentGoes ==
  ASSUME TurnsSafe, NEW a \in Agents, InterruptAgent(a)
  PROVE  TurnStep(a)
<1> DEFINE r == agents[a]
           s == [r EXCEPT !.queue = 0, !.status = "interrupted",
                          !.signal = IF r.signal = "live" THEN "aborted" ELSE r.signal]
<1>1. Good(r) /\ InterruptSafe(r)
  BY GoodAgents DEF TurnsSafe
<1>2. Becomes(a, s) /\ Exists(a) /\ ~r.closing
  BY DEF InterruptAgent, InClosingSubtree, MayMutate
<1> HIDE DEF r
<1>3. /\ s.queue = 0 /\ s.status = "interrupted"
      /\ s.signal = (IF r.signal = "live" THEN "aborted" ELSE r.signal)
      /\ Same(s, r, {"queue", "status", "signal"})
  BY <1>1 DEF IsRecord, Fields, Same, Good
<1> HIDE DEF s
<1>4. /\ s.exec = r.exec /\ s.cleanupError = r.cleanupError
      /\ s.native = r.native /\ s.session = r.session
      /\ s.prepared = r.prepared /\ s.followup = r.followup
  BY <1>3, SameElim
<1>5. Same(s, r, TurnFields)
  BY <1>3, SameMore DEF TurnFields
<1>6. Goes(r, s)
  BY <1>2, <1>3, <1>4, <1>5 DEF Goes
<1>7. InterruptSafe(s) /\ Sticks(r, s)
  BY <1>1, <1>3, <1>4 DEF InterruptSafe, Sticks
<1> QED BY <1>2, <1>6, <1>7, TurnStepIntro DEF r

\* prepareFollowup
LEMMA PrepareFollowupGoes ==
  ASSUME TurnsSafe, NEW a \in Agents, PrepareFollowup(a)
  PROVE  TurnStep(a)
<1> DEFINE r == agents[a]
           s == [r EXCEPT !.turn = r.turn + 1, !.status = "pending",
                          !.reserved = TRUE, !.prepared = TRUE, !.followup = TRUE]
<1>1. Good(r)
  BY GoodAgents DEF TurnsSafe
<1>2. Becomes(a, s) /\ Exists(a) /\ ~r.closing /\ r.signal = "none"
  BY DEF PrepareFollowup, InClosingSubtree, MayMutate
<1> HIDE DEF r
<1>3. /\ s.status = "pending" /\ s.followup
      /\ Same(s, r, {"turn", "status", "reserved", "prepared", "followup"})
  BY <1>1 DEF IsRecord, Fields, Same, Good
<1> HIDE DEF s
<1>4. /\ s.signal = r.signal /\ s.cleanupError = r.cleanupError
      /\ s.native = r.native /\ s.session = r.session
  BY <1>3, SameElim
<1>5. Same(s, r, TurnFields)
  BY <1>3, SameMore DEF TurnFields
<1>6. Goes(r, s) /\ InterruptSafe(s) /\ Sticks(r, s)
  BY <1>2, <1>3, <1>4, <1>5 DEF Goes, InterruptSafe, Sticks
<1> QED BY <1>2, <1>6, TurnStepIntro DEF r

\* activatePreparedTurn
LEMMA ActivatePreparedTurnGoes ==
  ASSUME TurnsSafe, NEW a \in Agents, NEW aborted \in BOOLEAN, ActivatePreparedTurn(a, aborted)
  PROVE  TurnStep(a)
<1> DEFINE r == agents[a]
           s == [r EXCEPT !.prepared = FALSE, !.reserved = FALSE,
                          !.resident = TRUE, !.queue = r.queue + 1,
                          !.signal = IF aborted THEN "aborted" ELSE "live",
                          !.exec = "starting"]
<1>1. Good(r)
  BY GoodAgents DEF TurnsSafe
<1>2. Becomes(a, s) /\ r.prepared /\ ~r.closing /\ r.status = "pending"
  BY DEF ActivatePreparedTurn, InClosingSubtree
<1>3. Exists(a)
  BY <1>2 DEF Exists
<1> HIDE DEF r
<1>4. /\ ~s.prepared /\ s.exec = "starting"
      /\ Same(s, r, {"prepared", "reserved", "resident", "queue", "signal", "exec"})
  BY <1>1 DEF IsRecord, Fields, Same, Good
<1> HIDE DEF s
<1>5. /\ s.status = r.status /\ s.cleanupError = r.cleanupError
      /\ s.native = r.native /\ s.session = r.session
  BY <1>4, SameElim
<1>6. Same(s, r, TurnFields)
  BY <1>4, SameMore DEF TurnFields
<1>7. Goes(r, s) /\ InterruptSafe(s) /\ Sticks(r, s)
  BY <1>2, <1>4, <1>5, <1>6 DEF Goes, InterruptSafe, Sticks
<1> QED BY <1>2, <1>3, <1>7, TurnStepIntro DEF r

\* The abort of an execution.
LEMMA AbortExecutionGoes ==
  ASSUME TurnsSafe, NEW a \in Agents, AbortExecution(a)
  PROVE  TurnStep(a)
<1> DEFINE r == agents[a]
           s == [r EXCEPT !.signal = "aborted"]
<1>1. Good(r) /\ InterruptSafe(r) /\ Born
  BY GoodAgents DEF TurnsSafe
<1>2. Becomes(a, s) /\ External /\ r.exec # "none" /\ r.signal = "live"
  BY DEF AbortExecution
<1>3. Exists(a)
  BY <1>1, <1>2, ExecutionExists
<1> HIDE DEF r
<1>4. s.signal = "aborted" /\ Same(s, r, {"signal"})
  BY <1>1 DEF IsRecord, Fields, Same, Good
<1> HIDE DEF s
<1>5. /\ s.status = r.status /\ s.turn = r.turn /\ s.exec = r.exec
      /\ s.cleanupError = r.cleanupError /\ s.native = r.native /\ s.session = r.session
      /\ s.prepared = r.prepared /\ s.followup = r.followup
  BY <1>4, SameElim
<1>6. Same(s, r, TurnFields)
  BY <1>4, SameMore DEF TurnFields
<1>7. r.status # "absent" /\ r.status # "interrupted"
  BY <1>1, <1>2, <1>3 DEF Exists, InterruptSafe, r
<1>8. Goes(r, s)
  BY <1>5, <1>6, <1>7 DEF Goes
<1>9. InterruptSafe(s) /\ Sticks(r, s)
  BY <1>2, <1>5, <1>7 DEF InterruptSafe, Sticks
<1> QED BY <1>2, <1>3, <1>8, <1>9, TurnStepIntro DEF r

\* The status of a turn; an aborted turn is interrupted.
LEMMA TurnStatusIs ==
  ASSUME NEW r, NEW outcome
  PROVE  /\ TurnStatus(r, outcome) \in Status \ {"absent", "closed"}
         /\ r.signal = "aborted" => TurnStatus(r, outcome) = "interrupted"
<1>1. /\ TurnStatus(r, outcome) \in {"interrupted", "completed", "failed"}
      /\ r.signal = "aborted" => TurnStatus(r, outcome) = "interrupted"
  BY DEF TurnStatus
<1> QED BY <1>1 DEF Status

\* A turn that ends, or returns because its agent is closed or timed out.  s is
\* its record with what the awaited operation has done to it.
LEMMA TurnEnds ==
  ASSUME TurnsSafe, NEW a \in Agents, NEW s, NEW outcome, NEW out \in BOOLEAN,
         agents[a].exec \in {"creating", "running", "starting"},
         IsRecord(s), Goes(agents[a], s), IsClosed(s) => out,
         s.signal = agents[a].signal, s.status = agents[a].status, s.queue = agents[a].queue,
         Becomes(a, IF out THEN AbandonTurn(s) ELSE EndTurn(s, TurnStatus(s, outcome)))
  PROVE  TurnStep(a)
<1> DEFINE r == agents[a]
<1>1. InterruptSafe(r) /\ Born /\ Exists(a)
  BY ExecutionExists DEF TurnsSafe
<1>2. s.status # "absent"
  BY <1>1 DEF Exists
<1>3. CASE out
  <2> DEFINE t == AbandonTurn(s)
  <2>1. /\ Goes(s, t) /\ t.exec = "settling" /\ t.signal = "none"
        /\ t.status = s.status /\ t.queue = s.queue
    BY <1>2, AbandonTurnGoes
  <2>2. Goes(r, t) /\ Becomes(a, t)
    BY <1>3, <2>1, GoesTwice
  <2> HIDE DEF t
  <2>3. InterruptSafe(t) /\ Sticks(r, t)
    BY <1>1, <2>1 DEF InterruptSafe, Sticks
  <2> QED BY <1>1, <2>2, <2>3, TurnStepIntro
<1>4. CASE ~out
  <2> DEFINE t == EndTurn(s, TurnStatus(s, outcome))
  <2>1. ~s.closing
    BY <1>4 DEF IsClosed
  <2>2. /\ Goes(s, t) /\ t.exec # "none" /\ t.signal \in {"none", "live"}
        /\ External => t.signal = "none"
        /\ s.queue = 0 => t.status = TurnStatus(s, outcome) /\ t.queue = 0
    BY <2>1, EndTurnGoes, TurnStatusIs
  <2>3. Goes(r, t) /\ Becomes(a, t)
    BY <1>4, <2>2, GoesTwice
  <2>4. s.signal = "aborted" => TurnStatus(s, outcome) = "interrupted"
    BY TurnStatusIs
  <2> HIDE DEF t
  <2>5. InterruptSafe(t) /\ Sticks(r, t)
    BY <1>1, <2>2, <2>4 DEF InterruptSafe, Sticks
  <2> QED BY <1>1, <2>3, <2>5, TurnStepIntro
<1> QED BY <1>3, <1>4

\* The end of the finally callback of schedule.  s is the record with what the
\* callback has done to it.
LEMMA ExecutionEnds ==
  ASSUME TurnsSafe, NEW a \in Agents, NEW s,
         agents[a].exec \in {"settling", "suspending"},
         IsRecord(s), Goes(agents[a], s),
         agents[a].queue = 0 => s.queue = 0 /\ s.status = agents[a].status,
         Becomes(a, FinishExecution(s))
  PROVE  TurnStep(a)
<1> DEFINE r == agents[a]
           t == FinishExecution(s)
<1>1. InterruptSafe(r) /\ Born /\ Exists(a)
  BY ExecutionExists DEF TurnsSafe
<1>2. /\ Goes(s, t)
      /\ t.signal \in {"none", "live"} /\ (External => t.signal = "none")
      /\ t.exec = "none" => t.signal = "none"
      /\ s.closing \/ s.queue = 0 => t.exec = "none" /\ t.status = s.status /\ t.queue = s.queue
  BY FinishExecutionGoes DEF Goes
<1>3. Goes(r, t)
  BY <1>2, GoesTwice
<1> HIDE DEF t
<1>4. InterruptSafe(t) /\ Sticks(r, t)
  BY <1>1, <1>2 DEF InterruptSafe, Sticks
<1> QED BY <1>1, <1>3, <1>4, TurnStepIntro DEF t

\* The microtask that enters processQueue after an activation.
LEMMA StartExternalGoes ==
  ASSUME TurnsSafe, NEW a \in Agents, StartExternal(a)
  PROVE  TurnStep(a)
<1> DEFINE r == agents[a]
           begun == [r EXCEPT !.queue = r.queue - 1, !.timedOut = FALSE]
           s == [r EXCEPT !.exec = "settling"]
<1>1. Good(r) /\ InterruptSafe(r) /\ Born
  BY GoodAgents DEF TurnsSafe
<1>2. /\ r.exec = "starting"
      /\ Becomes(a, IF ~CanRun(r) THEN s
                    ELSE IF r.signal = "aborted" THEN EndTurn(begun, "interrupted")
                    ELSE BeginTurn(r))
  BY DEF StartExternal
<1>3. Exists(a) /\ r.status # "absent"
  BY <1>1, <1>2, ExecutionExists DEF Exists
<1> HIDE DEF r
<1>4. IsRecord(begun) /\ Same(begun, r, {"queue", "timedOut"})
  BY <1>1 DEF IsRecord, Fields, Same, Good
<1>5. s.exec = "settling" /\ Same(s, r, {"exec"})
  BY <1>1 DEF IsRecord, Fields, Same, Good
<1> HIDE DEF begun, s
<1>6. CASE ~CanRun(r)
  <2>1. /\ s.status = r.status /\ s.queue = r.queue /\ s.turn = r.turn /\ s.signal = r.signal
        /\ s.cleanupError = r.cleanupError /\ s.native = r.native /\ s.session = r.session
        /\ s.prepared = r.prepared /\ s.followup = r.followup
    BY <1>5, SameElim
  <2>2. Same(s, r, TurnFields)
    BY <1>5, SameMore DEF TurnFields
  <2>3. Goes(r, s)
    BY <1>3, <2>1, <2>2 DEF Goes
  <2>4. InterruptSafe(s) /\ Sticks(r, s)
    BY <1>1, <1>5, <2>1 DEF InterruptSafe, Sticks
  <2> QED BY <1>2, <1>3, <1>6, <2>3, <2>4, TurnStepIntro DEF r
<1>7. CASE CanRun(r) /\ r.signal = "aborted"
  <2> DEFINE t == EndTurn(begun, "interrupted")
  <2>1. /\ begun.status = r.status /\ begun.turn = r.turn /\ begun.closing = r.closing
        /\ begun.cleanupError = r.cleanupError
        /\ begun.native = r.native /\ begun.session = r.session
        /\ begun.prepared = r.prepared /\ begun.followup = r.followup
    BY <1>4, SameElim
  <2>2. Same(begun, r, TurnFields)
    BY <1>4, SameMore DEF TurnFields
  <2>3. Goes(r, begun) /\ ~begun.closing /\ r.queue # 0
    BY <1>3, <1>7, <2>1, <2>2 DEF Goes, CanRun, IsClosed
  <2>4. /\ Goes(begun, t) /\ t.exec # "none" /\ t.signal \in {"none", "live"}
        /\ External => t.signal = "none"
    BY <1>4, <2>3, EndTurnGoes DEF Status
  <2>5. Goes(r, t) /\ Becomes(a, t)
    BY <1>2, <1>7, <2>3, <2>4, GoesTwice
  <2> HIDE DEF t
  <2>6. InterruptSafe(t) /\ Sticks(r, t)
    BY <1>1, <2>3, <2>4 DEF InterruptSafe, Sticks
  <2> QED BY <1>2, <1>3, <2>5, <2>6, TurnStepIntro DEF r
<1>8. CASE CanRun(r) /\ r.signal # "aborted"
  <2> DEFINE t == BeginTurn(r)
  <2>1. /\ Goes(r, t) /\ t.exec \in {"creating", "running"}
        /\ t.signal = IF External THEN r.signal ELSE "live"
    BY <1>1, <1>3, <1>8, BeginTurnGoes DEF Good
  <2>2. t.status = "interrupted" => r.status = "interrupted"
    BY <1>1 DEF BeginTurn, Good, IsRecord, Fields
  <2>3. Becomes(a, t)
    BY <1>2, <1>8
  <2> HIDE DEF t
  <2>4. InterruptSafe(t) /\ Sticks(r, t)
    BY <1>1, <1>8, <2>1, <2>2 DEF InterruptSafe, Sticks
  <2> QED BY <1>2, <1>3, <2>1, <2>3, <2>4, TurnStepIntro DEF r
<1> QED BY <1>6, <1>7, <1>8

\* createSession resolves.
LEMMA CreateSettledGoes ==
  ASSUME TurnsSafe, NEW a \in Agents, CreateSettled(a)
  PROVE  TurnStep(a)
<1> DEFINE r == agents[a]
           opened == [r EXCEPT !.session = "open"]
           s == [opened EXCEPT !.status = "running", !.exec = "running"]
<1>1. Good(r) /\ InterruptSafe(r) /\ Born
  BY GoodAgents DEF TurnsSafe
<1>2. /\ r.exec = "creating"
      /\ Becomes(a, IF IsClosed(opened) THEN AbandonTurn(opened)
                    ELSE IF opened.signal = "aborted" THEN EndTurn(opened, "interrupted")
                    ELSE s)
  BY DEF CreateSettled
<1>3. Exists(a) /\ r.status # "absent" /\ ~r.prepared
  BY <1>1, <1>2, ExecutionExists DEF Exists, Good, SlotSafe
<1> HIDE DEF r
<1>4. IsRecord(opened) /\ opened.session = "open" /\ Same(opened, r, {"session"})
  BY <1>1 DEF IsRecord, Fields, Same, Good
<1> HIDE DEF opened
<1>5. /\ opened.status = r.status /\ opened.queue = r.queue /\ opened.turn = r.turn
      /\ opened.signal = r.signal /\ opened.cleanupError = r.cleanupError
      /\ opened.prepared = r.prepared /\ opened.followup = r.followup
  BY <1>4, SameElim
<1>6. Same(opened, r, TurnFields)
  BY <1>4, SameMore DEF TurnFields
<1>7. Goes(r, opened)
  BY <1>3, <1>4, <1>5, <1>6 DEF Goes
<1>8. CASE IsClosed(opened) \/ opened.signal = "aborted"
  <2>1. opened.signal = "aborted" => TurnStatus(opened, "abort") = "interrupted"
    BY TurnStatusIs
  <2>2. Becomes(a, IF IsClosed(opened) THEN AbandonTurn(opened)
                   ELSE EndTurn(opened, TurnStatus(opened, "abort")))
    BY <1>2, <1>8, <2>1
  <2>3. IsClosed(opened) \in BOOLEAN
    BY DEF IsClosed
  <2> QED BY <1>2, <1>4, <1>5, <1>7, <2>2, <2>3, TurnEnds DEF r
<1>9. CASE ~IsClosed(opened) /\ opened.signal # "aborted"
  <2>1. /\ s.status = "running" /\ s.exec = "running" /\ Same(s, opened, {"status", "exec"})
    BY <1>4 DEF IsRecord, Fields, Same
  <2>2. Becomes(a, s)
    BY <1>2, <1>9
  <2> HIDE DEF s
  <2>3. /\ s.signal = opened.signal /\ s.cleanupError = opened.cleanupError
        /\ s.session = opened.session
        /\ s.prepared = opened.prepared /\ s.followup = opened.followup
    BY <2>1, SameElim
  <2>4. Same(s, opened, TurnFields)
    BY <2>1, SameMore DEF TurnFields
  <2>5. Goes(opened, s)
    BY <1>4, <1>9, <2>1, <2>3, <2>4 DEF Goes, IsClosed
  <2>6. Goes(r, s) /\ InterruptSafe(s) /\ Sticks(r, s)
    BY <1>5, <1>7, <1>9, <2>1, <2>3, <2>5, GoesTwice DEF InterruptSafe, Sticks
  <2> QED BY <1>2, <1>3, <2>2, <2>6, TurnStepIntro DEF r
<1> QED BY <1>8, <1>9

\* createSession rejects.
LEMMA CreateFailedGoes ==
  ASSUME TurnsSafe, NEW a \in Agents, NEW outcome, CreateFailed(a, outcome)
  PROVE  TurnStep(a)
<1> DEFINE leak == outcome = "leak"
           r == agents[a]
           out == IsClosed(r) \/ r.timedOut
           s == [r EXCEPT !.native = IF leak THEN "live" ELSE "none",
                          !.session = IF leak THEN "gone" ELSE r.session,
                          !.cleanupError = r.cleanupError \/ leak]
<1>1. Good(r) /\ Born
  BY GoodAgents DEF TurnsSafe
<1>2. /\ r.exec = "creating"
      /\ Becomes(a, IF out THEN AbandonTurn(s) ELSE EndTurn(s, TurnStatus(s, outcome)))
  BY DEF CreateFailed
<1>3. r.status # "absent" /\ ~r.prepared
  BY <1>1, <1>2, ExecutionExists DEF Exists, Good, SlotSafe
<1> HIDE DEF r
<1>4. /\ IsRecord(s)
      /\ s.native = (IF leak THEN "live" ELSE "none")
      /\ s.cleanupError = (r.cleanupError \/ leak)
      /\ Same(s, r, {"native", "session", "cleanupError"})
  BY <1>1 DEF IsRecord, Fields, Same, Good
<1> HIDE DEF s
<1>5. /\ s.status = r.status /\ s.queue = r.queue /\ s.turn = r.turn /\ s.closing = r.closing
      /\ s.signal = r.signal /\ s.prepared = r.prepared /\ s.followup = r.followup
  BY <1>4, SameElim
<1>6. Same(s, r, TurnFields)
  BY <1>4, SameMore DEF TurnFields
<1>7. r.cleanupError => s.cleanupError
  BY <1>4, Zenon
<1>8. Goes(r, s)
  BY <1>3, <1>4, <1>5, <1>6, <1>7 DEF Goes
<1>9. out \in BOOLEAN /\ (IsClosed(s) => out)
  BY <1>1, <1>5 DEF IsClosed, Good, FieldsTyped
<1> QED BY <1>2, <1>4, <1>5, <1>8, <1>9, TurnEnds DEF r

\* session.run settles.
LEMMA RunSettledGoes ==
  ASSUME TurnsSafe, NEW a \in Agents, NEW outcome, RunSettled(a, outcome)
  PROVE  TurnStep(a)
<1> DEFINE r == agents[a]
           out == IsClosed(r) \/ r.timedOut
<1>1. Good(r) /\ Born
  BY GoodAgents DEF TurnsSafe
<1>2. /\ r.exec = "running"
      /\ Becomes(a, IF out THEN AbandonTurn(r) ELSE EndTurn(r, TurnStatus(r, outcome)))
  BY DEF RunSettled
<1>3. r.status # "absent"
  BY <1>1, <1>2, ExecutionExists DEF Exists
<1>4. Goes(r, r)
  BY <1>3 DEF Goes, Same
<1>5. out \in BOOLEAN /\ (IsClosed(r) => out)
  BY <1>1 DEF IsClosed, Good, FieldsTyped
<1> QED BY <1>1, <1>2, <1>4, <1>5, TurnEnds DEF Good

\* A suspension begins.
LEMMA BeginSuspendGoes ==
  ASSUME TurnsSafe, NEW a \in Agents, BeginSuspend(a)
  PROVE  TurnStep(a)
<1> DEFINE r == agents[a]
           s == [r EXCEPT !.exec = "suspending"]
<1>1. Good(r) /\ InterruptSafe(r) /\ Born
  BY GoodAgents DEF TurnsSafe
<1>2. Becomes(a, s) /\ r.exec = "settling"
  BY DEF BeginSuspend
<1>3. Exists(a) /\ r.status # "absent"
  BY <1>1, <1>2, ExecutionExists DEF Exists
<1> HIDE DEF r
<1>4. s.exec = "suspending" /\ Same(s, r, {"exec"})
  BY <1>1 DEF IsRecord, Fields, Same, Good
<1> HIDE DEF s
<1>5. /\ s.status = r.status /\ s.queue = r.queue /\ s.turn = r.turn /\ s.signal = r.signal
      /\ s.cleanupError = r.cleanupError /\ s.native = r.native /\ s.session = r.session
      /\ s.prepared = r.prepared /\ s.followup = r.followup
  BY <1>4, SameElim
<1>6. Same(s, r, TurnFields)
  BY <1>4, SameMore DEF TurnFields
<1>7. Goes(r, s)
  BY <1>3, <1>5, <1>6 DEF Goes
<1>8. InterruptSafe(s) /\ Sticks(r, s)
  BY <1>1, <1>4, <1>5 DEF InterruptSafe, Sticks
<1> QED BY <1>2, <1>3, <1>7, <1>8, TurnStepIntro DEF r

\* The finally callback ends without a suspension.
LEMMA SettleExecutionGoes ==
  ASSUME TurnsSafe, NEW a \in Agents, SettleExecution(a)
  PROVE  TurnStep(a)
<1> DEFINE r == agents[a]
           kept == r.resident /\ ~(Idle(r) /\ r.session # "open")
           s == [r EXCEPT !.resident = kept]
<1>1. Good(r) /\ Born
  BY GoodAgents DEF TurnsSafe
<1>2. Becomes(a, FinishExecution(s)) /\ r.exec = "settling"
  BY DEF SettleExecution
<1>3. r.status # "absent"
  BY <1>1, <1>2, ExecutionExists DEF Exists
<1> HIDE DEF r
<1>4. IsRecord(s) /\ Same(s, r, {"resident"})
  BY <1>1 DEF IsRecord, Fields, Same, Good
<1> HIDE DEF s
<1>5. /\ s.status = r.status /\ s.queue = r.queue /\ s.turn = r.turn
      /\ s.cleanupError = r.cleanupError /\ s.native = r.native /\ s.session = r.session
      /\ s.prepared = r.prepared /\ s.followup = r.followup
  BY <1>4, SameElim
<1>6. Same(s, r, TurnFields)
  BY <1>4, SameMore DEF TurnFields
<1>7. Goes(r, s)
  BY <1>3, <1>5, <1>6 DEF Goes
<1> QED BY <1>2, <1>4, <1>5, <1>7, ExecutionEnds DEF r

\* suspend resolves: the session is open, since its execution suspends it.
LEMMA SuspendSettledGoes ==
  ASSUME TurnsSafe, NEW a \in Agents, SuspendSettled(a)
  PROVE  TurnStep(a)
<1> DEFINE r == agents[a]
           kept == r.resident /\ (r.closing \/ r.queue > 0)
           s == [r EXCEPT !.native = "suspended", !.resident = kept]
<1>1. Good(r) /\ Born
  BY GoodAgents DEF TurnsSafe
<1>2. Becomes(a, FinishExecution(s)) /\ r.exec = "suspending" /\ r.session = "open"
  BY <1>1 DEF SuspendSettled, Good, SlotSafe
<1>3. r.status # "absent"
  BY <1>1, <1>2, ExecutionExists DEF Exists
<1> HIDE DEF r
<1>4. IsRecord(s) /\ Same(s, r, {"native", "resident"})
  BY <1>1 DEF IsRecord, Fields, Same, Good
<1> HIDE DEF s
<1>5. /\ s.status = r.status /\ s.queue = r.queue /\ s.turn = r.turn
      /\ s.cleanupError = r.cleanupError /\ s.session = r.session
      /\ s.prepared = r.prepared /\ s.followup = r.followup
  BY <1>4, SameElim
<1>6. Same(s, r, TurnFields)
  BY <1>4, SameMore DEF TurnFields
<1>7. Goes(r, s)
  BY <1>2, <1>3, <1>5, <1>6 DEF Goes
<1> QED BY <1>2, <1>4, <1>5, <1>7, ExecutionEnds DEF r

\* suspend rejects.
LEMMA SuspendFailedGoes ==
  ASSUME TurnsSafe, NEW a \in Agents, SuspendFailed(a)
  PROVE  TurnStep(a)
<1> DEFINE r == agents[a]
           s == [r EXCEPT !.cleanupError = TRUE, !.queue = 0,
                          !.status = IF r.queue > 0 /\ ~IsClosed(r) THEN "failed"
                                                                    ELSE r.status]
<1>1. Good(r) /\ Born
  BY GoodAgents DEF TurnsSafe
<1>2. Becomes(a, FinishExecution(s)) /\ r.exec = "suspending"
  BY DEF SuspendFailed
<1>3. r.status # "absent"
  BY <1>1, <1>2, ExecutionExists DEF Exists
<1> HIDE DEF r
<1>4. /\ IsRecord(s) /\ s.cleanupError /\ s.queue = 0
      /\ s.status = (IF r.queue > 0 /\ ~IsClosed(r) THEN "failed" ELSE r.status)
      /\ Same(s, r, {"cleanupError", "queue", "status"})
  BY <1>1 DEF IsRecord, Fields, Same, Good
<1> HIDE DEF s
<1>5. /\ s.turn = r.turn /\ s.native = r.native /\ s.session = r.session
      /\ s.prepared = r.prepared /\ s.followup = r.followup
  BY <1>4, SameElim
<1>6. Same(s, r, TurnFields)
  BY <1>4, SameMore DEF TurnFields
<1>7. Goes(r, s) /\ (r.queue = 0 => s.status = r.status)
  BY <1>3, <1>4, <1>5, <1>6 DEF Goes, IsClosed
<1> QED BY <1>2, <1>4, <1>7, ExecutionEnds DEF r

-----------------------------------------------------------------------------
(* Closing a record, and cleaning up behind it.                             *)

CloseFields == {"status", "queue", "signal", "timedOut", "closing", "cleanup"}

CleanFields == {"cleanup", "cleanupError", "released", "session", "native", "resident", "reserved"}

\* A record that is closing from record r on; its cleanup may begin.
Closes(r, s) ==
  /\ Same(s, r, CloseFields)
  /\ s.status # "absent" /\ (r.status = "closed" => s.status = "closed")
  /\ s.closing
  /\ \/ s.cleanup = r.cleanup
     \/ r.cleanup = "none" /\ s.cleanup \in {"deactivating", "draining"}
  /\ Sticks(r, s) /\ InterruptSafe(s)

\* A stage of the cleanup of a record that is closing.
Cleans(r, s) ==
  /\ Same(s, r, CleanFields)
  /\ r.closing
  /\ r.cleanup \notin {"none", "done"} /\ s.cleanup # "none"
  /\ r.cleanupError => s.cleanupError
  /\ s.session \in {r.session, "gone"}
  /\ s.native \in {r.native, "closed"}
  /\ s.released => r.released \/ (s.cleanup = "done" /\ ~s.cleanupError)

\* What releasing a record says about it: a session that was suspended has been
\* disposed.  In the automatic mode its cleanup is over without an error; in the
\* external mode the host may also have rolled back a spawn without a session.
ReleaseSafe(r) ==
  /\ r.native = "suspended" => r.session = "open" /\ ~r.released
  /\ r.prepared /\ ~r.followup => r.session # "open"
  /\ r.cleanup \in {"publishing", "done"} /\ ~r.cleanupError => r.native # "suspended"
  /\ r.cleanup = "done" /\ ~r.cleanupError => r.released
  /\ ~External /\ r.released => r.cleanup = "done" /\ ~r.cleanupError

\* Nothing of an agent is left, or will come.
Gone(r) == r.closing /\ r.exec = "none" /\ r.native \in {"none", "closed"}

\* What Closes says of the fields a close leaves alone.
LEMMA ClosesElim ==
  ASSUME NEW r, NEW s, Closes(r, s)
  PROVE  /\ s.parent = r.parent /\ s.ancestors = r.ancestors
         /\ s.turn = r.turn /\ s.exec = r.exec /\ s.session = r.session /\ s.native = r.native
         /\ s.prepared = r.prepared /\ s.followup = r.followup
         /\ s.cleanupError = r.cleanupError /\ s.released = r.released
<1>1. Same(s, r, CloseFields)
  BY DEF Closes
<1> QED BY <1>1, SameElim DEF CloseFields

\* What Cleans says of the fields a cleanup leaves alone.
LEMMA CleansElim ==
  ASSUME NEW r, NEW s, Cleans(r, s)
  PROVE  /\ s.parent = r.parent /\ s.ancestors = r.ancestors
         /\ s.status = r.status /\ s.queue = r.queue /\ s.signal = r.signal
         /\ s.turn = r.turn /\ s.exec = r.exec /\ s.closing = r.closing
         /\ s.prepared = r.prepared /\ s.followup = r.followup
<1>1. Same(s, r, CleanFields)
  BY DEF Cleans
<1> QED BY <1>1, SameElim DEF CleanFields

\* What a stage of the cleanup has to show for the release to be safe.
LEMMA CleansRelease ==
  ASSUME NEW r, NEW s, Cleans(r, s), ReleaseSafe(r), FieldsTyped(r),
         s.native = "suspended" => s.session = "open" /\ ~s.released,
         s.cleanup \in {"publishing", "done"} /\ ~s.cleanupError => s.native # "suspended",
         s.cleanup = "done" /\ ~s.cleanupError => s.released
  PROVE  ReleaseSafe(s)
<1>1. r.prepared \in BOOLEAN /\ r.followup \in BOOLEAN
  BY DEF FieldsTyped
<1>2. s.prepared /\ ~s.followup => s.session # "open"
  BY <1>1, CleansElim DEF Cleans, ReleaseSafe
<1>3. ~External /\ s.released => s.cleanup = "done" /\ ~s.cleanupError
  BY DEF Cleans, ReleaseSafe
<1> QED BY <1>2, <1>3 DEF ReleaseSafe

\* freezeRecords
LEMMA FreezeCloses ==
  ASSUME NEW r, IsRecord(r), InterruptSafe(r), r.status # "absent"
  PROVE  LET s == Freeze(r)
         IN  /\ Closes(r, s) /\ IsRecord(s)
             /\ s.status = r.status /\ s.signal = r.signal /\ s.cleanup = r.cleanup
<1> DEFINE s == Freeze(r)
<1>1. s.closing /\ s.queue = 0 /\ Same(s, r, {"closing", "queue"}) /\ IsRecord(s)
  BY DEF IsRecord, Freeze, Fields, Same
<1> HIDE DEF s
<1>2. /\ s.status = r.status /\ s.signal = r.signal /\ s.exec = r.exec
      /\ s.cleanup = r.cleanup
  BY <1>1, SameElim
<1>3. Same(s, r, CloseFields)
  BY <1>1, SameMore DEF CloseFields
<1>4. Sticks(r, s) /\ InterruptSafe(s)
  BY <1>1, <1>2 DEF Sticks, InterruptSafe
<1>5. s.closing
  BY <1>1
<1>6. Closes(r, s)
  BY <1>2, <1>3, <1>4, <1>5 DEF Closes
<1> QED BY <1>1, <1>2, <1>6 DEF s

\* The synchronous part of closeRecord; afterwards the cleanup has begun.
LEMMA CloseRecordCloses ==
  ASSUME NEW r, IsRecord(r), InterruptSafe(r), r.status # "absent",
         r.cleanup # "none" => r.closing,
         NEW preserveFailure \in BOOLEAN,
         preserveFailure => r.status \notin {"interrupted", "closed"} /\ r.cleanup = "none"
  PROVE  LET s == CloseRecord(r, preserveFailure)
         IN  Closes(r, s) /\ s.cleanup # "none"
<1> DEFINE status == IF preserveFailure THEN r.status ELSE "closed"
           s == [r EXCEPT !.status = status]
           f == Freeze(r)
           t == [f EXCEPT
                   !.status = status,
                   !.signal = IF f.signal = "live" THEN "aborted" ELSE f.signal,
                   !.cleanup = IF r.session = "open" THEN "deactivating" ELSE "draining"]
<1>1. CloseRecord(r, preserveFailure) = IF r.cleanup # "none" THEN s ELSE t
  BY DEF CloseRecord
<1>2. f.closing /\ f.queue = 0 /\ Same(f, r, {"closing", "queue"}) /\ IsRecord(f)
  BY DEF IsRecord, Freeze, Fields, Same
<1>3. CASE r.cleanup # "none"
  <2>1. s.status = "closed" /\ Same(s, r, {"status"})
    BY <1>3 DEF IsRecord, Fields, Same
  <2> HIDE DEF s
  <2>2. /\ s.closing = r.closing /\ s.cleanup = r.cleanup
        /\ s.queue = r.queue /\ s.signal = r.signal /\ s.exec = r.exec
    BY <2>1, SameElim
  <2>3. Same(s, r, CloseFields)
    BY <2>1, SameMore DEF CloseFields
  <2>4. Sticks(r, s) /\ InterruptSafe(s)
    BY <2>1, <2>2 DEF Sticks, InterruptSafe
  <2>5. Closes(r, s)
    BY <1>3, <2>1, <2>2, <2>3, <2>4 DEF Closes
  <2> QED BY <1>1, <1>3, <2>2, <2>5
<1>4. CASE r.cleanup = "none"
  <2> HIDE DEF f
  <2>1. /\ t.status = status
        /\ t.signal = (IF f.signal = "live" THEN "aborted" ELSE f.signal)
        /\ t.cleanup = (IF r.session = "open" THEN "deactivating" ELSE "draining")
        /\ Same(t, f, {"status", "signal", "cleanup"})
    BY <1>2 DEF IsRecord, Fields, Same
  <2> HIDE DEF t
  <2>2. t.closing = f.closing /\ t.queue = f.queue /\ t.exec = f.exec
    BY <2>1, SameElim
  <2>3. f.signal = r.signal /\ f.exec = r.exec
    BY <1>2, SameElim
  <2>4. Same(t, f, CloseFields) /\ Same(f, r, CloseFields)
    BY <1>2, <2>1, SameMore DEF CloseFields
  <2>5. Same(t, r, CloseFields)
    BY <2>4 DEF Same
  <2>6. Sticks(r, t)
    BY <1>2, <2>1, <2>2 DEF Sticks
  <2>7. InterruptSafe(t)
    BY <1>2, <2>1, <2>2, <2>3 DEF InterruptSafe
  <2>8. r.status = "closed" => status = "closed"
    OBVIOUS
  <2> HIDE DEF status
  <2>9. status # "absent"
    BY DEF status
  <2> QED BY <1>1, <1>2, <1>4, <2>1, <2>2, <2>5, <2>6, <2>7, <2>8, <2>9 DEF Closes
<1> QED BY <1>3, <1>4

\* Closing a frozen record.
LEMMA ClosesTwice ==
  ASSUME NEW r, NEW s, NEW t, Closes(r, s), Closes(s, t),
         s.status = r.status, s.signal = r.signal, s.cleanup = r.cleanup
  PROVE  Closes(r, t)
<1>1. Same(t, r, CloseFields)
  BY DEF Closes, Same
<1> QED BY <1>1 DEF Closes, Sticks

\* Closing does not touch what a release is judged by.
LEMMA ClosesRelease ==
  ASSUME NEW r, NEW s, Closes(r, s), ReleaseSafe(r)
  PROVE  ReleaseSafe(s)
BY ClosesElim DEF Closes, ReleaseSafe

\* The end of cleanup().
LEMMA ConfirmCleans ==
  ASSUME NEW r, IsRecord(r), r.closing, r.cleanup \notin {"none", "done"}
  PROVE  LET s == Confirm(r)
         IN  /\ Cleans(r, s) /\ s.cleanup = "done" /\ s.native = r.native
             /\ s.cleanupError = r.cleanupError
             /\ r.cleanupError => ~s.released /\ s.session = r.session
             /\ ~r.cleanupError => s.released
<1> DEFINE s == [r EXCEPT !.cleanup = "done", !.released = FALSE]
           t == [r EXCEPT !.cleanup = "done", !.released = TRUE, !.session = "gone",
                          !.resident = FALSE, !.reserved = FALSE]
<1>1. Confirm(r) = IF r.cleanupError THEN s ELSE t
  BY DEF Confirm
<1>2. s.cleanup = "done" /\ ~s.released /\ Same(s, r, {"cleanup", "released"})
  BY DEF IsRecord, Fields, Same
<1>3. /\ t.cleanup = "done" /\ t.released /\ t.session = "gone"
      /\ Same(t, r, {"cleanup", "released", "session", "resident", "reserved"})
  BY DEF IsRecord, Fields, Same
<1> HIDE DEF s, t
<1>4. s.native = r.native /\ s.session = r.session /\ s.cleanupError = r.cleanupError
  BY <1>2, SameElim
<1>5. t.native = r.native /\ t.cleanupError = r.cleanupError
  BY <1>3, SameElim
<1>6. Same(s, r, CleanFields) /\ Same(t, r, CleanFields)
  BY <1>2, <1>3, SameMore DEF CleanFields
<1>7. CASE r.cleanupError
  BY <1>1, <1>2, <1>4, <1>6, <1>7 DEF Cleans
<1>8. CASE ~r.cleanupError
  BY <1>1, <1>3, <1>5, <1>6, <1>8 DEF Cleans
<1> QED BY <1>7, <1>8

\* cleanup() ends with a failure, or goes on to publish.
LEMMA PublishUnlessFailedCleans ==
  ASSUME NEW r, IsRecord(r), r.closing, r.cleanup \notin {"none", "done"}
  PROVE  LET s == PublishUnlessFailed(r)
         IN  /\ Cleans(r, s) /\ s.native = r.native /\ s.session = r.session
             /\ s.cleanupError = r.cleanupError /\ (s.released => r.released)
             /\ s.cleanup = IF r.cleanupError THEN "done" ELSE "publishing"
<1> DEFINE s == [r EXCEPT !.cleanup = "publishing"]
<1>1. PublishUnlessFailed(r) = IF r.cleanupError THEN Confirm(r) ELSE s
  BY DEF PublishUnlessFailed
<1>2. s.cleanup = "publishing" /\ Same(s, r, {"cleanup"})
  BY DEF IsRecord, Fields, Same
<1> HIDE DEF s
<1>3. /\ s.native = r.native /\ s.session = r.session
      /\ s.cleanupError = r.cleanupError /\ s.released = r.released
  BY <1>2, SameElim
<1>4. Same(s, r, CleanFields)
  BY <1>2, SameMore DEF CleanFields
<1>5. CASE r.cleanupError
  BY <1>1, <1>5, ConfirmCleans
<1>6. CASE ~r.cleanupError
  BY <1>1, <1>2, <1>3, <1>4, <1>6 DEF Cleans
<1> QED BY <1>5, <1>6

\* cleanup() goes on when nothing is in flight any more.
LEMMA AfterDrainCleans ==
  ASSUME NEW r, IsRecord(r), r.closing, r.cleanup \notin {"none", "done"}
  PROVE  LET s == AfterDrain(r)
         IN  /\ Cleans(r, s) /\ s.native = r.native /\ s.session = r.session
             /\ s.cleanupError = r.cleanupError /\ (s.released => r.released)
             /\ s.cleanup = IF r.session = "open" THEN "disposing"
                            ELSE IF r.cleanupError THEN "done" ELSE "publishing"
<1> DEFINE s == [r EXCEPT !.cleanup = "disposing"]
<1>1. AfterDrain(r) = IF r.session = "open" THEN s ELSE PublishUnlessFailed(r)
  BY DEF AfterDrain
<1>2. s.cleanup = "disposing" /\ Same(s, r, {"cleanup"})
  BY DEF IsRecord, Fields, Same
<1> HIDE DEF s
<1>3. /\ s.native = r.native /\ s.session = r.session
      /\ s.cleanupError = r.cleanupError /\ s.released = r.released
  BY <1>2, SameElim
<1>4. Same(s, r, CleanFields)
  BY <1>2, SameMore DEF CleanFields
<1>5. CASE r.session = "open"
  BY <1>1, <1>2, <1>3, <1>4, <1>5 DEF Cleans
<1>6. CASE r.session # "open"
  BY <1>1, <1>6, PublishUnlessFailedCleans
<1> QED BY <1>5, <1>6

-----------------------------------------------------------------------------
(* The tree of agents, and the order in which a subtree is closed.          *)

\* The chain of ancestors of an agent is the chain of parents.
Ancestry ==
  /\ \A e \in Agents : e \notin agents[e].ancestors
  /\ \A e \in Agents : Exists(e) /\ agents[e].parent # Root => agents[e].parent \in agents[e].ancestors
  /\ \A e \in Agents : \A a \in agents[e].ancestors :
        /\ Exists(a)
        /\ agents[a].ancestors \subseteq agents[e].ancestors
        /\ agents[e].parent = a \/ \E c \in agents[e].ancestors : agents[c].parent = a

\* Below a closing agent all are closing, and below a spawn that has not been
\* activated there is nobody.
ClosingBelow ==
  \A e \in Agents : \A a \in agents[e].ancestors :
    /\ agents[a].closing => agents[e].closing
    /\ agents[a].prepared => agents[a].followup

\* What a call of closeAgent has still to close is frozen already.
ClosersFrozen == \A t \in Agents : \A d \in closers[t] : agents[d].closing /\ Exists(d)

TreeSafe ==
  Born /\ Ancestry /\ ClosingBelow /\ ClosersFrozen /\ \A a \in Agents : InterruptSafe(agents[a])

Past == {"disposing", "publishing", "done"}

\* The cleanup of an agent has begun, or the host has rolled the agent back.
Began(a) == agents[a].cleanup # "none" \/ agents[a].released

\* The cleanup of an agent is over, or, in the external mode, all that it was for
\* is gone; the agent is released, or likewise.
Over(a) == agents[a].cleanup = "done" \/ (External /\ Gone(agents[a]))
Freed(a) == agents[a].released \/ (External /\ Gone(agents[a]))

\* The cleanup of an agent begins after the cleanups below it have, and passes
\* its awaits after they have ended; without an error they have released all.
CleanupBelow ==
  \A e \in Agents : \A a \in agents[e].ancestors :
    /\ agents[a].cleanup # "none" => Began(e)
    /\ agents[a].cleanup \in Past => Over(e) /\ (agents[a].cleanupError \/ Freed(e))
    /\ agents[a].released => Freed(e)

\* A call of closeAgent comes to a record after everything below it.
ClosersInOrder ==
  \A t, e \in Agents : \A d \in closers[t] :
    d \in agents[e].ancestors => e \in closers[t] \/ Began(e)

CleanupSafe == CleanupBelow /\ ClosersInOrder /\ \A a \in Agents : ReleaseSafe(agents[a])

\* The inductive invariant of closing, for either mode.
ClosingInvariant == SlotInvariant /\ TreeSafe /\ CleanupSafe

-----------------------------------------------------------------------------
(* What a section may do to the records, for the properties of steps.       *)

\* What a closing, an interrupted and a released record keep.
RecordKeeps(r, s) ==
  /\ r.closing =>
       /\ s.closing /\ s.turn = r.turn
       /\ r.exec = "none" => s.exec = "none"
       /\ r.status = "closed" => s.status = "closed"
  /\ Sticks(r, s)
  /\ ~External /\ r.released => s.released
  /\ Gone(r) => Gone(s)

\* No section brings an agent into the subtree of a closing one.
SubtreeKeeps ==
  \A a, e \in Agents : agents[a].closing => (a \in agents'[e].ancestors <=> a \in agents[e].ancestors)

StepSafe ==
  /\ TreeSafe'
  /\ CleanupSafe'
  /\ \A a \in Agents : RecordKeeps(agents[a], agents'[a])
  /\ SubtreeKeeps

\* A section that neither creates an agent nor moves one.
Rooted ==
  \A e \in Agents : /\ agents'[e].parent = agents[e].parent
                    /\ agents'[e].ancestors = agents[e].ancestors
                    /\ IF Exists(e) THEN agents'[e].status # "absent" ELSE agents'[e] = agents[e]

\* Such a section leaves the tree as it is.
LEMMA RootedTree ==
  ASSUME SlotInvariant, Born, Ancestry, Rooted
  PROVE  Born' /\ Ancestry' /\ SubtreeKeeps
<1>1. \A e \in Agents : Exists(e)' <=> Exists(e)
  BY DEF Rooted, Exists, Born
<1>2. \A e \in Agents : agents[e].ancestors \subseteq Agents
  BY DEF SlotInvariant, TypeOK, AgentRecord
<1>3. Born'
  BY <1>1 DEF Born, Rooted
<1>4. Ancestry'
  <2>1. \A e \in Agents : e \notin agents'[e].ancestors
    BY DEF Ancestry, Rooted
  <2>2. ASSUME NEW e \in Agents, Exists(e)', agents'[e].parent # Root
        PROVE  agents'[e].parent \in agents'[e].ancestors
    BY <1>1, <2>2 DEF Ancestry, Rooted
  <2>3. ASSUME NEW e \in Agents, NEW a \in agents'[e].ancestors
        PROVE  /\ Exists(a)'
               /\ agents'[a].ancestors \subseteq agents'[e].ancestors
               /\ agents'[e].parent = a \/ \E c \in agents'[e].ancestors : agents'[c].parent = a
    <3>1. a \in agents[e].ancestors /\ a \in Agents
      BY <1>2, <2>3 DEF Rooted
    <3>2. Exists(a)' /\ agents'[a].ancestors \subseteq agents'[e].ancestors
      BY <1>1, <3>1 DEF Ancestry, Rooted
    <3>3. CASE agents[e].parent = a
      BY <3>2, <3>3 DEF Rooted
    <3>4. CASE \E c \in agents[e].ancestors : agents[c].parent = a
      <4>1. PICK c \in agents[e].ancestors : agents[c].parent = a
        BY <3>4
      <4>2. c \in agents'[e].ancestors /\ agents'[c].parent = a
        BY <1>2, <4>1 DEF Rooted
      <4> QED BY <3>2, <4>2
    <3> QED BY <3>1, <3>3, <3>4 DEF Ancestry
  <2> QED BY <2>1, <2>2, <2>3 DEF Ancestry
<1>5. SubtreeKeeps
  BY DEF SubtreeKeeps, Rooted
<1> QED BY <1>3, <1>4, <1>5

\* An ancestor exists and so does its descendant; neither is the other.
LEMMA AncestorFacts ==
  ASSUME SlotInvariant, Born, Ancestry, NEW e \in Agents, NEW a \in agents[e].ancestors
  PROVE  a \in Agents /\ Exists(a) /\ Exists(e) /\ a # e /\ e \notin agents[a].ancestors
<1>1. a \in Agents /\ Exists(a) /\ a # e
  BY DEF SlotInvariant, TypeOK, AgentRecord, Ancestry
<1>2. Exists(e)
  BY DEF Born, AbsentRecord
<1>3. e \notin agents[a].ancestors
  BY DEF Ancestry
<1> QED BY <1>1, <1>2, <1>3

\* What lies between an agent and one below it is its child, or below one.
LEMMA BelowChild ==
  ASSUME SlotInvariant, Born, Ancestry, NEW e \in Agents, NEW a \in agents[e].ancestors
  PROVE  \/ e \in Children(a)
         \/ \E c \in Children(a) : c \in agents[e].ancestors /\ a \in agents[c].ancestors
<1>1. a \in Agents /\ Exists(e) /\ a # Root
  BY AncestorFacts, AgentsAssumption
<1>2. CASE agents[e].parent = a
  BY <1>1, <1>2 DEF Children
<1>3. CASE \E c \in agents[e].ancestors : agents[c].parent = a
  <2>1. PICK c \in agents[e].ancestors : agents[c].parent = a
    BY <1>3
  <2>2. c \in Agents /\ Exists(c)
    BY <2>1, AncestorFacts
  <2>3. a \in agents[c].ancestors
    BY <1>1, <2>1, <2>2 DEF Ancestry
  <2> QED BY <2>1, <2>2, <2>3 DEF Children
<1> QED BY <1>2, <1>3 DEF Ancestry

\* Nobody is below the deepest of a set to which all below it belong.
LEMMA DeepestIsLeaf ==
  ASSUME SlotInvariant, Born, Ancestry, NEW S \in SUBSET Agents, NEW d \in Deepest(S),
         NEW e \in Agents, d \in agents[e].ancestors
  PROVE  e \notin S
<1> SUFFICES ASSUME e \in S PROVE FALSE
  OBVIOUS
<1> DEFINE above == agents[d].ancestors
           chain == agents[e].ancestors
<1>1. d \in Agents /\ d \notin above /\ above \cup {d} \subseteq chain
  BY AncestorFacts DEF Ancestry
<1>2. IsFiniteSet(chain) /\ IsFiniteSet(above)
  BY <1>1, AgentsAssumption, FS_Subset DEF SlotInvariant, TypeOK, AgentRecord
<1>3. Cardinality(above \cup {d}) = Cardinality(above) + 1 /\ IsFiniteSet(above \cup {d})
  BY <1>1, <1>2, FS_AddElement
<1>4. Cardinality(above \cup {d}) <= Cardinality(chain)
  BY <1>1, <1>2, FS_Subset
<1>5. Cardinality(above) \in Nat /\ Cardinality(chain) \in Nat
  BY <1>2, FS_CardinalityType
<1>6. Cardinality(chain) + 1 <= Cardinality(above) + 1
  BY DEF Deepest, Depth
<1> QED BY <1>3, <1>4, <1>5, <1>6

\* What of a cleanup is never undone.
Lasts(r, s) ==
  /\ r.cleanup # "none" \/ r.released => s.cleanup # "none" \/ s.released
  /\ r.cleanup = "done" => s.cleanup = "done"
  /\ r.cleanupError => s.cleanupError
  /\ ~External /\ r.released => s.released
  /\ Gone(r) => Gone(s)

\* What is released is gone, and what is freed needs no more cleanup.
LEMMA ReleasedGone ==
  ASSUME ClosingInvariant, NEW a \in Agents
  PROVE  /\ agents[a].released => Gone(agents[a])
         /\ Freed(a) => Over(a)
<1>1. Good(agents[a]) /\ ReleaseSafe(agents[a])
  BY GoodAgents DEF ClosingInvariant, CleanupSafe
<1>2. agents[a].released => Gone(agents[a])
  BY <1>1 DEF Good, SlotSafe, FieldsTyped, ReleaseSafe, Native, Gone
<1> QED BY <1>1, <1>2 DEF Freed, Over, ReleaseSafe

\* What was over or freed stays so.
LEMMA LastingStays ==
  ASSUME ClosingInvariant, NEW a \in Agents, Lasts(agents[a], agents'[a])
  PROVE  /\ Began(a) => Began(a)'
         /\ Over(a) => Over(a)'
         /\ Freed(a) => Freed(a)'
<1>1. agents[a].released => Gone(agents[a])
  BY ReleasedGone
<1> QED BY <1>1 DEF Began, Over, Freed, Lasts

\* A section that moves no agent keeps the order of cleanups, if what begins or
\* is released in it comes after everything below it.
LEMMA BelowStays ==
  ASSUME ClosingInvariant, \A b \in Agents : Lasts(agents[b], agents'[b]),
         \A e \in Agents : agents'[e].ancestors = agents[e].ancestors,
         \A e \in Agents : \A a \in agents[e].ancestors :
           /\ agents[a].cleanup = "none" /\ agents'[a].cleanup # "none" => Began(e)'
           /\ agents[a].cleanup \notin Past /\ agents'[a].cleanup \in Past =>
                Over(e)' /\ (agents'[a].cleanupError \/ Freed(e)')
           /\ ~agents[a].released /\ agents'[a].released => Freed(e)'
  PROVE  CleanupBelow'
<1>1. ASSUME NEW e \in Agents, NEW a \in agents[e].ancestors
      PROVE  /\ agents'[a].cleanup # "none" => Began(e)'
             /\ agents'[a].cleanup \in Past => Over(e)' /\ (agents'[a].cleanupError \/ Freed(e)')
             /\ agents'[a].released => Freed(e)'
  <2>1. a \in Agents
    BY DEF ClosingInvariant, SlotInvariant, TypeOK, AgentRecord
  <2>2. /\ agents[a].cleanup # "none" => Began(e)
        /\ agents[a].cleanup \in Past => Over(e) /\ (agents[a].cleanupError \/ Freed(e))
        /\ agents[a].released => Freed(e)
    BY DEF ClosingInvariant, CleanupSafe, CleanupBelow
  <2>3. (Began(e) => Began(e)') /\ (Over(e) => Over(e)') /\ (Freed(e) => Freed(e)')
    BY LastingStays
  <2>4. agents[a].cleanupError => agents'[a].cleanupError
    BY <2>1 DEF Lasts
  <2> QED BY <2>2, <2>3, <2>4
<1> QED BY <1>1 DEF CleanupBelow

\* So it keeps the order of the calls of closeAgent, if they stay as they are.
LEMMA ClosersStay ==
  ASSUME ClosingInvariant, \A b \in Agents : Lasts(agents[b], agents'[b]),
         \A e \in Agents : agents'[e].ancestors = agents[e].ancestors,
         NEW t \in Agents, closers'[t] = closers[t], NEW e \in Agents, NEW d \in closers'[t],
         d \in agents'[e].ancestors
  PROVE  e \in closers'[t] \/ Began(e)'
<1>1. e \in closers[t] \/ Began(e)
  BY DEF ClosingInvariant, CleanupSafe, ClosersInOrder
<1> QED BY <1>1, LastingStays

-----------------------------------------------------------------------------
(* The three kinds of sections.                                             *)

\* A section in which the turns of one agent go on.
LEMMA TurnStepSafe ==
  ASSUME ClosingInvariant, NEW a \in Agents, TurnStep(a)
  PROVE  StepSafe
<1> DEFINE r == agents[a]
           s == agents'[a]
<1>1. /\ SlotInvariant /\ TreeSafe /\ Born /\ Ancestry /\ Good(r)
      /\ agents \in [Agents -> AgentRecord]
  BY GoodAgents DEF ClosingInvariant, TreeSafe, SlotInvariant, TypeOK
<1>2. /\ \A b \in Agents : b # a => agents'[b] = agents[b]
      /\ closers' = closers
  BY <1>1 DEF TurnStep, Becomes
<1>3. /\ s.parent = r.parent /\ s.ancestors = r.ancestors
      /\ s.closing = r.closing /\ s.cleanup = r.cleanup /\ s.released = r.released
  BY GoesElim DEF TurnStep
<1>4. /\ s.status # "absent" /\ r.status # "absent"
      /\ r.cleanupError => s.cleanupError
      /\ s.prepared /\ ~s.followup => r.prepared /\ ~r.followup
      /\ r.closing => r.exec # "none"
  BY DEF TurnStep, Goes, Exists
<1>5. Rooted
  BY <1>2, <1>3, <1>4 DEF Rooted, Exists
<1>6. Born' /\ Ancestry' /\ SubtreeKeeps
  BY <1>1, <1>5, RootedTree
<1>7. ClosingBelow'
  <2>1. \A b \in Agents : agents'[b].closing = agents[b].closing
    BY <1>2, <1>3
  <2>2. \A b \in Agents : agents'[b].prepared /\ ~agents'[b].followup =>
                          agents[b].prepared /\ ~agents[b].followup
    BY <1>2, <1>4
  <2>3. \A e \in Agents : agents'[e].ancestors = agents[e].ancestors
                          /\ agents[e].ancestors \subseteq Agents
    BY <1>1, <1>5 DEF Rooted, AgentRecord
  <2> QED BY <1>1, <2>1, <2>2, <2>3 DEF ClosingBelow, TreeSafe
<1>8. \A b \in Agents : InterruptSafe(agents'[b])
  BY <1>1, <1>2 DEF TreeSafe, TurnStep
<1>9. ClosersFrozen'
  <2>1. \A t \in Agents : closers[t] \subseteq Agents
    BY <1>1 DEF SlotInvariant, TypeOK
  <2>2. \A b \in Agents : agents'[b].closing = agents[b].closing /\ (Exists(b) => Exists(b)')
    BY <1>2, <1>3, <1>5 DEF Rooted, Exists
  <2> QED BY <1>1, <1>2, <2>1, <2>2 DEF TreeSafe, ClosersFrozen
<1>10. CleanupSafe' /\ (Gone(r) => Gone(s))
  <2>1. Gone(r) => Gone(s)
    BY <1>4 DEF Gone
  <2>2. \A b \in Agents : Lasts(agents[b], agents'[b])
    BY <1>2, <1>3, <1>4, <2>1 DEF Lasts
  <2>3. \A e \in Agents : agents'[e].ancestors = agents[e].ancestors
                          /\ agents[e].ancestors \subseteq Agents
    BY <1>1, <1>5 DEF Rooted, AgentRecord
  <2>4. \A b \in Agents : /\ agents'[b].cleanup = agents[b].cleanup
                          /\ agents'[b].released = agents[b].released
    BY <1>2, <1>3
  <2>5. CleanupBelow'
    BY <2>2, <2>3, <2>4, BelowStays
  <2>6. ClosersInOrder'
    BY <1>2, <2>2, <2>3, ClosersStay DEF ClosersInOrder
  <2>7. ReleaseSafe(s)
    <3>1. ReleaseSafe(r)
      BY DEF ClosingInvariant, CleanupSafe
    <3>2. r.cleanup \notin {"publishing", "done"}
      BY <1>1, <1>4 DEF Good, SlotSafe
    <3>3. ~r.released
      BY <1>1, <1>4 DEF Good, SlotSafe
    <3>4. s.native = "suspended" => s.session = "open"
      BY <3>1 DEF TurnStep, Goes, ReleaseSafe
    <3>5. s.prepared /\ ~s.followup => s.session # "open"
      BY <3>1 DEF TurnStep, Goes, ReleaseSafe
    <3> QED BY <1>3, <3>2, <3>3, <3>4, <3>5 DEF ReleaseSafe
  <2> QED BY <1>2, <2>1, <2>5, <2>6, <2>7 DEF CleanupSafe, ClosingInvariant
<1>11. \A b \in Agents : RecordKeeps(agents[b], agents'[b])
  <2>1. RecordKeeps(r, s)
    BY <1>3, <1>4, <1>10 DEF RecordKeeps, TurnStep, Goes
  <2>2. \A b \in Agents : RecordKeeps(agents[b], agents[b])
    BY <1>1 DEF RecordKeeps, Sticks, TreeSafe, InterruptSafe
  <2> QED BY <1>2, <2>1, <2>2
<1> QED BY <1>6, <1>7, <1>8, <1>9, <1>10, <1>11 DEF StepSafe, TreeSafe

\* Every record stays as it is or is closed.
AllClose == \A b \in Agents : \/ agents'[b] = agents[b]
                              \/ Exists(b) /\ Closes(agents[b], agents'[b])

\* Closing undoes nothing.
LEMMA CloseLasts ==
  ASSUME AllClose
  PROVE  \A b \in Agents : Lasts(agents[b], agents'[b])
<1>1. ASSUME NEW b \in Agents, Closes(agents[b], agents'[b])
      PROVE  Lasts(agents[b], agents'[b])
  BY <1>1, ClosesElim DEF Lasts, Closes, Gone
<1>2. ASSUME NEW b \in Agents, agents'[b] = agents[b]
      PROVE  Lasts(agents[b], agents'[b])
  BY <1>2 DEF Lasts
<1> QED BY <1>1, <1>2 DEF AllClose

\* A section that closes records, in the right order.
LEMMA CloseStepSafe ==
  ASSUME ClosingInvariant, AllClose,
         \A e \in Agents : \A a \in agents[e].ancestors : agents'[a].closing => agents'[e].closing,
         \A e \in Agents : \A a \in agents[e].ancestors : agents'[a].cleanup # "none" => Began(e)',
         ClosersFrozen',
         ClosersInOrder'
  PROVE  StepSafe
<1>1. /\ SlotInvariant /\ TreeSafe /\ Born /\ Ancestry
      /\ agents \in [Agents -> AgentRecord]
  BY DEF ClosingInvariant, TreeSafe, SlotInvariant, TypeOK
<1>2. \A b \in Agents : /\ agents'[b].parent = agents[b].parent
                        /\ agents'[b].ancestors = agents[b].ancestors
                        /\ agents'[b].prepared = agents[b].prepared
                        /\ agents'[b].followup = agents[b].followup
                        /\ agents'[b].released = agents[b].released
                        /\ agents'[b].cleanupError = agents[b].cleanupError
  BY ClosesElim DEF AllClose
<1>3. Rooted
  BY <1>2 DEF Rooted, AllClose, Closes, Exists
<1>4. Born' /\ Ancestry' /\ SubtreeKeeps
  BY <1>1, <1>3, RootedTree
<1>5. \A e \in Agents : agents[e].ancestors \subseteq Agents
  BY <1>1 DEF AgentRecord
<1>6. ClosingBelow'
  BY <1>1, <1>2, <1>5 DEF ClosingBelow, TreeSafe
<1>7. \A b \in Agents : InterruptSafe(agents'[b])
  BY <1>1 DEF TreeSafe, AllClose, Closes
<1>8. CleanupSafe'
  <2>1. \A b \in Agents : Lasts(agents[b], agents'[b])
    BY CloseLasts
  <2>2. \A b \in Agents : agents'[b].cleanup \in Past => agents[b].cleanup \in Past
    BY DEF AllClose, Closes, Past
  <2>3. CleanupBelow'
    BY <1>2, <1>5, <2>1, <2>2, BelowStays
  <2>4. \A b \in Agents : ReleaseSafe(agents'[b])
    BY ClosesRelease DEF ClosingInvariant, CleanupSafe, AllClose
  <2> QED BY <2>3, <2>4 DEF CleanupSafe
<1>9. \A b \in Agents : RecordKeeps(agents[b], agents'[b])
  <2>1. ASSUME NEW b \in Agents, agents'[b] = agents[b]
        PROVE  RecordKeeps(agents[b], agents'[b])
    BY <1>1, <2>1 DEF RecordKeeps, Sticks, TreeSafe, InterruptSafe
  <2>2. ASSUME NEW b \in Agents, Closes(agents[b], agents'[b])
        PROVE  RecordKeeps(agents[b], agents'[b])
    BY <2>2, ClosesElim DEF RecordKeeps, Closes, Gone
  <2> QED BY <2>1, <2>2 DEF AllClose
<1> QED BY <1>4, <1>6, <1>7, <1>8, <1>9 DEF StepSafe, TreeSafe

\* A stage of the cleanup of one agent.
LEMMA CleanStepSafe ==
  ASSUME ClosingInvariant, NEW a \in Agents, NEW s, Becomes(a, s), Cleans(agents[a], s),
         ReleaseSafe(s),
         s.cleanup \in Past =>
           \A e \in Agents : a \in agents[e].ancestors =>
             Over(e) /\ (s.cleanupError \/ Freed(e))
  PROVE  StepSafe
<1> DEFINE r == agents[a]
<1>1. /\ SlotInvariant /\ TreeSafe /\ Born /\ Ancestry
      /\ agents \in [Agents -> AgentRecord]
  BY DEF ClosingInvariant, TreeSafe, SlotInvariant, TypeOK
<1>2. /\ agents'[a] = s /\ \A b \in Agents : b # a => agents'[b] = agents[b]
      /\ closers' = closers
  BY <1>1 DEF Becomes
<1>3. /\ s.parent = r.parent /\ s.ancestors = r.ancestors
      /\ s.status = r.status /\ s.queue = r.queue /\ s.signal = r.signal
      /\ s.turn = r.turn /\ s.exec = r.exec /\ s.closing = r.closing
      /\ s.prepared = r.prepared /\ s.followup = r.followup
  BY CleansElim
<1>4. r.closing /\ r.cleanup \notin {"none", "done"} /\ s.cleanup # "none" /\ Exists(a)
  BY <1>1 DEF Cleans, Born, AbsentRecord
<1>5. Rooted
  BY <1>2, <1>3, <1>4 DEF Rooted, Exists
<1>6. Born' /\ Ancestry' /\ SubtreeKeeps
  BY <1>1, <1>5, RootedTree
<1>7. \A e \in Agents : agents'[e].ancestors = agents[e].ancestors
                        /\ agents[e].ancestors \subseteq Agents
  BY <1>1, <1>5 DEF Rooted, AgentRecord
<1>8. ClosingBelow'
  BY <1>1, <1>2, <1>3, <1>7 DEF ClosingBelow, TreeSafe
<1>9. \A b \in Agents : InterruptSafe(agents'[b])
  <2>1. InterruptSafe(s)
    BY <1>1, <1>3 DEF TreeSafe, InterruptSafe
  <2> QED BY <1>1, <1>2, <2>1 DEF TreeSafe
<1>10. ClosersFrozen'
  <2>1. \A t \in Agents : closers[t] \subseteq Agents
    BY <1>1 DEF SlotInvariant, TypeOK
  <2>2. \A b \in Agents : agents'[b].closing = agents[b].closing /\ (Exists(b) => Exists(b)')
    BY <1>2, <1>3, <1>5 DEF Rooted, Exists
  <2> QED BY <1>1, <1>2, <2>1, <2>2 DEF TreeSafe, ClosersFrozen
<1>11. CleanupSafe' /\ Lasts(r, s)
  <2>1. ~External => ~r.released
    BY <1>4 DEF ClosingInvariant, CleanupSafe, ReleaseSafe
  <2>2. Gone(r) => Gone(s)
    BY <1>3 DEF Gone, Cleans
  <2>3. Lasts(r, s)
    BY <1>4, <2>1, <2>2 DEF Lasts, Cleans
  <2>4. \A b \in Agents : Lasts(agents[b], agents'[b])
    BY <1>2, <2>3 DEF Lasts
  <2>5. ASSUME NEW e \in Agents, NEW x \in agents[e].ancestors
        PROVE  /\ agents[x].cleanup = "none" /\ agents'[x].cleanup # "none" => Began(e)'
               /\ agents[x].cleanup \notin Past /\ agents'[x].cleanup \in Past =>
                    Over(e)' /\ (agents'[x].cleanupError \/ Freed(e)')
               /\ ~agents[x].released /\ agents'[x].released => Freed(e)'
    <3>1. x \in Agents /\ x # e
      BY <1>1, AncestorFacts
    <3>2. CASE x = a
      <4>1. (Over(e) => Over(e)') /\ (Freed(e) => Freed(e)')
        BY <2>4, LastingStays
      <4>2. s.cleanup \in Past => Over(e) /\ (s.cleanupError \/ Freed(e))
        BY <3>2
      <4>3. ~r.released /\ s.released => s.cleanup \in Past /\ ~s.cleanupError
        BY DEF Cleans, Past
      <4> QED BY <1>2, <1>4, <3>2, <4>1, <4>2, <4>3
    <3>3. CASE x # a
      BY <1>2, <3>1, <3>3
    <3> QED BY <3>2, <3>3
  <2>6. CleanupBelow'
    BY <1>7, <2>4, <2>5, BelowStays
  <2>7. ClosersInOrder'
    BY <1>2, <1>7, <2>4, ClosersStay DEF ClosersInOrder
  <2>8. \A b \in Agents : ReleaseSafe(agents'[b])
    BY <1>2 DEF ClosingInvariant, CleanupSafe
  <2> QED BY <2>3, <2>6, <2>7, <2>8 DEF CleanupSafe
<1>12. \A b \in Agents : RecordKeeps(agents[b], agents'[b])
  <2>1. RecordKeeps(r, s)
    BY <1>1, <1>3, <1>4, <1>11 DEF RecordKeeps, Sticks, TreeSafe, InterruptSafe, Lasts
  <2>2. \A b \in Agents : RecordKeeps(agents[b], agents[b])
    BY <1>1 DEF RecordKeeps, Sticks, TreeSafe, InterruptSafe
  <2> QED BY <1>2, <2>1, <2>2
<1> QED BY <1>6, <1>8, <1>9, <1>10, <1>11, <1>12 DEF StepSafe, TreeSafe

-----------------------------------------------------------------------------
(* Creating an agent, and rolling its creation back.                        *)

\* The record of a new agent under a caller that may call.
LEMMA BirthSafe ==
  ASSUME ClosingInvariant, NEW a \in Agents, NEW p \in Agents \cup {Root},
         ~Exists(a), OpenCaller(p), NEW s, Becomes(a, s),
         s.parent = p, s.ancestors = IF p = Root THEN {} ELSE agents[p].ancestors \cup {p},
         s.status # "absent", ~s.closing, s.cleanup = "none", ~s.released, s.native # "suspended",
         s.session # "open", InterruptSafe(s)
  PROVE  StepSafe
<1>1. /\ SlotInvariant /\ TreeSafe /\ Born /\ Ancestry
      /\ agents \in [Agents -> AgentRecord]
  BY DEF ClosingInvariant, TreeSafe, SlotInvariant, TypeOK
<1>2. /\ agents'[a] = s /\ \A b \in Agents : b # a => agents'[b] = agents[b]
      /\ closers' = closers
  BY <1>1 DEF Becomes
<1>3. /\ agents[a].ancestors = {} /\ ~agents[a].closing /\ ~agents[a].released
      /\ agents[a].cleanup = "none" /\ agents[a].status = "absent"
  BY <1>1 DEF Born, AbsentRecord
<1>4. \A e \in Agents : a \notin agents[e].ancestors /\ agents[e].ancestors \subseteq Agents
  BY <1>1, AncestorFacts DEF AgentRecord
<1>5. ASSUME NEW x \in s.ancestors
      PROVE  /\ x \in Agents /\ x # a /\ Exists(x) /\ ~agents[x].closing
             /\ agents[x].prepared => agents[x].followup
             /\ agents[x].ancestors \subseteq s.ancestors
             /\ p = x \/ \E c \in s.ancestors : agents[c].parent = x
  <2>1. p \in Agents /\ p # Root /\ x \in agents[p].ancestors \cup {p}
    BY <1>5
  <2>2. Exists(p) /\ ~InClosingSubtree(p) /\ ~agents[p].prepared
    BY <2>1 DEF OpenCaller
  <2>3. ~agents[x].closing
    BY <2>1, <2>2 DEF InClosingSubtree
  <2>4. CASE x = p
    BY <2>1, <2>2, <2>3, <2>4
  <2>5. CASE x \in agents[p].ancestors
    <3>1. x \in Agents /\ Exists(x)
      BY <1>1, <2>1, <2>5, AncestorFacts
    <3>2. agents[x].prepared => agents[x].followup
      BY <1>1, <2>1, <2>5 DEF TreeSafe, ClosingBelow
    <3>3. agents[x].ancestors \subseteq agents[p].ancestors
      BY <1>1, <2>1, <2>5 DEF Ancestry
    <3>4. agents[p].parent = x \/ \E c \in agents[p].ancestors : agents[c].parent = x
      BY <1>1, <2>1, <2>5 DEF Ancestry
    <3>5. \E c \in s.ancestors : agents[c].parent = x
      BY <2>1, <3>4
    <3> QED BY <2>1, <2>3, <3>1, <3>2, <3>3, <3>5
  <2> QED BY <2>1, <2>4, <2>5
<1>6. Born'
  BY <1>1, <1>2 DEF Born, Exists
<1>7. Ancestry'
  <2>1. a \notin s.ancestors
    BY <1>5
  <2>2. s.parent # Root => s.parent \in s.ancestors
    BY AgentsAssumption
  <2>3. ASSUME NEW x \in s.ancestors
        PROVE  /\ Exists(x)'
               /\ agents'[x].ancestors \subseteq s.ancestors
               /\ s.parent = x \/ \E c \in s.ancestors : agents'[c].parent = x
    BY <1>2, <1>5 DEF Exists
  <2>4. ASSUME NEW e \in Agents, e # a, NEW x \in agents[e].ancestors
        PROVE  /\ Exists(x)'
               /\ agents'[x].ancestors \subseteq agents[e].ancestors
               /\ agents[e].parent = x \/ \E c \in agents[e].ancestors : agents'[c].parent = x
    <3>1. x \in Agents /\ x # a
      BY <1>4, <2>4
    <3>2. Exists(x) /\ agents[x].ancestors \subseteq agents[e].ancestors
      BY <1>1 DEF Ancestry
    <3>3. agents[e].parent = x \/ \E c \in agents[e].ancestors : agents[c].parent = x
      BY <1>1 DEF Ancestry
    <3>4. \A c \in agents[e].ancestors : agents'[c] = agents[c]
      BY <1>2, <1>4
    <3> QED BY <1>2, <3>1, <3>2, <3>3, <3>4 DEF Exists
  <2>5. \A e \in Agents : e # a /\ Exists(e)' /\ agents'[e].parent # Root =>
                          agents'[e].parent \in agents'[e].ancestors
    BY <1>1, <1>2 DEF Ancestry, Exists
  <2>6. \A e \in Agents : e # a => e \notin agents'[e].ancestors
    BY <1>1, <1>2 DEF Ancestry
  <2>7. \A e \in Agents : \A x \in agents'[e].ancestors :
          /\ Exists(x)'
          /\ agents'[x].ancestors \subseteq agents'[e].ancestors
          /\ agents'[e].parent = x \/ \E c \in agents'[e].ancestors : agents'[c].parent = x
    <3>1. ASSUME NEW x \in agents'[a].ancestors
          PROVE  /\ Exists(x)'
                 /\ agents'[x].ancestors \subseteq agents'[a].ancestors
                 /\ agents'[a].parent = x \/ \E c \in agents'[a].ancestors : agents'[c].parent = x
      BY <1>2, <2>3
    <3>2. ASSUME NEW e \in Agents, e # a, NEW x \in agents'[e].ancestors
          PROVE  /\ Exists(x)'
                 /\ agents'[x].ancestors \subseteq agents'[e].ancestors
                 /\ agents'[e].parent = x \/ \E c \in agents'[e].ancestors : agents'[c].parent = x
      BY <1>2, <2>4, <3>2
    <3> QED BY <3>1, <3>2
  <2> QED BY <1>2, <2>1, <2>2, <2>5, <2>6, <2>7 DEF Ancestry
<1>8. ClosingBelow'
  <2>1. ASSUME NEW x \in s.ancestors
        PROVE  ~agents'[x].closing /\ (agents'[x].prepared => agents'[x].followup)
    BY <1>2, <1>5
  <2>2. ASSUME NEW e \in Agents, e # a, NEW x \in agents[e].ancestors
        PROVE  /\ agents'[x].closing => agents'[e].closing
               /\ agents'[x].prepared => agents'[x].followup
    BY <1>1, <1>2, <1>4, <2>2 DEF TreeSafe, ClosingBelow
  <2> QED BY <1>2, <2>1, <2>2 DEF ClosingBelow
<1>9. ClosersFrozen' /\ \A t \in Agents : \A d \in closers[t] : d \in Agents /\ agents[d].closing
  <2>1. \A t \in Agents : closers[t] \subseteq Agents
    BY <1>1 DEF SlotInvariant, TypeOK
  <2>2. \A t \in Agents : \A d \in closers[t] : d \in Agents /\ d # a /\ agents[d].closing /\ Exists(d)
    BY <1>1, <2>1 DEF TreeSafe, ClosersFrozen
  <2> QED BY <1>2, <2>2 DEF ClosersFrozen, Exists
<1>10. \A b \in Agents : InterruptSafe(agents'[b])
  BY <1>1, <1>2 DEF TreeSafe
<1>11. SubtreeKeeps
  <2>1. \A x \in Agents : agents[x].closing => x \notin s.ancestors
    BY <1>5
  <2> QED BY <1>2, <1>3, <2>1 DEF SubtreeKeeps
<1>12. CleanupSafe'
  <2>1. \A b \in Agents : /\ Began(b) => Began(b)' /\ b # a
                          /\ Over(b) => Over(b)' /\ b # a
                          /\ Freed(b) => Freed(b)' /\ b # a
    BY <1>2, <1>3 DEF Began, Over, Freed, Gone
  <2>2. ASSUME NEW x \in s.ancestors PROVE agents'[x].cleanup = "none" /\ ~agents'[x].released
    <3>1. x \in Agents /\ ~agents[x].closing /\ agents'[x] = agents[x]
      BY <1>2, <1>5
    <3> QED BY <1>1, <3>1 DEF SlotInvariant, SlotSafe
  <2>3. CleanupBelow'
    <3>1. ASSUME NEW e \in Agents, e # a, NEW x \in agents[e].ancestors
          PROVE  /\ agents'[x].cleanup # "none" => Began(e)'
                 /\ agents'[x].cleanup \in Past => Over(e)' /\ (agents'[x].cleanupError \/ Freed(e)')
                 /\ agents'[x].released => Freed(e)'
      <4>1. /\ agents[x].cleanup # "none" => Began(e)
            /\ agents[x].cleanup \in Past => Over(e) /\ (agents[x].cleanupError \/ Freed(e))
            /\ agents[x].released => Freed(e)
        BY DEF ClosingInvariant, CleanupSafe, CleanupBelow
      <4>2. agents'[x] = agents[x]
        BY <1>2, <1>4, <3>1
      <4> QED BY <2>1, <4>1, <4>2
    <3> QED BY <1>2, <2>2, <3>1 DEF CleanupBelow, Past
  <2>4. ClosersInOrder'
    BY <1>2, <1>5, <1>9, <2>1 DEF ClosingInvariant, CleanupSafe, ClosersInOrder
  <2>5. ReleaseSafe(s)
    BY DEF ReleaseSafe
  <2> QED BY <1>2, <2>3, <2>4, <2>5 DEF CleanupSafe, ClosingInvariant
<1>13. \A b \in Agents : RecordKeeps(agents[b], agents'[b])
  <2>1. RecordKeeps(agents[a], s)
    BY <1>3 DEF RecordKeeps, Sticks, Gone
  <2>2. \A b \in Agents : RecordKeeps(agents[b], agents[b])
    BY <1>1 DEF RecordKeeps, Sticks, TreeSafe, InterruptSafe
  <2> QED BY <1>2, <2>1, <2>2
<1> QED BY <1>6, <1>7, <1>8, <1>9, <1>10, <1>11, <1>12, <1>13 DEF StepSafe, TreeSafe

\* What createSpawnRecord leaves as in an absent record.
LEMMA NewRecordIs ==
  ASSUME SlotInvariant, NEW p \in Agents \cup {Root}
  PROVE  LET n == NewRecord(p)
         IN  /\ IsRecord(n) /\ n.status = "pending" /\ n.parent = p
             /\ n.ancestors = IF p = Root THEN {} ELSE agents[p].ancestors \cup {p}
             /\ n.signal = "none" /\ n.exec = "none" /\ n.native = "none"
             /\ n.queue = 0 /\ ~n.closing /\ n.cleanup = "none"
             /\ ~n.cleanupError /\ ~n.released /\ n.session = "factory"
<1> DEFINE n == NewRecord(p)
<1>1. /\ IsRecord(n) /\ n.status = "pending"
      /\ Same(n, AbsentRecord, {"status", "parent", "session", "ancestors"})
  BY NewRecordFields
<1>2. /\ n.parent = p /\ n.ancestors = IF p = Root THEN {} ELSE agents[p].ancestors \cup {p}
      /\ n.session = "factory"
  BY DEF NewRecord, AbsentRecord
<1> HIDE DEF n
<1>3. /\ n.signal = "none" /\ n.exec = "none" /\ n.native = "none"
      /\ n.queue = 0 /\ n.closing = FALSE /\ n.cleanup = "none"
      /\ n.cleanupError = FALSE /\ n.released = FALSE
  BY <1>1, SameElim DEF AbsentRecord
<1> QED BY <1>1, <1>2, <1>3 DEF n

\* spawn
LEMMA SpawnSafe ==
  ASSUME ClosingInvariant, NEW a \in Agents, NEW p \in Agents \cup {Root}, Spawn(p, a)
  PROVE  StepSafe
<1> DEFINE n == NewRecord(p)
           s == [n EXCEPT !.resident = TRUE, !.queue = 1]
           b == BeginTurn(s)
<1>1. /\ IsRecord(n) /\ n.status = "pending" /\ n.parent = p
      /\ n.ancestors = IF p = Root THEN {} ELSE agents[p].ancestors \cup {p}
      /\ n.signal = "none" /\ n.exec = "none" /\ n.native = "none"
      /\ ~n.closing /\ n.cleanup = "none" /\ ~n.cleanupError /\ ~n.released
      /\ n.session = "factory"
  BY NewRecordIs DEF ClosingInvariant
<1>2. Becomes(a, b) /\ ~Exists(a) /\ OpenCaller(p) /\ ~External
  BY DEF Spawn, CanSpawn
<1> HIDE DEF n
<1>3. IsRecord(s) /\ s.queue = 1 /\ Same(s, n, {"resident", "queue"})
  BY <1>1 DEF IsRecord, Fields, Same
<1> HIDE DEF s
<1>4. /\ s.status = n.status /\ s.parent = n.parent /\ s.ancestors = n.ancestors
      /\ s.closing = n.closing /\ s.cleanup = n.cleanup
      /\ s.cleanupError = n.cleanupError /\ s.released = n.released
      /\ s.session = n.session
  BY <1>3, SameElim
<1>5. CanRun(s)
  BY <1>1, <1>3, <1>4 DEF CanRun, IsClosed
<1>6. /\ Goes(s, b) /\ b.exec \in {"creating", "running"}
      /\ b.signal = IF External THEN s.signal ELSE "live"
  BY <1>1, <1>3, <1>4, <1>5, BeginTurnGoes
<1>7. b.native = "live" /\ b.session = s.session
  BY <1>3 DEF BeginTurn, IsRecord, Fields
<1> HIDE DEF b
<1>8. /\ b.parent = s.parent /\ b.ancestors = s.ancestors /\ b.closing = s.closing
      /\ b.cleanup = s.cleanup /\ b.released = s.released
  BY <1>6, GoesElim
<1>9. InterruptSafe(b) /\ b.status # "absent"
  BY <1>2, <1>6 DEF InterruptSafe, Goes
<1> QED BY <1>1, <1>2, <1>4, <1>7, <1>8, <1>9, BirthSafe

\* prepareSpawn
LEMMA PrepareSpawnSafe ==
  ASSUME ClosingInvariant, NEW a \in Agents, NEW p \in Agents \cup {Root}, PrepareSpawn(p, a)
  PROVE  StepSafe
<1> DEFINE n == NewRecord(p)
           s == [n EXCEPT !.turn = 1, !.reserved = TRUE, !.prepared = TRUE]
<1>1. /\ IsRecord(n) /\ n.status = "pending" /\ n.parent = p
      /\ n.ancestors = IF p = Root THEN {} ELSE agents[p].ancestors \cup {p}
      /\ n.signal = "none" /\ n.exec = "none" /\ n.native = "none"
      /\ ~n.closing /\ n.cleanup = "none" /\ ~n.released /\ n.session = "factory"
  BY NewRecordIs DEF ClosingInvariant
<1>2. Becomes(a, s) /\ ~Exists(a) /\ OpenCaller(p)
  BY DEF PrepareSpawn, CanSpawn
<1> HIDE DEF n
<1>3. Same(s, n, {"turn", "reserved", "prepared"})
  BY <1>1 DEF IsRecord, Fields, Same
<1> HIDE DEF s
<1>4. /\ s.status = n.status /\ s.parent = n.parent /\ s.ancestors = n.ancestors
      /\ s.signal = n.signal /\ s.exec = n.exec /\ s.native = n.native
      /\ s.closing = n.closing /\ s.cleanup = n.cleanup /\ s.released = n.released
      /\ s.session = n.session
  BY <1>3, SameElim
<1>5. InterruptSafe(s) /\ s.status # "absent" /\ s.native # "suspended"
  BY <1>1, <1>4 DEF InterruptSafe
<1> QED BY <1>1, <1>2, <1>4, <1>5, BirthSafe

\* rollbackPrepared of a spawn: nobody is below it.
LEMMA RollbackSpawnSafe ==
  ASSUME ClosingInvariant, NEW a \in Agents, RollbackSpawn(a)
  PROVE  StepSafe
<1> DEFINE r == agents[a]
           s == [r EXCEPT !.prepared = FALSE, !.reserved = FALSE,
                          !.status = "closed", !.closing = TRUE,
                          !.session = "gone", !.released = TRUE, !.resident = FALSE]
<1>1. /\ SlotInvariant /\ TreeSafe /\ Born /\ Ancestry /\ Good(r)
      /\ agents \in [Agents -> AgentRecord]
  BY GoodAgents DEF ClosingInvariant, TreeSafe, SlotInvariant, TypeOK
<1>2. /\ Becomes(a, s) /\ r.prepared /\ ~r.followup /\ r.signal = "none" /\ External
      /\ r.exec = "none"
  BY DEF RollbackSpawn
<1>3. \A b \in Agents : b # a => agents'[b] = agents[b]
  BY <1>1, <1>2 DEF Becomes
<1>4. agents'[a] = s /\ closers' = closers /\ Exists(a)
  BY <1>1, <1>2, ExecutionExists DEF Becomes
<1> HIDE DEF r
<1>5. /\ s.status = "closed" /\ s.closing /\ s.released /\ ~s.prepared
      /\ Same(s, r, {"prepared", "reserved", "resident", "status", "closing",
                     "session", "released"})
  BY <1>1 DEF IsRecord, Fields, Same, Good
<1> HIDE DEF s
<1>6. /\ s.parent = r.parent /\ s.ancestors = r.ancestors
      /\ s.turn = r.turn /\ s.exec = r.exec /\ s.signal = r.signal
      /\ s.native = r.native /\ s.cleanup = r.cleanup /\ s.cleanupError = r.cleanupError
  BY <1>5, SameElim
<1>7. Rooted
  BY <1>3, <1>4, <1>5, <1>6 DEF Rooted, Exists, r
<1>8. Born' /\ Ancestry' /\ SubtreeKeeps
  BY <1>1, <1>7, RootedTree
<1>9. \A e \in Agents : /\ a \notin agents[e].ancestors
                        /\ agents'[e].ancestors = agents[e].ancestors
                        /\ agents[e].ancestors \subseteq Agents
  BY <1>1, <1>2, <1>7 DEF TreeSafe, ClosingBelow, Rooted, AgentRecord, r
<1>10. ClosingBelow'
  BY <1>1, <1>3, <1>4, <1>5, <1>9 DEF ClosingBelow, TreeSafe
<1>11. ClosersFrozen'
  <2>1. \A t \in Agents : closers[t] \subseteq Agents
    BY <1>1 DEF SlotInvariant, TypeOK
  <2>2. \A b \in Agents : (agents[b].closing => agents'[b].closing) /\ (Exists(b) => Exists(b)')
    BY <1>3, <1>4, <1>5 DEF Exists
  <2> QED BY <1>1, <1>4, <2>1, <2>2 DEF TreeSafe, ClosersFrozen
<1>12. \A b \in Agents : InterruptSafe(agents'[b]) /\ RecordKeeps(agents[b], agents'[b])
  <2>1. InterruptSafe(s) /\ RecordKeeps(r, s)
    BY <1>2, <1>5, <1>6 DEF InterruptSafe, RecordKeeps, Sticks, Gone
  <2>2. \A b \in Agents : InterruptSafe(agents[b]) /\ RecordKeeps(agents[b], agents[b])
    BY <1>1 DEF RecordKeeps, Sticks, TreeSafe, InterruptSafe
  <2> QED BY <1>3, <1>4, <2>1, <2>2 DEF r
<1>13. ReleaseSafe(r) /\ r.native \in {"none", "closed"}
  <2>1. ReleaseSafe(r)
    BY DEF ClosingInvariant, CleanupSafe, r
  <2> QED BY <1>1, <1>2, <2>1 DEF ReleaseSafe, Good, SlotSafe, FieldsTyped, Native
<1>14. CleanupSafe'
  <2>1. Lasts(r, s)
    BY <1>2, <1>5, <1>6 DEF Lasts, Gone
  <2>2. \A b \in Agents : Lasts(agents[b], agents'[b])
    BY <1>3, <1>4, <2>1 DEF Lasts, r
  <2>3. \A e \in Agents : \A x \in agents[e].ancestors : x \in Agents /\ agents'[x] = agents[x]
    BY <1>3, <1>9
  <2>4. CleanupBelow'
    BY <1>9, <2>2, <2>3, BelowStays
  <2>5. ClosersInOrder'
    BY <1>4, <1>9, <2>2, ClosersStay DEF ClosersInOrder
  <2>6. ReleaseSafe(s)
    BY <1>2, <1>5, <1>6, <1>13 DEF ReleaseSafe
  <2>7. \A b \in Agents : ReleaseSafe(agents'[b])
    BY <1>3, <1>4, <2>6 DEF ClosingInvariant, CleanupSafe
  <2> QED BY <2>4, <2>5, <2>7 DEF CleanupSafe
<1> QED BY <1>8, <1>10, <1>11, <1>12, <1>14 DEF StepSafe, TreeSafe

-----------------------------------------------------------------------------
(* Closing: a watchdog, closeAgent, dispose.                                *)

\* The watchdog of an agent closes it and everything below it.
LEMMA TimeoutSafe ==
  ASSUME ClosingInvariant, NEW a \in Agents, Timeout(a)
  PROVE  StepSafe /\ AllClose
<1> DEFINE r == agents[a]
           t == [r EXCEPT !.timedOut = TRUE, !.status = "failed"]
           s == CloseRecord(t, TRUE)
<1>1. /\ SlotInvariant /\ TreeSafe /\ Born /\ Ancestry /\ Good(r)
      /\ agents \in [Agents -> AgentRecord]
      /\ \A b \in Agents : Good(agents[b]) /\ InterruptSafe(agents[b])
  BY GoodAgents DEF ClosingInvariant, TreeSafe, SlotInvariant, TypeOK
<1>2. r.exec # "none" /\ r.signal = "live" /\ ~IsClosed(r) /\ closers' = closers
  BY DEF Timeout
<1>3. /\ agents'[a] = s
      /\ \A b \in Agents : b # a => agents'[b] = IF a \in agents[b].ancestors
                                                 THEN CloseRecord(agents[b], FALSE)
                                                 ELSE agents[b]
  BY DEF Timeout
<1>4. Exists(a) /\ r.cleanup = "none"
  BY <1>1, <1>2, ExecutionExists DEF Good, SlotSafe, IsClosed
<1>5. Closes(r, s) /\ s.cleanup # "none"
  <2> HIDE DEF r
  <2>1. t.timedOut /\ t.status = "failed" /\ IsRecord(t) /\ Same(t, r, {"timedOut", "status"})
    BY <1>1 DEF IsRecord, Fields, Same, Good
  <2> HIDE DEF t
  <2>2. /\ t.signal = r.signal /\ t.exec = r.exec /\ t.cleanup = r.cleanup
        /\ t.queue = r.queue /\ t.closing = r.closing
    BY <2>1, SameElim
  <2>3. InterruptSafe(t)
    BY <1>2, <2>1, <2>2 DEF InterruptSafe
  <2>4. Closes(t, s) /\ s.cleanup # "none"
    BY <1>4, <2>1, <2>2, <2>3, CloseRecordCloses
  <2> HIDE DEF s
  <2>5. Same(s, r, CloseFields)
    BY <2>1, <2>4 DEF Closes, Same, CloseFields
  <2>6. Sticks(r, s)
    BY <1>2 DEF Sticks
  <2> QED BY <1>2, <2>2, <2>4, <2>5, <2>6 DEF Closes, IsClosed
<1> HIDE DEF s
<1>6. ASSUME NEW b \in Agents, b # a, a \in agents[b].ancestors
      PROVE  Exists(b) /\ Closes(agents[b], agents'[b]) /\ agents'[b].cleanup # "none"
  <2>1. Exists(b) /\ agents[b].status # "absent"
    BY <1>1, <1>6, AncestorFacts DEF Exists
  <2>2. IsRecord(agents[b]) /\ (agents[b].cleanup # "none" => agents[b].closing)
    BY <1>1 DEF Good, SlotSafe
  <2> QED BY <1>1, <1>3, <1>6, <2>1, <2>2, CloseRecordCloses
<1>7. AllClose
  BY <1>3, <1>4, <1>5, <1>6 DEF AllClose
<1>8. ASSUME NEW b \in Agents, b = a \/ a \in agents[b].ancestors
      PROVE  agents'[b].closing /\ agents'[b].cleanup # "none"
  BY <1>3, <1>5, <1>6, <1>8 DEF Closes
<1>9. \A b \in Agents : b # a /\ a \notin agents[b].ancestors => agents'[b] = agents[b]
  BY <1>3
<1>10. ASSUME NEW e \in Agents, NEW x \in agents[e].ancestors, x = a \/ a \in agents[x].ancestors
       PROVE  a \in agents[e].ancestors
  BY <1>1, <1>10 DEF Ancestry
<1>11. \A e \in Agents : agents[e].ancestors \subseteq Agents
  BY <1>1 DEF AgentRecord
<1>12. \A b \in Agents : /\ agents[b].closing => agents'[b].closing
                         /\ agents[b].cleanup # "none" => agents'[b].cleanup # "none"
                         /\ Exists(b) => Exists(b)'
  BY <1>7 DEF AllClose, Closes, Exists
<1>13. ASSUME NEW e \in Agents, NEW x \in agents[e].ancestors
       PROVE  /\ agents'[x].closing => agents'[e].closing
              /\ agents'[x].cleanup # "none" => Began(e)'
  <2>1. CASE x = a \/ a \in agents[x].ancestors
    BY <1>8, <1>10, <2>1 DEF Began
  <2>2. CASE ~(x = a \/ a \in agents[x].ancestors)
    <3>1. agents'[x] = agents[x]
      BY <1>9, <1>11, <2>2
    <3>2. agents[x].cleanup # "none" => Began(e)
      BY DEF ClosingInvariant, CleanupSafe, CleanupBelow
    <3>3. Began(e) => Began(e)'
      BY <1>7, CloseLasts, LastingStays
    <3> QED BY <1>1, <1>12, <3>1, <3>2, <3>3 DEF TreeSafe, ClosingBelow
  <2> QED BY <2>1, <2>2
<1>14. \A x \in Agents : closers[x] \subseteq Agents
  BY <1>1 DEF SlotInvariant, TypeOK
<1>15. ClosersFrozen'
  BY <1>1, <1>2, <1>12, <1>14 DEF TreeSafe, ClosersFrozen
<1>16. \A b \in Agents : agents'[b].ancestors = agents[b].ancestors
  BY <1>7, ClosesElim DEF AllClose
<1>17. ClosersInOrder'
  BY <1>2, <1>7, <1>16, CloseLasts, ClosersStay DEF ClosersInOrder
<1> QED BY <1>7, <1>13, <1>15, <1>17, CloseStepSafe

\* closeAgent
LEMMA CloseAgentSafe ==
  ASSUME ClosingInvariant, NEW t \in Agents, CloseAgent(t)
  PROVE  StepSafe /\ AllClose
<1>1. /\ SlotInvariant /\ TreeSafe /\ Born /\ Ancestry
      /\ agents \in [Agents -> AgentRecord] /\ closers \in [Agents -> SUBSET Agents]
      /\ \A b \in Agents : Good(agents[b]) /\ InterruptSafe(agents[b])
  BY GoodAgents DEF ClosingInvariant, TreeSafe, SlotInvariant, TypeOK
<1>2. PICK d \in Deepest(Subtree(t)) :
        /\ agents' = [b \in Agents |->
             CASE b = d -> CloseRecord(Freeze(agents[b]), FALSE)
               [] b # d /\ b \in Subtree(t) -> Freeze(agents[b])
               [] OTHER -> agents[b]]
        /\ closers' = [closers EXCEPT ![t] = (IF @ = {} THEN Subtree(t) ELSE @) \ {d}]
  BY DEF CloseAgent
<1>3. Subtree(t) \subseteq Agents /\ d \in Subtree(t) /\ d \in Agents
  BY DEF Subtree, Deepest
<1>4. /\ agents'[d] = CloseRecord(Freeze(agents[d]), FALSE)
      /\ \A b \in Agents : b # d => agents'[b] = IF b \in Subtree(t) THEN Freeze(agents[b])
                                                                    ELSE agents[b]
  BY <1>2, <1>3
<1>5. /\ closers'[t] = (IF closers[t] = {} THEN Subtree(t) ELSE closers[t]) \ {d}
      /\ \A x \in Agents : x # t => closers'[x] = closers[x]
  BY <1>1, <1>2
<1>6. ASSUME NEW b \in Subtree(t)
      PROVE  Exists(b)
  BY <1>1, <1>3, AncestorFacts DEF Subtree, CloseAgent, MayMutate
<1>7. ASSUME NEW b \in Subtree(t), b # d
      PROVE  Closes(agents[b], agents'[b]) /\ agents'[b].cleanup = agents[b].cleanup
  BY <1>1, <1>3, <1>4, <1>6, <1>7, FreezeCloses DEF Exists, Good
<1>8. Closes(agents[d], agents'[d]) /\ agents'[d].cleanup # "none"
  <2> DEFINE f == Freeze(agents[d])
  <2>1. /\ Closes(agents[d], f) /\ IsRecord(f)
        /\ f.status = agents[d].status /\ f.signal = agents[d].signal
        /\ f.cleanup = agents[d].cleanup
    BY <1>1, <1>3, <1>6, FreezeCloses DEF Exists, Good
  <2> HIDE DEF f
  <2>2. InterruptSafe(f) /\ f.status # "absent" /\ f.closing
    BY <2>1 DEF Closes
  <2>3. Closes(f, CloseRecord(f, FALSE)) /\ CloseRecord(f, FALSE).cleanup # "none"
    BY <2>1, <2>2, CloseRecordCloses
  <2>4. agents'[d] = CloseRecord(f, FALSE)
    BY <1>4 DEF f
  <2> QED BY <2>1, <2>3, <2>4, ClosesTwice
<1>9. AllClose
  BY <1>3, <1>4, <1>6, <1>7, <1>8 DEF AllClose
<1>10. \A b \in Agents : /\ agents[b].closing => agents'[b].closing
                         /\ agents[b].cleanup # "none" => agents'[b].cleanup # "none"
                         /\ Exists(b) => Exists(b)'
                         /\ agents'[b].ancestors = agents[b].ancestors
  BY <1>9, ClosesElim DEF AllClose, Closes, Exists
<1>11. \A e \in Agents : agents[e].ancestors \subseteq Agents
  BY <1>1 DEF AgentRecord
<1>12. \A b \in Subtree(t) : agents'[b].closing /\ Exists(b)'
  BY <1>3, <1>6, <1>7, <1>8, <1>10 DEF Closes
<1>13. \A e \in Agents : \A x \in agents[e].ancestors : x \in Subtree(t) => e \in Subtree(t)
  BY <1>1 DEF Subtree, Ancestry
<1>14. ASSUME NEW e \in Agents, NEW x \in agents[e].ancestors, agents'[x].closing
       PROVE  agents'[e].closing
  <2>1. CASE x \in Subtree(t)
    BY <1>12, <1>13, <2>1
  <2>2. CASE x \notin Subtree(t)
    BY <1>1, <1>3, <1>4, <1>10, <1>11, <1>14, <2>2 DEF TreeSafe, ClosingBelow
  <2> QED BY <2>1, <2>2
<1>15. \A b \in Agents : b # d => agents'[b].cleanup = agents[b].cleanup
  BY <1>4, <1>7
<1>16. ASSUME NEW e \in Agents, NEW x \in agents[e].ancestors, agents'[x].cleanup # "none"
       PROVE  Began(e)'
  <2>1. x # d
    BY <1>3, <1>13, <1>1, <1>16, DeepestIsLeaf
  <2>2. Began(e)
    BY <1>11, <1>15, <1>16, <2>1 DEF ClosingInvariant, CleanupSafe, CleanupBelow
  <2> QED BY <1>9, <2>2, CloseLasts, LastingStays
<1>17. ClosersFrozen'
  BY <1>1, <1>3, <1>5, <1>10, <1>12 DEF TreeSafe, ClosersFrozen
<1>18. ClosersInOrder'
  <2>1. ASSUME NEW e \in Agents, NEW x \in closers'[t], x \in agents'[e].ancestors
        PROVE  e \in closers'[t] \/ Began(e)'
    <3>1. CASE closers[t] = {}
      BY <1>3, <1>5, <1>8, <1>10, <1>13, <2>1, <3>1 DEF Began
    <3>2. CASE closers[t] # {}
      <4>1. e \in closers[t] \/ Began(e)
        BY <1>5, <1>10, <2>1, <3>2 DEF ClosingInvariant, CleanupSafe, ClosersInOrder
      <4>2. Began(e) => Began(e)'
        BY <1>9, CloseLasts, LastingStays
      <4> QED BY <1>5, <1>8, <3>2, <4>1, <4>2 DEF Began
    <3> QED BY <3>1, <3>2
  <2>2. ASSUME NEW y \in Agents, y # t, NEW e \in Agents, NEW x \in closers'[y],
               x \in agents'[e].ancestors
        PROVE  e \in closers'[y] \/ Began(e)'
    BY <1>5, <1>9, <1>10, <2>2, CloseLasts, ClosersStay
  <2> QED BY <2>1, <2>2 DEF ClosersInOrder
<1> QED BY <1>9, <1>14, <1>16, <1>17, <1>18, CloseStepSafe

\* closeAgent goes on to the next record.
LEMMA CloseNextSafe ==
  ASSUME ClosingInvariant, NEW t \in Agents, CloseNext(t)
  PROVE  StepSafe /\ AllClose
<1>1. /\ SlotInvariant /\ TreeSafe /\ Born /\ Ancestry
      /\ agents \in [Agents -> AgentRecord] /\ closers \in [Agents -> SUBSET Agents]
      /\ \A b \in Agents : Good(agents[b]) /\ InterruptSafe(agents[b])
  BY GoodAgents DEF ClosingInvariant, TreeSafe, SlotInvariant, TypeOK
<1>2. PICK d \in Deepest(closers[t]) :
        /\ agents' = [agents EXCEPT ![d] = CloseRecord(@, FALSE)]
        /\ closers' = [closers EXCEPT ![t] = @ \ {d}]
  BY DEF CloseNext
<1>3. d \in closers[t] /\ d \in Agents /\ closers[t] \subseteq Agents
  BY <1>1 DEF Deepest
<1>4. /\ agents'[d] = CloseRecord(agents[d], FALSE)
      /\ \A b \in Agents : b # d => agents'[b] = agents[b]
  BY <1>1, <1>2, <1>3
<1>5. closers'[t] = closers[t] \ {d} /\ \A x \in Agents : x # t => closers'[x] = closers[x]
  BY <1>1, <1>2
<1>6. agents[d].closing /\ Exists(d)
  BY <1>1, <1>3 DEF TreeSafe, ClosersFrozen
<1>7. Closes(agents[d], agents'[d]) /\ agents'[d].cleanup # "none"
  BY <1>1, <1>3, <1>4, <1>6, CloseRecordCloses DEF Exists, Good
<1>8. AllClose
  BY <1>3, <1>4, <1>6, <1>7 DEF AllClose
<1>9. \A b \in Agents : /\ agents'[b].closing <=> agents[b].closing
                        /\ agents[b].cleanup # "none" => agents'[b].cleanup # "none"
                        /\ Exists(b) => Exists(b)'
                        /\ agents'[b].ancestors = agents[b].ancestors
                        /\ agents[b].ancestors \subseteq Agents
  <2>1. \A b \in Agents : agents[b].ancestors \subseteq Agents
    BY <1>1 DEF AgentRecord
  <2> QED BY <1>4, <1>6, <1>8, <2>1, ClosesElim DEF AllClose, Closes, Exists
<1>10. ASSUME NEW e \in Agents, NEW x \in agents[e].ancestors, agents'[x].closing
       PROVE  agents'[e].closing
  BY <1>1, <1>9, <1>10 DEF TreeSafe, ClosingBelow
<1>11. ASSUME NEW e \in Agents, NEW x \in agents[e].ancestors, agents'[x].cleanup # "none"
       PROVE  Began(e)'
  <2>1. CASE x = d
    <3>1. e \notin closers[t]
      BY <1>1, <1>2, <1>3, <1>11, <2>1, DeepestIsLeaf
    <3> QED BY <1>3, <1>8, <1>11, <2>1, <3>1, CloseLasts, LastingStays
        DEF ClosingInvariant, CleanupSafe, ClosersInOrder
  <2>2. CASE x # d
    <3>1. Began(e)
      BY <1>4, <1>9, <1>11, <2>2 DEF ClosingInvariant, CleanupSafe, CleanupBelow
    <3> QED BY <1>8, <3>1, CloseLasts, LastingStays
  <2> QED BY <2>1, <2>2
<1>12. ClosersFrozen'
  BY <1>1, <1>5, <1>9 DEF TreeSafe, ClosersFrozen
<1>13. ClosersInOrder'
  <2>1. ASSUME NEW e \in Agents, NEW x \in closers'[t], x \in agents'[e].ancestors
        PROVE  e \in closers'[t] \/ Began(e)'
    <3>1. e \in closers[t] \/ Began(e)
      BY <1>5, <1>9, <2>1 DEF ClosingInvariant, CleanupSafe, ClosersInOrder
    <3>2. Began(e) => Began(e)'
      BY <1>8, CloseLasts, LastingStays
    <3>3. Began(d)'
      BY <1>7 DEF Began
    <3> QED BY <1>5, <3>1, <3>2, <3>3
  <2>2. ASSUME NEW y \in Agents, y # t, NEW e \in Agents, NEW x \in closers'[y],
               x \in agents'[e].ancestors
        PROVE  e \in closers'[y] \/ Began(e)'
    BY <1>5, <1>8, <1>9, <2>2, CloseLasts, ClosersStay
  <2> QED BY <2>1, <2>2 DEF ClosersInOrder
<1> QED BY <1>8, <1>10, <1>11, <1>12, <1>13, CloseStepSafe

\* dispose
LEMMA DisposeSafe ==
  ASSUME ClosingInvariant, Dispose
  PROVE  StepSafe /\ AllClose
<1>1. /\ SlotInvariant /\ TreeSafe /\ Born /\ Ancestry
      /\ agents \in [Agents -> AgentRecord] /\ closers \in [Agents -> SUBSET Agents]
      /\ \A b \in Agents : Good(agents[b]) /\ InterruptSafe(agents[b])
  BY GoodAgents DEF ClosingInvariant, TreeSafe, SlotInvariant, TypeOK
<1>2. /\ closers' = closers
      /\ \A b \in Agents : agents'[b] = IF Exists(b) /\ ~agents[b].released
                                        THEN CloseRecord(agents[b], FALSE) ELSE agents[b]
  BY DEF Dispose
<1>3. ASSUME NEW b \in Agents, Exists(b), ~agents[b].released
      PROVE  Closes(agents[b], agents'[b]) /\ agents'[b].cleanup # "none"
  <2>1. IsRecord(agents[b]) /\ (agents[b].cleanup # "none" => agents[b].closing)
    BY <1>1 DEF Good, SlotSafe
  <2>2. agents[b].status # "absent" /\ agents'[b] = CloseRecord(agents[b], FALSE)
    BY <1>2, <1>3 DEF Exists
  <2> QED BY <1>1, <2>1, <2>2, CloseRecordCloses
<1>4. AllClose
  BY <1>2, <1>3 DEF AllClose
<1>5. ASSUME NEW b \in Agents, Exists(b)
      PROVE  agents'[b].closing /\ Began(b)'
  <2>1. CASE agents[b].released
    BY <1>1, <1>2, <2>1 DEF Good, SlotSafe, Began
  <2>2. CASE ~agents[b].released
    BY <1>3, <1>5, <2>2 DEF Closes, Began
  <2> QED BY <2>1, <2>2
<1>6. \A e \in Agents : \A x \in agents[e].ancestors : Exists(e)
  BY <1>1, AncestorFacts
<1>7. \A b \in Agents : /\ agents[b].closing => agents'[b].closing
                        /\ agents[b].cleanup # "none" => agents'[b].cleanup # "none"
                        /\ Exists(b) => Exists(b)'
                        /\ agents'[b].ancestors = agents[b].ancestors
  BY <1>4, ClosesElim DEF AllClose, Closes, Exists
<1>8. ClosersFrozen'
  BY <1>1, <1>2, <1>7 DEF TreeSafe, ClosersFrozen
<1>9. ClosersInOrder'
  BY <1>2, <1>4, <1>7, CloseLasts, ClosersStay DEF ClosersInOrder
<1> QED BY <1>4, <1>5, <1>6, <1>8, <1>9, CloseStepSafe

\* dispose leaves no agent open.
LEMMA DisposeCloses ==
  ASSUME ClosingInvariant, Dispose, NEW b \in Agents, Exists(b)'
  PROVE  agents'[b].closing
<1>1. Good(agents[b]) /\ RecordKeeps(agents[b], agents'[b])
  BY GoodAgents, DisposeSafe DEF ClosingInvariant, StepSafe
<1>2. agents'[b] = IF Exists(b) /\ ~agents[b].released THEN CloseRecord(agents[b], FALSE)
                                                      ELSE agents[b]
  BY DEF Dispose
<1>3. CASE Exists(b) /\ ~agents[b].released
  BY <1>1, <1>2, <1>3 DEF CloseRecord, Freeze, Good, SlotSafe, IsRecord, Fields
<1>4. CASE ~(Exists(b) /\ ~agents[b].released)
  BY <1>1, <1>2, <1>4 DEF Good, SlotSafe, Exists
<1> QED BY <1>3, <1>4

\* A step that changes no record and no call of closeAgent.
LEMMA IdleSafe ==
  ASSUME ClosingInvariant, UNCHANGED <<agents, closers>>
  PROVE  StepSafe /\ AllClose
<1>1. AllClose /\ TreeSafe
  BY DEF AllClose, ClosingInvariant
<1>2. \A e \in Agents : \A x \in agents[e].ancestors : agents'[x].closing => agents'[e].closing
  BY <1>1 DEF TreeSafe, ClosingBelow
<1>3. ClosersFrozen'
  BY <1>1 DEF TreeSafe, ClosersFrozen, Exists
<1>4. /\ \A e \in Agents : \A x \in agents[e].ancestors : agents'[x].cleanup # "none" => Began(e)'
      /\ ClosersInOrder'
  BY DEF ClosingInvariant, CleanupSafe, CleanupBelow, ClosersInOrder, Began
<1> QED BY <1>1, <1>2, <1>3, <1>4, CloseStepSafe

-----------------------------------------------------------------------------
(* The awaits of cleanup().                                                 *)

\* A section in which the cleanup of a goes on.
CleanStep(a) ==
  /\ Becomes(a, agents'[a])
  /\ Cleans(agents[a], agents'[a])
  /\ \/ agents'[a].native = agents[a].native
     \/ agents'[a].native = "closed" /\ agents[a].exec = "none"

\* deactivate settles.
LEMMA DeactivateSettledSafe ==
  ASSUME ClosingInvariant, NEW a \in Agents, NEW ok \in BOOLEAN, DeactivateSettled(a, ok)
  PROVE  StepSafe /\ CleanStep(a)
<1> DEFINE r == agents[a]
           s == [r EXCEPT !.cleanup = "draining", !.cleanupError = r.cleanupError \/ ~ok]
<1>1. Good(r) /\ ReleaseSafe(r)
  BY GoodAgents DEF ClosingInvariant, CleanupSafe
<1>2. Becomes(a, s) /\ r.cleanup = "deactivating" /\ r.closing
  BY <1>1 DEF DeactivateSettled, Good, SlotSafe
<1> HIDE DEF r
<1>3. /\ s.cleanup = "draining" /\ (r.cleanupError => s.cleanupError)
      /\ Same(s, r, {"cleanup", "cleanupError"})
  BY <1>1 DEF IsRecord, Fields, Same, Good
<1> HIDE DEF s
<1>4. /\ s.released = r.released /\ s.native = r.native /\ s.session = r.session
  BY <1>3, SameElim
<1>5. Same(s, r, CleanFields)
  BY <1>3, SameMore DEF CleanFields
<1>6. Cleans(r, s)
  BY <1>2, <1>3, <1>4, <1>5 DEF Cleans
<1>7. ReleaseSafe(s)
  <2>1. r.native = "suspended" => r.session = "open" /\ ~r.released
    BY <1>1 DEF ReleaseSafe
  <2> QED BY <1>1, <1>3, <1>4, <1>6, <2>1, CleansRelease DEF Good
<1>8. Cleans(agents[a], s)
  BY <1>6 DEF r
<1>9. s.native = agents[a].native
  BY <1>4 DEF r
<1>10. SlotInvariant
  BY DEF ClosingInvariant
<1>11. CleanStep(a)
  BY <1>2, <1>8, <1>9, <1>10, BecomesElim DEF CleanStep
<1> QED BY <1>2, <1>3, <1>7, <1>8, <1>11, CleanStepSafe DEF Past

\* What the children of an agent say of everything below it: once their cleanups
\* are over so are all below them, and if they were released so were all.
LEMMA ChildrenSpeak ==
  ASSUME ClosingInvariant, NEW a \in Agents, agents[a].cleanup # "none",
         \A c \in Children(a) : agents[c].cleanup \in {"none", "done"},
         NEW e \in Agents, a \in agents[e].ancestors
  PROVE  /\ Over(e)
         /\ (\A c \in Children(a) : agents[c].released /\ ~agents[c].cleanupError) => Freed(e)
<1>1. SlotInvariant /\ Born /\ Ancestry /\ CleanupBelow
  BY DEF ClosingInvariant, TreeSafe, CleanupSafe
<1>2. \A x \in Agents : a \in agents[x].ancestors => Began(x)
  BY <1>1 DEF CleanupBelow
<1>3. \A x \in Agents : Freed(x) => Over(x)
  BY ReleasedGone
<1>4. CASE e \in Children(a)
  <2>1. agents[e].cleanup = "done" \/ agents[e].released
    BY <1>2, <1>4 DEF Began
  <2> QED BY <1>3, <1>4, <2>1 DEF Over, Freed
<1>5. CASE \E c \in Children(a) : c \in agents[e].ancestors /\ a \in agents[c].ancestors
  <2>1. PICK c \in Children(a) : c \in agents[e].ancestors /\ a \in agents[c].ancestors
    BY <1>5
  <2>2. c \in Agents /\ (agents[c].cleanup = "done" \/ agents[c].released)
    BY <1>2, <2>1 DEF Children, Began
  <2>3. /\ agents[c].cleanup = "done" => Over(e) /\ (agents[c].cleanupError \/ Freed(e))
        /\ agents[c].released => Freed(e)
    BY <1>1, <2>1 DEF CleanupBelow, Past
  <2> QED BY <1>3, <2>1, <2>2, <2>3
<1> QED BY <1>1, <1>4, <1>5, BelowChild

\* The execution and the children's cleanups have settled.
LEMMA DrainSafe ==
  ASSUME ClosingInvariant, NEW a \in Agents, Drain(a)
  PROVE  StepSafe /\ CleanStep(a)
<1> DEFINE r == agents[a]
           unconfirmed == \E c \in Children(a) : ~agents[c].released \/ agents[c].cleanupError
           d == [r EXCEPT !.cleanupError = r.cleanupError \/ unconfirmed]
           s == AfterDrain(d)
<1>1. Good(r) /\ ReleaseSafe(r)
  BY GoodAgents DEF ClosingInvariant, CleanupSafe
<1>2. /\ Becomes(a, s) /\ r.cleanup = "draining" /\ r.closing
      /\ \A c \in Children(a) : agents[c].cleanup \in {"none", "done"}
  BY <1>1 DEF Drain, Good, SlotSafe
<1>3. ASSUME NEW e \in Agents, a \in agents[e].ancestors
      PROVE  Over(e) /\ (unconfirmed \/ Freed(e))
  BY <1>2, <1>3, ChildrenSpeak
<1> HIDE DEF r, unconfirmed
<1>4. /\ d.cleanupError = (r.cleanupError \/ unconfirmed) /\ IsRecord(d)
      /\ Same(d, r, {"cleanupError"})
  BY <1>1 DEF IsRecord, Fields, Same, Good
<1> HIDE DEF d
<1>5. /\ d.released = r.released /\ d.native = r.native /\ d.session = r.session
      /\ d.closing = r.closing /\ d.cleanup = r.cleanup
  BY <1>4, SameElim
<1>6. /\ Cleans(d, s) /\ s.native = d.native /\ s.session = d.session
      /\ s.cleanupError = d.cleanupError /\ (s.released => d.released)
      /\ s.cleanup = IF d.session = "open" THEN "disposing"
                     ELSE IF d.cleanupError THEN "done" ELSE "publishing"
  BY <1>2, <1>4, <1>5, AfterDrainCleans
<1> HIDE DEF s
<1>7. Same(s, r, CleanFields)
  BY <1>4, <1>6 DEF Cleans, Same, CleanFields
<1>8. Cleans(agents[a], s)
  BY <1>2, <1>4, <1>5, <1>6, <1>7 DEF Cleans, r
<1>9. ReleaseSafe(s)
  <2>1. r.native = "suspended" => r.session = "open" /\ ~r.released
    BY <1>1 DEF ReleaseSafe
  <2>2. s.native = "suspended" => s.session = "open" /\ ~s.released
    BY <1>5, <1>6, <2>1
  <2>3. s.cleanup \in {"publishing", "done"} /\ ~s.cleanupError => s.native # "suspended"
    BY <1>5, <1>6, <2>1
  <2>4. s.cleanup = "done" /\ ~s.cleanupError => s.released
    BY <1>6
  <2>5. Cleans(r, s)
    BY <1>8 DEF r
  <2> QED BY <1>1, <2>2, <2>3, <2>4, <2>5, CleansRelease DEF Good
<1>10. \A e \in Agents : a \in agents[e].ancestors => Over(e) /\ (s.cleanupError \/ Freed(e))
  BY <1>3, <1>4, <1>6
<1>11. s.native = agents[a].native
  BY <1>5, <1>6 DEF r
<1>12. SlotInvariant
  BY DEF ClosingInvariant
<1>13. CleanStep(a)
  BY <1>2, <1>8, <1>11, <1>12, BecomesElim DEF CleanStep
<1> QED BY <1>2, <1>8, <1>9, <1>10, <1>13, CleanStepSafe

\* What CleanupBelow says below an agent whose cleanup is past its awaits.
LEMMA BelowPast ==
  ASSUME ClosingInvariant, NEW a \in Agents, agents[a].cleanup \in Past,
         NEW e \in Agents, a \in agents[e].ancestors
  PROVE  Over(e) /\ (agents[a].cleanupError \/ Freed(e))
BY DEF ClosingInvariant, CleanupSafe, CleanupBelow

\* dispose of a session settles.
LEMMA DisposeSettledSafe ==
  ASSUME ClosingInvariant, NEW a \in Agents, NEW ok \in BOOLEAN, DisposeSettled(a, ok)
  PROVE  StepSafe /\ CleanStep(a)
<1> DEFINE r == agents[a]
           d == [r EXCEPT !.cleanupError = r.cleanupError \/ ~ok,
                          !.native = IF ok THEN "closed" ELSE r.native]
           s == PublishUnlessFailed(d)
<1>1. Good(r) /\ ReleaseSafe(r)
  BY GoodAgents DEF ClosingInvariant, CleanupSafe
<1>2. Becomes(a, s) /\ r.cleanup = "disposing" /\ r.closing
  BY <1>1 DEF DisposeSettled, Good, SlotSafe
<1>3. ASSUME NEW e \in Agents, a \in agents[e].ancestors
      PROVE  Over(e) /\ (r.cleanupError \/ Freed(e))
  BY <1>2, <1>3, BelowPast DEF Past
<1> HIDE DEF r
<1>4. /\ d.cleanupError = (r.cleanupError \/ ~ok) /\ IsRecord(d)
      /\ d.native = IF ok THEN "closed" ELSE r.native
      /\ Same(d, r, {"cleanupError", "native"})
  BY <1>1 DEF IsRecord, Fields, Same, Good
<1> HIDE DEF d
<1>5. /\ d.released = r.released /\ d.session = r.session
      /\ d.closing = r.closing /\ d.cleanup = r.cleanup
  BY <1>4, SameElim
<1>6. /\ Cleans(d, s) /\ s.native = d.native /\ s.session = d.session
      /\ s.cleanupError = d.cleanupError /\ (s.released => d.released)
      /\ s.cleanup = IF d.cleanupError THEN "done" ELSE "publishing"
  BY <1>2, <1>4, <1>5, PublishUnlessFailedCleans
<1> HIDE DEF s
<1>7. Same(s, r, CleanFields)
  BY <1>4, <1>6 DEF Cleans, Same, CleanFields
<1>8. Cleans(agents[a], s)
  BY <1>2, <1>4, <1>5, <1>6, <1>7 DEF Cleans, r
<1>9. ReleaseSafe(s)
  <2>1. r.native = "suspended" => r.session = "open" /\ ~r.released
    BY <1>1 DEF ReleaseSafe
  <2>2. s.native = "suspended" => s.session = "open" /\ ~s.released
    BY <1>4, <1>5, <1>6, <2>1
  <2>3. s.cleanup \in {"publishing", "done"} /\ ~s.cleanupError => s.native # "suspended"
    BY <1>4, <1>5, <1>6, <2>1
  <2>4. s.cleanup = "done" /\ ~s.cleanupError => s.released
    BY <1>6
  <2>5. Cleans(r, s)
    BY <1>8 DEF r
  <2> QED BY <1>1, <2>2, <2>3, <2>4, <2>5, CleansRelease DEF Good
<1>10. \A e \in Agents : a \in agents[e].ancestors => Over(e) /\ (s.cleanupError \/ Freed(e))
  BY <1>3, <1>4, <1>6
<1>11. \/ s.native = agents[a].native
       \/ s.native = "closed" /\ agents[a].exec = "none"
  BY <1>1, <1>2, <1>4, <1>6 DEF Good, SlotSafe, r
<1>12. SlotInvariant
  BY DEF ClosingInvariant
<1>13. CleanStep(a)
  BY <1>2, <1>8, <1>11, <1>12, BecomesElim DEF CleanStep
<1> QED BY <1>2, <1>8, <1>9, <1>10, <1>13, CleanStepSafe

\* onPhysicalResourcesClosed settles.
LEMMA PublishSettledSafe ==
  ASSUME ClosingInvariant, NEW a \in Agents, NEW ok \in BOOLEAN, PublishSettled(a, ok)
  PROVE  StepSafe /\ CleanStep(a)
<1> DEFINE r == agents[a]
           d == [r EXCEPT !.cleanupError = r.cleanupError \/ ~ok]
           s == Confirm(d)
<1>1. Good(r) /\ ReleaseSafe(r)
  BY GoodAgents DEF ClosingInvariant, CleanupSafe
<1>2. Becomes(a, s) /\ r.cleanup = "publishing" /\ r.closing /\ ~r.cleanupError
  BY <1>1 DEF PublishSettled, Good, SlotSafe
<1>3. ASSUME NEW e \in Agents, a \in agents[e].ancestors
      PROVE  Over(e) /\ Freed(e)
  BY <1>2, <1>3, BelowPast DEF Past
<1> HIDE DEF r
<1>4. /\ d.cleanupError = (r.cleanupError \/ ~ok) /\ IsRecord(d)
      /\ Same(d, r, {"cleanupError"})
  BY <1>1 DEF IsRecord, Fields, Same, Good
<1> HIDE DEF d
<1>5. /\ d.released = r.released /\ d.session = r.session /\ d.native = r.native
      /\ d.closing = r.closing /\ d.cleanup = r.cleanup
  BY <1>4, SameElim
<1>6. /\ Cleans(d, s) /\ s.cleanup = "done" /\ s.native = d.native
      /\ s.cleanupError = d.cleanupError
      /\ d.cleanupError => ~s.released /\ s.session = d.session
      /\ ~d.cleanupError => s.released
  BY <1>2, <1>4, <1>5, ConfirmCleans
<1> HIDE DEF s
<1>7. Same(s, r, CleanFields)
  BY <1>4, <1>6 DEF Cleans, Same, CleanFields
<1>8. Cleans(agents[a], s)
  BY <1>2, <1>4, <1>5, <1>6, <1>7 DEF Cleans, r
<1>9. ReleaseSafe(s)
  <2>1. r.native # "suspended"
    BY <1>1, <1>2 DEF ReleaseSafe
  <2>2. s.native # "suspended"
    BY <1>5, <1>6, <2>1
  <2>3. s.cleanup = "done" /\ ~s.cleanupError => s.released
    BY <1>6
  <2>4. Cleans(r, s)
    BY <1>8 DEF r
  <2> QED BY <1>1, <2>2, <2>3, <2>4, CleansRelease DEF Good
<1>10. \A e \in Agents : a \in agents[e].ancestors => Over(e) /\ (s.cleanupError \/ Freed(e))
  BY <1>3
<1>11. s.native = agents[a].native
  BY <1>5, <1>6 DEF r
<1>12. SlotInvariant
  BY DEF ClosingInvariant
<1>13. CleanStep(a)
  BY <1>2, <1>8, <1>11, <1>12, BecomesElim DEF CleanStep
<1> QED BY <1>2, <1>8, <1>9, <1>10, <1>13, CleanStepSafe

-----------------------------------------------------------------------------
(* The invariant, and what it gives.                                        *)

\* The invariant holds initially.
LEMMA ClosingInvariantInit == Init => ClosingInvariant
<1> SUFFICES ASSUME Init PROVE ClosingInvariant
  OBVIOUS
<1>1. SlotInvariant
  BY SlotInvariantInit
<1>2. /\ \A a \in Agents : agents[a] = AbsentRecord /\ closers[a] = {}
  BY DEF Init
<1>3. TreeSafe
  <2>1. Born /\ ClosersFrozen
    BY <1>2 DEF Born, ClosersFrozen
  <2>2. \A a \in Agents : /\ agents[a].ancestors = {} /\ ~Exists(a)
                         /\ InterruptSafe(agents[a])
    BY <1>2 DEF InterruptSafe, AbsentRecord, Exists
  <2> QED BY <2>1, <2>2 DEF TreeSafe, Ancestry, ClosingBelow
<1>4. CleanupSafe
  BY <1>2 DEF CleanupSafe, CleanupBelow, ClosersInOrder, ReleaseSafe, AbsentRecord, Past
<1> QED BY <1>1, <1>3, <1>4 DEF ClosingInvariant

\* Every step keeps the tree, the order of closing and the records.
LEMMA StepsSafe ==
  ASSUME ClosingInvariant, [Next]_vars
  PROVE  StepSafe
<1>1. TurnsSafe
  BY DEF TurnsSafe, ClosingInvariant, TreeSafe
<1>2. CASE Calls
  <2>1. ASSUME NEW a \in Agents, NEW p \in Agents \cup {Root}, Spawn(p, a) \/ PrepareSpawn(p, a)
        PROVE  StepSafe
    BY <2>1, SpawnSafe, PrepareSpawnSafe
  <2>2. ASSUME NEW a \in Agents,
               \/ FollowupTask(a) \/ InterruptAgent(a) \/ PrepareFollowup(a)
               \/ (\E aborted \in BOOLEAN : ActivatePreparedTurn(a, aborted))
               \/ AbortExecution(a)
        PROVE  StepSafe
    <3>1. TurnStep(a)
      BY <1>1, <2>2, FollowupTaskGoes, InterruptAgentGoes, PrepareFollowupGoes,
         ActivatePreparedTurnGoes, AbortExecutionGoes
    <3> QED BY <3>1, TurnStepSafe
  <2>3. ASSUME NEW a \in Agents, CloseAgent(a) \/ RollbackSpawn(a)
        PROVE  StepSafe
    BY <2>3, CloseAgentSafe, RollbackSpawnSafe
  <2>4. CASE Dispose
    BY <2>4, DisposeSafe
  <2> QED BY <1>2, <2>1, <2>2, <2>3, <2>4 DEF Calls
<1>3. CASE Turns
  <2>1. ASSUME NEW a \in Agents, Timeout(a)
        PROVE  StepSafe
    BY <2>1, TimeoutSafe
  <2>2. ASSUME NEW a \in Agents,
               \/ StartExternal(a) \/ CreateReturns(a) \/ RunReturns(a)
               \/ BeginSuspend(a) \/ SettleExecution(a) \/ SuspendReturns(a)
        PROVE  StepSafe
    <3>1. TurnStep(a)
      BY <1>1, <2>2, StartExternalGoes, CreateSettledGoes, CreateFailedGoes, RunSettledGoes,
         BeginSuspendGoes, SettleExecutionGoes, SuspendSettledGoes, SuspendFailedGoes
      DEF CreateReturns, RunReturns, SuspendReturns
    <3> QED BY <3>1, TurnStepSafe
  <2> QED BY <1>3, <2>1, <2>2 DEF Turns
<1>4. CASE Closings
  <2>1. ASSUME NEW a \in Agents, CloseNext(a) \/ DeactivateReturns(a) \/ Drain(a)
        PROVE  StepSafe
    BY <2>1, CloseNextSafe, DeactivateSettledSafe, DrainSafe DEF DeactivateReturns
  <2>2. ASSUME NEW a \in Agents, DisposeReturns(a) \/ PublishReturns(a)
        PROVE  StepSafe
    BY <2>2, DisposeSettledSafe, PublishSettledSafe DEF DisposeReturns, PublishReturns
  <2>3. CASE DisposeEnds
    BY <2>3, IdleSafe DEF DisposeEnds
  <2> QED BY <1>4, <2>1, <2>2, <2>3 DEF Closings
<1>5. CASE UNCHANGED vars
  BY <1>5, IdleSafe DEF vars
<1> QED BY <1>2, <1>3, <1>4, <1>5 DEF Next

\* The invariant holds in every reachable state.
LEMMA ClosingInvariantHolds == Spec => []ClosingInvariant
<1>1. ClosingInvariant /\ [Next]_vars => ClosingInvariant'
  BY StepsSafe, SlotInvariantNext DEF ClosingInvariant, StepSafe
<1> QED BY <1>1, ClosingInvariantInit, PTL DEF Spec

\* Below a closing agent nothing begins: no agent is created, no turn starts,
\* no execution comes back and nothing is un-closed, in either mode, for any
\* number of agents and any tree of them.
THEOREM NothingBeginsBelowClosing == Spec => ClosingSubtreeStill
<1>1. ASSUME ClosingInvariant, [Next]_vars, NEW a \in Agents, agents[a].closing
      PROVE  /\ agents[a].closing' /\ Subtree(a)' = Subtree(a)
             /\ \A d \in Subtree(a) :
                  /\ agents[d].turn' = agents[d].turn
                  /\ agents[d].exec = "none" => agents[d].exec' = "none"
                  /\ agents[d].status = "closed" => agents[d].status' = "closed"
  <2>1. StepSafe
    BY <1>1, StepsSafe
  <2>2. Subtree(a)' = Subtree(a)
    BY <1>1, <2>1 DEF StepSafe, SubtreeKeeps, Subtree
  <2>3. \A d \in Subtree(a) : d \in Agents /\ agents[d].closing
    BY <1>1 DEF Subtree, ClosingInvariant, TreeSafe, ClosingBelow
  <2> QED BY <1>1, <2>1, <2>2, <2>3 DEF StepSafe, RecordKeeps
<1>2. ClosingInvariant /\ [Next]_vars =>
        [\A a \in Agents : agents[a].closing =>
           /\ agents[a].closing' /\ Subtree(a)' = Subtree(a)
           /\ \A d \in Subtree(a) :
                /\ agents[d].turn' = agents[d].turn
                /\ agents[d].exec = "none" => agents[d].exec' = "none"
                /\ agents[d].status = "closed" => agents[d].status' = "closed"]_vars
  BY <1>1
<1> QED BY <1>2, ClosingInvariantHolds, PTL DEF Spec, ClosingSubtreeStill

\* An interrupt is not overtaken by a late result, a follow-up or a turn while
\* the execution it aborted settles, in either mode.
THEOREM InterruptsStick == Spec => InterruptSticks
<1>1. ClosingInvariant /\ [Next]_vars =>
        [\A a \in Agents :
           agents[a].status = "interrupted" /\ agents[a].signal = "aborted" =>
             /\ agents[a].status' \in {"interrupted", "closed"}
             /\ agents[a].queue' = 0]_vars
  BY StepsSafe DEF StepSafe, RecordKeeps, Sticks
<1> QED BY <1>1, ClosingInvariantHolds, PTL DEF Spec, InterruptSticks

\* In the automatic mode a session is disposed only when nothing of its agent
\* is in flight and every cleanup below it is over.
THEOREM DisposalAfterUse ==
  ASSUME ~External PROVE Spec => []DisposedAfterUse
<1>1. ClosingInvariant => DisposedAfterUse
  <2> SUFFICES ASSUME ClosingInvariant PROVE DisposedAfterUse
    OBVIOUS
  <2>1. \A a \in Agents : agents[a].cleanup \in Past => agents[a].exec = "none"
    BY DEF ClosingInvariant, SlotInvariant, SlotSafe, Past
  <2>2. \A a, d \in Agents : agents[a].cleanup \in Past /\ a \in agents[d].ancestors =>
                             agents[d].cleanup = "done"
    BY BelowPast DEF Over
  <2> QED BY <2>1, <2>2 DEF DisposedAfterUse, Past, Subtree, ClosingInvariant, SlotInvariant
<1> QED BY <1>1, ClosingInvariantHolds, PTL

\* In the automatic mode an agent reported as resourcesReleased holds no
\* session, late or suspended, and everything below it is released as well.
THEOREM ReleasedSubtreeHolds ==
  ASSUME ~External PROVE Spec => []ReleasedSubtree
<1>1. ClosingInvariant => ReleasedSubtree
  <2> SUFFICES ASSUME ClosingInvariant, NEW a \in Agents, agents[a].released
               PROVE  /\ agents[a].exec = "none"
                      /\ agents[a].native \in {"none", "closed"}
                      /\ \A d \in Subtree(a) : agents[d].released
    BY DEF ReleasedSubtree
  <2>1. agents[a].cleanup = "done" /\ ~agents[a].cleanupError /\ agents[a].native # "suspended"
    BY DEF ClosingInvariant, CleanupSafe, ReleaseSafe
  <2>2. agents[a].exec = "none" /\ agents[a].native # "live"
    BY <2>1 DEF ClosingInvariant, SlotInvariant, SlotSafe
  <2>3. agents[a].native \in {"none", "closed"}
    BY <2>1, <2>2 DEF ClosingInvariant, SlotInvariant, TypeOK, AgentRecord, Native
  <2>4. \A d \in Subtree(a) : agents[d].released
    BY <2>1, BelowPast DEF Subtree, Past, Freed
  <2> QED BY <2>2, <2>3, <2>4
<1> QED BY <1>1, ClosingInvariantHolds, PTL

\* In the automatic mode the confirmation of a release is never taken back.
THEOREM ReleasesFinal ==
  ASSUME ~External PROVE Spec => ReleaseIsFinal
<1>1. ClosingInvariant /\ [Next]_vars =>
        [\A a \in Agents : agents[a].released => agents[a].released']_vars
  BY StepsSafe DEF StepSafe, RecordKeeps
<1> QED BY <1>1, ClosingInvariantHolds, PTL DEF Spec, ReleaseIsFinal

\* An agent reported as resourcesReleased, after its cleanup or by a rollback,
\* executes nothing and holds no session, nor does anything below it, in either
\* mode and whatever the host rolls back while a subtree is being closed.
THEOREM ReleasedHoldNothing == Spec => []ReleasedHoldsNothing
<1>1. ClosingInvariant => ReleasedHoldsNothing
  <2> SUFFICES ASSUME ClosingInvariant, NEW a \in Agents, agents[a].released,
                      NEW d \in Subtree(a)
               PROVE  agents[d].exec = "none" /\ agents[d].native \in {"none", "closed"}
    BY DEF ReleasedHoldsNothing
  <2>1. d \in Agents /\ (d = a \/ a \in agents[d].ancestors)
    BY DEF Subtree
  <2>2. Freed(d)
    BY <2>1 DEF ClosingInvariant, CleanupSafe, CleanupBelow, Freed
  <2>3. Gone(agents[d])
    BY <2>1, <2>2, ReleasedGone DEF Freed
  <2> QED BY <2>3 DEF Gone
<1> QED BY <1>1, ClosingInvariantHolds, PTL

\* closeRecord is past its waits only when nothing of the agent is in flight and
\* each cleanup below it is over, or is that of an agent of which nothing is
\* left: one the host rolled back, which a close may still come to.
DisposedOverGone ==
  \A a \in Agents : agents[a].cleanup \in {"disposing", "publishing", "done"} =>
    /\ agents[a].exec = "none"
    /\ \A d \in Subtree(a) \ {a} :
         \/ agents[d].cleanup = "done"
         \/ agents[d].exec = "none" /\ agents[d].native \in {"none", "closed"}

\* In either mode the cleanup of an agent comes after all that is below it.
THEOREM DisposalOverGone == Spec => []DisposedOverGone
<1>1. ClosingInvariant => DisposedOverGone
  <2> SUFFICES ASSUME ClosingInvariant, NEW a \in Agents, agents[a].cleanup \in Past
               PROVE  /\ agents[a].exec = "none"
                      /\ \A d \in Subtree(a) \ {a} :
                           \/ agents[d].cleanup = "done"
                           \/ /\ agents[d].exec = "none"
                              /\ agents[d].native \in {"none", "closed"}
    BY DEF DisposedOverGone, Past
  <2>1. agents[a].exec = "none"
    BY DEF ClosingInvariant, SlotInvariant, SlotSafe, Past
  <2>2. \A d \in Subtree(a) \ {a} : Over(d)
    BY BelowPast DEF Subtree
  <2> QED BY <2>1, <2>2 DEF Over, Gone
<1> QED BY <1>1, ClosingInvariantHolds, PTL

\* Once an agent was reported as released, no turn of it or of anything below it
\* begins and no session comes back, though a later close may, in the external
\* mode, find its cleanup unconfirmed.
ReleasedStaysGone ==
  [][\A a \in Agents : agents[a].released =>
       \A d \in Subtree(a) : /\ agents'[d].turn = agents[d].turn
                             /\ agents'[d].exec = "none"
                             /\ agents'[d].native \in {"none", "closed"}]_vars

\* What a release reported stays true in either mode.
THEOREM ReleasesLast == Spec => ReleasedStaysGone
<1>1. ASSUME ClosingInvariant, [Next]_vars, NEW a \in Agents, agents[a].released,
             NEW d \in Subtree(a)
      PROVE  /\ agents'[d].turn = agents[d].turn
             /\ agents'[d].exec = "none"
             /\ agents'[d].native \in {"none", "closed"}
  <2>1. d \in Agents /\ (d = a \/ a \in agents[d].ancestors)
    BY DEF Subtree
  <2>2. Freed(d)
    BY <1>1, <2>1 DEF ClosingInvariant, CleanupSafe, CleanupBelow, Freed
  <2>3. Gone(agents[d])
    BY <1>1, <2>1, <2>2, ReleasedGone DEF Freed
  <2>4. RecordKeeps(agents[d], agents'[d])
    BY <1>1, <2>1, StepsSafe DEF StepSafe
  <2> QED BY <2>3, <2>4 DEF RecordKeeps, Gone
<1>2. ClosingInvariant /\ [Next]_vars =>
        [\A a \in Agents : agents[a].released =>
           \A d \in Subtree(a) : /\ agents'[d].turn = agents[d].turn
                                 /\ agents'[d].exec = "none"
                                 /\ agents'[d].native \in {"none", "closed"}]_vars
  BY <1>1
<1> QED BY <1>2, ClosingInvariantHolds, PTL DEF Spec, ReleasedStaysGone

-----------------------------------------------------------------------------
(* The kinds of steps, in either mode, and what dispose() ends.             *)

\* Every step creates an agent, rolls a creation back, carries a turn, cleans a
\* record up, is one of the four sections that close records, or changes neither
\* a record nor a call of closeAgent.
LEMMA SectionKinds ==
  ASSUME ClosingInvariant, [Next]_vars
  PROVE  \/ \E a \in Agents, p \in Agents \cup {Root} : Spawn(p, a) \/ PrepareSpawn(p, a)
         \/ \E a \in Agents : RollbackSpawn(a)
         \/ \E a \in Agents : TurnStep(a)
         \/ \E a \in Agents : CleanStep(a)
         \/ \E a \in Agents : Timeout(a) \/ CloseAgent(a) \/ CloseNext(a)
         \/ Dispose
         \/ UNCHANGED <<agents, closers>>
<1>1. TurnsSafe
  BY DEF TurnsSafe, ClosingInvariant, TreeSafe
<1>2. CASE Calls
  <2>1. ASSUME NEW a \in Agents,
               \/ FollowupTask(a) \/ InterruptAgent(a) \/ PrepareFollowup(a)
               \/ (\E aborted \in BOOLEAN : ActivatePreparedTurn(a, aborted))
               \/ AbortExecution(a)
        PROVE  TurnStep(a)
    BY <1>1, <2>1, FollowupTaskGoes, InterruptAgentGoes, PrepareFollowupGoes,
       ActivatePreparedTurnGoes, AbortExecutionGoes
  <2> QED BY <1>2, <2>1 DEF Calls
<1>3. CASE Turns
  <2>1. ASSUME NEW a \in Agents,
               \/ StartExternal(a) \/ CreateReturns(a) \/ RunReturns(a)
               \/ BeginSuspend(a) \/ SettleExecution(a) \/ SuspendReturns(a)
        PROVE  TurnStep(a)
    BY <1>1, <2>1, StartExternalGoes, CreateSettledGoes, CreateFailedGoes, RunSettledGoes,
       BeginSuspendGoes, SettleExecutionGoes, SuspendSettledGoes, SuspendFailedGoes
    DEF CreateReturns, RunReturns, SuspendReturns
  <2> QED BY <1>3, <2>1 DEF Turns
<1>4. CASE Closings
  <2>1. ASSUME NEW a \in Agents,
               DeactivateReturns(a) \/ Drain(a) \/ DisposeReturns(a) \/ PublishReturns(a)
        PROVE  CleanStep(a)
    BY <2>1, DeactivateSettledSafe, DrainSafe, DisposeSettledSafe, PublishSettledSafe
    DEF DeactivateReturns, DisposeReturns, PublishReturns
  <2>2. CASE DisposeEnds
    BY <2>2 DEF DisposeEnds
  <2> QED BY <1>4, <2>1, <2>2 DEF Closings
<1>5. CASE UNCHANGED vars
  BY <1>5 DEF vars
<1> QED BY <1>2, <1>3, <1>4, <1>5 DEF Next

\* The sections that close records, taken together.
LEMMA KindsOfSteps ==
  ASSUME ClosingInvariant, [Next]_vars
  PROVE  \/ \E a \in Agents, p \in Agents \cup {Root} : Spawn(p, a) \/ PrepareSpawn(p, a)
         \/ \E a \in Agents : RollbackSpawn(a)
         \/ \E a \in Agents : TurnStep(a)
         \/ AllClose
         \/ \E a \in Agents : CleanStep(a)
<1>1. ASSUME NEW a \in Agents, Timeout(a) \/ CloseAgent(a) \/ CloseNext(a)
      PROVE  AllClose
  BY <1>1, TimeoutSafe, CloseAgentSafe, CloseNextSafe
<1>2. Dispose => AllClose
  BY DisposeSafe
<1>3. UNCHANGED <<agents, closers>> => AllClose
  BY IdleSafe
<1> QED BY <1>1, <1>2, <1>3, SectionKinds

\* Only spawn and prepareSpawn bring an agent into being, before dispose().
LEMMA NobodyComes ==
  ASSUME ClosingInvariant, [Next]_vars, disposed # "no", NEW a \in Agents, Exists(a)'
  PROVE  Exists(a)
<1>1. Born /\ agents \in [Agents -> AgentRecord]
  BY DEF ClosingInvariant, TreeSafe, SlotInvariant, TypeOK
<1>2. \A b \in Agents, p \in Agents \cup {Root} : ~Spawn(p, b) /\ ~PrepareSpawn(p, b)
  BY DEF Spawn, PrepareSpawn, CanSpawn
<1>3. ASSUME NEW b \in Agents, RollbackSpawn(b) PROVE Exists(a)
  <2>1. Exists(b)
    BY <1>1, <1>3, ExecutionExists DEF RollbackSpawn
  <2>2. a # b => agents'[a] = agents[a]
    BY <1>1, <1>3 DEF RollbackSpawn, Becomes
  <2> QED BY <2>1, <2>2 DEF Exists
<1>4. ASSUME NEW b \in Agents, TurnStep(b) PROVE Exists(a)
  BY <1>1, <1>4 DEF TurnStep, Becomes, Exists
<1>5. CASE AllClose
  BY <1>5 DEF AllClose, Exists
<1>6. ASSUME NEW b \in Agents, CleanStep(b) PROVE Exists(a)
  <2>1. agents'[b].status = agents[b].status
    BY <1>6, CleansElim DEF CleanStep
  <2>2. a # b => agents'[a] = agents[a]
    BY <1>1, <1>6 DEF CleanStep, Becomes
  <2> QED BY <2>1, <2>2 DEF Exists
<1> QED BY <1>2, <1>3, <1>4, <1>5, <1>6, KindsOfSteps

\* After dispose() every agent is closing.
DisposedClosing == disposed # "no" => \A a \in Agents : Exists(a) => agents[a].closing

\* Once dispose() was called no agent comes into being, no turn begins, no
\* execution starts and no agent that was closed is anything else.
DisposedStill ==
  [][disposed # "no" =>
       \A a \in Agents : /\ Exists(a)' = Exists(a)
                         /\ agents'[a].turn = agents[a].turn
                         /\ agents[a].exec = "none" => agents'[a].exec = "none"
                         /\ agents[a].status = "closed" => agents'[a].status = "closed"]_vars

\* dispose() is the end of what the coordinator begins, in either mode, whatever
\* was prepared, queued or in flight when it was called.
THEOREM NothingBeginsAfterDispose == Spec => DisposedStill
<1> DEFINE IInv == ClosingInvariant /\ DisposedClosing
<1>1. Init => IInv
  BY ClosingInvariantInit DEF Init, DisposedClosing
<1>2. IInv /\ [Next]_vars => IInv'
  <2> SUFFICES ASSUME IInv, [Next]_vars PROVE IInv'
    OBVIOUS
  <2>1. ClosingInvariant' /\ StepSafe
    BY StepsSafe, SlotInvariantNext DEF ClosingInvariant, StepSafe
  <2>2. CASE disposed # "no"
    <3>1. ASSUME NEW a \in Agents, Exists(a)' PROVE agents'[a].closing
      <4>1. Exists(a)
        BY <2>2, <3>1, NobodyComes
      <4> QED BY <2>1, <2>2, <4>1 DEF DisposedClosing, StepSafe, RecordKeeps
    <3> QED BY <2>1, <3>1 DEF DisposedClosing
  <2>3. CASE Dispose
    BY <2>1, <2>3, DisposeCloses DEF DisposedClosing
  <2>4. CASE disposed = "no" /\ ~Dispose
    <3>1. disposed' = "no"
      BY <2>4 DEF Next, Calls, Turns, Closings, vars, Becomes, Spawn, PrepareSpawn, FollowupTask,
         InterruptAgent, CloseAgent, PrepareFollowup, ActivatePreparedTurn, RollbackSpawn,
         AbortExecution, StartExternal, CreateReturns, CreateSettled, CreateFailed, RunReturns,
         RunSettled, BeginSuspend, SettleExecution, SuspendReturns, SuspendSettled, SuspendFailed,
         Timeout, CloseNext, DeactivateReturns, DeactivateSettled, Drain, DisposeReturns,
         DisposeSettled, PublishReturns, PublishSettled, DisposeEnds
    <3> QED BY <2>1, <3>1 DEF DisposedClosing
  <2> QED BY <2>2, <2>3, <2>4
<1>3. ASSUME IInv, [Next]_vars, disposed # "no", NEW a \in Agents
      PROVE  /\ Exists(a)' = Exists(a)
             /\ agents'[a].turn = agents[a].turn
             /\ agents[a].exec = "none" => agents'[a].exec = "none"
             /\ agents[a].status = "closed" => agents'[a].status = "closed"
  <2>1. ClosingInvariant' /\ StepSafe
    BY <1>3, StepsSafe, SlotInvariantNext DEF ClosingInvariant, StepSafe
  <2>2. CASE Exists(a)
    <3>1. agents[a].closing
      BY <1>3, <2>2 DEF DisposedClosing
    <3>2. RecordKeeps(agents[a], agents'[a])
      BY <2>1 DEF StepSafe
    <3>3. agents'[a].closing
      BY <3>1, <3>2 DEF RecordKeeps
    <3>4. Exists(a)'
      BY <2>1, <3>3 DEF ClosingInvariant, TreeSafe, Born, Exists, AbsentRecord
    <3> QED BY <2>2, <3>1, <3>2, <3>4 DEF RecordKeeps
  <2>3. CASE ~Exists(a)
    <3>1. ~Exists(a)'
      BY <1>3, <2>3, NobodyComes
    <3>2. agents[a] = AbsentRecord /\ agents'[a] = AbsentRecord
      BY <1>3, <2>1, <2>3, <3>1 DEF ClosingInvariant, TreeSafe, Born
    <3> QED BY <2>3, <3>1, <3>2 DEF Exists
  <2> QED BY <2>2, <2>3
<1>4. IInv /\ [Next]_vars =>
        [disposed # "no" =>
           \A a \in Agents : /\ Exists(a)' = Exists(a)
                             /\ agents'[a].turn = agents[a].turn
                             /\ agents[a].exec = "none" => agents'[a].exec = "none"
                             /\ agents[a].status = "closed" => agents'[a].status = "closed"]_vars
  BY <1>3
<1> QED BY <1>1, <1>2, <1>4, PTL DEF Spec, DisposedStill

-----------------------------------------------------------------------------
(* A subtree that is being closed never waits for itself.                   *)

\* A step to the end of what an agent waits for is due, by the event loop, a
\* session operation that settles or a timer: of its execution, of a call of
\* closeAgent that comes to it, or of its cleanup.  Each of these is the guard
\* of an action that Fairness names.
Due(d) ==
  \/ agents[d].exec # "none"
  \/ \E t \in Agents : d \in closers[t]
  \/ agents[d].cleanup \in {"deactivating", "disposing", "publishing"}
  \/ /\ agents[d].cleanup = "draining"
     /\ \A c \in Children(d) : agents[c].cleanup \in {"none", "done"}

\* While an agent is being closed, and neither its cleanup has ended nor the host
\* has rolled it back, a step of it or of an agent below it is due.
ClosingGoesOn ==
  \A a \in Agents : agents[a].closing =>
    agents[a].cleanup = "done" \/ agents[a].released \/ \E d \in Subtree(a) : Due(d)

\* What is frozen and has no cleanup is what a call of closeAgent comes to, and
\* a call that has records left to close has frozen its own target.
CallComes ==
  /\ \A t \in Agents : closers[t] # {} => agents[t].closing
  /\ \A a \in Agents : agents[a].closing /\ agents[a].cleanup = "none" =>
       agents[a].released \/ \E t \in Agents : a \in closers[t]

\* A set of agents that is not empty has a deepest one.
LEMMA DeepestExists ==
  ASSUME SlotInvariant, NEW S \in SUBSET Agents, S # {}
  PROVE  Deepest(S) # {}
<1> DEFINE bound == Cardinality(Agents) + 1
           T == {bound - Depth(x) : x \in S}
           R == OpToRel(<, Nat)
<1>1. \A x \in Agents : Depth(x) \in Nat /\ bound - Depth(x) \in Nat
  <2> SUFFICES ASSUME NEW x \in Agents PROVE Depth(x) \in Nat /\ bound - Depth(x) \in Nat
    OBVIOUS
  <2>1. agents[x].ancestors \subseteq Agents
    BY DEF SlotInvariant, TypeOK, AgentRecord
  <2>2. /\ Cardinality(agents[x].ancestors) \in Nat /\ Cardinality(Agents) \in Nat
        /\ Cardinality(agents[x].ancestors) <= Cardinality(Agents)
    BY <2>1, AgentsAssumption, FS_Subset, FS_CardinalityType
  <2> QED BY <2>2 DEF Depth
<1>2. T \subseteq Nat /\ T # {}
  BY <1>1
<1>3. \E n \in T : \A m \in T : <<m, n>> \notin R
  BY <1>2, NatLessThanWellFounded, WFMin
<1>4. PICK n \in T : \A m \in T : ~(m < n)
  <2>1. PICK n \in T : \A m \in T : <<m, n>> \notin R
    BY <1>3
  <2>2. \A m \in T : ~(m < n)
    BY <1>2, <2>1 DEF OpToRel
  <2> QED BY <2>2
<1>5. PICK d \in S : n = bound - Depth(d)
  BY DEF T
<1>6. \A b \in S : Depth(b) <= Depth(d)
  <2> SUFFICES ASSUME NEW b \in S PROVE Depth(b) <= Depth(d)
    OBVIOUS
  <2>1. ~(bound - Depth(b) < bound - Depth(d))
    BY <1>4, <1>5
  <2>2. Depth(b) \in Nat /\ Depth(d) \in Nat /\ bound \in Nat
    BY <1>1, AgentsAssumption, FS_CardinalityType
  <2> HIDE DEF bound
  <2> QED BY <2>1, <2>2
<1> QED BY <1>5, <1>6 DEF Deepest

\* In a subtree that is being closed a step is due, however deep it is.
LEMMA NobodyWaitsInACircle ==
  ASSUME ClosingInvariant, CallComes
  PROVE  ClosingGoesOn
<1> SUFFICES ASSUME NEW a \in Agents, agents[a].closing, agents[a].cleanup # "done",
                    ~agents[a].released, \A d \in Subtree(a) : ~Due(d)
             PROVE  FALSE
  BY DEF ClosingGoesOn
<1> DEFINE S == {d \in Subtree(a) : agents[d].cleanup = "draining"}
<1>1. /\ SlotInvariant /\ Born /\ Ancestry
      /\ \A d \in Agents : agents[d].cleanup \in Cleanup
  BY DEF ClosingInvariant, TreeSafe, SlotInvariant, TypeOK, AgentRecord
<1>2. a \in S
  <2>1. a \in Subtree(a) /\ agents[a].cleanup # "none"
    BY DEF Subtree, CallComes, Due
  <2> QED BY <1>1, <2>1 DEF Due, Cleanup
<1>3. S \in SUBSET Agents
  BY DEF Subtree
<1>4. PICK d \in Deepest(S) : TRUE
  BY <1>1, <1>2, <1>3, DeepestExists
<1>5. d \in S /\ d \in Agents
  BY <1>3 DEF Deepest
<1>6. PICK c \in Children(d) : agents[c].cleanup \notin {"none", "done"}
  BY <1>5 DEF Due
<1>7. c \in Agents /\ d \in agents[c].ancestors
  BY <1>1, <1>5, <1>6, AgentsAssumption DEF Children, Ancestry
<1>8. c \in Subtree(a)
  BY <1>1, <1>5, <1>7 DEF Subtree, Ancestry
<1>9. c \in S
  BY <1>1, <1>6, <1>7, <1>8 DEF Due, Cleanup
<1> QED BY <1>1, <1>3, <1>7, <1>9, DeepestIsLeaf

\* A cleanup that has begun, or a rollback, is not undone.
LEMMA BeganStays ==
  ASSUME ClosingInvariant, [Next]_vars, NEW a \in Agents, Began(a)
  PROVE  Began(a)'
<1>1. Born /\ agents \in [Agents -> AgentRecord]
  BY DEF ClosingInvariant, TreeSafe, SlotInvariant, TypeOK
<1>2. Exists(a)
  BY <1>1 DEF Born, AbsentRecord, Began
<1>3. ASSUME NEW b \in Agents, NEW p \in Agents \cup {Root}, Spawn(p, b) \/ PrepareSpawn(p, b)
      PROVE  Began(a)'
  BY <1>1, <1>2, <1>3 DEF Spawn, PrepareSpawn, CanSpawn, Becomes, Began
<1>4. ASSUME NEW b \in Agents, RollbackSpawn(b) PROVE Began(a)'
  <2>1. a # b => agents'[a] = agents[a]
    BY <1>1, <1>4 DEF RollbackSpawn, Becomes
  <2>2. agents'[b].released
    BY <1>1, <1>4 DEF RollbackSpawn, Becomes, AgentRecord
  <2> QED BY <2>1, <2>2 DEF Began
<1>5. ASSUME NEW b \in Agents, TurnStep(b) PROVE Began(a)'
  <2>1. a # b => agents'[a] = agents[a]
    BY <1>1, <1>5 DEF TurnStep, Becomes
  <2>2. agents'[b].cleanup = agents[b].cleanup /\ agents'[b].released = agents[b].released
    BY <1>5, GoesElim DEF TurnStep
  <2> QED BY <2>1, <2>2 DEF Began
<1>6. CASE AllClose
  BY <1>6, CloseLasts, LastingStays
<1>7. ASSUME NEW b \in Agents, CleanStep(b) PROVE Began(a)'
  <2>1. a # b => agents'[a] = agents[a]
    BY <1>1, <1>7 DEF CleanStep, Becomes
  <2>2. agents'[b].cleanup # "none"
    BY <1>7 DEF CleanStep, Cleans
  <2> QED BY <2>1, <2>2 DEF Began
<1> QED BY <1>3, <1>4, <1>5, <1>6, <1>7, KindsOfSteps

\* closeRecord leaves a record with a cleanup.
LEMMA CloseRecordBegins ==
  ASSUME NEW r, IsRecord(r), NEW preserveFailure \in BOOLEAN
  PROVE  /\ CloseRecord(r, preserveFailure).cleanup # "none"
         /\ r.closing => CloseRecord(r, preserveFailure).closing
BY DEF CloseRecord, Freeze, IsRecord, Fields

\* closeAgent freezes its whole subtree and comes to one record of it; the others
\* are left to the call, unless an earlier call of the same has come to them.
LEMMA CloseAgentComes ==
  ASSUME ClosingInvariant, NEW t \in Agents, CloseAgent(t)
  PROVE  /\ agents'[t].closing
         /\ \A u \in Agents : u # t => closers'[u] = closers[u]
         /\ \E d \in Agents :
              /\ Began(d)'
              /\ closers'[t] = (IF closers[t] = {} THEN Subtree(t) ELSE closers[t]) \ {d}
              /\ \A b \in Agents : b \in Subtree(t) \/ agents'[b] = agents[b]
<1>1. /\ agents \in [Agents -> AgentRecord] /\ closers \in [Agents -> SUBSET Agents]
      /\ \A b \in Agents : IsRecord(agents[b])
  BY GoodAgents DEF ClosingInvariant, SlotInvariant, TypeOK, Good
<1>2. PICK d \in Deepest(Subtree(t)) :
        /\ agents' = [b \in Agents |->
             CASE b = d -> CloseRecord(Freeze(agents[b]), FALSE)
               [] b # d /\ b \in Subtree(t) -> Freeze(agents[b])
               [] OTHER -> agents[b]]
        /\ closers' = [closers EXCEPT ![t] = (IF @ = {} THEN Subtree(t) ELSE @) \ {d}]
  BY DEF CloseAgent
<1>3. d \in Subtree(t) /\ d \in Agents /\ t \in Subtree(t)
  BY DEF Subtree, Deepest
<1>4. /\ agents'[d] = CloseRecord(Freeze(agents[d]), FALSE)
      /\ \A b \in Agents : b # d => agents'[b] = IF b \in Subtree(t) THEN Freeze(agents[b])
                                                                    ELSE agents[b]
  BY <1>2, <1>3
<1>5. /\ closers'[t] = (IF closers[t] = {} THEN Subtree(t) ELSE closers[t]) \ {d}
      /\ \A u \in Agents : u # t => closers'[u] = closers[u]
  BY <1>1, <1>2
<1>6. \A b \in Agents : Freeze(agents[b]).closing /\ IsRecord(Freeze(agents[b]))
  BY <1>1 DEF Freeze, IsRecord, Fields
<1>7. /\ agents'[d].cleanup # "none"
      /\ agents'[t].closing
  <2>1. agents'[d].cleanup # "none"
    BY <1>3, <1>4, <1>6, CloseRecordBegins
  <2>2. Freeze(agents[t]).closing /\ CloseRecord(Freeze(agents[t]), FALSE).closing
    BY <1>6, CloseRecordBegins
  <2>3. agents'[t] = Freeze(agents[t]) \/ agents'[t] = CloseRecord(Freeze(agents[t]), FALSE)
    BY <1>3, <1>4
  <2> QED BY <2>1, <2>2, <2>3
<1>8. \A b \in Agents : b \in Subtree(t) \/ agents'[b] = agents[b]
  BY <1>3, <1>4
<1> QED BY <1>3, <1>5, <1>7, <1>8 DEF Began

\* closeAgent comes to the next record of its list.
LEMMA CloseNextComes ==
  ASSUME ClosingInvariant, NEW t \in Agents, CloseNext(t)
  PROVE  /\ \A u \in Agents : u # t => closers'[u] = closers[u]
         /\ \E d \in closers[t] : /\ Began(d)' /\ closers'[t] = closers[t] \ {d}
                                  /\ \A b \in Agents : b # d => agents'[b] = agents[b]
<1>1. /\ agents \in [Agents -> AgentRecord] /\ closers \in [Agents -> SUBSET Agents]
      /\ \A b \in Agents : IsRecord(agents[b])
  BY GoodAgents DEF ClosingInvariant, SlotInvariant, TypeOK, Good
<1>2. PICK d \in Deepest(closers[t]) :
        /\ agents' = [agents EXCEPT ![d] = CloseRecord(@, FALSE)]
        /\ closers' = [closers EXCEPT ![t] = @ \ {d}]
  BY DEF CloseNext
<1>3. d \in closers[t] /\ d \in Agents
  BY <1>1 DEF Deepest
<1>4. agents'[d] = CloseRecord(agents[d], FALSE)
      /\ \A b \in Agents : b # d => agents'[b] = agents[b]
  BY <1>1, <1>2, <1>3
<1>5. agents'[d].cleanup # "none"
  BY <1>1, <1>3, <1>4, CloseRecordBegins
<1> QED BY <1>1, <1>2, <1>3, <1>4, <1>5 DEF Began

\* Every other section leaves the calls of closeAgent as they are, and what is
\* closing from now on has its cleanup or was rolled back.
LEMMA OthersComeAtOnce ==
  ASSUME ClosingInvariant, [Next]_vars,
         \A t \in Agents : ~CloseAgent(t) /\ ~CloseNext(t)
  PROVE  /\ closers' = closers
         /\ \A b \in Agents : agents'[b].closing => agents[b].closing \/ Began(b)'
<1>1. /\ agents \in [Agents -> AgentRecord] /\ SlotInvariant
      /\ \A b \in Agents : IsRecord(agents[b])
  BY GoodAgents DEF ClosingInvariant, SlotInvariant, TypeOK, Good
<1> DEFINE Goal == /\ closers' = closers
                   /\ \A b \in Agents : agents'[b].closing => agents[b].closing \/ Began(b)'
<1>2. ASSUME NEW a \in Agents, NEW p \in Agents \cup {Root}, Spawn(p, a) \/ PrepareSpawn(p, a)
      PROVE  Goal
  <2> DEFINE n == NewRecord(p)
             s == [n EXCEPT !.resident = TRUE, !.queue = 1]
             q == [n EXCEPT !.turn = 1, !.reserved = TRUE, !.prepared = TRUE]
  <2>1. IsRecord(n) /\ ~n.closing
    BY <1>1, NewRecordIs
  <2>2. Becomes(a, BeginTurn(s)) \/ Becomes(a, q)
    BY <1>2 DEF Spawn, PrepareSpawn
  <2> HIDE DEF n
  <2>3. IsRecord(s) /\ s.closing = n.closing /\ q.closing = n.closing
    BY <2>1 DEF IsRecord, Fields
  <2> HIDE DEF s, q
  <2>4. BeginTurn(s).closing = s.closing
    BY <2>3 DEF BeginTurn, IsRecord, Fields
  <2>5. closers' = closers /\ \A b \in Agents : b # a => agents'[b] = agents[b]
    BY <1>1, <2>2 DEF Becomes
  <2>6. ~agents'[a].closing
    BY <1>1, <2>1, <2>2, <2>3, <2>4 DEF Becomes
  <2> QED BY <2>5, <2>6
<1>3. ASSUME NEW a \in Agents, RollbackSpawn(a) PROVE Goal
  <2>1. closers' = closers /\ \A b \in Agents : b # a => agents'[b] = agents[b]
    BY <1>1, <1>3 DEF RollbackSpawn, Becomes
  <2>2. agents'[a].released
    BY <1>1, <1>3 DEF RollbackSpawn, Becomes, AgentRecord
  <2> QED BY <2>1, <2>2 DEF Began
<1>4. ASSUME NEW a \in Agents, TurnStep(a) PROVE Goal
  <2>1. closers' = closers /\ \A b \in Agents : b # a => agents'[b] = agents[b]
    BY <1>1, <1>4 DEF TurnStep, Becomes
  <2>2. agents'[a].closing = agents[a].closing
    BY <1>4, GoesElim DEF TurnStep
  <2> QED BY <2>1, <2>2
<1>5. ASSUME NEW a \in Agents, CleanStep(a) PROVE Goal
  <2>1. closers' = closers /\ \A b \in Agents : b # a => agents'[b] = agents[b]
    BY <1>1, <1>5 DEF CleanStep, Becomes
  <2>2. agents'[a].closing = agents[a].closing
    BY <1>5, CleansElim DEF CleanStep
  <2> QED BY <2>1, <2>2
<1>6. ASSUME NEW a \in Agents, Timeout(a) PROVE Goal
  <2> DEFINE t == [agents[a] EXCEPT !.timedOut = TRUE, !.status = "failed"]
  <2>1. IsRecord(t)
    BY <1>1 DEF IsRecord
  <2>2. agents'[a] = CloseRecord(t, TRUE) /\ closers' = closers
    BY <1>6 DEF Timeout
  <2> HIDE DEF t
  <2>3. agents'[a].cleanup # "none"
    BY <2>1, <2>2, CloseRecordBegins
  <2>4. ASSUME NEW b \in Agents, b # a
        PROVE  agents'[b] = agents[b] \/ agents'[b].cleanup # "none"
    BY <1>1, <1>6, <2>4, CloseRecordBegins DEF Timeout
  <2> QED BY <2>2, <2>3, <2>4 DEF Began
<1>7. ASSUME Dispose PROVE Goal
  <2>1. ASSUME NEW b \in Agents
        PROVE  agents'[b] = agents[b] \/ agents'[b].cleanup # "none"
    <3>1. agents'[b] = agents[b] \/ agents'[b] = CloseRecord(agents[b], FALSE)
      BY <1>7 DEF Dispose
    <3>2. CloseRecord(agents[b], FALSE).cleanup # "none"
      BY <1>1, CloseRecordBegins
    <3> QED BY <3>1, <3>2
  <2> QED BY <1>7, <2>1 DEF Dispose, Began
<1>8. ASSUME UNCHANGED <<agents, closers>> PROVE Goal
  BY <1>8
<1> HIDE DEF Goal
<1>9. Goal
  BY <1>2, <1>3, <1>4, <1>5, <1>6, <1>7, <1>8, SectionKinds
<1> QED BY <1>9 DEF Goal

\* So what is frozen never waits for a call that does not come.
LEMMA CallComesNext ==
  ASSUME ClosingInvariant, CallComes, [Next]_vars
  PROVE  CallComes'
<1>1. /\ closers \in [Agents -> SUBSET Agents] /\ ClosingBelow /\ ClosersFrozen
      /\ \A e \in Agents : agents[e].ancestors \subseteq Agents
  BY DEF ClosingInvariant, SlotInvariant, TypeOK, TreeSafe, AgentRecord
<1>2. \A a \in Agents : agents[a].closing => agents'[a].closing
  BY StepsSafe DEF StepSafe, RecordKeeps
<1>3. ASSUME NEW a \in Agents, agents'[a].closing, ~Began(a)',
             agents[a].closing
      PROVE  \E t \in Agents : a \in closers[t]
  BY <1>3, BeganStays DEF CallComes, Began
<1>4. ASSUME NEW t \in Agents, CloseAgent(t)
      PROVE  CallComes'
  <2>1. PICK d \in Agents :
          /\ Began(d)'
          /\ closers'[t] = (IF closers[t] = {} THEN Subtree(t) ELSE closers[t]) \ {d}
          /\ \A b \in Agents : b \in Subtree(t) \/ agents'[b] = agents[b]
    BY <1>4, CloseAgentComes
  <2>2. agents'[t].closing /\ \A u \in Agents : u # t => closers'[u] = closers[u]
    BY <1>4, CloseAgentComes
  <2>3. \A u \in Agents : closers'[u] # {} => agents'[u].closing
    BY <1>2, <2>2 DEF CallComes
  <2>4. ASSUME NEW a \in Agents, agents'[a].closing, ~Began(a)'
        PROVE  \E u \in Agents : a \in closers'[u]
    <3>1. a # d
      BY <2>1, <2>4
    <3>2. CASE agents[a].closing
      <4>1. PICK u \in Agents : a \in closers[u]
        BY <1>3, <2>4, <3>2
      <4>2. a \in closers'[u]
        BY <2>1, <2>2, <3>1, <4>1
      <4> QED BY <4>2
    <3>3. CASE ~agents[a].closing
      <4>1. a \in Subtree(t)
        BY <2>1, <2>4, <3>3
      <4>2. ~agents[t].closing
        BY <1>1, <3>3, <4>1 DEF Subtree, ClosingBelow
      <4>3. closers[t] = {}
        BY <4>2 DEF CallComes
      <4> QED BY <2>1, <3>1, <4>1, <4>3
    <3> QED BY <3>2, <3>3
  <2> QED BY <2>3, <2>4 DEF CallComes, Began
<1>5. ASSUME NEW t \in Agents, CloseNext(t)
      PROVE  CallComes'
  <2>1. /\ \A u \in Agents : u # t => closers'[u] = closers[u]
        /\ \E d \in closers[t] : /\ Began(d)' /\ closers'[t] = closers[t] \ {d}
                                 /\ \A b \in Agents : b # d => agents'[b] = agents[b]
    BY <1>5, CloseNextComes
  <2>2. PICK d \in closers[t] : /\ Began(d)' /\ closers'[t] = closers[t] \ {d}
                               /\ \A b \in Agents : b # d => agents'[b] = agents[b]
    BY <2>1
  <2>3. \A u \in Agents : closers'[u] # {} => agents'[u].closing
    BY <1>2, <2>1, <2>2 DEF CallComes
  <2>4. ASSUME NEW a \in Agents, agents'[a].closing, ~Began(a)'
        PROVE  \E u \in Agents : a \in closers'[u]
    <3>1. a # d
      BY <2>2, <2>4
    <3>2. agents[a].closing
      BY <2>2, <2>4, <3>1
    <3>3. PICK u \in Agents : a \in closers[u]
      BY <1>3, <2>4, <3>2
    <3>4. a \in closers'[u]
      BY <2>1, <2>2, <3>1, <3>3
    <3> QED BY <3>4
  <2> QED BY <2>3, <2>4 DEF CallComes, Began
<1>6. CASE \A t \in Agents : ~CloseAgent(t) /\ ~CloseNext(t)
  <2>1. /\ closers' = closers
        /\ \A b \in Agents : agents'[b].closing => agents[b].closing \/ Began(b)'
    BY <1>6, OthersComeAtOnce
  <2>2. \A u \in Agents : closers'[u] # {} => agents'[u].closing
    BY <1>2, <2>1 DEF CallComes
  <2>3. ASSUME NEW a \in Agents, agents'[a].closing, ~Began(a)'
        PROVE  \E u \in Agents : a \in closers'[u]
    BY <1>3, <2>1, <2>3
  <2> QED BY <2>2, <2>3 DEF CallComes, Began
<1> QED BY <1>4, <1>5, <1>6

\* A subtree that is being closed is never stuck: up to the end of its cleanup
\* something is due that the event loop, a session operation or a timer does,
\* however deep the tree is and whichever calls of closeAgent overlap.
THEOREM ClosingNeverStuck == Spec => []ClosingGoesOn
<1>1. Init => CallComes
  BY DEF Init, CallComes, AbsentRecord
<1>2. ClosingInvariant /\ CallComes => ClosingGoesOn
  BY NobodyWaitsInACircle
<1>3. ClosingInvariant /\ CallComes /\ [Next]_vars => CallComes'
  BY CallComesNext
<1> QED BY <1>1, <1>2, <1>3, ClosingInvariantHolds, PTL DEF Spec

-----------------------------------------------------------------------------
(* What is being closed runs down.                                          *)

\* How many sections of its execution and of its cleanup a closing agent has
\* before it, at most.
ExecLeft(exec) ==
  IF exec = "none" THEN 0 ELSE IF exec \in {"settling", "suspending"} THEN 1 ELSE 2
CleanupLeft(cleanup) ==
  IF cleanup = "none" THEN 5 ELSE IF cleanup = "deactivating" THEN 4
  ELSE IF cleanup = "draining" THEN 3 ELSE IF cleanup = "disposing" THEN 2
  ELSE IF cleanup = "publishing" THEN 1 ELSE 0

ExecFalls(r, s) == s.exec = r.exec \/ ExecLeft(s.exec) < ExecLeft(r.exec)
CleanupFalls(r, s) == s.cleanup = r.cleanup \/ CleanupLeft(s.cleanup) < CleanupLeft(r.cleanup)

\* The execution and the cleanup of a closing agent only go towards their ends:
\* no turn, suspension or stage of its cleanup is repeated, whatever settles
\* late, fails, or is closed again.
ClosingRunsDown ==
  [][\A a \in Agents : agents[a].closing =>
       ExecFalls(agents[a], agents'[a]) /\ CleanupFalls(agents[a], agents'[a])]_vars

\* What a turn of a closing agent leaves of its execution.
LEMMA ClosingTurnFalls ==
  ASSUME ClosingInvariant, NEW a \in Agents, agents[a].closing,
         \/ StartExternal(a) \/ CreateReturns(a) \/ RunReturns(a)
         \/ BeginSuspend(a) \/ SettleExecution(a) \/ SuspendReturns(a)
  PROVE  ExecFalls(agents[a], agents'[a])
<1> DEFINE r == agents[a]
<1>1. Good(r) /\ SlotInvariant /\ agents \in [Agents -> AgentRecord]
  BY GoodAgents DEF ClosingInvariant, SlotInvariant, TypeOK
<1>2. IsRecord(r) /\ IsClosed(r) /\ r.exec \in Execution
  BY <1>1 DEF Good, FieldsTyped, IsClosed
<1>3. ASSUME NEW s, Becomes(a, s) PROVE agents'[a] = s
  BY <1>1, <1>3 DEF Becomes
<1>4. r.exec # "none" => r.status # "absent"
  BY <1>1, ExecutionExists DEF ClosingInvariant, TreeSafe, Exists
<1> HIDE DEF r
<1>5. CASE StartExternal(a)
  <2> DEFINE s == [r EXCEPT !.exec = "settling"]
  <2>1. Becomes(a, s) /\ r.exec = "starting"
    BY <1>2, <1>5 DEF StartExternal, CanRun, r
  <2>2. s.exec = "settling"
    BY <1>2 DEF IsRecord, Fields
  <2> HIDE DEF s
  <2> QED BY <1>3, <2>1, <2>2 DEF ExecFalls, ExecLeft, r
<1>6. CASE CreateReturns(a)
  <2> DEFINE o == [r EXCEPT !.session = "open"]
  <2>1. IsRecord(o) /\ IsClosed(o)
    BY <1>2 DEF IsRecord, Fields, IsClosed
  <2>2. /\ r.exec = "creating"
        /\ \E f : Becomes(a, AbandonTurn(f)) /\ IsRecord(f)
    <3>1. CASE CreateSettled(a)
      BY <2>1, <3>1 DEF CreateSettled, r
    <3>2. ASSUME NEW outcome \in {"error", "abort", "leak"}, CreateFailed(a, outcome)
          PROVE  r.exec = "creating" /\ \E f : Becomes(a, AbandonTurn(f)) /\ IsRecord(f)
      <4> DEFINE leak == outcome = "leak"
                 f == [r EXCEPT !.native = IF leak THEN "live" ELSE "none",
                                !.session = IF leak THEN "gone" ELSE r.session,
                                !.cleanupError = r.cleanupError \/ leak]
      <4>1. r.exec = "creating" /\ Becomes(a, AbandonTurn(f))
        BY <1>2, <3>2 DEF CreateFailed, r
      <4>2. IsRecord(f)
        BY <1>2 DEF IsRecord
      <4> QED BY <4>1, <4>2
    <3> QED BY <1>6, <3>1, <3>2 DEF CreateReturns
  <2>3. PICK f : Becomes(a, AbandonTurn(f)) /\ IsRecord(f)
    BY <2>2
  <2>4. AbandonTurn(f).exec = "settling"
    BY <2>3 DEF AbandonTurn, IsRecord, Fields
  <2> QED BY <1>3, <2>2, <2>3, <2>4 DEF ExecFalls, ExecLeft, r
<1>7. CASE RunReturns(a)
  <2>1. Becomes(a, AbandonTurn(r)) /\ r.exec = "running"
    BY <1>2, <1>7 DEF RunReturns, RunSettled, r
  <2>2. AbandonTurn(r).exec = "settling"
    BY <1>2 DEF AbandonTurn, IsRecord, Fields
  <2> QED BY <1>3, <2>1, <2>2 DEF ExecFalls, ExecLeft, r
<1>8. ~BeginSuspend(a)
  BY DEF BeginSuspend, Idle
<1>9. CASE SettleExecution(a) \/ SuspendReturns(a)
  <2>1. /\ r.exec \in {"settling", "suspending"}
        /\ \E f : /\ Becomes(a, FinishExecution(f)) /\ IsRecord(f)
                  /\ f.closing /\ f.status # "absent"
    <3>1. CASE SettleExecution(a)
      <4> DEFINE f == [r EXCEPT !.resident = r.resident /\ ~(Idle(r) /\ r.session # "open")]
      <4>1. r.exec = "settling" /\ Becomes(a, FinishExecution(f))
        BY <3>1 DEF SettleExecution, r
      <4>2. IsRecord(f) /\ f.closing = r.closing /\ f.status = r.status
        BY <1>2 DEF IsRecord, Fields
      <4> HIDE DEF f
      <4> QED BY <1>4, <4>1, <4>2 DEF r
    <3>2. CASE SuspendSettled(a)
      <4> DEFINE f == [r EXCEPT !.native = "suspended",
                                !.resident = r.resident /\ (r.closing \/ r.queue > 0)]
      <4>1. r.exec = "suspending" /\ Becomes(a, FinishExecution(f))
        BY <3>2 DEF SuspendSettled, r
      <4>2. IsRecord(f) /\ f.closing = r.closing /\ f.status = r.status
        BY <1>2 DEF IsRecord, Fields
      <4> HIDE DEF f
      <4> QED BY <1>4, <4>1, <4>2 DEF r
    <3>3. CASE SuspendFailed(a)
      <4> DEFINE f == [r EXCEPT !.cleanupError = TRUE, !.queue = 0,
                        !.status = IF r.queue > 0 /\ ~IsClosed(r) THEN "failed" ELSE r.status]
      <4>1. r.exec = "suspending" /\ Becomes(a, FinishExecution(f))
        BY <3>3 DEF SuspendFailed, r
      <4>2. IsRecord(f) /\ f.closing = r.closing /\ f.status = r.status
        BY <1>2 DEF IsRecord, Fields
      <4> HIDE DEF f
      <4> QED BY <1>4, <4>1, <4>2 DEF r
    <3> QED BY <1>9, <3>1, <3>2, <3>3 DEF SuspendReturns
  <2>2. PICK f : /\ Becomes(a, FinishExecution(f)) /\ IsRecord(f)
                 /\ f.closing /\ f.status # "absent"
    BY <2>1
  <2>3. FinishExecution(f).exec = "none"
    BY <2>2, FinishExecutionGoes
  <2> QED BY <1>3, <2>1, <2>2, <2>3 DEF ExecFalls, ExecLeft, r
<1> QED BY <1>5, <1>6, <1>7, <1>8, <1>9

\* What a stage of the cleanup leaves of it.
LEMMA CleaningFalls ==
  ASSUME ClosingInvariant, NEW a \in Agents,
         DeactivateReturns(a) \/ Drain(a) \/ DisposeReturns(a) \/ PublishReturns(a)
  PROVE  CleanupFalls(agents[a], agents'[a])
<1> DEFINE r == agents[a]
<1>1. IsRecord(r) /\ agents \in [Agents -> AgentRecord]
  BY GoodAgents DEF ClosingInvariant, SlotInvariant, TypeOK, Good
<1>2. ASSUME NEW s, Becomes(a, s) PROVE agents'[a] = s
  BY <1>1, <1>2 DEF Becomes
<1> HIDE DEF r
<1>3. ASSUME NEW f, IsRecord(f)
      PROVE  /\ Confirm(f).cleanup = "done"
             /\ PublishUnlessFailed(f).cleanup \in {"publishing", "done"}
             /\ AfterDrain(f).cleanup \in {"disposing", "publishing", "done"}
  BY <1>3 DEF Confirm, PublishUnlessFailed, AfterDrain, IsRecord, Fields
<1>4. ASSUME NEW ok \in BOOLEAN, DeactivateSettled(a, ok)
      PROVE  CleanupFalls(r, agents'[a])
  <2> DEFINE f == [r EXCEPT !.cleanup = "draining", !.cleanupError = r.cleanupError \/ ~ok]
  <2>1. r.cleanup = "deactivating" /\ Becomes(a, f)
    BY <1>4 DEF DeactivateSettled, r
  <2>2. f.cleanup = "draining"
    BY <1>1 DEF IsRecord, Fields
  <2> HIDE DEF f
  <2> QED BY <1>2, <2>1, <2>2 DEF CleanupFalls, CleanupLeft
<1>5. ASSUME Drain(a) PROVE CleanupFalls(r, agents'[a])
  <2> DEFINE u == \E c \in Children(a) : ~agents[c].released \/ agents[c].cleanupError
             f == [r EXCEPT !.cleanupError = r.cleanupError \/ u]
  <2>1. r.cleanup = "draining" /\ Becomes(a, AfterDrain(f))
    BY <1>5 DEF Drain, r
  <2> HIDE DEF u
  <2>2. IsRecord(f)
    BY <1>1 DEF IsRecord
  <2> HIDE DEF f
  <2> QED BY <1>2, <1>3, <2>1, <2>2 DEF CleanupFalls, CleanupLeft
<1>6. ASSUME NEW ok \in BOOLEAN, DisposeSettled(a, ok)
      PROVE  CleanupFalls(r, agents'[a])
  <2> DEFINE f == [r EXCEPT !.cleanupError = r.cleanupError \/ ~ok,
                            !.native = IF ok THEN "closed" ELSE r.native]
  <2>1. r.cleanup = "disposing" /\ Becomes(a, PublishUnlessFailed(f))
    BY <1>6 DEF DisposeSettled, r
  <2>2. IsRecord(f)
    BY <1>1 DEF IsRecord
  <2> HIDE DEF f
  <2> QED BY <1>2, <1>3, <2>1, <2>2 DEF CleanupFalls, CleanupLeft
<1>7. ASSUME NEW ok \in BOOLEAN, PublishSettled(a, ok)
      PROVE  CleanupFalls(r, agents'[a])
  <2> DEFINE f == [r EXCEPT !.cleanupError = r.cleanupError \/ ~ok]
  <2>1. r.cleanup = "publishing" /\ Becomes(a, Confirm(f))
    BY <1>7 DEF PublishSettled, r
  <2>2. IsRecord(f)
    BY <1>1 DEF IsRecord
  <2> HIDE DEF f
  <2> QED BY <1>2, <1>3, <2>1, <2>2 DEF CleanupFalls, CleanupLeft
<1> QED BY <1>4, <1>5, <1>6, <1>7 DEF r, DeactivateReturns, DisposeReturns, PublishReturns

\* A call on one agent leaves an execution of a closing one as it is.
LEMMA CallsLeaveExecution ==
  ASSUME ClosingInvariant, NEW a \in Agents, agents[a].closing,
         \/ FollowupTask(a) \/ InterruptAgent(a) \/ PrepareFollowup(a)
         \/ (\E aborted \in BOOLEAN : ActivatePreparedTurn(a, aborted))
         \/ AbortExecution(a) \/ RollbackSpawn(a)
  PROVE  agents'[a].exec = agents[a].exec
<1>1. IsRecord(agents[a]) /\ agents \in [Agents -> AgentRecord]
  BY GoodAgents DEF ClosingInvariant, SlotInvariant, TypeOK, Good
<1>2. InClosingSubtree(a)
  BY DEF InClosingSubtree
<1>3. AbortExecution(a) \/ RollbackSpawn(a)
  BY <1>2 DEF FollowupTask, InterruptAgent, PrepareFollowup, ActivatePreparedTurn
<1>4. CASE AbortExecution(a)
  <2> DEFINE s == [agents[a] EXCEPT !.signal = "aborted"]
  <2>1. agents'[a] = s
    BY <1>1, <1>4 DEF AbortExecution, Becomes
  <2>2. s.exec = agents[a].exec
    BY <1>1 DEF IsRecord, Fields
  <2> QED BY <2>1, <2>2
<1>5. CASE RollbackSpawn(a)
  <2> DEFINE s == [agents[a] EXCEPT !.prepared = FALSE, !.reserved = FALSE,
                     !.status = "closed", !.closing = TRUE, !.session = "gone",
                     !.released = TRUE, !.resident = FALSE]
  <2>1. agents'[a] = s
    BY <1>1, <1>5 DEF RollbackSpawn, Becomes
  <2>2. s.exec = agents[a].exec
    BY <1>1 DEF IsRecord, Fields
  <2> QED BY <2>1, <2>2
<1> QED BY <1>3, <1>4, <1>5

\* A closing agent takes at most two more sections of its execution and five of
\* its cleanup, however often it is closed again and whichever of them fail.
THEOREM ClosingRunsOut == Spec => ClosingRunsDown
<1> DEFINE Falls(a) == ExecFalls(agents[a], agents'[a]) /\ CleanupFalls(agents[a], agents'[a])
<1>1. ASSUME ClosingInvariant, [Next]_vars, NEW a \in Agents, agents[a].closing
      PROVE  Falls(a)
  <2>1. TurnsSafe /\ Born /\ agents \in [Agents -> AgentRecord]
    BY <1>1 DEF TurnsSafe, ClosingInvariant, TreeSafe, SlotInvariant, TypeOK
  <2>2. ASSUME agents'[a] = agents[a] PROVE Falls(a)
    BY <2>2 DEF ExecFalls, CleanupFalls
  <2>3. ASSUME AllClose PROVE Falls(a)
    <3>1. CASE Closes(agents[a], agents'[a])
      BY <3>1, ClosesElim DEF Closes, ExecFalls, CleanupFalls, CleanupLeft
    <3> QED BY <2>2, <2>3, <3>1 DEF AllClose
  <2>4. ASSUME NEW b \in Agents, NEW p \in Agents \cup {Root}, Spawn(p, b) \/ PrepareSpawn(p, b)
        PROVE  Falls(a)
    <3>1. ~Exists(b) /\ \E s : Becomes(b, s)
      BY <2>4 DEF Spawn, PrepareSpawn, CanSpawn
    <3>2. a # b
      BY <1>1, <2>1, <3>1 DEF Born, AbsentRecord
    <3> QED BY <2>1, <2>2, <3>1, <3>2 DEF Becomes
  <2>5. ASSUME NEW b \in Agents, TurnStep(b), b = a => ExecFalls(agents[a], agents'[a])
        PROVE  Falls(a)
    <3>1. b # a => agents'[a] = agents[a]
      BY <2>1, <2>5 DEF TurnStep, Becomes
    <3>2. agents'[b].cleanup = agents[b].cleanup
      BY <2>5, GoesElim DEF TurnStep
    <3> QED BY <2>2, <2>5, <3>1, <3>2 DEF CleanupFalls
  <2>6. ASSUME NEW b \in Agents,
               \/ FollowupTask(b) \/ InterruptAgent(b) \/ PrepareFollowup(b)
               \/ (\E aborted \in BOOLEAN : ActivatePreparedTurn(b, aborted))
               \/ AbortExecution(b)
        PROVE  Falls(a)
    <3>1. TurnStep(b)
      BY <2>1, <2>6, FollowupTaskGoes, InterruptAgentGoes, PrepareFollowupGoes,
         ActivatePreparedTurnGoes, AbortExecutionGoes
    <3>2. b = a => ExecFalls(agents[a], agents'[a])
      BY <1>1, <2>6, CallsLeaveExecution DEF ExecFalls
    <3> QED BY <2>5, <3>1, <3>2
  <2>7. ASSUME NEW b \in Agents, RollbackSpawn(b) PROVE Falls(a)
    <3>1. b # a => agents'[a] = agents[a]
      BY <2>1, <2>7 DEF RollbackSpawn, Becomes
    <3>2. b = a => agents'[a].exec = agents[a].exec
      BY <1>1, <2>7, CallsLeaveExecution
    <3>3. b = a => agents'[a].cleanup = agents[a].cleanup
      BY <2>1, <2>7 DEF RollbackSpawn, Becomes, AgentRecord
    <3> QED BY <2>2, <3>1, <3>2, <3>3 DEF ExecFalls, CleanupFalls
  <2>8. ASSUME NEW b \in Agents,
               \/ StartExternal(b) \/ CreateReturns(b) \/ RunReturns(b)
               \/ BeginSuspend(b) \/ SettleExecution(b) \/ SuspendReturns(b)
        PROVE  Falls(a)
    <3>1. TurnStep(b)
      BY <2>1, <2>8, StartExternalGoes, CreateSettledGoes, CreateFailedGoes, RunSettledGoes,
         BeginSuspendGoes, SettleExecutionGoes, SuspendSettledGoes, SuspendFailedGoes
      DEF CreateReturns, RunReturns, SuspendReturns
    <3>2. b = a => ExecFalls(agents[a], agents'[a])
      BY <1>1, <2>8, ClosingTurnFalls
    <3> QED BY <2>5, <3>1, <3>2
  <2>9. ASSUME NEW b \in Agents,
               DeactivateReturns(b) \/ Drain(b) \/ DisposeReturns(b) \/ PublishReturns(b)
        PROVE  Falls(a)
    <3>1. CleanStep(b)
      BY <1>1, <2>9, DeactivateSettledSafe, DrainSafe, DisposeSettledSafe, PublishSettledSafe
      DEF DeactivateReturns, DisposeReturns, PublishReturns
    <3>2. agents'[b].exec = agents[b].exec
      BY <3>1, CleansElim DEF CleanStep
    <3>3. CleanupFalls(agents[b], agents'[b])
      BY <1>1, <2>9, CleaningFalls
    <3>4. b # a => agents'[a] = agents[a]
      BY <2>1, <3>1 DEF CleanStep, Becomes
    <3> QED BY <2>2, <3>2, <3>3, <3>4 DEF ExecFalls
  <2>10. ASSUME NEW b \in Agents, Timeout(b) \/ CloseAgent(b) \/ CloseNext(b)
         PROVE  Falls(a)
    BY <1>1, <2>3, <2>10, TimeoutSafe, CloseAgentSafe, CloseNextSafe
  <2>11. ASSUME Dispose \/ DisposeEnds \/ UNCHANGED vars PROVE Falls(a)
    BY <1>1, <2>2, <2>3, <2>11, DisposeSafe DEF DisposeEnds, vars
  <2> HIDE DEF Falls
  <2>12. Calls => Falls(a)
    BY <2>4, <2>6, <2>7, <2>10, <2>11 DEF Calls
  <2>13. Turns => Falls(a)
    BY <2>8, <2>10 DEF Turns
  <2>14. Closings => Falls(a)
    BY <2>9, <2>10, <2>11 DEF Closings
  <2> QED BY <1>1, <2>11, <2>12, <2>13, <2>14 DEF Next
<1>2. ClosingInvariant /\ [Next]_vars =>
        [\A a \in Agents : agents[a].closing =>
           ExecFalls(agents[a], agents'[a]) /\ CleanupFalls(agents[a], agents'[a])]_vars
  BY <1>1
<1> QED BY <1>2, ClosingInvariantHolds, PTL DEF Spec, ClosingRunsDown

-----------------------------------------------------------------------------
(* When the session of an agent holds a runtime.                            *)

\* A session that is being created holds a runtime already.
Runs(r) == r.exec = "creating" => r.native = "live"

\* From record r to record s, a closing agent acquires no runtime other than
\* that of a creation in progress, and a creation begins with one.
NativeKept(r, s) ==
  /\ s.native = "live" /\ r.closing => r.native = "live" \/ r.exec = "creating"
  /\ s.exec = "creating" => \/ s.native = "live"
                            \/ r.exec = "creating" /\ s.native = r.native

\* One iteration of processQueue.
LEMMA BeginTurnNative ==
  ASSUME NEW q, NEW r, IsRecord(r), ~q.closing
  PROVE  NativeKept(q, BeginTurn(r))
<1>1. BeginTurn(r).native = "live"
  BY DEF BeginTurn, IsRecord, Fields
<1> QED BY <1>1 DEF NativeKept

\* A turn that ends without a next one.
LEMMA AbandonTurnNative ==
  ASSUME NEW q, NEW r, IsRecord(r),
         r.native = "live" /\ q.closing => q.native = "live" \/ q.exec = "creating"
  PROVE  NativeKept(q, AbandonTurn(r))
<1>1. AbandonTurn(r).exec = "settling" /\ AbandonTurn(r).native = r.native
  BY DEF AbandonTurn, IsRecord, Fields
<1> QED BY <1>1 DEF NativeKept

\* A turn that ends with a status.
LEMMA EndTurnNative ==
  ASSUME NEW q, NEW r, NEW status, IsRecord(r), q.closing = r.closing,
         r.native = "live" /\ q.closing => q.native = "live" \/ q.exec = "creating"
  PROVE  NativeKept(q, EndTurn(r, status))
<1> DEFINE ended == [r EXCEPT !.status = status, !.signal = "none"]
           s == [ended EXCEPT !.exec = "settling"]
<1>1. IsRecord(ended) /\ ended.closing = r.closing
  BY DEF IsRecord, Fields
<1>2. s.exec = "settling" /\ s.native = r.native
  BY DEF IsRecord, Fields
<1>3. EndTurn(r, status) = IF CanRun(ended) THEN BeginTurn(ended) ELSE s
  BY DEF EndTurn
<1> HIDE DEF ended, s
<1>4. CASE CanRun(ended)
  BY <1>1, <1>3, <1>4, BeginTurnNative DEF CanRun, IsClosed
<1>5. CASE ~CanRun(ended)
  BY <1>2, <1>3, <1>5 DEF NativeKept
<1> QED BY <1>4, <1>5

\* The end of the finally callback of schedule.
LEMMA FinishExecutionNative ==
  ASSUME NEW q, NEW r, IsRecord(r), q.closing = r.closing,
         r.native = "live" /\ q.closing => q.native = "live" \/ q.exec = "creating"
  PROVE  NativeKept(q, FinishExecution(r))
<1> DEFINE idle == [r EXCEPT !.exec = "none", !.signal = "none"]
           next == [idle EXCEPT !.status = "pending"]
<1>1. /\ IsRecord(next) /\ idle.closing = r.closing
      /\ idle.exec = "none" /\ idle.native = r.native
  BY DEF IsRecord, Fields
<1>2. FinishExecution(r) = IF CanRun(idle) THEN BeginTurn(next) ELSE idle
  BY DEF FinishExecution
<1> HIDE DEF idle, next
<1>3. CASE CanRun(idle)
  BY <1>1, <1>2, <1>3, BeginTurnNative DEF CanRun, IsClosed
<1>4. CASE ~CanRun(idle)
  BY <1>1, <1>2, <1>4 DEF NativeKept
<1> QED BY <1>3, <1>4

\* The sections of a turn in the automatic mode.
LEMMA TurnNative ==
  ASSUME SlotInvariant, ~External, NEW a \in Agents,
         \/ FollowupTask(a) \/ InterruptAgent(a)
         \/ StartExternal(a) \/ CreateReturns(a) \/ RunReturns(a)
         \/ BeginSuspend(a) \/ SettleExecution(a) \/ SuspendReturns(a)
  PROVE  NativeKept(agents[a], agents'[a])
<1> DEFINE r == agents[a]
<1>1. IsRecord(r) /\ \A s : Becomes(a, s) => agents'[a] = s
  BY GoodAgents, BecomesElim DEF Good
<1>2. CASE FollowupTask(a)
  <2> DEFINE s == [r EXCEPT !.resident = TRUE, !.queue = r.queue + 1,
                            !.status = IF r.status = "running" THEN r.status ELSE "pending"]
  <2>1. ~r.closing /\ Becomes(a, IF r.exec = "none" THEN BeginTurn(s) ELSE s)
    BY <1>2 DEF FollowupTask, InClosingSubtree
  <2>2. IsRecord(s) /\ s.exec = r.exec /\ s.native = r.native
    BY <1>1 DEF IsRecord, Fields
  <2> HIDE DEF s, r
  <2>3. NativeKept(r, s) /\ NativeKept(r, BeginTurn(s))
    BY <2>1, <2>2, BeginTurnNative DEF NativeKept
  <2> QED BY <1>1, <2>1, <2>3 DEF r
<1>3. CASE InterruptAgent(a)
  <2> DEFINE s == [r EXCEPT !.queue = 0, !.status = "interrupted",
                            !.signal = IF r.signal = "live" THEN "aborted" ELSE r.signal]
  <2>1. Becomes(a, s)
    BY <1>3 DEF InterruptAgent
  <2>2. s.exec = r.exec /\ s.native = r.native
    BY <1>1 DEF IsRecord, Fields
  <2> QED BY <1>1, <2>1, <2>2 DEF NativeKept
<1>4. CASE StartExternal(a)
  <2> DEFINE begun == [r EXCEPT !.queue = r.queue - 1, !.timedOut = FALSE]
             s == [r EXCEPT !.exec = "settling"]
  <2>1. Becomes(a, IF ~CanRun(r) THEN s
                   ELSE IF r.signal = "aborted" THEN EndTurn(begun, "interrupted")
                   ELSE BeginTurn(r))
    BY <1>4 DEF StartExternal
  <2>2. /\ IsRecord(begun) /\ begun.closing = r.closing /\ begun.native = r.native
        /\ s.exec = "settling" /\ s.native = r.native
    BY <1>1 DEF IsRecord, Fields
  <2> HIDE DEF begun, s, r
  <2>3. NativeKept(r, s) /\ NativeKept(r, EndTurn(begun, "interrupted"))
    BY <2>2, EndTurnNative DEF NativeKept
  <2>4. CanRun(r) => NativeKept(r, BeginTurn(r))
    BY <1>1, BeginTurnNative DEF CanRun, IsClosed
  <2> QED BY <1>1, <2>1, <2>3, <2>4 DEF r
<1>5. CASE CreateSettled(a)
  <2> DEFINE opened == [r EXCEPT !.session = "open"]
             s == [opened EXCEPT !.status = "running", !.exec = "running"]
  <2>1. Becomes(a, IF IsClosed(opened) THEN AbandonTurn(opened)
                   ELSE IF opened.signal = "aborted" THEN EndTurn(opened, "interrupted")
                   ELSE s)
    BY <1>5 DEF CreateSettled
  <2>2. /\ IsRecord(opened) /\ opened.closing = r.closing /\ opened.native = r.native
        /\ s.exec = "running" /\ s.native = r.native
    BY <1>1 DEF IsRecord, Fields
  <2> HIDE DEF opened, s, r
  <2>3. /\ NativeKept(r, s) /\ NativeKept(r, EndTurn(opened, "interrupted"))
        /\ NativeKept(r, AbandonTurn(opened))
    BY <2>2, EndTurnNative, AbandonTurnNative DEF NativeKept
  <2> QED BY <1>1, <2>1, <2>3 DEF r
<1>6. ASSUME NEW outcome, CreateFailed(a, outcome)
      PROVE  NativeKept(r, agents'[a])
  <2> DEFINE leak == outcome = "leak"
             out == IsClosed(r) \/ r.timedOut
             s == [r EXCEPT !.native = IF leak THEN "live" ELSE "none",
                            !.session = IF leak THEN "gone" ELSE r.session,
                            !.cleanupError = r.cleanupError \/ leak]
  <2>1. /\ Becomes(a, IF out THEN AbandonTurn(s) ELSE EndTurn(s, TurnStatus(s, outcome)))
        /\ r.exec = "creating"
    BY <1>6 DEF CreateFailed
  <2>2. IsRecord(s) /\ s.closing = r.closing
    BY <1>1 DEF IsRecord, Fields
  <2> HIDE DEF s, r, out
  <2>3. /\ NativeKept(r, AbandonTurn(s))
        /\ NativeKept(r, EndTurn(s, TurnStatus(s, outcome)))
    BY <2>1, <2>2, EndTurnNative, AbandonTurnNative
  <2> QED BY <1>1, <2>1, <2>3
<1>7. ASSUME NEW outcome, RunSettled(a, outcome)
      PROVE  NativeKept(r, agents'[a])
  <2> DEFINE out == IsClosed(r) \/ r.timedOut
  <2>1. Becomes(a, IF out THEN AbandonTurn(r) ELSE EndTurn(r, TurnStatus(r, outcome)))
    BY <1>7 DEF RunSettled
  <2> HIDE DEF r, out
  <2>2. /\ NativeKept(r, AbandonTurn(r))
        /\ NativeKept(r, EndTurn(r, TurnStatus(r, outcome)))
    BY <1>1, EndTurnNative, AbandonTurnNative
  <2> QED BY <1>1, <2>1, <2>2
<1>8. CASE BeginSuspend(a)
  <2> DEFINE s == [r EXCEPT !.exec = "suspending"]
  <2>1. Becomes(a, s)
    BY <1>8 DEF BeginSuspend
  <2>2. s.exec = "suspending" /\ s.native = r.native
    BY <1>1 DEF IsRecord, Fields
  <2> QED BY <1>1, <2>1, <2>2 DEF NativeKept
<1>9. CASE SettleExecution(a)
  <2> DEFINE s == [r EXCEPT !.resident = r.resident /\ ~(Idle(r) /\ r.session # "open")]
  <2>1. Becomes(a, FinishExecution(s))
    BY <1>9 DEF SettleExecution
  <2>2. IsRecord(s) /\ s.closing = r.closing /\ s.native = r.native
    BY <1>1 DEF IsRecord, Fields
  <2> HIDE DEF s, r
  <2>3. NativeKept(r, FinishExecution(s))
    BY <2>2, FinishExecutionNative
  <2> QED BY <1>1, <2>1, <2>3 DEF r
<1>10. CASE SuspendSettled(a)
  <2> DEFINE s == [r EXCEPT !.native = "suspended",
                            !.resident = r.resident /\ (r.closing \/ r.queue > 0)]
  <2>1. Becomes(a, FinishExecution(s))
    BY <1>10 DEF SuspendSettled
  <2>2. IsRecord(s) /\ s.closing = r.closing /\ s.native = "suspended"
    BY <1>1 DEF IsRecord, Fields
  <2> HIDE DEF s, r
  <2>3. NativeKept(r, FinishExecution(s))
    BY <2>2, FinishExecutionNative
  <2> QED BY <1>1, <2>1, <2>3 DEF r
<1>11. CASE SuspendFailed(a)
  <2> DEFINE s == [r EXCEPT !.cleanupError = TRUE, !.queue = 0,
                            !.status = IF r.queue > 0 /\ ~IsClosed(r) THEN "failed"
                                                                      ELSE r.status]
  <2>1. Becomes(a, FinishExecution(s))
    BY <1>11 DEF SuspendFailed
  <2>2. IsRecord(s) /\ s.closing = r.closing /\ s.native = r.native
    BY <1>1 DEF IsRecord, Fields
  <2> HIDE DEF s, r
  <2>3. NativeKept(r, FinishExecution(s))
    BY <2>2, FinishExecutionNative
  <2> QED BY <1>1, <2>1, <2>3 DEF r
<1> QED BY <1>2, <1>3, <1>4, <1>5, <1>6, <1>7, <1>8, <1>9, <1>10, <1>11
        DEF CreateReturns, RunReturns, SuspendReturns

-----------------------------------------------------------------------------
(* The four kinds of steps of the automatic mode.                           *)

\* A turn goes on and keeps to NativeKept.
OwnTurn(a) == TurnStep(a) /\ NativeKept(agents[a], agents'[a])

\* In the automatic mode a step that carries a turn is one of these.
LEMMA StepKinds ==
  ASSUME ClosingInvariant, ~External, [Next]_vars
  PROVE  \/ \E a \in Agents, p \in Agents \cup {Root} : Spawn(p, a)
         \/ \E a \in Agents : OwnTurn(a)
         \/ AllClose
         \/ \E a \in Agents : CleanStep(a)
<1>1. TurnsSafe /\ SlotInvariant
  BY DEF TurnsSafe, ClosingInvariant, TreeSafe
<1>2. CASE Calls
  <2>1. ASSUME NEW a \in Agents, FollowupTask(a) \/ InterruptAgent(a)
        PROVE  OwnTurn(a)
    BY <1>1, <2>1, FollowupTaskGoes, InterruptAgentGoes, TurnNative DEF OwnTurn
  <2>2. ASSUME NEW a \in Agents, CloseAgent(a)
        PROVE  AllClose
    BY <2>2, CloseAgentSafe
  <2>3. CASE Dispose
    BY <2>3, DisposeSafe
  <2>4. ASSUME NEW a \in Agents, NEW p, NEW aborted
        PROVE  /\ ~PrepareSpawn(p, a) /\ ~PrepareFollowup(a) /\ ~ActivatePreparedTurn(a, aborted)
               /\ ~RollbackSpawn(a) /\ ~AbortExecution(a)
    BY DEF PrepareSpawn, PrepareFollowup, ActivatePreparedTurn, RollbackSpawn, AbortExecution
  <2> QED BY <1>2, <2>1, <2>2, <2>3, <2>4 DEF Calls
<1>3. CASE Turns
  <2>1. ASSUME NEW a \in Agents, Timeout(a)
        PROVE  AllClose
    BY <2>1, TimeoutSafe
  <2>2. ASSUME NEW a \in Agents,
               \/ StartExternal(a) \/ CreateReturns(a) \/ RunReturns(a)
               \/ BeginSuspend(a) \/ SettleExecution(a) \/ SuspendReturns(a)
        PROVE  OwnTurn(a)
    <3>1. TurnStep(a)
      BY <1>1, <2>2, StartExternalGoes, CreateSettledGoes, CreateFailedGoes, RunSettledGoes,
         BeginSuspendGoes, SettleExecutionGoes, SuspendSettledGoes, SuspendFailedGoes
      DEF CreateReturns, RunReturns, SuspendReturns
    <3> QED BY <1>1, <2>2, <3>1, TurnNative DEF OwnTurn
  <2> QED BY <1>3, <2>1, <2>2 DEF Turns
<1>4. CASE Closings
  <2>1. ASSUME NEW a \in Agents, CloseNext(a)
        PROVE  AllClose
    BY <2>1, CloseNextSafe
  <2>2. ASSUME NEW a \in Agents,
               DeactivateReturns(a) \/ Drain(a) \/ DisposeReturns(a) \/ PublishReturns(a)
        PROVE  CleanStep(a)
    BY <2>2, DeactivateSettledSafe, DrainSafe, DisposeSettledSafe, PublishSettledSafe
    DEF DeactivateReturns, DisposeReturns, PublishReturns
  <2>3. CASE DisposeEnds
    BY <2>3, IdleSafe DEF DisposeEnds
  <2> QED BY <1>4, <2>1, <2>2, <2>3 DEF Closings
<1>5. CASE UNCHANGED vars
  BY <1>5, IdleSafe DEF vars
<1> QED BY <1>2, <1>3, <1>4, <1>5 DEF Next

\* The record that spawn creates.
LEMMA SpawnIs ==
  ASSUME ClosingInvariant, NEW a \in Agents, NEW p \in Agents \cup {Root}, Spawn(p, a)
  PROVE  /\ agents[a] = AbsentRecord /\ OpenCaller(p)
         /\ \A b \in Agents : b # a => agents'[b] = agents[b]
         /\ agents'[a].status # "absent" /\ ~agents'[a].closing /\ agents'[a].native = "live"
         /\ agents'[a].ancestors = IF p = Root THEN {} ELSE agents[p].ancestors \cup {p}
<1> DEFINE n == NewRecord(p)
           s == [n EXCEPT !.resident = TRUE, !.queue = 1]
           b == BeginTurn(s)
<1>1. /\ IsRecord(n) /\ n.status = "pending" /\ ~n.closing
      /\ n.ancestors = IF p = Root THEN {} ELSE agents[p].ancestors \cup {p}
  BY NewRecordIs DEF ClosingInvariant
<1>2. SlotInvariant /\ Born /\ agents \in [Agents -> AgentRecord]
  BY DEF ClosingInvariant, TreeSafe, SlotInvariant, TypeOK
<1>3. Becomes(a, b) /\ ~Exists(a) /\ OpenCaller(p)
  BY DEF Spawn, CanSpawn
<1>4. agents'[a] = b /\ \A c \in Agents : c # a => agents'[c] = agents[c]
  BY <1>2, <1>3 DEF Becomes
<1> HIDE DEF n
<1>5. IsRecord(s) /\ s.status = n.status /\ s.closing = n.closing /\ s.ancestors = n.ancestors
  BY <1>1 DEF IsRecord, Fields
<1> HIDE DEF s
<1>6. /\ b.native = "live" /\ b.closing = s.closing /\ b.ancestors = s.ancestors
      /\ b.status # "absent"
  BY <1>1, <1>5 DEF BeginTurn, IsRecord, Fields
<1> HIDE DEF b
<1> QED BY <1>1, <1>2, <1>3, <1>4, <1>5, <1>6 DEF Born

\* In the automatic mode every creation in progress holds a runtime.
LEMMA RunsNext ==
  ASSUME ClosingInvariant, ~External, \A a \in Agents : Runs(agents[a]), [Next]_vars
  PROVE  \A a \in Agents : Runs(agents'[a])
<1>1. agents \in [Agents -> AgentRecord]
  BY DEF ClosingInvariant, SlotInvariant, TypeOK
<1>2. ASSUME NEW a \in Agents, NEW p \in Agents \cup {Root}, Spawn(p, a), NEW b \in Agents
      PROVE  Runs(agents'[b])
  BY <1>2, SpawnIs DEF Runs
<1>3. ASSUME NEW a \in Agents, OwnTurn(a), NEW b \in Agents
      PROVE  Runs(agents'[b])
  <2>1. b # a => agents'[b] = agents[b]
    BY <1>1, <1>3 DEF OwnTurn, TurnStep, Becomes
  <2>2. Runs(agents'[a])
    BY <1>3 DEF OwnTurn, NativeKept, Runs
  <2> QED BY <2>1, <2>2
<1>4. ASSUME AllClose, NEW b \in Agents
      PROVE  Runs(agents'[b])
  BY <1>4, ClosesElim DEF AllClose, Runs
<1>5. ASSUME NEW a \in Agents, CleanStep(a), NEW b \in Agents
      PROVE  Runs(agents'[b])
  <2>1. b # a => agents'[b] = agents[b]
    BY <1>1, <1>5 DEF CleanStep, Becomes
  <2>2. agents'[a].exec = agents[a].exec
    BY <1>5, CleansElim DEF CleanStep
  <2>3. Runs(agents'[a])
    BY <1>5, <2>2 DEF CleanStep, Runs
  <2> QED BY <2>1, <2>3
<1> QED BY <1>2, <1>3, <1>4, <1>5, StepKinds

-----------------------------------------------------------------------------
(* Each kind of step is a step of AgentOwnership, or none.                  *)

\* The state of AgentOwnership before and after.
ownPhase == [a \in Agents |-> PhaseOf(agents[a])]
ownAncestors == [a \in Agents |-> agents[a].ancestors]

\* The abstract module counts sets as this one does.
LEMMA SameCardinality ==
  ASSUME NEW S
  PROVE  Ownership!Cardinality(S) = Cardinality(S)
BY DEF Cardinality, Ownership!Cardinality

\* A runtime is acquired below the capacity, since the bound holds afterwards.
LEMMA CapacityLeft ==
  ASSUME SlotInvariant, SlotInvariant', NEW a \in Agents,
         LiveSessions' = LiveSessions \cup {a}, a \notin LiveSessions
  PROVE  Cardinality(LiveSessions) < MaxResidentAgents - 1
<1>1. IsFiniteSet(LiveSessions) /\ Cardinality(LiveSessions) \in Nat
  BY AgentsAssumption, FS_Subset, FS_CardinalityType DEF LiveSessions
<1>2. Cardinality(LiveSessions') = Cardinality(LiveSessions) + 1
  BY <1>1, FS_AddElement
<1>3. IsFiniteSet(Residents') /\ Cardinality(Residents') \in Nat
  BY AgentsAssumption, FS_Subset, FS_CardinalityType DEF Residents
<1>4. LiveSessions' \subseteq Residents'
  BY DEF LiveSessions, Residents, SlotInvariant, SlotSafe
<1>5. Cardinality(LiveSessions') <= Cardinality(Residents')
  BY <1>3, <1>4, FS_Subset
<1>6. Cardinality(Residents') + 1 <= MaxResidentAgents
  BY DEF SlotInvariant, SlotsBounded
<1> QED BY <1>1, <1>2, <1>3, <1>5, <1>6, LimitsAssumption

\* An agent is created.
LEMMA SpawnOwns ==
  ASSUME ClosingInvariant, SlotInvariant', NEW a \in Agents, NEW p \in Agents \cup {Root}, Spawn(p, a)
  PROVE  Ownership!Open(a)
<1>1. /\ agents[a] = AbsentRecord /\ OpenCaller(p)
      /\ \A b \in Agents : b # a => agents'[b] = agents[b]
      /\ agents'[a].status # "absent" /\ ~agents'[a].closing /\ agents'[a].native = "live"
      /\ agents'[a].ancestors = IF p = Root THEN {} ELSE agents[p].ancestors \cup {p}
  BY SpawnIs
<1>2. PhaseOf(agents[a]) = "absent" /\ PhaseOf(agents'[a]) = "open"
  BY <1>1 DEF PhaseOf, AbsentRecord
<1>3. LiveSessions' = LiveSessions \cup {a} /\ a \notin LiveSessions
  BY <1>1 DEF LiveSessions, AbsentRecord
<1>4. Cardinality(LiveSessions) < MaxResidentAgents - 1
  BY <1>3, CapacityLeft DEF ClosingInvariant
<1>5. ownPhase' = [ownPhase EXCEPT ![a] = "open"]
  BY <1>1, <1>2 DEF ownPhase
<1>6. CASE p = Root
  <2>1. ownAncestors' = ownAncestors
    BY <1>1, <1>6 DEF ownAncestors, AbsentRecord
  <2> QED BY <1>2, <1>3, <1>4, <1>5, <2>1, SameCardinality DEF Ownership!Open, ownPhase, ownAncestors
<1>7. CASE p # Root
  <2>1. p \in Agents /\ PhaseOf(agents[p]) = "open"
    BY <1>1, <1>7 DEF OpenCaller, PhaseOf, Exists, InClosingSubtree
  <2>2. ownAncestors' = [ownAncestors EXCEPT ![a] = ownAncestors[p] \cup {p}]
    BY <1>1, <1>7, <2>1 DEF ownAncestors
  <2> QED BY <1>2, <1>3, <1>4, <1>5, <2>1, <2>2, SameCardinality DEF Ownership!Open, ownPhase, ownAncestors
<1> QED BY <1>6, <1>7

\* A turn goes on.
LEMMA TurnOwns ==
  ASSUME ClosingInvariant, SlotInvariant', NEW a \in Agents, Runs(agents[a]), OwnTurn(a)
  PROVE  Ownership!Acquire(a) \/ Ownership!Yield(a) \/ UNCHANGED Ownership!vars
<1>1. agents \in [Agents -> AgentRecord]
  BY DEF ClosingInvariant, SlotInvariant, TypeOK
<1>2. \A b \in Agents : b # a => agents'[b] = agents[b]
  BY <1>1 DEF OwnTurn, TurnStep, Becomes
<1>3. /\ agents'[a].ancestors = agents[a].ancestors
      /\ agents'[a].closing = agents[a].closing /\ agents'[a].cleanup = agents[a].cleanup
      /\ agents'[a].released = agents[a].released
  BY GoesElim DEF OwnTurn, TurnStep
<1>4. agents[a].status # "absent" /\ agents'[a].status # "absent"
  BY DEF OwnTurn, TurnStep, Goes, Exists
<1>5. ownPhase' = ownPhase /\ ownAncestors' = ownAncestors
  BY <1>2, <1>3, <1>4 DEF ownPhase, ownAncestors, PhaseOf
<1>6. CASE agents'[a].native # "live"
  <2>1. LiveSessions' = LiveSessions \ {a}
    BY <1>2, <1>6 DEF LiveSessions
  <2> QED BY <1>5, <2>1 DEF Ownership!Yield, ownPhase, ownAncestors
<1>7. CASE agents'[a].native = "live" /\ agents[a].native # "live"
  <2>1. LiveSessions' = LiveSessions \cup {a} /\ a \notin LiveSessions
    BY <1>2, <1>7 DEF LiveSessions
  <2>2. Cardinality(LiveSessions) < MaxResidentAgents - 1
    BY <2>1, CapacityLeft DEF ClosingInvariant
  <2>3. PhaseOf(agents[a]) = "open"
    BY <1>4, <1>7 DEF OwnTurn, NativeKept, Runs, PhaseOf
  <2> QED BY <1>5, <2>1, <2>2, <2>3, SameCardinality DEF Ownership!Acquire, ownPhase, ownAncestors
<1>8. CASE agents'[a].native = "live" /\ agents[a].native = "live"
  <2>1. LiveSessions' = LiveSessions
    BY <1>2, <1>8 DEF LiveSessions
  <2> QED BY <1>5, <2>1 DEF Ownership!vars, ownPhase, ownAncestors
<1> QED BY <1>6, <1>7, <1>8

\* Records are closed, with everything below them.
LEMMA CloseOwns ==
  ASSUME ClosingInvariant, StepSafe, AllClose
  PROVE  \E S \in SUBSET Agents : Ownership!Close(S)
<1> DEFINE S == {b \in Agents : agents'[b].closing}
<1>1. /\ SlotInvariant /\ Born
      /\ \A b \in Agents : /\ agents[b].cleanup # "none" => agents[b].closing
                           /\ agents[b].ancestors \subseteq Agents
  BY DEF ClosingInvariant, SlotInvariant, SlotSafe, TreeSafe, TypeOK, AgentRecord
<1>2. \A b \in Agents : /\ agents'[b].ancestors = agents[b].ancestors
                        /\ agents'[b].native = agents[b].native
                        /\ agents'[b].released = agents[b].released
  BY ClosesElim DEF AllClose
<1>3. ASSUME NEW b \in Agents, agents'[b].closing
      PROVE  /\ PhaseOf(agents[b]) # "absent"
             /\ \A e \in Agents : b \in agents[e].ancestors => agents'[e].closing
             /\ PhaseOf(agents'[b]) = IF PhaseOf(agents[b]) = "open" THEN "closing"
                                                                  ELSE PhaseOf(agents[b])
  <2>1. \A e \in Agents : b \in agents[e].ancestors => agents'[e].closing
    BY <1>2, <1>3 DEF StepSafe, TreeSafe, ClosingBelow
  <2>2. CASE agents'[b] = agents[b]
    <3>1. agents[b].closing /\ agents[b].status # "absent"
      BY <1>1, <1>3, <2>2 DEF Born, Exists, AbsentRecord
    <3> QED BY <2>1, <2>2, <3>1 DEF PhaseOf
  <2>3. CASE Exists(b) /\ Closes(agents[b], agents'[b])
    <3>1. /\ agents[b].status # "absent" /\ agents'[b].status # "absent"
          /\ \/ agents'[b].cleanup = agents[b].cleanup
             \/ agents[b].cleanup = "none" /\ agents'[b].cleanup \in {"deactivating", "draining"}
      BY <2>3 DEF Closes, Exists
    <3> QED BY <1>1, <1>2, <1>3, <2>1, <3>1 DEF PhaseOf
  <2> QED BY <2>2, <2>3 DEF AllClose
<1>4. \A b \in Agents : ~agents'[b].closing => agents'[b] = agents[b]
  BY DEF AllClose, Closes
<1>5. ownPhase' = [b \in Agents |-> IF b \in S /\ ownPhase[b] = "open" THEN "closing"
                                                                     ELSE ownPhase[b]]
  BY <1>3, <1>4 DEF ownPhase
<1>6. ownAncestors' = ownAncestors /\ LiveSessions' = LiveSessions
  BY <1>2 DEF ownAncestors, LiveSessions
<1>7. \A b \in S : /\ ownPhase[b] # "absent"
                   /\ {e \in Agents : b \in ownAncestors[e]} \subseteq S
  BY <1>3 DEF ownPhase, ownAncestors
<1>8. Ownership!Close(S)
  BY <1>5, <1>6, <1>7 DEF Ownership!Close, Ownership!Below, ownPhase, ownAncestors
<1> QED BY <1>8

\* The cleanup of a record goes on, or ends.
LEMMA CleanOwns ==
  ASSUME ClosingInvariant, ClosingInvariant', ~External, NEW a \in Agents, CleanStep(a)
  PROVE  \/ Ownership!Yield(a) \/ UNCHANGED Ownership!vars
         \/ \E outcome \in {"released", "unconfirmed"} : Ownership!Settle(a, outcome)
<1>1. agents \in [Agents -> AgentRecord] /\ Born
  BY DEF ClosingInvariant, SlotInvariant, TypeOK, TreeSafe
<1>2. \A b \in Agents : b # a => agents'[b] = agents[b]
  BY <1>1 DEF CleanStep, Becomes
<1>3. /\ agents'[a].ancestors = agents[a].ancestors /\ agents'[a].status = agents[a].status
      /\ agents'[a].closing = agents[a].closing
  BY CleansElim DEF CleanStep
<1>4. /\ agents[a].closing /\ agents[a].cleanup \notin {"none", "done"}
      /\ agents'[a].cleanup # "none" /\ agents[a].status # "absent"
  BY <1>1 DEF CleanStep, Cleans, Born, Exists, AbsentRecord
<1>5. ownAncestors' = ownAncestors /\ PhaseOf(agents[a]) = "closing"
  BY <1>2, <1>3, <1>4 DEF ownAncestors, PhaseOf
<1>6. /\ LiveSessions' \in {LiveSessions, LiveSessions \ {a}}
      /\ agents'[a].native # "live" => a \notin LiveSessions'
  BY <1>2 DEF CleanStep, LiveSessions
<1>7. CASE agents'[a].cleanup # "done"
  <2>1. PhaseOf(agents'[a]) = PhaseOf(agents[a])
    BY <1>3, <1>4, <1>7 DEF PhaseOf
  <2>2. ownPhase' = ownPhase
    BY <1>2, <2>1 DEF ownPhase
  <2>3. CASE LiveSessions' = LiveSessions
    BY <1>5, <2>2, <2>3 DEF Ownership!vars, ownPhase, ownAncestors
  <2>4. CASE LiveSessions' = LiveSessions \ {a}
    BY <1>5, <2>2, <2>4 DEF Ownership!Yield, ownPhase, ownAncestors
  <2> QED BY <1>6, <2>3, <2>4
<1>8. CASE agents'[a].cleanup = "done"
  <2> DEFINE outcome == IF agents'[a].released THEN "released" ELSE "unconfirmed"
  <2>1. PhaseOf(agents'[a]) = outcome
    BY <1>3, <1>4, <1>8 DEF PhaseOf
  <2>2. ownPhase' = [ownPhase EXCEPT ![a] = outcome]
    BY <1>2, <2>1 DEF ownPhase
  <2>3. ASSUME NEW d \in Agents, a \in agents[d].ancestors
        PROVE  /\ PhaseOf(agents[d]) \in {"released", "unconfirmed"}
               /\ agents'[a].released => PhaseOf(agents[d]) = "released"
    <3>1. d # a /\ agents'[d] = agents[d]
      BY <1>2, <2>3 DEF ClosingInvariant, TreeSafe, Ancestry
    <3>2. /\ agents'[d].cleanup = "done"
          /\ agents'[a].cleanupError \/ agents'[d].released
      BY <1>3, <1>8, <2>3, <3>1 DEF ClosingInvariant, CleanupSafe, CleanupBelow, Past, Over, Freed
    <3>3. agents'[a].released => ~agents'[a].cleanupError
      BY DEF ClosingInvariant, CleanupSafe, ReleaseSafe
    <3>4. agents[d].closing /\ agents[d].status # "absent"
      BY <1>1, <3>1, <3>2 DEF ClosingInvariant, SlotInvariant, SlotSafe, Born, Exists, AbsentRecord
    <3> QED BY <3>1, <3>2, <3>3, <3>4 DEF PhaseOf
  <2>4. agents'[a].released => a \notin LiveSessions'
    BY <1>6 DEF ClosingInvariant, SlotInvariant, SlotSafe
  <2>5. outcome \in {"released", "unconfirmed"} /\ (outcome = "released" => agents'[a].released)
    OBVIOUS
  <2> HIDE DEF outcome
  <2>6. /\ ownPhase[a] = "closing"
        /\ \A d \in Agents : a \in ownAncestors[d] =>
             /\ ownPhase[d] \in {"released", "unconfirmed"}
             /\ outcome = "released" => ownPhase[d] = "released"
    BY <1>5, <2>3, <2>5 DEF ownPhase, ownAncestors
  <2>7. Ownership!Settle(a, outcome)
    BY <1>5, <1>6, <2>2, <2>4, <2>5, <2>6
    DEF Ownership!Settle, Ownership!Below, Ownership!Settled, ownPhase, ownAncestors
  <2> QED BY <2>5, <2>7
<1> QED BY <1>7, <1>8

-----------------------------------------------------------------------------
\* In the automatic mode the coordinator implements AgentOwnership, for any
\* number of agents, limits and failing operations: a runtime is acquired only
\* below the capacity, a close takes a whole subtree in one step, leaves settle
\* first, and what is reported released is released with all below it.
THEOREM CoordinatorImplementsOwnership ==
  ASSUME ~External PROVE Spec => ImplementsOwnership
<1> DEFINE IInv == ClosingInvariant /\ \A a \in Agents : Runs(agents[a])
<1>1. Init => IInv /\ Ownership!Init
  <2> SUFFICES ASSUME Init PROVE IInv /\ Ownership!Init
    OBVIOUS
  <2>1. \A a \in Agents : agents[a] = AbsentRecord
    BY DEF Init
  <2>2. IInv
    BY <2>1, ClosingInvariantInit DEF Runs, AbsentRecord
  <2>3. /\ [a \in Agents |-> PhaseOf(agents[a])] = [a \in Agents |-> "absent"]
        /\ [a \in Agents |-> agents[a].ancestors] = [a \in Agents |-> {}]
        /\ LiveSessions = {}
    BY <2>1 DEF PhaseOf, LiveSessions, AbsentRecord
  <2> QED BY <2>2, <2>3 DEF Ownership!Init
<1>2. IInv /\ [Next]_vars => IInv'
  <2> SUFFICES ASSUME IInv, [Next]_vars PROVE IInv'
    OBVIOUS
  <2>1. ClosingInvariant'
    BY StepsSafe, SlotInvariantNext DEF ClosingInvariant, StepSafe
  <2> QED BY <2>1, RunsNext
<1>3. IInv /\ IInv' /\ [Next]_vars => [Ownership!Next]_(Ownership!vars)
  <2> SUFFICES ASSUME IInv, IInv', [Next]_vars
               PROVE  Ownership!Next \/ UNCHANGED Ownership!vars
    OBVIOUS
  <2>1. SlotInvariant' /\ StepSafe
    BY StepsSafe DEF ClosingInvariant
  <2>2. ASSUME NEW a \in Agents, NEW p \in Agents \cup {Root}, Spawn(p, a)
        PROVE  Ownership!Next
    BY <2>1, <2>2, SpawnOwns DEF Ownership!Next
  <2>3. ASSUME NEW a \in Agents, OwnTurn(a)
        PROVE  Ownership!Next \/ UNCHANGED Ownership!vars
    BY <2>1, <2>3, TurnOwns DEF Ownership!Next
  <2>4. CASE AllClose
    BY <2>1, <2>4, CloseOwns DEF Ownership!Next
  <2>5. ASSUME NEW a \in Agents, CleanStep(a)
        PROVE  Ownership!Next \/ UNCHANGED Ownership!vars
    BY <2>5, CleanOwns DEF Ownership!Next, Ownership!Settled
  <2> QED BY <2>2, <2>3, <2>4, <2>5, StepKinds
<1> QED BY <1>1, <1>2, <1>3, PTL DEF Spec, ImplementsOwnership, Ownership!Spec
=============================================================================
