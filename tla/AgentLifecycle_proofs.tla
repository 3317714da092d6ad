----------------------- MODULE AgentLifecycle_proofs -----------------------
EXTENDS AgentLifecycle, FiniteSetTheorems, TLAPS

-----------------------------------------------------------------------------
(* The inductive invariant.  What an agent's record must satisfy by itself  *)
(* for its session never to outlive its slot ...                            *)

SlotSafe(r) ==
  /\ r.native = "live" => HoldsSlot(r)
  /\ r.exec # "none" => r.resident /\ ~r.released /\ ~r.prepared
  /\ r.queue > 0 => r.resident /\ ~r.released
  /\ r.exec \in {"running", "suspending"} => r.session = "open"
  /\ r.exec # "creating" /\ r.session # "open" /\ r.native = "live" => r.cleanupError
  /\ r.cleanup # "none" => r.closing
  /\ r.cleanup \in {"disposing", "publishing", "done"} => r.exec = "none"
  /\ r.cleanup = "publishing" => ~r.cleanupError /\ r.native # "live"
  /\ r.released => r.closing /\ ~r.resident /\ ~r.reserved /\ r.native # "live"
  /\ r.prepared => External
  /\ r.prepared /\ ~r.closing => r.reserved
  /\ r.prepared => r.queue = 0
  /\ r.status = "closed" => r.closing
  /\ r.closing => r.queue = 0
  /\ r.queue > 0 /\ r.exec = "none" => r.cleanupError
  /\ r.prepared /\ ~r.followup => r.native # "live"

(* ... and what the coordinator must satisfy for a new slot to be there.    *)
SlotsBounded == Cardinality(Residents) + 1 <= MaxResidentAgents

SlotInvariant ==
  /\ TypeOK
  /\ \A a \in Agents : SlotSafe(agents[a])
  /\ SlotsBounded

-----------------------------------------------------------------------------
(* Records.  An update of many fields is typed field by field.              *)

Fields == {"status", "parent", "ancestors", "queue", "turn", "signal", "exec",
           "session", "native", "closing", "timedOut", "resident", "reserved",
           "prepared", "followup", "cleanup", "cleanupError", "released"}

IsRecord(r) == r = [f \in Fields |-> r[f]]

FieldsTyped(r) ==
  /\ r.status \in Status /\ r.parent \in Agents \cup {Root}
  /\ r.ancestors \in SUBSET Agents /\ r.queue \in Nat /\ r.turn \in Nat
  /\ r.signal \in {"none", "live", "aborted"} /\ r.exec \in Execution
  /\ r.session \in SessionField /\ r.native \in Native
  /\ r.closing \in BOOLEAN /\ r.timedOut \in BOOLEAN
  /\ r.resident \in BOOLEAN /\ r.reserved \in BOOLEAN
  /\ r.prepared \in BOOLEAN /\ r.followup \in BOOLEAN
  /\ r.cleanup \in Cleanup /\ r.cleanupError \in BOOLEAN
  /\ r.released \in BOOLEAN

\* A record with well-typed fields is an AgentRecord.
LEMMA RecordIntro ==
  ASSUME NEW r, IsRecord(r), FieldsTyped(r)
  PROVE  r \in AgentRecord
BY Zenon DEF IsRecord, FieldsTyped, Fields, AgentRecord

\* The fields of an AgentRecord are typed.
LEMMA RecordElim ==
  ASSUME NEW r \in AgentRecord
  PROVE  IsRecord(r) /\ FieldsTyped(r)
BY DEF IsRecord, FieldsTyped, Fields, AgentRecord

Good(r) == IsRecord(r) /\ FieldsTyped(r) /\ SlotSafe(r)


\* s has the fields of r but for those in changed.
Same(s, r, changed) == \A f \in Fields \ changed : s[f] = r[f]

\* What Same says of every field.
LEMMA SameElim ==
  ASSUME NEW s, NEW r, NEW changed, Same(s, r, changed)
  PROVE  /\ "status" \in changed \/ s.status = r.status
         /\ "parent" \in changed \/ s.parent = r.parent
         /\ "ancestors" \in changed \/ s.ancestors = r.ancestors
         /\ "queue" \in changed \/ s.queue = r.queue
         /\ "turn" \in changed \/ s.turn = r.turn
         /\ "signal" \in changed \/ s.signal = r.signal
         /\ "exec" \in changed \/ s.exec = r.exec
         /\ "session" \in changed \/ s.session = r.session
         /\ "native" \in changed \/ s.native = r.native
         /\ "closing" \in changed \/ s.closing = r.closing
         /\ "timedOut" \in changed \/ s.timedOut = r.timedOut
         /\ "resident" \in changed \/ s.resident = r.resident
         /\ "reserved" \in changed \/ s.reserved = r.reserved
         /\ "prepared" \in changed \/ s.prepared = r.prepared
         /\ "followup" \in changed \/ s.followup = r.followup
         /\ "cleanup" \in changed \/ s.cleanup = r.cleanup
         /\ "cleanupError" \in changed \/ s.cleanupError = r.cleanupError
         /\ "released" \in changed \/ s.released = r.released
BY DEF Same, Fields

\* What changed is typed, the rest is as before.
LEMMA TypedUpdate ==
  ASSUME NEW s, NEW r, NEW changed, FieldsTyped(r), Same(s, r, changed),
         "status" \in changed => s.status \in Status,
         "parent" \notin changed, "ancestors" \notin changed,
         "queue" \in changed => s.queue \in Nat,
         "turn" \in changed => s.turn \in Nat,
         "signal" \in changed => s.signal \in {"none", "live", "aborted"},
         "exec" \in changed => s.exec \in Execution,
         "session" \in changed => s.session \in SessionField,
         "native" \in changed => s.native \in Native,
         "closing" \in changed => s.closing \in BOOLEAN,
         "timedOut" \in changed => s.timedOut \in BOOLEAN,
         "resident" \in changed => s.resident \in BOOLEAN,
         "reserved" \in changed => s.reserved \in BOOLEAN,
         "prepared" \in changed => s.prepared \in BOOLEAN,
         "followup" \in changed => s.followup \in BOOLEAN,
         "cleanup" \in changed => s.cleanup \in Cleanup,
         "cleanupError" \in changed => s.cleanupError \in BOOLEAN,
         "released" \in changed => s.released \in BOOLEAN
  PROVE  FieldsTyped(s)
<1>1. s.status \in Status /\ s.parent \in Agents \cup {Root} /\ s.ancestors \in SUBSET Agents
  BY SameElim DEF FieldsTyped
<1>2. s.queue \in Nat /\ s.turn \in Nat /\ s.signal \in {"none", "live", "aborted"} 
      /\ s.exec \in Execution /\ s.session \in SessionField /\ s.native \in Native
  BY SameElim DEF FieldsTyped
<1>3. s.closing \in BOOLEAN /\ s.timedOut \in BOOLEAN /\ s.resident \in BOOLEAN
      /\ s.reserved \in BOOLEAN
  BY SameElim DEF FieldsTyped
<1>4. s.prepared \in BOOLEAN /\ s.followup \in BOOLEAN
      /\ s.cleanup \in Cleanup /\ s.cleanupError \in BOOLEAN /\ s.released \in BOOLEAN
  BY SameElim DEF FieldsTyped
<1> QED BY <1>1, <1>2, <1>3, <1>4 DEF FieldsTyped


-----------------------------------------------------------------------------
(* The functions on records preserve what is good.                          *)

\* An iteration of processQueue keeps a record good, and takes one message.
LEMMA BeginTurnGood ==
  ASSUME NEW r, IsRecord(r), FieldsTyped(r), CanRun(r),
         r.resident, ~r.released, ~r.prepared, r.cleanup = "none"
  PROVE  Good(BeginTurn(r))
<1> DEFINE s == BeginTurn(r)
<1>1. IsRecord(s)
  BY DEF IsRecord, BeginTurn
<1>2. /\ s.queue = r.queue - 1
      /\ s.turn = (IF External THEN r.turn ELSE r.turn + 1)
      /\ s.signal = (IF External THEN r.signal ELSE "live")
      /\ s.timedOut = FALSE /\ s.native = "live"
      /\ s.status = (IF r.session = "open" THEN "running" ELSE r.status)
      /\ s.exec = (IF r.session = "open" THEN "running" ELSE "creating")
      /\ Same(s, r, {"queue", "turn", "signal", "timedOut", "native", "status", "exec"})
  BY DEF IsRecord, BeginTurn, Fields, Same
<1> HIDE DEF s
<1>3. FieldsTyped(s)
  <2>1. s.queue \in Nat /\ s.turn \in Nat
    BY <1>2 DEF FieldsTyped, CanRun
  <2>2. s.status \in Status /\ s.exec \in Execution /\ s.signal \in {"none", "live", "aborted"}
    BY <1>2 DEF FieldsTyped, Status, Execution
  <2> QED BY <1>2, <2>1, <2>2, TypedUpdate DEF Native
<1>4. SlotSafe(s)
  BY <1>2, SameElim DEF SlotSafe, CanRun, IsClosed, HoldsSlot, FieldsTyped
<1> QED BY <1>1, <1>3, <1>4 DEF s, Good

\* A turn that returns out of processQueue keeps a record good.
LEMMA AbandonTurnGood ==
  ASSUME NEW r, Good(r), r.exec # "none",
         r.session = "open" \/ r.native # "live" \/ r.cleanupError
  PROVE  Good(AbandonTurn(r)) /\ (HoldsSlot(AbandonTurn(r)) => HoldsSlot(r))
<1> DEFINE s == AbandonTurn(r)
<1>1. IsRecord(s)
  BY DEF IsRecord, AbandonTurn, Good
<1>2. s.signal = "none" /\ s.exec = "settling" /\ Same(s, r, {"signal", "exec"})
  BY DEF IsRecord, AbandonTurn, Good, Fields, Same
<1> HIDE DEF s
<1>3. FieldsTyped(s)
  BY <1>2, TypedUpdate DEF Good, Execution
<1>4. SlotSafe(s) /\ (HoldsSlot(s) => HoldsSlot(r))
  BY <1>2, SameElim DEF SlotSafe, Good, HoldsSlot
<1> QED BY <1>1, <1>3, <1>4 DEF s, Good

\* The end of a turn, with or without a next iteration, keeps a record good.
LEMMA EndTurnGood ==
  ASSUME NEW r, Good(r), r.exec # "none", NEW status \in Status \ {"closed"},
         r.session = "open" \/ r.native # "live" \/ r.cleanupError
  PROVE  Good(EndTurn(r, status)) /\ (HoldsSlot(EndTurn(r, status)) => HoldsSlot(r))
<1> DEFINE ended == [r EXCEPT !.status = status, !.signal = "none"]
           s == [ended EXCEPT !.exec = "settling"]
<1>1. IsRecord(ended) /\ IsRecord(s)
  BY DEF IsRecord, Good
<1>2. /\ ended.status = status /\ ended.signal = "none"
      /\ Same(ended, r, {"status", "signal"})
  BY DEF IsRecord, Good, Fields, Same
<1>3. s.exec = "settling" /\ Same(s, ended, {"exec"})
  BY ZenonT(60), <1>1 DEF IsRecord, Fields, Same
<1>4. EndTurn(r, status) = IF CanRun(ended) THEN BeginTurn(ended) ELSE s
  BY DEF EndTurn
<1> HIDE DEF ended, s
<1>5. FieldsTyped(ended)
  BY <1>2, TypedUpdate DEF Good
<1>6. CASE CanRun(ended)
  <2>1. /\ ended.resident /\ ~ended.released /\ ~ended.prepared
        /\ ended.cleanup = "none"
    BY <1>2, <1>6, SameElim DEF Good, SlotSafe, CanRun, IsClosed
  <2>2. HoldsSlot(r)
    BY DEF HoldsSlot, Good, SlotSafe
  <2> QED BY <1>1, <1>4, <1>5, <1>6, <2>1, <2>2, BeginTurnGood
<1>7. CASE ~CanRun(ended)
  <2>1. FieldsTyped(s)
    BY <1>3, <1>5, TypedUpdate DEF Execution
  <2>2. /\ s.session = r.session /\ s.native = r.native
        /\ s.cleanupError = r.cleanupError /\ s.resident = r.resident
        /\ s.reserved = r.reserved
        /\ s.released = r.released /\ s.prepared = r.prepared
        /\ s.cleanup = r.cleanup /\ s.closing = r.closing
        /\ s.queue = r.queue /\ s.followup = r.followup /\ s.status = status
    BY <1>2, <1>3, SameElim
  <2>3. SlotSafe(s) /\ (HoldsSlot(s) => HoldsSlot(r))
    BY <1>3, <2>2 DEF SlotSafe, Good, HoldsSlot
  <2> QED BY <1>1, <1>4, <1>7, <2>1, <2>3 DEF Good
<1> QED BY <1>6, <1>7

\* The end of the finally callback of schedule leaves nothing queued behind.
LEMMA FinishExecutionGood ==
  ASSUME NEW r, IsRecord(r), FieldsTyped(r), ~r.prepared,
         r.native = "live" => HoldsSlot(r),
         r.queue > 0 => r.resident /\ ~r.released,
         r.session # "open" /\ r.native = "live" => r.cleanupError,
         r.cleanup # "none" => r.closing,
         r.cleanup \notin {"disposing", "publishing", "done"},
         ~r.released,
         r.status = "closed" => r.closing,
         r.closing => r.queue = 0
  PROVE  Good(FinishExecution(r)) /\ (HoldsSlot(FinishExecution(r)) => HoldsSlot(r))
<1> DEFINE idle == [r EXCEPT !.exec = "none", !.signal = "none"]
           s == [idle EXCEPT !.status = "pending"]
<1>1. IsRecord(idle) /\ IsRecord(s)
  BY DEF IsRecord
<1>2. /\ idle.exec = "none" /\ idle.signal = "none"
      /\ Same(idle, r, {"exec", "signal"})
  BY DEF IsRecord, Fields, Same
<1>3. s.status = "pending" /\ Same(s, idle, {"status"})
  BY <1>1 DEF IsRecord, Fields, Same
<1>4. FinishExecution(r) = IF CanRun(idle) THEN BeginTurn(s) ELSE idle
  BY DEF FinishExecution
<1> HIDE DEF idle, s
<1>5. FieldsTyped(idle)
  BY <1>2, TypedUpdate DEF Execution
<1>6. CASE CanRun(idle)
  <2>1. FieldsTyped(s)
    BY <1>3, <1>5, TypedUpdate DEF Status
  <2>2. CanRun(s)
    BY <1>3, <1>6, SameElim DEF CanRun, IsClosed
  <2>3. /\ s.resident /\ ~s.released /\ ~s.prepared /\ s.cleanup = "none"
        /\ HoldsSlot(r)
    <3>1. /\ s.resident = r.resident /\ s.released = r.released
          /\ s.prepared = r.prepared /\ s.cleanup = r.cleanup
          /\ s.queue = r.queue /\ s.closing = r.closing
      BY <1>2, <1>3, SameElim
    <3> QED BY <3>1, <2>2 DEF HoldsSlot, CanRun, IsClosed
  <2> QED BY <1>1, <1>4, <1>6, <2>1, <2>2, <2>3, BeginTurnGood
<1>7. CASE ~CanRun(idle)
  <2>1. SlotSafe(idle) /\ (HoldsSlot(idle) => HoldsSlot(r))
    BY <1>2, <1>5, <1>7, SameElim DEF SlotSafe, HoldsSlot, CanRun, IsClosed, FieldsTyped
  <2> QED BY <1>1, <1>4, <1>5, <1>7, <2>1 DEF Good
<1> QED BY <1>6, <1>7

\* freezeRecords keeps a record good and its slot.
LEMMA FreezeGood ==
  ASSUME NEW r, Good(r)
  PROVE  Good(Freeze(r)) /\ (HoldsSlot(Freeze(r)) => HoldsSlot(r))
<1> DEFINE s == Freeze(r)
<1>1. IsRecord(s)
  BY DEF IsRecord, Freeze, Good
<1>2. s.closing = TRUE /\ s.queue = 0 /\ Same(s, r, {"closing", "queue"})
  BY DEF IsRecord, Freeze, Good, Fields, Same
<1> HIDE DEF s
<1>3. FieldsTyped(s)
  <2>1. s.closing \in BOOLEAN
    BY Zenon DEF s, IsRecord, Freeze, Good, Fields
  <2> QED BY <1>2, <2>1, TypedUpdate DEF Good
<1>4. SlotSafe(s) /\ (HoldsSlot(s) => HoldsSlot(r))
  BY <1>2, SameElim DEF SlotSafe, Good, HoldsSlot
<1> QED BY <1>1, <1>3, <1>4 DEF s, Good

\* The synchronous part of closeRecord keeps a record good and its slot.
LEMMA CloseRecordGood ==
  ASSUME NEW r, Good(r), NEW preserveFailure \in BOOLEAN
  PROVE  /\ Good(CloseRecord(r, preserveFailure))
         /\ HoldsSlot(CloseRecord(r, preserveFailure)) => HoldsSlot(r)
<1> DEFINE status == IF preserveFailure THEN r.status ELSE "closed"
           s == [r EXCEPT !.status = status]
           f == Freeze(r)
           t == [f EXCEPT
                   !.status = status,
                   !.signal = IF f.signal = "live" THEN "aborted" ELSE f.signal,
                   !.cleanup = IF r.session = "open" THEN "deactivating" ELSE "draining"]
<1>1. CloseRecord(r, preserveFailure) = IF r.cleanup # "none" THEN s ELSE t
  BY DEF CloseRecord
<1>2. f.closing = TRUE /\ f.queue = 0 /\ Same(f, r, {"closing", "queue"})
  BY DEF IsRecord, Freeze, Good, Fields, Same
<1>2a. Good(f) /\ (HoldsSlot(f) => HoldsSlot(r))
  BY FreezeGood
<1>3. IsRecord(s) /\ IsRecord(t)
  BY <1>2a DEF IsRecord, Good
<1>4. s.status = status /\ Same(s, r, {"status"})
  BY DEF IsRecord, Good, Fields, Same
<1>5. /\ t.status = status
      /\ t.signal = (IF f.signal = "live" THEN "aborted" ELSE f.signal)
      /\ t.cleanup = (IF r.session = "open" THEN "deactivating" ELSE "draining")
      /\ Same(t, f, {"status", "signal", "cleanup"})
  BY <1>2a DEF IsRecord, Good, Fields, Same
<1>6. status \in Status
  BY DEF Good, FieldsTyped, Status
<1> HIDE DEF s, f, t, status
<1>7. CASE r.cleanup # "none"
  <2>1. FieldsTyped(s)
    BY <1>4, <1>6, TypedUpdate DEF Good
  <2>2. r.closing
    BY <1>7 DEF Good, SlotSafe
  <2>3. SlotSafe(s) /\ (HoldsSlot(s) => HoldsSlot(r))
    BY <1>4, <2>2, SameElim DEF SlotSafe, Good, HoldsSlot
  <2> QED BY <1>1, <1>3, <1>7, <2>1, <2>3 DEF Good
<1>8. CASE r.cleanup = "none"
  <2>1. t.signal \in {"none", "live", "aborted"} /\ t.cleanup \in {"deactivating", "draining"}
    BY <1>2, <1>2a, <1>5 DEF Good, FieldsTyped
  <2>2. FieldsTyped(t)
    BY <1>2, <1>2a, <1>5, <1>6, <2>1, TypedUpdate DEF Good, Cleanup
  <2>3. SlotSafe(t) /\ (HoldsSlot(t) => HoldsSlot(f))
    BY <1>2, <1>2a, <1>5, <2>1, SameElim DEF SlotSafe, Good, HoldsSlot
  <2> QED BY <1>1, <1>2, <1>2a, <1>3, <1>8, <2>2, <2>3 DEF Good
<1> QED BY <1>7, <1>8

\* A closed record with nothing in flight.
Drained(r) ==
  /\ IsRecord(r) /\ FieldsTyped(r)
  /\ r.exec = "none" /\ r.closing /\ r.queue = 0
  /\ r.native = "live" => HoldsSlot(r)
  /\ r.released => ~r.resident /\ ~r.reserved /\ r.native # "live"
  /\ r.prepared => External
  /\ r.prepared /\ ~r.followup => r.native # "live"

\* The end of cleanup() releases a slot only over a session that is gone.
LEMMA ConfirmGood ==
  ASSUME NEW r, Drained(r), r.native = "live" => r.cleanupError
  PROVE  Good(Confirm(r)) /\ (HoldsSlot(Confirm(r)) => HoldsSlot(r))
<1> DEFINE s == [r EXCEPT !.cleanup = "done", !.released = FALSE]
           t == [r EXCEPT !.cleanup = "done", !.released = TRUE, !.session = "gone",
                          !.resident = FALSE, !.reserved = FALSE]
<1>1. Confirm(r) = IF r.cleanupError THEN s ELSE t
  BY DEF Confirm
<1>2. IsRecord(s) /\ IsRecord(t)
  BY DEF IsRecord, Drained
<1>3. s.cleanup = "done" /\ s.released = FALSE /\ Same(s, r, {"cleanup", "released"})
  BY DEF IsRecord, Drained, Fields, Same
<1>4. /\ t.cleanup = "done" /\ t.released = TRUE /\ t.session = "gone"
      /\ t.resident = FALSE /\ t.reserved = FALSE
      /\ Same(t, r, {"cleanup", "released", "session", "resident", "reserved"})
  BY DEF IsRecord, Drained, Fields, Same
<1> HIDE DEF s, t
<1>5. CASE r.cleanupError
  <2>1. FieldsTyped(s)
    BY <1>3, TypedUpdate DEF Drained, Cleanup
  <2>2. SlotSafe(s) /\ (HoldsSlot(s) => HoldsSlot(r))
    BY <1>3, <1>5, SameElim DEF SlotSafe, Drained, HoldsSlot
  <2> QED BY <1>1, <1>2, <1>5, <2>1, <2>2 DEF Good
<1>6. CASE ~r.cleanupError
  <2>1. FieldsTyped(t)
    BY <1>4, TypedUpdate DEF Drained, Cleanup, SessionField
  <2>2. SlotSafe(t) /\ (HoldsSlot(t) => HoldsSlot(r))
    BY <1>4, <1>6, SameElim DEF SlotSafe, Drained, HoldsSlot
  <2> QED BY <1>1, <1>2, <1>6, <2>1, <2>2 DEF Good
<1> QED BY <1>5, <1>6

\* cleanup() going on to publish, or ending in failure, keeps a record good.
LEMMA PublishUnlessFailedGood ==
  ASSUME NEW r, Drained(r), r.native = "live" => r.cleanupError
  PROVE  /\ Good(PublishUnlessFailed(r))
         /\ HoldsSlot(PublishUnlessFailed(r)) => HoldsSlot(r)
<1> DEFINE s == [r EXCEPT !.cleanup = "publishing"]
<1>1. IsRecord(s) /\ s.cleanup = "publishing" /\ Same(s, r, {"cleanup"})
  BY DEF IsRecord, Drained, Fields, Same
<1>2. PublishUnlessFailed(r) = IF r.cleanupError THEN Confirm(r) ELSE s
  BY DEF PublishUnlessFailed
<1> HIDE DEF s
<1>3. CASE r.cleanupError
  BY <1>2, <1>3, ConfirmGood
<1>4. CASE ~r.cleanupError
  <2>1. FieldsTyped(s)
    BY <1>1, TypedUpdate DEF Drained, Cleanup
  <2>2. SlotSafe(s) /\ (HoldsSlot(s) => HoldsSlot(r))
    BY <1>1, <1>4, SameElim DEF SlotSafe, Drained, HoldsSlot
  <2> QED BY <1>1, <1>2, <1>4, <2>1, <2>2 DEF Good
<1> QED BY <1>3, <1>4

\* cleanup() after its awaits keeps a record good.
LEMMA AfterDrainGood ==
  ASSUME NEW r, Drained(r), r.session # "open" /\ r.native = "live" => r.cleanupError
  PROVE  Good(AfterDrain(r)) /\ (HoldsSlot(AfterDrain(r)) => HoldsSlot(r))
<1> DEFINE s == [r EXCEPT !.cleanup = "disposing"]
<1>1. IsRecord(s) /\ s.cleanup = "disposing" /\ Same(s, r, {"cleanup"})
  BY DEF IsRecord, Drained, Fields, Same
<1>2. AfterDrain(r) = IF r.session = "open" THEN s ELSE PublishUnlessFailed(r)
  BY DEF AfterDrain
<1> HIDE DEF s
<1>3. CASE r.session # "open"
  BY <1>2, <1>3, PublishUnlessFailedGood
<1>4. CASE r.session = "open"
  <2>1. FieldsTyped(s)
    BY <1>1, TypedUpdate DEF Drained, Cleanup
  <2>2. SlotSafe(s) /\ (HoldsSlot(s) => HoldsSlot(r))
    BY <1>1, <1>4, SameElim DEF SlotSafe, Drained, HoldsSlot
  <2> QED BY <1>1, <1>2, <1>4, <2>1, <2>2 DEF Good
<1> QED BY <1>3, <1>4

-----------------------------------------------------------------------------
(* Steps of one agent and of many.                                          *)

\* Every agent has a good record.
LEMMA GoodAgents ==
  ASSUME SlotInvariant, NEW a \in Agents
  PROVE  Good(agents[a])
BY RecordElim DEF SlotInvariant, TypeOK, Good

\* The agents that hold a slot are finitely many.
LEMMA ResidentsFinite ==
  /\ IsFiniteSet(Residents) /\ Cardinality(Residents) \in Nat
BY AgentsAssumption, FS_Subset, FS_CardinalityType DEF Residents

\* A step of many agents in which nobody gains a slot.
LEMMA StepMany ==
  ASSUME SlotInvariant,
         agents' \in [Agents -> AgentRecord],
         closers' \in [Agents -> SUBSET Agents],
         disposed' \in {"no", "closing", "closed"},
         \A b \in Agents : SlotSafe(agents'[b])
                           /\ (HoldsSlot(agents'[b]) => HoldsSlot(agents[b]))
  PROVE  SlotInvariant'
<1>1. Residents' \subseteq Residents
  BY DEF Residents
<1>2. Cardinality(Residents') \in Nat /\ Cardinality(Residents') <= Cardinality(Residents)
  BY <1>1, ResidentsFinite, FS_Subset, FS_CardinalityType
<1>3. SlotsBounded'
  BY <1>2, ResidentsFinite, LimitsAssumption DEF SlotInvariant, SlotsBounded
<1> QED BY <1>3 DEF SlotInvariant, TypeOK

\* A step of one agent, which gains a slot only if there is one.
LEMMA StepOne ==
  ASSUME SlotInvariant, NEW a \in Agents, NEW r, Good(r), Becomes(a, r),
         HoldsSlot(r) => HoldsSlot(agents[a]) \/ HasCapacity
  PROVE  SlotInvariant'
<1>1. r \in AgentRecord /\ SlotSafe(r)
  BY RecordIntro DEF Good
<1>2. /\ agents' \in [Agents -> AgentRecord]
      /\ agents'[a] = r
      /\ \A b \in Agents : b # a => agents'[b] = agents[b]
  BY <1>1 DEF Becomes, SlotInvariant, TypeOK
<1>3. TypeOK' /\ \A b \in Agents : SlotSafe(agents'[b])
  BY <1>1, <1>2 DEF Becomes, SlotInvariant, TypeOK
<1>4. Residents' \subseteq Residents \cup {a}
  BY <1>2 DEF Residents
<1>5. CASE HasCapacity
  <2>1. /\ IsFiniteSet(Residents \cup {a})
        /\ Cardinality(Residents \cup {a}) \in Nat
        /\ Cardinality(Residents \cup {a}) <= Cardinality(Residents) + 1
    <3>1. IsFiniteSet(Residents) /\ Cardinality(Residents) \in Nat
      BY ResidentsFinite, FS_CardinalityType
    <3>2. /\ IsFiniteSet(Residents \cup {a})
          /\ Cardinality(Residents \cup {a})
               = IF a \in Residents THEN Cardinality(Residents) ELSE Cardinality(Residents) + 1
      BY <3>1, FS_AddElement
    <3> QED BY <3>1, <3>2
  <2>2. Cardinality(Residents') \in Nat /\ Cardinality(Residents') <= Cardinality(Residents) + 1
    BY <1>4, <2>1, ResidentsFinite, FS_Subset, FS_CardinalityType
  <2>3. SlotsBounded'
    BY <1>5, <2>2, ResidentsFinite, LimitsAssumption DEF HasCapacity, SlotsBounded
  <2> QED BY <1>3, <2>3 DEF SlotInvariant
<1>6. CASE ~HasCapacity
  <2>1. \A b \in Agents : HoldsSlot(agents'[b]) => HoldsSlot(agents[b])
    BY <1>2, <1>6
  <2> QED BY <1>2, <1>3, <2>1, StepMany DEF TypeOK
<1> QED BY <1>5, <1>6

-----------------------------------------------------------------------------
(* One lemma per action.                                                    *)

\* The record createSpawnRecord makes, field by field.
LEMMA NewRecordFields ==
  ASSUME SlotInvariant, NEW p \in Agents \cup {Root}
  PROVE  /\ IsRecord(NewRecord(p)) /\ FieldsTyped(NewRecord(p))
         /\ NewRecord(p).status = "pending" /\ NewRecord(p).session = "factory"
         /\ Same(NewRecord(p), AbsentRecord, {"status", "parent", "session", "ancestors"})
<1> DEFINE n == NewRecord(p)
<1>1. IsRecord(AbsentRecord) /\ IsRecord(n)
  BY ZenonT(60) DEF IsRecord, NewRecord, AbsentRecord, Fields
<1>2. /\ n.status = "pending" /\ n.parent = p /\ n.session = "factory"
      /\ n.ancestors = (IF p = Root THEN {} ELSE agents[p].ancestors \cup {p})
      /\ Same(n, AbsentRecord, {"status", "parent", "session", "ancestors"})
  BY DEF NewRecord, AbsentRecord, Fields, Same
<1>3. n.ancestors \in SUBSET Agents
  <2>1. CASE p = Root
    BY <1>2, <2>1
  <2>2. CASE p # Root
    <3>1. p \in Agents /\ agents[p].ancestors \in SUBSET Agents
      BY <2>2, GoodAgents DEF Good, FieldsTyped
    <3> QED BY <1>2, <2>2, <3>1
  <2> QED BY <2>1, <2>2
<1>4. FieldsTyped(n)
  BY <1>2, <1>3 DEF FieldsTyped, NewRecord, AbsentRecord, Status, Execution,
                    SessionField, Native, Cleanup
<1> QED BY <1>1, <1>2, <1>4

\* spawn preserves the invariant.
LEMMA SpawnStep ==
  ASSUME SlotInvariant, NEW a \in Agents, NEW p \in Agents \cup {Root}, Spawn(p, a)
  PROVE  SlotInvariant'
<1> DEFINE n == NewRecord(p)
           s == [n EXCEPT !.resident = TRUE, !.queue = 1]
<1>1. /\ IsRecord(n) /\ FieldsTyped(n) /\ n.status = "pending"
      /\ n.closing = FALSE /\ n.cleanupError = FALSE /\ n.released = FALSE
      /\ n.prepared = FALSE /\ n.cleanup = "none"
  BY NewRecordFields, SameElim DEF AbsentRecord
<1>2. Becomes(a, BeginTurn(s)) /\ HasCapacity
  BY DEF Spawn, CanSpawn
<1> HIDE DEF n
<1>3. /\ IsRecord(s) /\ s.queue = 1 /\ s.resident /\ s.resident \in BOOLEAN
      /\ Same(s, n, {"resident", "queue"})
  BY <1>1 DEF IsRecord, Fields, Same
<1> HIDE DEF s
<1>4. FieldsTyped(s)
  <2>1. FieldsTyped(n)
    BY <1>1
  <2>2. s.queue \in Nat /\ s.resident \in BOOLEAN /\ Same(s, n, {"resident", "queue"})
    BY <1>3
  <2> QED BY <2>1, <2>2, TypedUpdate
<1>5. Good(BeginTurn(s))
  <2>1. /\ s.status = "pending" /\ ~s.closing /\ ~s.cleanupError
        /\ ~s.released /\ ~s.prepared /\ s.cleanup = "none"
    BY <1>1, <1>3, SameElim
  <2> QED BY <1>3, <1>4, <2>1, BeginTurnGood DEF CanRun, IsClosed
<1> QED BY <1>2, <1>5, StepOne

\* prepareSpawn preserves the invariant.
LEMMA PrepareSpawnStep ==
  ASSUME SlotInvariant, NEW a \in Agents, NEW p \in Agents \cup {Root}, PrepareSpawn(p, a)
  PROVE  SlotInvariant'
<1> DEFINE n == NewRecord(p)
           s == [n EXCEPT !.turn = 1, !.reserved = TRUE, !.prepared = TRUE]
<1>1. /\ IsRecord(n) /\ FieldsTyped(n) /\ n.status = "pending"
      /\ n.queue = 0 /\ n.closing = FALSE /\ n.cleanup = "none"
      /\ n.released = FALSE /\ n.exec = "none" /\ n.native = "none"
  BY NewRecordFields, SameElim DEF AbsentRecord
<1>2. Becomes(a, s) /\ HasCapacity /\ External
  BY DEF PrepareSpawn, CanSpawn
<1> HIDE DEF n
<1>3. /\ IsRecord(s) /\ s.turn = 1 /\ s.reserved /\ s.prepared
      /\ s.reserved \in BOOLEAN /\ s.prepared \in BOOLEAN
      /\ Same(s, n, {"turn", "reserved", "prepared"})
  BY <1>1 DEF IsRecord, Fields, Same
<1> HIDE DEF s
<1>4. FieldsTyped(s)
  <2>1. FieldsTyped(n)
    BY <1>1
  <2>2. /\ s.turn \in Nat /\ s.reserved \in BOOLEAN /\ s.prepared \in BOOLEAN
        /\ Same(s, n, {"turn", "reserved", "prepared"})
    BY <1>3
  <2> QED BY <2>1, <2>2, TypedUpdate
<1>5. SlotSafe(s)
  BY <1>1, <1>2, <1>3, SameElim DEF SlotSafe
<1> QED BY <1>2, <1>3, <1>4, <1>5, StepOne DEF Good

\* followupTask preserves the invariant.
LEMMA FollowupTaskStep ==
  ASSUME SlotInvariant, NEW a \in Agents, FollowupTask(a)
  PROVE  SlotInvariant'
<1> DEFINE r == agents[a]
           s == [r EXCEPT !.resident = TRUE, !.queue = r.queue + 1,
                          !.status = IF r.status = "running" THEN r.status ELSE "pending"]
<1>1. Good(r)
  BY GoodAgents
<1>2. /\ Becomes(a, IF r.exec = "none" THEN BeginTurn(s) ELSE s)
      /\ ~External /\ ~r.cleanupError /\ (r.resident \/ HasCapacity)
      /\ ~r.closing
  BY DEF FollowupTask, InClosingSubtree
<1> HIDE DEF r
<1>3. /\ IsRecord(s) /\ s.queue = r.queue + 1 /\ s.resident /\ s.resident \in BOOLEAN
      /\ s.status = (IF r.status = "running" THEN r.status ELSE "pending")
      /\ Same(s, r, {"resident", "queue", "status"})
  BY <1>1 DEF IsRecord, Fields, Same, Good
<1> HIDE DEF s
<1>4. FieldsTyped(s)
  <2>1. s.queue \in Nat /\ s.status \in Status
    BY <1>1, <1>3 DEF Good, FieldsTyped, Status
  <2> QED BY <1>1, <1>3, <2>1, TypedUpdate DEF Good
<1>5. ~r.prepared /\ ~r.released /\ r.cleanup = "none"
  BY <1>1, <1>2 DEF Good, SlotSafe
<1>6. /\ ~s.prepared /\ ~s.released /\ s.cleanup = "none" /\ ~s.closing
      /\ ~s.cleanupError /\ s.queue > 0 /\ s.status # "closed"
  BY <1>1, <1>2, <1>3, <1>5, SameElim DEF Good, FieldsTyped
<1>7. HoldsSlot(agents[a]) \/ HasCapacity
  BY <1>2, <1>5 DEF HoldsSlot, r
<1>8. CASE r.exec = "none"
  <2>1. Good(BeginTurn(s))
    BY <1>3, <1>4, <1>6, BeginTurnGood DEF CanRun, IsClosed
  <2> QED BY <1>2, <1>7, <1>8, <2>1, StepOne
<1>9. CASE r.exec # "none"
  <2>1. SlotSafe(s)
    BY <1>1, <1>3, <1>6, <1>9, SameElim DEF SlotSafe, Good, HoldsSlot
  <2> QED BY <1>2, <1>3, <1>4, <1>7, <1>9, <2>1, StepOne DEF Good
<1> QED BY <1>8, <1>9

\* interruptAgent preserves the invariant.
LEMMA InterruptAgentStep ==
  ASSUME SlotInvariant, NEW a \in Agents, InterruptAgent(a)
  PROVE  SlotInvariant'
<1> DEFINE r == agents[a]
           s == [r EXCEPT !.queue = 0, !.status = "interrupted",
                          !.signal = IF r.signal = "live" THEN "aborted" ELSE r.signal]
<1>1. Good(r)
  BY GoodAgents
<1>2. Becomes(a, s)
  BY DEF InterruptAgent
<1> HIDE DEF r
<1>3. /\ IsRecord(s) /\ s.queue = 0 /\ s.status = "interrupted"
      /\ s.signal = (IF r.signal = "live" THEN "aborted" ELSE r.signal)
      /\ Same(s, r, {"queue", "status", "signal"})
  BY <1>1 DEF IsRecord, Fields, Same, Good
<1> HIDE DEF s
<1>4. FieldsTyped(s)
  <2>1. s.signal \in {"none", "live", "aborted"} /\ s.status \in Status
    BY <1>1, <1>3 DEF Good, FieldsTyped, Status
  <2> QED BY <1>1, <1>3, <2>1, TypedUpdate DEF Good
<1>5. SlotSafe(s) /\ (HoldsSlot(s) => HoldsSlot(r))
  BY <1>1, <1>3, SameElim DEF SlotSafe, Good, HoldsSlot
<1> QED BY <1>2, <1>3, <1>4, <1>5, StepOne DEF Good, r

\* prepareFollowup preserves the invariant.
LEMMA PrepareFollowupStep ==
  ASSUME SlotInvariant, NEW a \in Agents, PrepareFollowup(a)
  PROVE  SlotInvariant'
<1> DEFINE r == agents[a]
           s == [r EXCEPT !.turn = r.turn + 1, !.status = "pending",
                          !.reserved = TRUE, !.prepared = TRUE, !.followup = TRUE]
<1>1. Good(r)
  BY GoodAgents
<1>2. /\ Becomes(a, s) /\ External /\ ~r.closing /\ ~r.released
      /\ r.exec = "none" /\ ~r.cleanupError /\ (r.resident \/ HasCapacity)
  BY DEF PrepareFollowup, InClosingSubtree
<1>3. HoldsSlot(agents[a]) \/ HasCapacity
  BY <1>2 DEF HoldsSlot
<1> HIDE DEF r
<1>4. /\ IsRecord(s) /\ s.turn = r.turn + 1 /\ s.status = "pending"
      /\ s.reserved /\ s.prepared /\ s.followup
      /\ s.reserved \in BOOLEAN /\ s.prepared \in BOOLEAN /\ s.followup \in BOOLEAN
      /\ Same(s, r, {"turn", "status", "reserved", "prepared", "followup"})
  BY <1>1 DEF IsRecord, Fields, Same, Good
<1> HIDE DEF s
<1>5. FieldsTyped(s)
  <2>1. s.turn \in Nat /\ s.status \in Status
    BY <1>1, <1>4 DEF Good, FieldsTyped, Status
  <2> QED BY <1>1, <1>4, <2>1, TypedUpdate DEF Good
<1>6. SlotSafe(s)
  BY <1>1, <1>2, <1>4, SameElim DEF SlotSafe, Good, HoldsSlot, FieldsTyped
<1> QED BY <1>2, <1>3, <1>4, <1>5, <1>6, StepOne DEF Good

\* activatePreparedTurn preserves the invariant.
LEMMA ActivatePreparedTurnStep ==
  ASSUME SlotInvariant, NEW a \in Agents, NEW aborted \in BOOLEAN,
         ActivatePreparedTurn(a, aborted)
  PROVE  SlotInvariant'
<1> DEFINE r == agents[a]
           s == [r EXCEPT !.prepared = FALSE, !.reserved = FALSE,
                          !.resident = TRUE, !.queue = r.queue + 1,
                          !.signal = IF aborted THEN "aborted" ELSE "live",
                          !.exec = "starting"]
<1>1. Good(r)
  BY GoodAgents
<1>2. Becomes(a, s) /\ r.prepared /\ ~r.closing /\ r.status = "pending"
  BY DEF ActivatePreparedTurn, InClosingSubtree
<1> HIDE DEF r
<1>3. /\ IsRecord(s) /\ ~s.prepared /\ ~s.reserved /\ s.resident
      /\ s.prepared \in BOOLEAN /\ s.reserved \in BOOLEAN /\ s.resident \in BOOLEAN
      /\ s.queue = r.queue + 1 /\ s.exec = "starting"
      /\ s.signal = (IF aborted THEN "aborted" ELSE "live")
      /\ Same(s, r, {"prepared", "reserved", "resident", "queue", "signal", "exec"})
  BY <1>1 DEF IsRecord, Fields, Same, Good
<1> HIDE DEF s
<1>4. FieldsTyped(s)
  <2>1. s.queue \in Nat /\ s.exec \in Execution /\ s.signal \in {"none", "live", "aborted"}
    BY <1>1, <1>3 DEF Good, FieldsTyped, Execution
  <2> QED BY <1>1, <1>3, <2>1, TypedUpdate DEF Good
<1>5. SlotSafe(s) /\ HoldsSlot(r)
  BY <1>1, <1>2, <1>3, SameElim DEF SlotSafe, Good, HoldsSlot
<1> QED BY <1>2, <1>3, <1>4, <1>5, StepOne DEF Good, r

\* rollbackPrepared preserves the invariant.
LEMMA RollbackSpawnStep ==
  ASSUME SlotInvariant, NEW a \in Agents, RollbackSpawn(a)
  PROVE  SlotInvariant'
<1> DEFINE r == agents[a]
           s == [r EXCEPT !.prepared = FALSE, !.reserved = FALSE,
                          !.status = "closed", !.closing = TRUE,
                          !.session = "gone", !.released = TRUE, !.resident = FALSE]
<1>1. Good(r)
  BY GoodAgents
<1>2. Becomes(a, s) /\ r.prepared /\ ~r.followup /\ r.exec = "none"
  BY DEF RollbackSpawn
<1> HIDE DEF r
<1>3. /\ IsRecord(s) /\ ~s.prepared /\ ~s.reserved /\ ~s.resident
      /\ s.closing /\ s.released /\ s.session = "gone" /\ s.status = "closed"
      /\ s.prepared \in BOOLEAN /\ s.reserved \in BOOLEAN /\ s.resident \in BOOLEAN
      /\ s.closing \in BOOLEAN /\ s.released \in BOOLEAN
      /\ Same(s, r, {"prepared", "reserved", "resident", "status", "closing",
                     "session", "released"})
  BY <1>1 DEF IsRecord, Fields, Same, Good
<1> HIDE DEF s
<1>4. FieldsTyped(s)
  <2>1. s.status \in Status /\ s.session \in SessionField
    BY <1>3 DEF Status, SessionField
  <2> QED BY <1>1, <1>3, <2>1, TypedUpdate DEF Good
<1>5. SlotSafe(s) /\ ~HoldsSlot(s)
  BY <1>1, <1>2, <1>3, SameElim DEF SlotSafe, Good, HoldsSlot
<1> QED BY <1>2, <1>3, <1>4, <1>5, StepOne DEF Good

\* The abort of an execution preserves the invariant.
LEMMA AbortExecutionStep ==
  ASSUME SlotInvariant, NEW a \in Agents, AbortExecution(a)
  PROVE  SlotInvariant'
<1> DEFINE r == agents[a]
           s == [r EXCEPT !.signal = "aborted"]
<1>1. Good(r)
  BY GoodAgents
<1>2. Becomes(a, s)
  BY DEF AbortExecution
<1> HIDE DEF r
<1>3. IsRecord(s) /\ s.signal = "aborted" /\ Same(s, r, {"signal"})
  BY <1>1 DEF IsRecord, Fields, Same, Good
<1> HIDE DEF s
<1>4. FieldsTyped(s)
  BY <1>1, <1>3, TypedUpdate DEF Good
<1>5. SlotSafe(s) /\ (HoldsSlot(s) => HoldsSlot(r))
  BY <1>1, <1>3, SameElim DEF SlotSafe, Good, HoldsSlot
<1> QED BY <1>2, <1>3, <1>4, <1>5, StepOne DEF Good, r

\* The start of an activated turn preserves the invariant.
LEMMA StartExternalStep ==
  ASSUME SlotInvariant, NEW a \in Agents, StartExternal(a)
  PROVE  SlotInvariant'
<1> DEFINE r == agents[a]
           begun == [r EXCEPT !.queue = r.queue - 1, !.timedOut = FALSE]
           s == [r EXCEPT !.exec = "settling"]
<1>1. Good(r)
  BY GoodAgents
<1>2. /\ r.exec = "starting"
      /\ Becomes(a, IF ~CanRun(r) THEN s
                    ELSE IF r.signal = "aborted" THEN EndTurn(begun, "interrupted")
                    ELSE BeginTurn(r))
  BY DEF StartExternal
<1> HIDE DEF r
<1>3. /\ IsRecord(begun) /\ begun.queue = r.queue - 1 /\ begun.timedOut \in BOOLEAN
      /\ Same(begun, r, {"queue", "timedOut"})
  BY <1>1 DEF IsRecord, Fields, Same, Good
<1>4. IsRecord(s) /\ s.exec = "settling" /\ Same(s, r, {"exec"})
  BY <1>1 DEF IsRecord, Fields, Same, Good
<1> HIDE DEF begun, s
<1>5. HoldsSlot(r)
  BY <1>1, <1>2 DEF Good, SlotSafe, HoldsSlot
<1>6. CASE ~CanRun(r)
  <2>1. FieldsTyped(s)
    BY <1>1, <1>4, TypedUpdate DEF Good, Execution
  <2>2. SlotSafe(s)
    BY <1>1, <1>2, <1>4, SameElim DEF SlotSafe, Good, HoldsSlot
  <2> QED BY <1>2, <1>4, <1>5, <1>6, <2>1, <2>2, StepOne DEF Good, r
<1>7. CASE CanRun(r) /\ r.signal = "aborted"
  <2>1. FieldsTyped(begun)
    <3>1. begun.queue \in Nat
      BY <1>1, <1>3, <1>7 DEF Good, FieldsTyped, CanRun
    <3> QED BY <1>1, <1>3, <3>1, TypedUpdate DEF Good
  <2>2. SlotSafe(begun)
    BY <1>1, <1>2, <1>3, <1>7, SameElim
    DEF SlotSafe, Good, HoldsSlot, FieldsTyped, CanRun, IsClosed
  <2>3. /\ begun.exec # "none"
        /\ begun.session = "open" \/ begun.native # "live" \/ begun.cleanupError
    BY <1>1, <1>2, <1>3, SameElim DEF SlotSafe, Good
  <2>4. Good(EndTurn(begun, "interrupted"))
    BY <1>3, <2>1, <2>2, <2>3, EndTurnGood DEF Good, Status
  <2> QED BY <1>2, <1>5, <1>7, <2>4, StepOne DEF r
<1>8. CASE CanRun(r) /\ r.signal # "aborted"
  <2>1. Good(BeginTurn(r))
    BY <1>1, <1>2, <1>8, BeginTurnGood DEF Good, SlotSafe, CanRun, IsClosed
  <2> QED BY <1>2, <1>5, <1>8, <2>1, StepOne DEF r
<1> QED BY <1>6, <1>7, <1>8

\* A createSession that resolves preserves the invariant.
LEMMA CreateSettledStep ==
  ASSUME SlotInvariant, NEW a \in Agents, CreateSettled(a)
  PROVE  SlotInvariant'
<1> DEFINE r == agents[a]
           opened == [r EXCEPT !.session = "open"]
           s == [opened EXCEPT !.status = "running", !.exec = "running"]
<1>1. Good(r)
  BY GoodAgents
<1>2. /\ r.exec = "creating"
      /\ Becomes(a, IF IsClosed(opened) THEN AbandonTurn(opened)
                    ELSE IF opened.signal = "aborted" THEN EndTurn(opened, "interrupted")
                    ELSE s)
  BY DEF CreateSettled
<1> HIDE DEF r
<1>3. IsRecord(opened) /\ opened.session = "open" /\ Same(opened, r, {"session"})
  BY <1>1 DEF IsRecord, Fields, Same, Good
<1> HIDE DEF opened
<1>4. FieldsTyped(opened)
  BY <1>1, <1>3, TypedUpdate DEF Good, SessionField
<1>5. SlotSafe(opened) /\ opened.exec = "creating"
  BY <1>1, <1>2, <1>3, SameElim DEF SlotSafe, Good, HoldsSlot
<1>6. Good(opened) /\ HoldsSlot(agents[a])
  BY <1>1, <1>2, <1>3, <1>4, <1>5 DEF Good, SlotSafe, HoldsSlot, r
<1>7. Good(AbandonTurn(opened)) /\ Good(EndTurn(opened, "interrupted"))
  BY <1>3, <1>5, <1>6, AbandonTurnGood, EndTurnGood DEF Status
<1>8. CASE IsClosed(opened) \/ opened.signal = "aborted"
  BY <1>2, <1>6, <1>7, <1>8, StepOne
<1>9. CASE ~IsClosed(opened) /\ opened.signal # "aborted"
  <2>1. /\ IsRecord(s) /\ s.status = "running" /\ s.exec = "running"
        /\ Same(s, opened, {"status", "exec"})
    BY <1>3 DEF IsRecord, Fields, Same
  <2> HIDE DEF s
  <2>2. FieldsTyped(s)
    BY <1>4, <2>1, TypedUpdate DEF Status, Execution
  <2>3. SlotSafe(s)
    BY <1>3, <1>5, <1>9, <2>1, SameElim DEF SlotSafe, HoldsSlot, IsClosed
  <2> QED BY <1>2, <1>6, <1>9, <2>1, <2>2, <2>3, StepOne DEF Good
<1> QED BY <1>8, <1>9

\* A turn ends with one of three statuses.
LEMMA TurnStatusType ==
  ASSUME NEW r, NEW outcome
  PROVE  TurnStatus(r, outcome) \in Status \ {"closed"}
<1>1. TurnStatus(r, outcome) \in {"interrupted", "completed", "failed"}
  BY DEF TurnStatus
<1> QED BY <1>1 DEF Status

\* A createSession that rejects preserves the invariant.
LEMMA CreateFailedStep ==
  ASSUME SlotInvariant, NEW a \in Agents, NEW outcome, CreateFailed(a, outcome)
  PROVE  SlotInvariant'
<1> DEFINE leak == outcome = "leak"
           r == agents[a]
           s == [r EXCEPT !.native = IF leak THEN "live" ELSE "none",
                          !.session = IF leak THEN "gone" ELSE r.session,
                          !.cleanupError = r.cleanupError \/ leak]
<1>1. Good(r)
  BY GoodAgents
<1>2. /\ r.exec = "creating"
      /\ Becomes(a, IF IsClosed(r) \/ r.timedOut THEN AbandonTurn(s)
                    ELSE EndTurn(s, TurnStatus(s, outcome)))
  BY DEF CreateFailed
<1>3. HoldsSlot(agents[a])
  BY <1>1, <1>2 DEF Good, SlotSafe, HoldsSlot
<1> HIDE DEF r
<1>4. /\ IsRecord(s)
      /\ s.native = (IF leak THEN "live" ELSE "none")
      /\ s.session = (IF leak THEN "gone" ELSE r.session)
      /\ s.cleanupError = (r.cleanupError \/ leak)
      /\ Same(s, r, {"native", "session", "cleanupError"})
  BY <1>1 DEF IsRecord, Fields, Same, Good
<1>5. s.cleanupError \in BOOLEAN
  BY <1>4, Zenon
<1> HIDE DEF s
<1>6. FieldsTyped(s)
  <2>1. s.native \in Native /\ s.session \in SessionField
    BY <1>1, <1>4 DEF Good, FieldsTyped, Native, SessionField
  <2> QED BY <1>1, <1>4, <1>5, <2>1, TypedUpdate DEF Good
<1>7. SlotSafe(s) /\ s.exec = "creating"
  BY <1>1, <1>2, <1>4, <1>5, SameElim DEF SlotSafe, Good, HoldsSlot
<1>8. s.session = "open" \/ s.native # "live" \/ s.cleanupError
  BY <1>4
<1>9. Good(s)
  BY <1>4, <1>6, <1>7 DEF Good
<1>10. Good(AbandonTurn(s))
  BY <1>7, <1>8, <1>9, AbandonTurnGood
<1>11. Good(EndTurn(s, TurnStatus(s, outcome)))
  BY <1>7, <1>8, <1>9, EndTurnGood, TurnStatusType
<1> QED BY <1>2, <1>3, <1>10, <1>11, StepOne

\* A run that settles preserves the invariant.
LEMMA RunSettledStep ==
  ASSUME SlotInvariant, NEW a \in Agents, NEW outcome, RunSettled(a, outcome)
  PROVE  SlotInvariant'
<1> DEFINE r == agents[a]
<1>1. Good(r)
  BY GoodAgents
<1>2. /\ r.exec = "running"
      /\ Becomes(a, IF IsClosed(r) \/ r.timedOut THEN AbandonTurn(r)
                    ELSE EndTurn(r, TurnStatus(r, outcome)))
  BY DEF RunSettled
<1> HIDE DEF r
<1>3. r.session = "open" /\ HoldsSlot(r)
  BY <1>1, <1>2 DEF Good, SlotSafe, HoldsSlot
<1>4. Good(AbandonTurn(r))
  BY <1>1, <1>2, <1>3, AbandonTurnGood
<1>5. Good(EndTurn(r, TurnStatus(r, outcome)))
  BY <1>1, <1>2, <1>3, EndTurnGood, TurnStatusType
<1> QED BY <1>2, <1>3, <1>4, <1>5, StepOne DEF r

\* The start of a suspension preserves the invariant.
LEMMA BeginSuspendStep ==
  ASSUME SlotInvariant, NEW a \in Agents, BeginSuspend(a)
  PROVE  SlotInvariant'
<1> DEFINE r == agents[a]
           s == [r EXCEPT !.exec = "suspending"]
<1>1. Good(r)
  BY GoodAgents
<1>2. Becomes(a, s) /\ r.exec = "settling" /\ r.session = "open"
  BY DEF BeginSuspend
<1> HIDE DEF r
<1>3. IsRecord(s) /\ s.exec = "suspending" /\ Same(s, r, {"exec"})
  BY <1>1 DEF IsRecord, Fields, Same, Good
<1> HIDE DEF s
<1>4. FieldsTyped(s)
  BY <1>1, <1>3, TypedUpdate DEF Good, Execution
<1>5. SlotSafe(s) /\ (HoldsSlot(s) => HoldsSlot(r))
  BY <1>1, <1>2, <1>3, SameElim DEF SlotSafe, Good, HoldsSlot
<1> QED BY <1>2, <1>3, <1>4, <1>5, StepOne DEF Good, r

\* The finally callback of schedule preserves the invariant.
LEMMA SettleExecutionStep ==
  ASSUME SlotInvariant, NEW a \in Agents, SettleExecution(a)
  PROVE  SlotInvariant'
<1> DEFINE r == agents[a]
           kept == r.resident /\ ~(Idle(r) /\ r.session # "open")
           s == [r EXCEPT !.resident = kept]
<1>1. Good(r)
  BY GoodAgents
<1>2. Becomes(a, FinishExecution(s)) /\ r.exec = "settling"
  BY DEF SettleExecution
<1> HIDE DEF r
<1>3. IsRecord(s) /\ s.resident = kept /\ Same(s, r, {"resident"})
  BY <1>1 DEF IsRecord, Fields, Same, Good
<1>4. /\ s.resident \in BOOLEAN
      /\ r.resident /\ ~(Idle(r) /\ r.session # "open") => s.resident
  BY <1>3, Zenon
<1> HIDE DEF s
<1>5. FieldsTyped(s)
  BY <1>1, <1>3, <1>4, TypedUpdate DEF Good
<1>6. /\ r.resident /\ ~r.released /\ ~r.prepared
      /\ r.session # "open" /\ r.native = "live" => r.cleanupError
      /\ r.cleanup # "none" => r.closing
      /\ r.cleanup \notin {"disposing", "publishing", "done"}
      /\ r.status = "closed" => r.closing
      /\ r.closing => r.queue = 0
      /\ r.queue \in Nat
  BY <1>1, <1>2 DEF Good, SlotSafe, FieldsTyped
<1>7. /\ s.native = "live" => HoldsSlot(s)
      /\ s.queue > 0 => s.resident /\ ~s.released
  BY <1>3, <1>4, <1>6, SameElim DEF HoldsSlot, Idle
<1>8. Good(FinishExecution(s))
  <2>1. /\ ~s.prepared /\ ~s.released
        /\ s.session # "open" /\ s.native = "live" => s.cleanupError
        /\ s.cleanup # "none" => s.closing
        /\ s.cleanup \notin {"disposing", "publishing", "done"}
        /\ s.status = "closed" => s.closing
        /\ s.closing => s.queue = 0
    BY <1>3, <1>6, SameElim
  <2> QED BY <1>3, <1>5, <1>7, <2>1, FinishExecutionGood
<1>9. HoldsSlot(r)
  BY <1>6 DEF HoldsSlot
<1> QED BY <1>2, <1>8, <1>9, StepOne DEF r

\* A suspension that resolves preserves the invariant.
LEMMA SuspendSettledStep ==
  ASSUME SlotInvariant, NEW a \in Agents, SuspendSettled(a)
  PROVE  SlotInvariant'
<1> DEFINE r == agents[a]
           kept == r.resident /\ (r.closing \/ r.queue > 0)
           s == [r EXCEPT !.native = "suspended", !.resident = kept]
<1>1. Good(r)
  BY GoodAgents
<1>2. Becomes(a, FinishExecution(s)) /\ r.exec = "suspending"
  BY DEF SuspendSettled
<1> HIDE DEF r
<1>3. /\ IsRecord(s) /\ s.native = "suspended" /\ s.resident = kept
      /\ Same(s, r, {"native", "resident"})
  BY <1>1 DEF IsRecord, Fields, Same, Good
<1>4. /\ s.resident \in BOOLEAN
      /\ r.resident /\ r.queue > 0 => s.resident
  BY <1>3, Zenon
<1> HIDE DEF s
<1>5. FieldsTyped(s)
  BY <1>1, <1>3, <1>4, TypedUpdate DEF Good, Native
<1>6. /\ r.resident /\ ~r.released /\ ~r.prepared
      /\ r.cleanup # "none" => r.closing
      /\ r.cleanup \notin {"disposing", "publishing", "done"}
      /\ r.status = "closed" => r.closing
      /\ r.closing => r.queue = 0
  BY <1>1, <1>2 DEF Good, SlotSafe
<1>7. Good(FinishExecution(s))
  <2>1. /\ ~s.prepared /\ ~s.released /\ s.native # "live"
        /\ s.queue > 0 => s.resident
        /\ s.cleanup # "none" => s.closing
        /\ s.cleanup \notin {"disposing", "publishing", "done"}
        /\ s.status = "closed" => s.closing
        /\ s.closing => s.queue = 0
    BY <1>3, <1>4, <1>6, SameElim
  <2> QED BY <1>3, <1>5, <2>1, FinishExecutionGood
<1>8. HoldsSlot(r)
  BY <1>6 DEF HoldsSlot
<1> QED BY <1>2, <1>7, <1>8, StepOne DEF r

\* A suspension that rejects preserves the invariant.
LEMMA SuspendFailedStep ==
  ASSUME SlotInvariant, NEW a \in Agents, SuspendFailed(a)
  PROVE  SlotInvariant'
<1> DEFINE r == agents[a]
           s == [r EXCEPT !.cleanupError = TRUE, !.queue = 0,
                          !.status = IF r.queue > 0 /\ ~IsClosed(r) THEN "failed"
                                                                    ELSE r.status]
<1>1. Good(r)
  BY GoodAgents
<1>2. Becomes(a, FinishExecution(s)) /\ r.exec = "suspending"
  BY DEF SuspendFailed
<1> HIDE DEF r
<1>3. /\ IsRecord(s) /\ s.cleanupError /\ s.cleanupError \in BOOLEAN /\ s.queue = 0
      /\ s.status = (IF r.queue > 0 /\ ~IsClosed(r) THEN "failed" ELSE r.status)
      /\ Same(s, r, {"cleanupError", "queue", "status"})
  BY <1>1 DEF IsRecord, Fields, Same, Good
<1> HIDE DEF s
<1>4. FieldsTyped(s)
  <2>1. s.status \in Status /\ s.queue \in Nat
    BY <1>1, <1>3 DEF Good, FieldsTyped, Status
  <2> QED BY <1>1, <1>3, <2>1, TypedUpdate DEF Good
<1>5. /\ r.resident /\ ~r.released /\ ~r.prepared
      /\ r.cleanup # "none" => r.closing
      /\ r.cleanup \notin {"disposing", "publishing", "done"}
      /\ r.status = "closed" => r.closing
  BY <1>1, <1>2 DEF Good, SlotSafe
<1>6. Good(FinishExecution(s))
  <2>1. /\ ~s.prepared /\ ~s.released /\ s.resident /\ s.queue = 0 /\ s.cleanupError
        /\ s.cleanup # "none" => s.closing
        /\ s.cleanup \notin {"disposing", "publishing", "done"}
        /\ s.status = "closed" => s.closing
    BY <1>3, <1>5, SameElim
  <2>2. s.native = "live" => HoldsSlot(s)
    BY <2>1 DEF HoldsSlot
  <2> QED BY <1>3, <1>4, <2>1, <2>2, FinishExecutionGood
<1>7. HoldsSlot(r)
  BY <1>5 DEF HoldsSlot
<1> QED BY <1>2, <1>6, <1>7, StepOne DEF r

\* A step that closes agents, in which every record stays good.
LEMMA StepGood ==
  ASSUME SlotInvariant, agents' = [b \in Agents |-> agents'[b]],
         closers' \in [Agents -> SUBSET Agents],
         disposed' \in {"no", "closing", "closed"},
         \A b \in Agents : Good(agents'[b]) /\ (HoldsSlot(agents'[b]) => HoldsSlot(agents[b]))
  PROVE  SlotInvariant'
<1>1. \A b \in Agents : agents'[b] \in AgentRecord
  BY RecordIntro DEF Good
<1>2. agents' \in [Agents -> AgentRecord]
  BY <1>1
<1>3. \A b \in Agents : SlotSafe(agents'[b])
  BY DEF Good
<1> QED BY <1>2, <1>3, StepMany

\* A watchdog preserves the invariant.
LEMMA TimeoutStep ==
  ASSUME SlotInvariant, NEW a \in Agents, Timeout(a)
  PROVE  SlotInvariant'
<1> DEFINE r == agents[a]
           s == [r EXCEPT !.timedOut = TRUE, !.status = "failed"]
           g(b) == CASE b = a -> CloseRecord(s, TRUE)
                     [] b # a /\ a \in agents[b].ancestors -> CloseRecord(agents[b], FALSE)
                     [] OTHER -> agents[b]
<1>1. agents' = [b \in Agents |-> g(b)] /\ UNCHANGED <<closers, disposed>> /\ ~r.closing
  BY DEF Timeout, IsClosed
<1>2. Good(r)
  BY GoodAgents
<1>3. Good(CloseRecord(s, TRUE)) /\ (HoldsSlot(CloseRecord(s, TRUE)) => HoldsSlot(agents[a]))
  <2> HIDE DEF r
  <2>1. /\ IsRecord(s) /\ s.timedOut \in BOOLEAN /\ s.status = "failed"
        /\ Same(s, r, {"timedOut", "status"})
    BY <1>2 DEF IsRecord, Fields, Same, Good
  <2> HIDE DEF s
  <2>2. FieldsTyped(s)
    BY <1>2, <2>1, TypedUpdate DEF Good, Status
  <2>3. SlotSafe(s) /\ (HoldsSlot(s) => HoldsSlot(r))
    BY <1>2, <2>1, SameElim DEF SlotSafe, Good, HoldsSlot
  <2> QED BY <2>1, <2>2, <2>3, CloseRecordGood DEF Good, r
<1>4. \A b \in Agents : /\ Good(agents[b]) /\ Good(CloseRecord(agents[b], FALSE))
                        /\ HoldsSlot(CloseRecord(agents[b], FALSE)) => HoldsSlot(agents[b])
  BY GoodAgents, CloseRecordGood
<1> HIDE DEF s
<1>5. \A b \in Agents : Good(g(b)) /\ (HoldsSlot(g(b)) => HoldsSlot(agents[b]))
  BY <1>3, <1>4
<1> HIDE DEF g
<1>6. agents' = [b \in Agents |-> agents'[b]] /\ \A b \in Agents : agents'[b] = g(b)
  BY <1>1
<1> QED BY <1>1, <1>5, <1>6, StepGood DEF SlotInvariant, TypeOK

\* closeAgent preserves the invariant.
LEMMA CloseAgentStep ==
  ASSUME SlotInvariant, NEW t \in Agents, CloseAgent(t)
  PROVE  SlotInvariant'
<1>1. PICK d \in Deepest(Subtree(t)) :
        /\ agents' = [b \in Agents |->
             CASE b = d -> CloseRecord(Freeze(agents[b]), FALSE)
               [] b # d /\ b \in Subtree(t) -> Freeze(agents[b])
               [] OTHER -> agents[b]]
        /\ closers' = [closers EXCEPT ![t] = (IF @ = {} THEN Subtree(t) ELSE @) \ {d}]
        /\ disposed' = disposed
  BY DEF CloseAgent
<1> DEFINE g(b) == CASE b = d -> CloseRecord(Freeze(agents[b]), FALSE)
                     [] b # d /\ b \in Subtree(t) -> Freeze(agents[b])
                     [] OTHER -> agents[b]
<1>2. closers' \in [Agents -> SUBSET Agents] /\ disposed' \in {"no", "closing", "closed"}
  BY <1>1 DEF SlotInvariant, TypeOK, Subtree
<1>3. \A b \in Agents :
        /\ Good(agents[b]) /\ Good(Freeze(agents[b]))
        /\ HoldsSlot(Freeze(agents[b])) => HoldsSlot(agents[b])
  BY GoodAgents, FreezeGood
<1>4. \A b \in Agents :
        /\ Good(CloseRecord(Freeze(agents[b]), FALSE))
        /\ HoldsSlot(CloseRecord(Freeze(agents[b]), FALSE)) => HoldsSlot(Freeze(agents[b]))
  BY <1>3, CloseRecordGood
<1>5. \A b \in Agents : Good(g(b)) /\ (HoldsSlot(g(b)) => HoldsSlot(agents[b]))
  BY <1>3, <1>4
<1>6. agents' = [b \in Agents |-> g(b)]
  BY <1>1
<1> HIDE DEF g
<1>7. agents' = [b \in Agents |-> agents'[b]] /\ \A b \in Agents : agents'[b] = g(b)
  BY <1>6
<1> QED BY <1>2, <1>5, <1>7, StepGood

\* The continuation of closeAgent preserves the invariant.
LEMMA CloseNextStep ==
  ASSUME SlotInvariant, NEW t \in Agents, CloseNext(t)
  PROVE  SlotInvariant'
<1>1. PICK d \in Deepest(closers[t]) :
        /\ agents' = [agents EXCEPT ![d] = CloseRecord(agents[d], FALSE)]
        /\ closers' = [closers EXCEPT ![t] = closers[t] \ {d}]
        /\ disposed' = disposed
  BY DEF CloseNext
<1> DEFINE g(b) == IF b = d THEN CloseRecord(agents[b], FALSE) ELSE agents[b]
<1>2. closers' \in [Agents -> SUBSET Agents] /\ disposed' \in {"no", "closing", "closed"}
  BY <1>1 DEF SlotInvariant, TypeOK
<1>3. \A b \in Agents : Good(g(b)) /\ (HoldsSlot(g(b)) => HoldsSlot(agents[b]))
  BY GoodAgents, CloseRecordGood
<1>4. agents' = [b \in Agents |-> g(b)]
  BY <1>1 DEF SlotInvariant, TypeOK, Deepest
<1> HIDE DEF g
<1>5. agents' = [b \in Agents |-> agents'[b]] /\ \A b \in Agents : agents'[b] = g(b)
  BY <1>4
<1> QED BY <1>2, <1>3, <1>5, StepGood

\* dispose preserves the invariant.
LEMMA DisposeStep ==
  ASSUME SlotInvariant, Dispose
  PROVE  SlotInvariant'
<1> DEFINE g(b) == IF Exists(b) /\ ~agents[b].released THEN CloseRecord(agents[b], FALSE)
                                                       ELSE agents[b]
<1>1. agents' = [b \in Agents |-> g(b)] /\ disposed' = "closing" /\ closers' = closers
  BY DEF Dispose
<1>2. \A b \in Agents : Good(g(b)) /\ (HoldsSlot(g(b)) => HoldsSlot(agents[b]))
  BY GoodAgents, CloseRecordGood
<1> HIDE DEF g
<1>3. agents' = [b \in Agents |-> agents'[b]] /\ \A b \in Agents : agents'[b] = g(b)
  BY <1>1
<1> QED BY <1>1, <1>2, <1>3, StepGood DEF SlotInvariant, TypeOK

\* The end of dispose preserves the invariant.
LEMMA DisposeEndsStep ==
  ASSUME SlotInvariant, DisposeEnds
  PROVE  SlotInvariant'
BY StepMany DEF DisposeEnds, SlotInvariant, TypeOK

\* A deactivate that settles preserves the invariant.
LEMMA DeactivateSettledStep ==
  ASSUME SlotInvariant, NEW a \in Agents, NEW ok \in BOOLEAN, DeactivateSettled(a, ok)
  PROVE  SlotInvariant'
<1> DEFINE r == agents[a]
           failed == r.cleanupError \/ ~ok
           s == [r EXCEPT !.cleanup = "draining", !.cleanupError = failed]
<1>1. Good(r)
  BY GoodAgents
<1>2. Becomes(a, s) /\ r.cleanup = "deactivating"
  BY DEF DeactivateSettled
<1> HIDE DEF r
<1>3. /\ IsRecord(s) /\ s.cleanup = "draining" /\ s.cleanupError = failed
      /\ Same(s, r, {"cleanup", "cleanupError"})
  BY <1>1 DEF IsRecord, Fields, Same, Good
<1>4. s.cleanupError \in BOOLEAN /\ (r.cleanupError => s.cleanupError)
  BY <1>3, Zenon
<1> HIDE DEF s, failed
<1>5. FieldsTyped(s)
  BY <1>1, <1>3, <1>4, TypedUpdate DEF Good, Cleanup
<1>6. SlotSafe(s) /\ (HoldsSlot(s) => HoldsSlot(r))
  BY <1>1, <1>2, <1>3, <1>4, SameElim DEF SlotSafe, Good, HoldsSlot
<1> QED BY <1>2, <1>3, <1>5, <1>6, StepOne DEF Good, r

\* The end of the awaits of cleanup() preserves the invariant.
LEMMA DrainStep ==
  ASSUME SlotInvariant, NEW a \in Agents, Drain(a)
  PROVE  SlotInvariant'
<1> DEFINE r == agents[a]
           failed == r.cleanupError
                     \/ \E c \in Children(a) : ~agents[c].released \/ agents[c].cleanupError
           s == [r EXCEPT !.cleanupError = failed]
<1>1. Good(r)
  BY GoodAgents
<1>2. Becomes(a, AfterDrain(s)) /\ r.cleanup = "draining" /\ r.exec = "none"
  BY DEF Drain
<1> HIDE DEF r
<1>3. IsRecord(s) /\ s.cleanupError = failed /\ Same(s, r, {"cleanupError"})
  BY <1>1 DEF IsRecord, Fields, Same, Good
<1>4. s.cleanupError \in BOOLEAN /\ (r.cleanupError => s.cleanupError)
  BY <1>3, Zenon
<1> HIDE DEF s, failed
<1>5. FieldsTyped(s)
  BY <1>1, <1>3, <1>4, TypedUpdate DEF Good
<1>6. /\ Drained(s) /\ (HoldsSlot(s) => HoldsSlot(r))
      /\ s.session # "open" /\ s.native = "live" => s.cleanupError
  BY <1>1, <1>2, <1>3, <1>4, <1>5, SameElim DEF SlotSafe, Good, HoldsSlot, Drained
<1>7. Good(AfterDrain(s)) /\ (HoldsSlot(AfterDrain(s)) => HoldsSlot(r))
  BY <1>6, AfterDrainGood
<1> QED BY <1>2, <1>7, StepOne DEF r

\* A session's dispose that settles preserves the invariant.
LEMMA DisposeSettledStep ==
  ASSUME SlotInvariant, NEW a \in Agents, NEW ok \in BOOLEAN, DisposeSettled(a, ok)
  PROVE  SlotInvariant'
<1> DEFINE r == agents[a]
           failed == r.cleanupError \/ ~ok
           s == [r EXCEPT !.cleanupError = failed,
                          !.native = IF ok THEN "closed" ELSE r.native]
<1>1. Good(r)
  BY GoodAgents
<1>2. Becomes(a, PublishUnlessFailed(s)) /\ r.cleanup = "disposing"
  BY DEF DisposeSettled
<1> HIDE DEF r
<1>3. /\ IsRecord(s) /\ s.cleanupError = failed
      /\ s.native = (IF ok THEN "closed" ELSE r.native)
      /\ Same(s, r, {"cleanupError", "native"})
  BY <1>1 DEF IsRecord, Fields, Same, Good
<1>4. s.cleanupError \in BOOLEAN /\ (~ok => s.cleanupError)
  BY <1>3, Zenon
<1> HIDE DEF s, failed
<1>5. FieldsTyped(s)
  <2>1. s.native \in Native
    BY <1>1, <1>3 DEF Good, FieldsTyped, Native
  <2> QED BY <1>1, <1>3, <1>4, <2>1, TypedUpdate DEF Good
<1>6. /\ Drained(s) /\ (HoldsSlot(s) => HoldsSlot(r))
      /\ s.native = "live" => s.cleanupError
  BY <1>1, <1>2, <1>3, <1>4, <1>5, SameElim DEF SlotSafe, Good, HoldsSlot, Drained
<1>7. Good(PublishUnlessFailed(s)) /\ (HoldsSlot(PublishUnlessFailed(s)) => HoldsSlot(r))
  BY <1>6, PublishUnlessFailedGood
<1> QED BY <1>2, <1>7, StepOne DEF r

\* The publication of a physical close preserves the invariant.
LEMMA PublishSettledStep ==
  ASSUME SlotInvariant, NEW a \in Agents, NEW ok \in BOOLEAN, PublishSettled(a, ok)
  PROVE  SlotInvariant'
<1> DEFINE r == agents[a]
           failed == r.cleanupError \/ ~ok
           s == [r EXCEPT !.cleanupError = failed]
<1>1. Good(r)
  BY GoodAgents
<1>2. Becomes(a, Confirm(s)) /\ r.cleanup = "publishing"
  BY DEF PublishSettled
<1> HIDE DEF r
<1>3. IsRecord(s) /\ s.cleanupError = failed /\ Same(s, r, {"cleanupError"})
  BY <1>1 DEF IsRecord, Fields, Same, Good
<1>4. s.cleanupError \in BOOLEAN
  BY <1>3, Zenon
<1> HIDE DEF s, failed
<1>5. FieldsTyped(s)
  BY <1>1, <1>3, <1>4, TypedUpdate DEF Good
<1>6. Drained(s) /\ (HoldsSlot(s) => HoldsSlot(r)) /\ s.native # "live"
  BY <1>1, <1>2, <1>3, <1>5, SameElim DEF SlotSafe, Good, HoldsSlot, Drained
<1>7. Good(Confirm(s)) /\ (HoldsSlot(Confirm(s)) => HoldsSlot(r))
  BY <1>6, ConfirmGood
<1> QED BY <1>2, <1>7, StepOne DEF r

-----------------------------------------------------------------------------
(* The theorems.                                                            *)

\* The coordinator starts with no agent and every slot free.
LEMMA SlotInvariantInit == Init => SlotInvariant
<1> SUFFICES ASSUME Init PROVE SlotInvariant
  OBVIOUS
<1>1. IsRecord(AbsentRecord) /\ FieldsTyped(AbsentRecord)
  BY DEF AbsentRecord, IsRecord, FieldsTyped, Fields, Status, Execution,
         SessionField, Native, Cleanup
<1>2. AbsentRecord \in AgentRecord
  BY <1>1, RecordIntro
<1>3. TypeOK /\ \A a \in Agents : agents[a] = AbsentRecord
  BY <1>2 DEF Init, TypeOK
<1>4. SlotSafe(AbsentRecord) /\ ~HoldsSlot(AbsentRecord)
  BY DEF SlotSafe, HoldsSlot, AbsentRecord
<1>5. Residents = {}
  BY <1>3, <1>4 DEF Residents
<1>6. SlotsBounded
  BY <1>5, FS_EmptySet, LimitsAssumption DEF SlotsBounded
<1> QED BY <1>3, <1>4, <1>6 DEF SlotInvariant

\* Every section of the coordinator preserves the invariant.
LEMMA SlotInvariantNext == SlotInvariant /\ [Next]_vars => SlotInvariant'
<1> SUFFICES ASSUME SlotInvariant, [Next]_vars PROVE SlotInvariant'
  OBVIOUS
<1>1. CASE Calls
  <2>1. CASE \E a \in Agents, p \in Agents \cup {Root} : Spawn(p, a) \/ PrepareSpawn(p, a)
    BY <2>1, SpawnStep, PrepareSpawnStep
  <2>2. ASSUME NEW a \in Agents,
               \/ FollowupTask(a) \/ InterruptAgent(a) \/ CloseAgent(a)
        PROVE  SlotInvariant'
    BY <2>2, FollowupTaskStep, InterruptAgentStep, CloseAgentStep
  <2>3. ASSUME NEW a \in Agents,
               \/ PrepareFollowup(a)
               \/ \E aborted \in BOOLEAN : ActivatePreparedTurn(a, aborted)
               \/ RollbackSpawn(a) \/ AbortExecution(a)
        PROVE  SlotInvariant'
    BY <2>3, PrepareFollowupStep, ActivatePreparedTurnStep, RollbackSpawnStep,
       AbortExecutionStep
  <2>4. CASE Dispose
    BY <2>4, DisposeStep
  <2> QED BY <1>1, <2>1, <2>2, <2>3, <2>4 DEF Calls
<1>2. CASE Turns
  <2>1. ASSUME NEW a \in Agents, StartExternal(a) \/ CreateReturns(a) \/ RunReturns(a)
        PROVE  SlotInvariant'
    BY <2>1, StartExternalStep, CreateSettledStep, CreateFailedStep, RunSettledStep
    DEF CreateReturns, RunReturns
  <2>2. ASSUME NEW a \in Agents,
               BeginSuspend(a) \/ SettleExecution(a) \/ SuspendReturns(a) \/ Timeout(a)
        PROVE  SlotInvariant'
    BY <2>2, BeginSuspendStep, SettleExecutionStep, SuspendSettledStep,
       SuspendFailedStep, TimeoutStep
    DEF SuspendReturns
  <2> QED BY <1>2, <2>1, <2>2 DEF Turns
<1>3. CASE Closings
  <2>1. ASSUME NEW a \in Agents,
               CloseNext(a) \/ DeactivateReturns(a) \/ Drain(a)
        PROVE  SlotInvariant'
    BY <2>1, CloseNextStep, DeactivateSettledStep, DrainStep DEF DeactivateReturns
  <2>2. ASSUME NEW a \in Agents, DisposeReturns(a) \/ PublishReturns(a)
        PROVE  SlotInvariant'
    BY <2>2, DisposeSettledStep, PublishSettledStep DEF DisposeReturns, PublishReturns
  <2>3. CASE DisposeEnds
    BY <2>3, DisposeEndsStep
  <2> QED BY <1>3, <2>1, <2>2, <2>3 DEF Closings
<1>4. CASE UNCHANGED vars
  BY <1>4, StepMany DEF vars, SlotInvariant, TypeOK
<1> QED BY <1>1, <1>2, <1>3, <1>4 DEF Next

\* The invariant holds in every reachable state.
LEMMA SlotInvariantHolds == Spec => []SlotInvariant
BY SlotInvariantInit, SlotInvariantNext, PTL DEF Spec

\* Every reachable state is well typed, for any number of agents, any limits,
\* either execution mode and any failing session operation.
THEOREM TypeCorrect == Spec => []TypeOK
<1>1. SlotInvariant => TypeOK
  BY DEF SlotInvariant
<1> QED BY <1>1, SlotInvariantHolds, PTL

\* The live sessions never exceed maxResidentAgents, whatever fails and
\* whichever turns, closes and activations race.
THEOREM LiveSessionsBounded == Spec => []BoundedLiveSessions
<1>1. SlotInvariant => BoundedLiveSessions
  <2> SUFFICES ASSUME SlotInvariant PROVE BoundedLiveSessions
    OBVIOUS
  <2>1. LiveSessions \subseteq Residents
    BY DEF LiveSessions, Residents, SlotInvariant, SlotSafe
  <2>2. Cardinality(LiveSessions) \in Nat /\ Cardinality(LiveSessions) <= Cardinality(Residents)
    BY <2>1, ResidentsFinite, FS_Subset, FS_CardinalityType
  <2> QED BY <2>2, ResidentsFinite, LimitsAssumption
          DEF SlotInvariant, SlotsBounded, BoundedLiveSessions
<1> QED BY <1>1, SlotInvariantHolds, PTL

\* A message accepted by followupTask or by an activation is never stranded in
\* its agent's queue, unless the agent's resources failed to be cleaned up.
THEOREM FollowupsNotLost == Spec => []NoLostFollowup
<1>1. SlotInvariant => NoLostFollowup
  BY DEF SlotInvariant, SlotSafe, NoLostFollowup
<1> QED BY <1>1, SlotInvariantHolds, PTL
=============================================================================
