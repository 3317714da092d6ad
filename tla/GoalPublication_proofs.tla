----------------------- MODULE GoalPublication_proofs ----------------------
(***************************************************************************)
(* That a claim is published at most once, that a completed goal is backed *)
(* by a commit of the receiver, and that the publication of a claim        *)
(* implements ClaimPublication, for any number of processes, attempts and  *)
(* faults.                                                                 *)
(***************************************************************************)
EXTENDS GoalPublication, TLAPS

(* What the stores and the runs know of each other, of one attempt by itself. *)

\* The controller: nothing is settled without a request, or after it was closed.
ControllerSafe(a) ==
  /\ request[a] # "prepared" => op[a] = "none" /\ journal[a] = "none"
  /\ op[a] = "not_approved" => journal[a] = "none"
  /\ approval[a] \in {"native", "staging", "committing"} => request[a] = "prepared"

\* The receiver acts on settled operations only, and its reply is believed.
ReceiverSafe(a) ==
  /\ journal[a] = "none" => receiver[a] = "none"
  /\ journal[a] = "consumed" => receiver[a] = "committed"
  /\ journal[a] = "cancelled" => receiver[a] = "cancelled"
  /\ approval[a] \in {"committed", "cancelled"} => receiver[a] = approval[a]

\* What a terminal status says has become of the operation.
Truth(a, s) ==
  /\ s = "not_prepared" => request[a] = "tombstone"
  /\ s = "not_approved" => op[a] = "not_approved"
  /\ s \in {"committed", "cancelled"} => receiver[a] = s

AttemptSafe(a) == Truth(a, status[a])

\* Only an attempt in the store asks for an operation.
RequestSafe(a) ==
  /\ request[a] = "prepared" => a \in asked
  /\ a \in asked => status[a] # "absent"

\* What a run is about to save is so.
RunSafe(p) ==
  /\ phase[p] = "created" => status[at[p]] # "absent"
  /\ phase[p] = "unprepared" => request[at[p]] = "tombstone"
  /\ phase[p] = "unapproved" => op[at[p]] = "not_approved"
  /\ phase[p] \in {"committed", "cancelled"} => receiver[at[p]] = phase[p]

\* An attempt is only made when all before it are retired.
OneAtATime == \A a, b \in Attempts : status[a] # "absent" /\ b < a => status[b] \in Retired

ClaimSafe ==
  /\ goal = "complete" => intent = "committed"
  /\ intent = "committed" => \E a \in Attempts : IsLast(a) /\ status[a] = "committed"

PublicationInvariant ==
  /\ TypeOK
  /\ \A a \in Attempts : ControllerSafe(a) /\ ReceiverSafe(a) /\ AttemptSafe(a) /\ RequestSafe(a)
  /\ \A p \in Processes : RunSafe(p)
  /\ OneAtATime
  /\ ClaimSafe

-----------------------------------------------------------------------------
(* Types.                                                                   *)

LEMMA AttemptOne == 1 \in Attempts
BY BoundsAssumption, SMT DEF Attempts

\* The controller's reading of a reservation, and of the receiver's reply.
LEMMA OutcomeType == \A j : Outcome(j) \in Result
BY DEF Outcome, Result

LEMMA AcceptedType ==
  ASSUME TypeOK, NEW a \in Attempts
  PROVE  Accepted(a) \in {"none", "pending", "commit_authorized", "consumed", "cancelled"}
BY DEF Accepted, TypeOK

LEMMA KnownType ==
  ASSUME TypeOK, NEW a \in Attempts, NEW result \in Result
  PROVE  Known(a, result) \in {"none", "prepared", "authorizing", "approved", "unknown",
                               "not_approved", "committed", "cancelled"}
BY DEF Known, Result, TypeOK

\* What a run knows stays well typed when it goes on, or saves and goes on.
LEMMA GoesType ==
  ASSUME TypeOK, NEW p \in Processes, NEW next \in Phase, Goes(p, next)
  PROVE  /\ phase' \in [Processes -> Phase] /\ at' \in [Processes -> Attempts]
         /\ fresh' \in [Processes -> BOOLEAN] /\ knows' \in [Processes -> BOOLEAN]
<1>1. phase' \in [Processes -> Phase]
  BY DEF TypeOK, Goes
<1>2. at' \in [Processes -> Attempts]
  BY AttemptOne DEF TypeOK, Goes
<1>3. fresh' \in [Processes -> BOOLEAN] /\ knows' \in [Processes -> BOOLEAN]
  BY DEF TypeOK, Goes
<1>4. QED
  BY <1>1, <1>2, <1>3

LEMMA SaveType ==
  ASSUME TypeOK, NEW p \in Processes, NEW new \in Status, NEW next \in Phase, Save(p, new, next)
  PROVE  /\ phase' \in [Processes -> Phase] /\ at' \in [Processes -> Attempts]
         /\ fresh' \in [Processes -> BOOLEAN] /\ knows' \in [Processes -> BOOLEAN]
         /\ status' \in [Attempts -> Status]
<1>1. CASE CanSave(p, new)
  <2>1. status' \in [Attempts -> Status]
    BY <1>1 DEF TypeOK, Save
  <2>2. phase' \in [Processes -> Phase]
    BY <1>1 DEF TypeOK, Save
  <2>3. at' \in [Processes -> Attempts]
    BY <1>1, AttemptOne DEF TypeOK, Save
  <2>4. knows' \in [Processes -> BOOLEAN]
    BY <1>1 DEF TypeOK, Save
  <2>5. fresh' \in [Processes -> BOOLEAN]
    <3>1. fresh' = [q \in Processes |-> IF q = p THEN next # "idle" ELSE fresh[q] /\ at[q] # at[p]]
      BY <1>1 DEF Save
    <3>2. ASSUME NEW q \in Processes
          PROVE  (IF q = p THEN next # "idle" ELSE fresh[q] /\ at[q] # at[p]) \in BOOLEAN
      OBVIOUS
    <3>3. QED
      BY <3>1, <3>2
  <2>6. QED
    BY <2>1, <2>2, <2>3, <2>4, <2>5
<1>2. CASE ~CanSave(p, new)
  <2>1. Goes(p, "idle") /\ status' = status
    BY <1>2 DEF Save
  <2>2. "idle" \in Phase
    BY DEF Phase
  <2>3. QED
    BY <2>1, <2>2, GoesType DEF TypeOK
<1>3. QED
  BY <1>1, <1>2

LEMMA TypeInit == Init => TypeOK
BY AttemptOne DEF Init, TypeOK, Status, Phase

\* Each action is asked only for the variables it changes.
LEMMA TypeStep == TypeOK /\ [Next]_vars => TypeOK'
<1> SUFFICES ASSUME TypeOK, [Next]_vars PROVE TypeOK'
  OBVIOUS
<1> USE DEF storeVars, runVars, controllerVars
<1>1. CASE UNCHANGED vars
  BY <1>1 DEF TypeOK, vars
<1>2. CASE Pause \/ ResumePublication \/ Withdraw
  BY <1>2 DEF TypeOK, Pause, ResumePublication, Withdraw, Decide
<1>3. CASE Restart
  BY <1>3 DEF TypeOK, Restart
<1>4. ASSUME NEW p \in Processes, Start(p) \/ Run(p) \/ Fail(p) PROVE TypeOK'
  <2>1. CASE Start(p)
    BY <2>1 DEF TypeOK, Start, Phase
  <2>2. CASE Fail(p)
    <3>1. Goes(p, "idle")
      BY <2>2 DEF Fail
    <3>2. QED
      BY <2>2, <3>1, GoesType DEF TypeOK, Fail, Phase
  <2>3. CASE Recover(p)
    BY <2>3 DEF TypeOK, Recover, Phase
  <2>4. CASE CreateAttempt(p)
    <3>1. CASE Goes(p, "idle") /\ UNCHANGED status
      BY <2>4, <3>1, GoesType DEF TypeOK, CreateAttempt, Phase
    <3>2. CASE ~(Goes(p, "idle") /\ UNCHANGED status)
      <4>1. /\ status' = [status EXCEPT ![at[p]] = "preparing"]
            /\ phase' = [phase EXCEPT ![p] = "created"]
            /\ fresh' = [fresh EXCEPT ![p] = TRUE] /\ knows' = [knows EXCEPT ![p] = FALSE]
            /\ UNCHANGED <<goal, intent, at, asked, submitted, controllerVars, receiver, faults>>
        BY <2>4, <3>2 DEF CreateAttempt
      <4>2. QED
        BY <4>1 DEF TypeOK, Phase, Status
    <3>3. QED
      BY <3>1, <3>2
  <2>5. CASE Ask(p)
    <3>1. \E next \in Phase : Goes(p, next)
      BY <2>5 DEF Ask, Phase
    <3>2. asked' \in SUBSET Attempts
      BY <2>5 DEF Ask, TypeOK
    <3>3. QED
      BY <2>5, <3>1, <3>2, GoesType DEF TypeOK, Ask
  <2>6. CASE SavePrepared(p) \/ SaveRetired(p)
    <3>1. \E new \in Status, next \in Phase : Save(p, new, next)
      BY <2>6 DEF SavePrepared, SaveRetired, Phase, Status, Terminal, Retired
    <3>2. QED
      BY <2>6, <3>1, SaveType DEF TypeOK, SavePrepared, SaveRetired
  <2>7. CASE Refused(p) \/ Recheck(p) \/ Answer(p)
    <3>1. \E next \in Phase : Goes(p, next)
      BY <2>7 DEF Refused, Recheck, Answer, Phase
    <3>2. QED
      BY <2>7, <3>1, GoesType DEF TypeOK, Refused, Recheck, Answer
  <2>8. CASE SaveAuthorizing(p)
    <3>1. \E new \in Status, next \in Phase : Save(p, new, next)
      BY <2>8 DEF SaveAuthorizing, Phase, Status
    <3>2. submitted' \in SUBSET Attempts
      BY <2>8 DEF SaveAuthorizing, TypeOK
    <3>3. QED
      BY <2>8, <3>1, <3>2, SaveType DEF TypeOK, SaveAuthorizing
  <2>9. CASE RecoverRequest(p)
    <3>1. \E next \in Phase : Goes(p, next)
      BY <2>9 DEF RecoverRequest, Phase
    <3>2. request' \in [Attempts -> {"none", "prepared", "tombstone"}]
      BY <2>9 DEF RecoverRequest, TypeOK
    <3>3. op' \in [Attempts -> {"none", "prepared", "authorizing", "approved", "unknown",
                                "not_approved", "committed", "cancelled"}]
      BY <2>9 DEF RecoverRequest, TypeOK
    <3>4. QED
      BY <2>9, <3>1, <3>2, <3>3, GoesType DEF TypeOK, RecoverRequest
  <2>10. CASE Adopt(p)
    <3>1. CASE knows[p]
      <4>1. Goes(p, "reconciling") /\ UNCHANGED status
        BY <2>10, <3>1 DEF Adopt
      <4>2. QED
        BY <2>10, <4>1, GoesType DEF TypeOK, Adopt, Phase
    <3>2. CASE ~knows[p]
      <4>1. Save(p, "prepared", "reconciling")
        BY <2>10, <3>2 DEF Adopt
      <4>2. QED
        BY <2>10, <4>1, SaveType DEF TypeOK, Adopt, Phase, Status
    <3>3. QED
      BY <3>1, <3>2
  <2>11. CASE Reconcile(p)
    <3>1. at[p] \in Attempts
      BY DEF TypeOK
    <3>2. Outcome(Accepted(at[p])) \in Phase
      BY OutcomeType DEF Phase
    <3>3. Goes(p, Outcome(Accepted(at[p])))
      BY <2>11 DEF Reconcile
    <3>4. journal' \in [Attempts -> {"none", "pending", "commit_authorized", "consumed", "cancelled"}]
      BY <2>11, <3>1, AcceptedType DEF Reconcile, TypeOK
    <3>5. op' \in [Attempts -> {"none", "prepared", "authorizing", "approved", "unknown",
                                "not_approved", "committed", "cancelled"}]
      BY <2>11, <3>1, KnownType, OutcomeType DEF Reconcile, TypeOK
    <3>6. QED
      BY <2>11, <3>2, <3>3, <3>4, <3>5, GoesType DEF TypeOK, Reconcile
  <2>12. CASE SaveResult(p)
    <3>1. \E new \in Status, next \in Phase : Save(p, new, next)
      BY <2>12 DEF SaveResult, Phase, Status, Result, Terminal, Retired
    <3>2. QED
      BY <2>12, <3>1, SaveType DEF TypeOK, SaveResult
  <2>13. CASE Finalize(p)
    <3>1. \E next \in Phase : Goes(p, next)
      BY <2>13 DEF Finalize, Phase
    <3>2. intent' \in {"claimed", "committed"}
      BY <2>13 DEF Finalize, TypeOK
    <3>3. QED
      BY <2>13, <3>1, <3>2, GoesType DEF TypeOK, Finalize
  <2>14. CASE CompleteClaim(p)
    <3>1. Goes(p, "idle")
      BY <2>14 DEF CompleteClaim
    <3>2. goal' \in {"active", "paused", "withdrawn", "complete"}
      BY <2>14 DEF CompleteClaim, TypeOK
    <3>3. QED
      BY <2>14, <3>1, <3>2, GoesType DEF TypeOK, CompleteClaim, Phase
  <2>15. QED
    BY <1>4, <2>1, <2>2, <2>3, <2>4, <2>5, <2>6, <2>7, <2>8, <2>9, <2>10, <2>11, <2>12, <2>13, <2>14 DEF Run
<1>5. ASSUME NEW a \in Attempts, Controller(a) \/ StopBeforeSettlement(a) \/ Stage(a) \/ Commit(a)
      PROVE  TypeOK'
  <2> USE DEF controllerElse, receiverElse
  <2>1. CASE Prepare(a)
    BY <2>1 DEF TypeOK, Prepare
  <2>2. CASE Approve(a)
    BY <2>2 DEF TypeOK, Approve
  <2>3. CASE SettleApproved(a)
    BY <2>3 DEF TypeOK, SettleApproved
  <2>4. CASE AuthorizeCommit(a)
    BY <2>4 DEF TypeOK, AuthorizeCommit
  <2>5. CASE CommitReply(a)
    <3>1. Outcome(Accepted(a)) \in Result
      BY OutcomeType
    <3>2. op' \in [Attempts -> {"none", "prepared", "authorizing", "approved", "unknown",
                                "not_approved", "committed", "cancelled"}]
      BY <2>5 DEF CommitReply, TypeOK, Accepted, Outcome
    <3>3. journal' \in [Attempts -> {"none", "pending", "commit_authorized", "consumed", "cancelled"}]
      BY <2>5, AcceptedType DEF CommitReply, TypeOK
    <3>4. approval' \in [Attempts -> {"none", "native", "staging", "committing", "failed"} \cup Result]
      BY <2>5, <3>1 DEF CommitReply, TypeOK
    <3>5. QED
      BY <2>5, <3>2, <3>3, <3>4 DEF CommitReply, TypeOK
  <2>6. CASE ApprovalFails(a)
    BY <2>6 DEF TypeOK, ApprovalFails
  <2>7. CASE StopBeforeSettlement(a)
    BY <2>7 DEF TypeOK, StopBeforeSettlement
  <2>8. CASE Stage(a)
    BY <2>8 DEF TypeOK, Stage
  <2>9. CASE Commit(a)
    BY <2>9 DEF TypeOK, Commit
  <2>10. QED
    BY <1>5, <2>1, <2>2, <2>3, <2>4, <2>5, <2>6, <2>7, <2>8, <2>9 DEF Controller
<1>6. QED
  BY <1>1, <1>2, <1>3, <1>4, <1>5 DEF Next

\* Every reachable state of the publication of a claim is well typed.
THEOREM TypeCorrect == Spec => []TypeOK
BY TypeInit, TypeStep, PTL DEF Spec

-----------------------------------------------------------------------------
(* The controller and the receiver.                                         *)

\* The steps that leave both alone, and do not take an attempt's request back.
LEMMA ControllerElse ==
  ASSUME NEW a \in Attempts, ControllerSafe(a), ReceiverSafe(a), UNCHANGED <<controllerVars, receiver>>
  PROVE  ControllerSafe(a)' /\ ReceiverSafe(a)'
BY DEF ControllerSafe, ReceiverSafe, controllerVars

\* What a reservation becomes when the receiver is asked.
LEMMA ReplySafe ==
  ASSUME TypeOK, NEW a \in Attempts, ReceiverSafe(a)
  PROVE  /\ Accepted(a) = "none" <=> journal[a] = "none"
         /\ Accepted(a) = "consumed" => receiver[a] = "committed"
         /\ Accepted(a) = "cancelled" => receiver[a] = "cancelled"
         /\ Outcome(Accepted(a)) \in {"committed", "cancelled"} => receiver[a] = Outcome(Accepted(a))
         /\ Outcome(Accepted(a)) \in {"committed", "cancelled"} => journal[a] # "none"
BY DEF ReceiverSafe, Accepted, Outcome, TypeOK

LEMMA ControllerStep ==
  ASSUME TypeOK, \A a \in Attempts : ControllerSafe(a) /\ ReceiverSafe(a), [Next]_vars
  PROVE  \A a \in Attempts : ControllerSafe(a)' /\ ReceiverSafe(a)'
<1> SUFFICES ASSUME NEW c \in Attempts PROVE ControllerSafe(c)' /\ ReceiverSafe(c)'
  OBVIOUS
<1>1. CASE UNCHANGED <<controllerVars, receiver>>
  BY <1>1, ControllerElse
<1>2. CASE Restart
  BY <1>2 DEF Restart, TypeOK, ControllerSafe, ReceiverSafe
<1>3. ASSUME NEW p \in Processes, RecoverRequest(p) PROVE ControllerSafe(c)' /\ ReceiverSafe(c)'
  <2>1. at[p] \in Attempts /\ UNCHANGED <<approval, journal, receiver>>
    BY <1>3 DEF RecoverRequest, TypeOK
  <2>2. ReceiverSafe(c)'
    BY <2>1 DEF ReceiverSafe
  <2>3. ControllerSafe(c)'
    BY <1>3, <2>1 DEF RecoverRequest, Settled, ControllerSafe, TypeOK
  <2>4. QED
    BY <2>2, <2>3
<1>4. ASSUME NEW p \in Processes, Reconcile(p) PROVE ControllerSafe(c)' /\ ReceiverSafe(c)'
  <2>1. at[p] \in Attempts /\ UNCHANGED <<approval, request, receiver>>
    BY <1>4 DEF Reconcile, TypeOK
  <2>2. /\ journal' = [journal EXCEPT ![at[p]] = Accepted(at[p])]
        /\ op' = [op EXCEPT ![at[p]] = Known(at[p], Outcome(Accepted(at[p])))]
    BY <1>4 DEF Reconcile
  <2>3. CASE c = at[p]
    <3>1. journal'[c] = Accepted(c) /\ op'[c] = Known(c, Outcome(Accepted(c)))
      BY <2>2, <2>3 DEF TypeOK
    <3>2. ReceiverSafe(c)'
      BY <2>1, <3>1, ReplySafe DEF ReceiverSafe
    <3>3. Known(c, Outcome(Accepted(c))) = op[c] \/ (Known(c, Outcome(Accepted(c))) = Outcome(Accepted(c)) /\ Outcome(Accepted(c)) \in {"committed", "cancelled"})
      BY OutcomeType DEF Known, Result
    <3>4. ControllerSafe(c)'
      BY <2>1, <3>1, <3>3, ReplySafe DEF ControllerSafe
    <3>5. QED
      BY <3>2, <3>4
  <2>4. CASE c # at[p]
    BY <2>1, <2>2, <2>4 DEF TypeOK, ControllerSafe, ReceiverSafe
  <2>5. QED
    BY <2>3, <2>4
<1>5. ASSUME NEW a \in Attempts, Controller(a) \/ StopBeforeSettlement(a) \/ Stage(a) \/ Commit(a)
      PROVE  ControllerSafe(c)' /\ ReceiverSafe(c)'
  <2> USE DEF controllerElse, receiverElse, controllerVars
  <2>1. CASE Prepare(a)
    BY <2>1 DEF Prepare, TypeOK, ControllerSafe, ReceiverSafe
  <2>2. CASE Approve(a)
    BY <2>2 DEF Approve, TypeOK, ControllerSafe, ReceiverSafe
  <2>3. CASE SettleApproved(a)
    BY <2>3 DEF SettleApproved, StillApproving, TypeOK, ControllerSafe, ReceiverSafe
  <2>4. CASE AuthorizeCommit(a)
    BY <2>4 DEF AuthorizeCommit, TypeOK, ControllerSafe, ReceiverSafe
  <2>5. CASE CommitReply(a)
    <3>1. UNCHANGED <<request, receiver>> /\ approval[a] = "committing"
      BY <2>5 DEF CommitReply
    <3>2. CASE c = a
      <4>1. /\ journal'[c] = Accepted(c) /\ op'[c] = Outcome(Accepted(c)) /\ approval'[c] = Outcome(Accepted(c))
        BY <2>5, <3>2 DEF CommitReply, TypeOK
      <4>2. op'[c] # "not_approved" /\ approval'[c] \notin {"native", "staging", "committing"}
        BY <4>1, OutcomeType DEF Result
      <4>3. ControllerSafe(c)'
        BY <3>1, <3>2, <4>2 DEF ControllerSafe
      <4>4. ReceiverSafe(c)'
        BY <3>1, <4>1, ReplySafe DEF ReceiverSafe
      <4>5. QED
        BY <4>3, <4>4
    <3>3. CASE c # a
      BY <2>5, <3>1, <3>3 DEF CommitReply, TypeOK, ControllerSafe, ReceiverSafe
    <3>4. QED
      BY <3>2, <3>3
  <2>6. CASE ApprovalFails(a)
    BY <2>6 DEF ApprovalFails, TypeOK, ControllerSafe, ReceiverSafe
  <2>7. CASE StopBeforeSettlement(a)
    BY <2>7 DEF StopBeforeSettlement, StillApproving, TypeOK, ControllerSafe, ReceiverSafe
  <2>8. CASE Stage(a)
    BY <2>8 DEF Stage, TypeOK, ControllerSafe, ReceiverSafe
  <2>9. CASE Commit(a)
    BY <2>9 DEF Commit, TypeOK, ControllerSafe, ReceiverSafe
  <2>10. QED
    BY <1>5, <2>1, <2>2, <2>3, <2>4, <2>5, <2>6, <2>7, <2>8, <2>9 DEF Controller
<1>6. ASSUME NEW p \in Processes, Start(p) \/ Fail(p) \/ (Run(p) /\ ~RecoverRequest(p) /\ ~Reconcile(p))
      PROVE  UNCHANGED <<controllerVars, receiver>>
  BY <1>6 DEF Start, Fail, Run, Recover, CreateAttempt, Ask, SavePrepared, Refused, Recheck, SaveAuthorizing,
     Answer, SaveRetired, Adopt, SaveResult, Finalize, CompleteClaim, controllerVars
<1>7. CASE Pause \/ ResumePublication \/ Withdraw \/ UNCHANGED vars
  BY <1>1, <1>7 DEF Pause, ResumePublication, Withdraw, Decide, vars, controllerVars
<1>8. QED
  BY <1>1, <1>2, <1>3, <1>4, <1>5, <1>6, <1>7 DEF Next

-----------------------------------------------------------------------------
(* The attempts.                                                            *)

\* An attempt is created when all before it are retired.
Created(a) ==
  /\ intent = "claimed" /\ MayCreate(a) /\ status' = [status EXCEPT ![a] = "preparing"]
  /\ UNCHANGED <<asked, controllerVars, receiver>>

\* The last attempt gets a status that is true.
Moved(a, new) ==
  /\ IsLast(a) /\ Follows(status[a], new) /\ Truth(a, new) /\ status' = [status EXCEPT ![a] = new]
  /\ UNCHANGED <<asked, controllerVars, receiver>>

StatusMoves ==
  \/ status' = status
  \/ \E a \in Attempts : Created(a)
  \/ \E a \in Attempts, new \in Status : Moved(a, new)

LEMMA SaveMoves ==
  ASSUME TypeOK, NEW p \in Processes, NEW new \in Status, NEW next, Save(p, new, next), Truth(at[p], new),
         UNCHANGED <<asked, controllerVars, receiver>>
  PROVE  StatusMoves
<1>1. at[p] \in Attempts
  BY DEF TypeOK
<1>2. CASE CanSave(p, new)
  <2>1. status' = [status EXCEPT ![at[p]] = new]
    BY <1>2 DEF Save
  <2>2. Moved(at[p], new)
    BY <1>2, <2>1 DEF Moved, CanSave
  <2>3. QED
    BY <1>1, <2>2 DEF StatusMoves
<1>3. CASE ~CanSave(p, new)
  BY <1>3 DEF Save, StatusMoves
<1>4. QED
  BY <1>2, <1>3

LEMMA StatusStep ==
  ASSUME TypeOK, \A p \in Processes : RunSafe(p), [Next]_vars
  PROVE  StatusMoves
<1> USE DEF storeVars
<1>1. ASSUME NEW p \in Processes, Run(p) PROVE StatusMoves
  <2> at[p] \in Attempts
    BY DEF TypeOK
  <2>1. CASE CreateAttempt(p)
    <3>1. CASE intent = "claimed" /\ MayCreate(at[p])
      <4>1. Created(at[p])
        BY <2>1, <3>1 DEF CreateAttempt, Created
      <4>2. QED
        BY <4>1 DEF StatusMoves
    <3>2. CASE ~(intent = "claimed" /\ MayCreate(at[p]))
      BY <2>1, <3>2 DEF CreateAttempt, StatusMoves
    <3>3. QED
      BY <3>1, <3>2
  <2>2. CASE SavePrepared(p)
    <3>1. Truth(at[p], "prepared") /\ "prepared" \in Status
      BY DEF Truth, Status
    <3>2. QED
      BY <2>2, <3>1, SaveMoves DEF SavePrepared
  <2>3. CASE SaveAuthorizing(p)
    <3>1. Truth(at[p], "authorizing") /\ "authorizing" \in Status
      BY DEF Truth, Status
    <3>2. QED
      BY <2>3, <3>1, SaveMoves DEF SaveAuthorizing
  <2>4. CASE SaveRetired(p)
    <3>1. \E new \in {"not_prepared", "not_approved"} : Truth(at[p], new) /\ Save(p, new, "idle")
      BY <2>4 DEF SaveRetired, RunSafe, Truth
    <3>2. {"not_prepared", "not_approved"} \subseteq Status
      BY DEF Status, Terminal, Retired
    <3>3. QED
      BY <2>4, <3>1, <3>2, SaveMoves DEF SaveRetired
  <2>5. CASE Adopt(p)
    <3>1. Truth(at[p], "prepared") /\ "prepared" \in Status
      BY DEF Truth, Status
    <3>2. CASE knows[p]
      BY <2>5, <3>2 DEF Adopt, StatusMoves
    <3>3. CASE ~knows[p]
      BY <2>5, <3>1, <3>3, SaveMoves DEF Adopt
    <3>4. QED
      BY <3>2, <3>3
  <2>6. CASE SaveResult(p)
    <3>1. Truth(at[p], phase[p])
      BY <2>6 DEF SaveResult, RunSafe, Truth, Result
    <3>2. phase[p] \in Status
      BY <2>6 DEF SaveResult, Status, Terminal, Retired, Result
    <3>3. QED
      BY <2>6, <3>1, <3>2, SaveMoves DEF SaveResult
  <2>7. CASE Recover(p) \/ Ask(p) \/ Refused(p) \/ Recheck(p) \/ Answer(p) \/ RecoverRequest(p)
             \/ Reconcile(p) \/ Finalize(p) \/ CompleteClaim(p)
    BY <2>7 DEF Recover, Ask, Refused, Recheck, Answer, RecoverRequest, Reconcile, Finalize, CompleteClaim, StatusMoves
  <2>8. QED
    BY <1>1, <2>1, <2>2, <2>3, <2>4, <2>5, <2>6, <2>7 DEF Run
<1>2. ASSUME NEW p \in Processes, Start(p) \/ Fail(p) PROVE StatusMoves
  BY <1>2 DEF Start, Fail, StatusMoves
<1>3. ASSUME NEW a \in Attempts, Controller(a) \/ StopBeforeSettlement(a) \/ Stage(a) \/ Commit(a)
      PROVE  StatusMoves
  BY <1>3 DEF Controller, Prepare, Approve, SettleApproved, AuthorizeCommit, CommitReply, ApprovalFails,
     StopBeforeSettlement, Stage, Commit, controllerElse, receiverElse, StatusMoves
<1>4. CASE Pause \/ ResumePublication \/ Withdraw \/ Restart \/ UNCHANGED vars
  BY <1>4 DEF Pause, ResumePublication, Withdraw, Decide, Restart, vars, StatusMoves
<1>5. QED
  BY <1>1, <1>2, <1>3, <1>4 DEF Next

LEMMA OneAtATimeStep ==
  ASSUME TypeOK, OneAtATime, StatusMoves
  PROVE  OneAtATime'
<1>1. CASE status' = status
  BY <1>1 DEF OneAtATime
<1>2. ASSUME NEW c \in Attempts, Created(c) PROVE OneAtATime'
  <2>1. SUFFICES ASSUME NEW a \in Attempts, NEW b \in Attempts, status'[a] # "absent", b < a PROVE status'[b] \in Retired
    BY DEF OneAtATime
  <2>2. status[c] = "absent" /\ \A d \in Attempts : d < c => status[d] \in Retired
    BY <1>2 DEF Created, MayCreate
  <2>3. \A d \in Attempts : status'[d] = IF d = c THEN "preparing" ELSE status[d]
    BY <1>2 DEF Created, TypeOK
  <2>4. CASE a = c
    BY <2>1, <2>2, <2>3, <2>4 DEF Attempts
  <2>5. CASE a # c
    <3>1. status[b] \in Retired
      BY <2>1, <2>3, <2>5 DEF OneAtATime
    <3>2. b # c
      BY <2>2, <3>1 DEF Retired
    <3>3. QED
      BY <2>3, <3>1, <3>2
  <2>6. QED
    BY <2>4, <2>5
<1>3. ASSUME NEW c \in Attempts, NEW new \in Status, Moved(c, new) PROVE OneAtATime'
  <2>1. SUFFICES ASSUME NEW a \in Attempts, NEW b \in Attempts, status'[a] # "absent", b < a PROVE status'[b] \in Retired
    BY DEF OneAtATime
  <2>2. status[c] # "absent" /\ \A d \in Attempts : d > c => status[d] = "absent"
    BY <1>3 DEF Moved, IsLast
  <2>3. \A d \in Attempts : status'[d] = IF d = c THEN new ELSE status[d]
    BY <1>3 DEF Moved, TypeOK
  <2>4. status[a] # "absent"
    BY <2>1, <2>2, <2>3
  <2>5. status[b] \in Retired
    BY <2>1, <2>4 DEF OneAtATime
  <2>6. b # c
    BY <2>1, <2>2, <2>4 DEF Attempts
  <2>7. QED
    BY <2>3, <2>5, <2>6
<1>4. QED
  BY <1>1, <1>2, <1>3 DEF StatusMoves

-----------------------------------------------------------------------------
(* What no step takes back, and the runs.                                   *)

Kept ==
  /\ \A a \in Attempts : /\ status[a] # "absent" => status'[a] # "absent"
                         /\ request[a] = "tombstone" => request'[a] = "tombstone"
                         /\ op[a] = "not_approved" => op'[a] = "not_approved"
                         /\ receiver[a] \in {"committed", "cancelled"} => receiver'[a] = receiver[a]
  /\ asked \subseteq asked'

LEMMA StatusKept ==
  ASSUME TypeOK, StatusMoves, NEW a \in Attempts, status[a] # "absent"
  PROVE  status'[a] # "absent"
<1>1. \A c, new : Follows(status[c], new) => new # "absent"
  BY DEF Follows, Result
<1>2. QED
  BY <1>1 DEF StatusMoves, Created, Moved, TypeOK

LEMMA KeptStep ==
  ASSUME TypeOK, \A a \in Attempts : ControllerSafe(a) /\ ReceiverSafe(a), StatusMoves, [Next]_vars
  PROVE  Kept
<1> SUFFICES ASSUME NEW a \in Attempts
             PROVE  /\ request[a] = "tombstone" => request'[a] = "tombstone"
                    /\ op[a] = "not_approved" => op'[a] = "not_approved"
                    /\ receiver[a] \in {"committed", "cancelled"} => receiver'[a] = receiver[a]
                    /\ asked \subseteq asked'
  <2>1. CASE Attempts = {}
    BY <2>1, AttemptOne
  <2>2. QED
    BY <2>1, StatusKept, AttemptOne DEF Kept
<1>1. CASE UNCHANGED <<controllerVars, receiver, asked>>
  BY <1>1 DEF controllerVars
<1>2. CASE Restart
  BY <1>2 DEF Restart
<1>3. ASSUME NEW p \in Processes, RecoverRequest(p) PROVE UNCHANGED <<receiver, asked>>
          /\ (request[a] = "tombstone" => request'[a] = "tombstone") /\ (op[a] = "not_approved" => op'[a] = "not_approved")
  BY <1>3 DEF RecoverRequest, TypeOK
<1>4. ASSUME NEW p \in Processes, Reconcile(p) PROVE UNCHANGED <<request, receiver, asked>>
          /\ (op[a] = "not_approved" => op'[a] = "not_approved")
  <2>1. at[p] \in Attempts /\ op' = [op EXCEPT ![at[p]] = Known(at[p], Outcome(Accepted(at[p])))]
    BY <1>4 DEF Reconcile, TypeOK
  <2>2. op[a] = "not_approved" => Outcome(Accepted(a)) = "pending"
    BY ReplySafe, OutcomeType DEF ControllerSafe, Result
  <2>3. QED
    BY <1>4, <2>1, <2>2 DEF Reconcile, Known, TypeOK
<1>5. ASSUME NEW p \in Processes, Ask(p) PROVE UNCHANGED <<controllerVars, receiver>> /\ asked \subseteq asked'
  BY <1>5 DEF Ask, controllerVars
<1>6. ASSUME NEW p \in Processes, Start(p) \/ Fail(p) \/ (Run(p) /\ ~RecoverRequest(p) /\ ~Reconcile(p) /\ ~Ask(p))
      PROVE  UNCHANGED <<controllerVars, receiver, asked>>
  BY <1>6 DEF Start, Fail, Run, Recover, CreateAttempt, SavePrepared, Refused, Recheck, SaveAuthorizing,
     Answer, SaveRetired, Adopt, SaveResult, Finalize, CompleteClaim, controllerVars
<1>7. CASE Pause \/ ResumePublication \/ Withdraw \/ UNCHANGED vars
  BY <1>1, <1>7 DEF Pause, ResumePublication, Withdraw, Decide, vars, controllerVars
<1>8. ASSUME NEW c \in Attempts, Controller(c) \/ StopBeforeSettlement(c) \/ Stage(c) \/ Commit(c)
      PROVE  /\ request[a] = "tombstone" => request'[a] = "tombstone"
             /\ op[a] = "not_approved" => op'[a] = "not_approved"
             /\ receiver[a] \in {"committed", "cancelled"} => receiver'[a] = receiver[a]
             /\ asked \subseteq asked'
  <2> USE DEF controllerElse, receiverElse, controllerVars
  <2>1. CASE Prepare(c)
    BY <2>1 DEF Prepare, TypeOK, ControllerSafe
  <2>2. CASE Approve(c)
    BY <2>2 DEF Approve, TypeOK
  <2>3. CASE SettleApproved(c) \/ StopBeforeSettlement(c)
    BY <2>3 DEF SettleApproved, StopBeforeSettlement, StillApproving, TypeOK
  <2>4. CASE AuthorizeCommit(c) \/ ApprovalFails(c)
    BY <2>4 DEF AuthorizeCommit, ApprovalFails, TypeOK
  <2>5. CASE CommitReply(c)
    <3>1. journal[c] # "none"
      BY <2>5 DEF CommitReply, ReceiverSafe
    <3>2. op[c] # "not_approved"
      BY <3>1 DEF ControllerSafe
    <3>3. QED
      BY <2>5, <3>2 DEF CommitReply, TypeOK
  <2>6. CASE Stage(c) \/ Commit(c)
    BY <2>6 DEF Stage, Commit, TypeOK
  <2>7. QED
    BY <1>8, <2>1, <2>2, <2>3, <2>4, <2>5, <2>6 DEF Controller
<1>9. QED
  BY <1>1, <1>2, <1>3, <1>4, <1>5, <1>6, <1>7, <1>8 DEF Next, controllerVars

\* A run that stands where it stood keeps its knowledge.
LEMMA RunElse ==
  ASSUME TypeOK, Kept, NEW q \in Processes, RunSafe(q), phase'[q] = phase[q], at'[q] = at[q]
  PROVE  RunSafe(q)'
<1>1. at[q] \in Attempts
  BY DEF TypeOK
<1>2. QED
  BY <1>1 DEF RunSafe, Kept

\* A run that goes on keeps the others' knowledge, and has its own in its new phase.
LEMMA GoesSafe ==
  ASSUME TypeOK, Kept, NEW p \in Processes, NEW q \in Processes, RunSafe(q), NEW next, Goes(p, next),
         next = "created" => status'[at[p]] # "absent",
         next = "unprepared" => request'[at[p]] = "tombstone",
         next = "unapproved" => op'[at[p]] = "not_approved",
         next \in {"committed", "cancelled"} => receiver'[at[p]] = next
  PROVE  RunSafe(q)'
<1>1. CASE q = p
  <2>1. phase'[p] = next /\ (next # "idle" => at'[p] = at[p])
    BY DEF Goes, TypeOK
  <2>2. QED
    BY <1>1, <2>1 DEF RunSafe
<1>2. CASE q # p
  BY <1>2, RunElse DEF Goes, TypeOK
<1>3. QED
  BY <1>1, <1>2

LEMMA SaveSafe ==
  ASSUME TypeOK, Kept, NEW p \in Processes, NEW q \in Processes, RunSafe(q), NEW new, NEW next, Save(p, new, next),
         next \notin {"created", "unprepared", "unapproved", "committed", "cancelled"}
  PROVE  RunSafe(q)'
<1>1. CASE CanSave(p, new)
  <2>1. phase' = [phase EXCEPT ![p] = next] /\ at' = [at EXCEPT ![p] = IF next = "idle" THEN 1 ELSE @]
    BY <1>1 DEF Save
  <2>2. CASE q = p
    BY <2>1, <2>2 DEF RunSafe, TypeOK
  <2>3. CASE q # p
    BY <2>1, <2>3, RunElse DEF TypeOK
  <2>4. QED
    BY <2>2, <2>3
<1>2. CASE ~CanSave(p, new)
  <2>1. Goes(p, "idle")
    BY <1>2 DEF Save
  <2>2. QED
    BY <2>1, GoesSafe
<1>3. QED
  BY <1>1, <1>2

LEMMA RunStep ==
  ASSUME TypeOK, \A a \in Attempts : ControllerSafe(a) /\ ReceiverSafe(a), Kept,
         \A p \in Processes : RunSafe(p), [Next]_vars
  PROVE  \A q \in Processes : RunSafe(q)'
<1> SUFFICES ASSUME NEW q \in Processes PROVE RunSafe(q)'
  OBVIOUS
<1>1. CASE UNCHANGED <<phase, at>>
  BY <1>1, RunElse
<1>2. ASSUME NEW p \in Processes, Start(p) \/ Run(p) \/ Fail(p) PROVE RunSafe(q)'
  <2>1. CASE Start(p)
    BY <2>1, RunElse DEF Start, RunSafe, TypeOK
  <2>2. CASE Fail(p)
    BY <2>2, GoesSafe DEF Fail
  <2>3. CASE Recover(p)
    <3>1. CASE q = p
      BY <2>3, <3>1 DEF Recover, RunSafe, TypeOK
    <3>2. CASE q # p
      BY <2>3, <3>2, RunElse DEF Recover, TypeOK
    <3>3. QED
      BY <3>1, <3>2
  <2>4. CASE CreateAttempt(p)
    <3>1. CASE Goes(p, "idle")
      BY <3>1, GoesSafe
    <3>2. CASE ~Goes(p, "idle")
      <4>1. /\ status' = [status EXCEPT ![at[p]] = "preparing"] /\ phase' = [phase EXCEPT ![p] = "created"]
            /\ UNCHANGED at
        BY <2>4, <3>2 DEF CreateAttempt
      <4>2. CASE q = p
        BY <4>1, <4>2 DEF RunSafe, TypeOK
      <4>3. CASE q # p
        BY <4>1, <4>3, RunElse DEF TypeOK
      <4>4. QED
        BY <4>2, <4>3
    <3>3. QED
      BY <3>1, <3>2
  <2>5. CASE Ask(p) \/ Refused(p) \/ Recheck(p) \/ CompleteClaim(p) \/ Finalize(p)
    <3>1. \E next \in {"preparing", "recovering", "idle", "current", "completing"} : Goes(p, next)
      BY <2>5 DEF Ask, Refused, Recheck, CompleteClaim, Finalize
    <3>2. QED
      BY <3>1, GoesSafe
  <2>6. CASE SavePrepared(p) \/ SaveAuthorizing(p) \/ SaveRetired(p) \/ SaveResult(p)
    <3>1. \E new, next : Save(p, new, next)
                         /\ next \notin {"created", "unprepared", "unapproved", "committed", "cancelled"}
      BY <2>6 DEF SavePrepared, SaveAuthorizing, SaveRetired, SaveResult
    <3>2. QED
      BY <3>1, SaveSafe
  <2>7. CASE Adopt(p)
    <3>1. CASE knows[p]
      BY <2>7, <3>1, GoesSafe DEF Adopt
    <3>2. CASE ~knows[p]
      BY <2>7, <3>2, SaveSafe DEF Adopt
    <3>3. QED
      BY <3>1, <3>2
  <2>8. CASE Answer(p)
    <3>1. UNCHANGED receiver /\ at[p] \in Attempts
      BY <2>8 DEF Answer, TypeOK
    <3>2. CASE Goes(p, "idle")
      BY <3>2, GoesSafe
    <3>3. CASE approval[at[p]] \in Result /\ Goes(p, approval[at[p]])
      BY <3>1, <3>3, GoesSafe DEF ReceiverSafe, Result
    <3>4. QED
      BY <2>8, <3>2, <3>3 DEF Answer
  <2>9. CASE RecoverRequest(p)
    <3>1. at[p] \in Attempts
      BY DEF TypeOK
    <3>2. \/ Goes(p, "settled")
          \/ Goes(p, "unprepared") /\ request'[at[p]] = "tombstone"
          \/ Goes(p, "unapproved") /\ op'[at[p]] = "not_approved"
      BY <2>9, <3>1 DEF RecoverRequest, TypeOK
    <3>3. QED
      BY <3>2, GoesSafe
  <2>10. CASE Reconcile(p)
    <3>1. at[p] \in Attempts /\ UNCHANGED receiver /\ Goes(p, Outcome(Accepted(at[p])))
      BY <2>10 DEF Reconcile, TypeOK
    <3>2. Outcome(Accepted(at[p])) \in {"committed", "cancelled", "pending"}
      BY OutcomeType DEF Result
    <3>3. Outcome(Accepted(at[p])) \in {"committed", "cancelled"} => receiver'[at[p]] = Outcome(Accepted(at[p]))
      BY <3>1, ReplySafe
    <3>4. QED
      BY <3>1, <3>2, <3>3, GoesSafe
  <2>11. QED
    BY <1>2, <2>1, <2>2, <2>3, <2>4, <2>5, <2>6, <2>7, <2>8, <2>9, <2>10 DEF Run
<1>3. ASSUME NEW a \in Attempts, Controller(a) \/ StopBeforeSettlement(a) \/ Stage(a) \/ Commit(a)
      PROVE  UNCHANGED <<phase, at>>
  BY <1>3 DEF Controller, Prepare, Approve, SettleApproved, AuthorizeCommit, CommitReply, ApprovalFails,
     StopBeforeSettlement, Stage, Commit, controllerElse, receiverElse, runVars
<1>4. CASE Pause \/ ResumePublication \/ Withdraw \/ Restart \/ UNCHANGED vars
  BY <1>1, <1>4 DEF Pause, ResumePublication, Withdraw, Decide, Restart, vars, runVars
<1>5. QED
  BY <1>1, <1>2, <1>3, <1>4 DEF Next

-----------------------------------------------------------------------------
(* The attempts' truth, the requests and the claim.                          *)

LEMMA AttemptStep ==
  ASSUME TypeOK, \A a \in Attempts : AttemptSafe(a), Kept, StatusMoves
  PROVE  \A a \in Attempts : AttemptSafe(a)'
<1> SUFFICES ASSUME NEW a \in Attempts PROVE AttemptSafe(a)'
  OBVIOUS
<1>1. CASE status'[a] = status[a]
  BY <1>1 DEF AttemptSafe, Truth, Kept
<1>2. CASE status'[a] # status[a]
  <2>1. CASE \E c \in Attempts : Created(c)
    <3>1. status'[a] = "preparing"
      BY <1>2, <2>1 DEF Created, TypeOK
    <3>2. QED
      BY <3>1 DEF AttemptSafe, Truth
  <2>2. CASE \E c \in Attempts, new \in Status : Moved(c, new)
    <3>1. Truth(a, status'[a])
      BY <1>2, <2>2 DEF Moved, TypeOK
    <3>2. QED
      BY <3>1 DEF AttemptSafe, Truth, Kept
  <2>3. QED
    BY <1>2, <2>1, <2>2 DEF StatusMoves
<1>3. QED
  BY <1>1, <1>2

\* Only Prepare makes a request a prepared one, and only Ask sends one.
LEMMA RequestMoves ==
  ASSUME TypeOK, \A p \in Processes : RunSafe(p), [Next]_vars, NEW a \in Attempts
  PROVE  /\ request'[a] = "prepared" => request[a] = "prepared" \/ a \in asked
         /\ a \in asked' => a \in asked \/ status[a] # "absent"
<1>1. CASE UNCHANGED <<request, asked>>
  BY <1>1
<1>2. ASSUME NEW p \in Processes, Start(p) \/ Run(p) \/ Fail(p)
      PROVE  /\ request'[a] = "prepared" => request[a] = "prepared"
             /\ a \in asked' => a \in asked \/ status[a] # "absent"
  <2>1. CASE Ask(p)
    BY <2>1 DEF Ask, RunSafe, controllerVars
  <2>2. CASE RecoverRequest(p)
    BY <2>2 DEF RecoverRequest, TypeOK
  <2>3. CASE Start(p) \/ Fail(p) \/ (Run(p) /\ ~Ask(p) /\ ~RecoverRequest(p))
    BY <2>3 DEF Start, Fail, Run, Recover, CreateAttempt, SavePrepared, Refused, Recheck, SaveAuthorizing,
       Answer, SaveRetired, Adopt, Reconcile, SaveResult, Finalize, CompleteClaim, controllerVars
  <2>4. QED
    BY <1>2, <2>1, <2>2, <2>3
<1>3. ASSUME NEW c \in Attempts, Controller(c) \/ StopBeforeSettlement(c) \/ Stage(c) \/ Commit(c)
      PROVE  /\ request'[a] = "prepared" => request[a] = "prepared" \/ a \in asked
             /\ asked' = asked
  <2>1. CASE Prepare(c)
    BY <2>1 DEF Prepare, controllerElse, TypeOK
  <2>2. CASE ~Prepare(c)
    BY <1>3, <2>2 DEF Controller, Approve, SettleApproved, AuthorizeCommit, CommitReply, ApprovalFails,
       StopBeforeSettlement, Stage, Commit, controllerElse, receiverElse, controllerVars
  <2>3. QED
    BY <2>1, <2>2
<1>4. CASE Pause \/ ResumePublication \/ Withdraw \/ Restart \/ UNCHANGED vars
  BY <1>4 DEF Pause, ResumePublication, Withdraw, Decide, Restart, vars, controllerVars
<1>5. QED
  BY <1>1, <1>2, <1>3, <1>4 DEF Next

LEMMA RequestStep ==
  ASSUME TypeOK, \A a \in Attempts : RequestSafe(a), \A p \in Processes : RunSafe(p), Kept, [Next]_vars
  PROVE  \A a \in Attempts : RequestSafe(a)'
BY RequestMoves DEF RequestSafe, Kept

\* A committed last attempt stays so, and nothing comes after it.
LEMMA BackingKept ==
  ASSUME TypeOK, StatusMoves, intent = "committed", NEW a \in Attempts, IsLast(a), status[a] = "committed"
  PROVE  (IsLast(a) /\ status[a] = "committed")'
<1>1. status' = status
  <2>1. \A c \in Attempts : ~Created(c)
    BY DEF Created
  <2>2. ASSUME NEW c \in Attempts, NEW new \in Status, Moved(c, new) PROVE FALSE
    <3>1. c = a
      BY <2>2 DEF Moved, IsLast, Attempts
    <3>2. QED
      BY <2>2, <3>1 DEF Moved, Follows
  <2>3. QED
    BY <2>1, <2>2 DEF StatusMoves
<1>2. QED
  BY <1>1 DEF IsLast

LEMMA ClaimMoves ==
  ASSUME TypeOK, [Next]_vars
  PROVE  /\ goal' = "complete" => goal = "complete" \/ intent' = "committed"
         /\ intent = "committed" => intent' = "committed"
         /\ intent' # intent => /\ UNCHANGED status
                                /\ \E a \in Attempts : IsLast(a) /\ status[a] = "committed"
<1>1. CASE UNCHANGED <<goal, intent>>
  BY <1>1
<1>2. CASE Pause \/ ResumePublication \/ Withdraw
  BY <1>2 DEF Pause, ResumePublication, Withdraw, Decide
<1>3. ASSUME NEW p \in Processes, Finalize(p)
      PROVE  /\ UNCHANGED <<goal, status>>
             /\ intent' = intent \/ (intent' = "committed" /\ \E a \in Attempts : IsLast(a) /\ status[a] = "committed")
  BY <1>3 DEF Finalize, TypeOK
<1>4. ASSUME NEW p \in Processes, CompleteClaim(p)
      PROVE  UNCHANGED intent /\ (goal' = goal \/ intent = "committed")
  BY <1>4 DEF CompleteClaim
<1>5. ASSUME NEW p \in Processes, Start(p) \/ Fail(p) \/ (Run(p) /\ ~Finalize(p) /\ ~CompleteClaim(p))
      PROVE  UNCHANGED <<goal, intent>>
  BY <1>5 DEF Start, Fail, Run, Recover, CreateAttempt, Ask, SavePrepared, Refused, Recheck, SaveAuthorizing,
     Answer, RecoverRequest, SaveRetired, Adopt, Reconcile, SaveResult, storeVars
<1>6. ASSUME NEW a \in Attempts, Controller(a) \/ StopBeforeSettlement(a) \/ Stage(a) \/ Commit(a)
      PROVE  UNCHANGED <<goal, intent>>
  BY <1>6 DEF Controller, Prepare, Approve, SettleApproved, AuthorizeCommit, CommitReply, ApprovalFails,
     StopBeforeSettlement, Stage, Commit, controllerElse, receiverElse, storeVars
<1>7. CASE Restart \/ UNCHANGED vars
  BY <1>1, <1>7 DEF Restart, vars, storeVars
<1>8. QED
  BY <1>1, <1>2, <1>3, <1>4, <1>5, <1>6, <1>7 DEF Next

LEMMA ClaimStep ==
  ASSUME TypeOK, ClaimSafe, StatusMoves, [Next]_vars
  PROVE  ClaimSafe'
<1>1. goal' = "complete" => intent' = "committed"
  BY ClaimMoves DEF ClaimSafe
<1>2. ASSUME intent' = "committed" PROVE \E a \in Attempts : (IsLast(a) /\ status[a] = "committed")'
  <2>1. CASE intent = "committed"
    BY <2>1, BackingKept DEF ClaimSafe
  <2>2. CASE intent # "committed"
    <3>1. UNCHANGED status /\ \E a \in Attempts : IsLast(a) /\ status[a] = "committed"
      BY <1>2, <2>2, ClaimMoves
    <3>2. QED
      BY <3>1 DEF IsLast
  <2>3. QED
    BY <2>1, <2>2
<1>3. QED
  BY <1>1, <1>2 DEF ClaimSafe

-----------------------------------------------------------------------------
(* The invariant and what follows from it.                                    *)

LEMMA InvariantInit == Init => PublicationInvariant
<1> SUFFICES ASSUME Init PROVE PublicationInvariant
  OBVIOUS
<1>1. TypeOK
  BY TypeInit
<1>2. \A a \in Attempts : ControllerSafe(a) /\ ReceiverSafe(a) /\ AttemptSafe(a) /\ RequestSafe(a)
  BY DEF Init, ControllerSafe, ReceiverSafe, AttemptSafe, Truth, RequestSafe
<1>3. \A p \in Processes : RunSafe(p)
  BY DEF Init, RunSafe
<1>4. OneAtATime /\ ClaimSafe
  BY DEF Init, OneAtATime, ClaimSafe
<1>5. QED
  BY <1>1, <1>2, <1>3, <1>4 DEF PublicationInvariant

LEMMA InvariantStep == PublicationInvariant /\ [Next]_vars => PublicationInvariant'
<1> SUFFICES ASSUME PublicationInvariant, [Next]_vars PROVE PublicationInvariant'
  OBVIOUS
<1> USE DEF PublicationInvariant
<1>1. TypeOK'
  BY TypeStep
<1>2. StatusMoves
  BY StatusStep
<1>3. Kept
  BY <1>2, KeptStep
<1>4. \A a \in Attempts : ControllerSafe(a)' /\ ReceiverSafe(a)'
  BY ControllerStep
<1>5. \A a \in Attempts : AttemptSafe(a)' /\ RequestSafe(a)'
  BY <1>2, <1>3, AttemptStep, RequestStep
<1>6. \A p \in Processes : RunSafe(p)'
  BY <1>3, RunStep
<1>7. OneAtATime' /\ ClaimSafe'
  BY <1>2, OneAtATimeStep, ClaimStep
<1>8. Attempts' = Attempts
  BY DEF Attempts
<1>9. QED
  BY <1>1, <1>4, <1>5, <1>6, <1>7, <1>8

\* A committed operation is of an attempt in the store, which is not retired.
LEMMA CommittedIsOpen ==
  ASSUME PublicationInvariant, NEW a \in Attempts, receiver[a] = "committed"
  PROVE  status[a] # "absent" /\ status[a] \notin Retired
<1>1. journal[a] # "none" /\ request[a] = "prepared" /\ op[a] # "not_approved"
  BY DEF PublicationInvariant, ReceiverSafe, ControllerSafe
<1>2. QED
  BY <1>1 DEF PublicationInvariant, RequestSafe, AttemptSafe, Truth, Retired

LEMMA PublishedOnceState == PublicationInvariant => OnePublication
<1> SUFFICES ASSUME PublicationInvariant PROVE OnePublication
  OBVIOUS
<1>1. ASSUME NEW a \in Attempts, NEW b \in Attempts, receiver[a] = "committed", receiver[b] = "committed"
      PROVE  a = b
  <2>1. ~(a < b) /\ ~(b < a)
    BY <1>1, CommittedIsOpen DEF PublicationInvariant, OneAtATime
  <2>2. QED
    BY <2>1 DEF Attempts
<1>2. \A a \in Attempts : status[a] \in Retired => receiver[a] # "committed"
  BY CommittedIsOpen
<1>3. QED
  BY <1>1, <1>2 DEF OnePublication, PublicationInvariant

LEMMA BackedState == PublicationInvariant => CompletionBacked
BY DEF PublicationInvariant, ClaimSafe, AttemptSafe, Truth, CompletionBacked

\* However many processes, attempts, restarts and late messages there are, the
\* receiver commits at most one operation of a claim, and none of a retired attempt.
THEOREM PublishedOnce == Spec => []OnePublication
BY InvariantInit, InvariantStep, PublishedOnceState, PTL DEF Spec

\* A complete goal, and a committed claim or attempt, is backed by the receiver.
THEOREM CompletionIsBacked == Spec => []CompletionBacked
BY InvariantInit, InvariantStep, BackedState, PTL DEF Spec

-----------------------------------------------------------------------------
(* The refinement of ClaimPublication.                                        *)

\* The reservation and the receiver's decision of an attempt stay as they are.
OperationKept(a) ==
  /\ journal'[a] = "none" <=> journal[a] = "none"
  /\ receiver'[a] \in {"committed", "cancelled"} <=> receiver[a] \in {"committed", "cancelled"}
  /\ receiver[a] \in {"committed", "cancelled"} => receiver'[a] = receiver[a]

\* What the state of an attempt says of its stores.
LEMMA StateTells ==
  ASSUME PublicationInvariant, NEW a \in Attempts
  PROVE  /\ StateOf(a) \in {"committed", "cancelled"} <=> receiver[a] \in {"committed", "cancelled"}
         /\ StateOf(a) \in {"committed", "cancelled"} => StateOf(a) = receiver[a] /\ journal[a] # "none"
         /\ StateOf(a) = "retired" <=> status[a] \in {"not_prepared", "not_approved"}
         /\ StateOf(a) = "retired" => journal[a] = "none"
         /\ status[a] = "absent" <=> StateOf(a) = "absent"
         /\ journal[a] # "none" /\ receiver[a] \notin {"committed", "cancelled"} => StateOf(a) = "approved"
         /\ status[a] \in Retired => StateOf(a) \in {"retired", "cancelled"}
<1>1. /\ ControllerSafe(a) /\ ReceiverSafe(a) /\ AttemptSafe(a) /\ RequestSafe(a)
      /\ status[a] \in Status
  BY DEF PublicationInvariant, TypeOK
<1>2. receiver[a] \in {"committed", "cancelled"} => journal[a] # "none"
  BY <1>1 DEF ReceiverSafe
<1>3. journal[a] # "none" => status[a] \notin {"absent", "not_prepared", "not_approved"}
  BY <1>1 DEF ControllerSafe, AttemptSafe, Truth, RequestSafe
<1>4. status[a] \in Retired => status[a] \in {"not_prepared", "not_approved"} \/ receiver[a] = "cancelled"
  BY <1>1 DEF AttemptSafe, Truth, Retired
<1> QED BY <1>2, <1>3, <1>4 DEF StateOf, Settled

\* The state of an attempt depends on nothing else.
LEMMA StateKept ==
  ASSUME NEW a \in Attempts, status'[a] = status[a], OperationKept(a)
  PROVE  StateOf(a)' = StateOf(a)
BY DEF StateOf, Settled, OperationKept

\* Of the steps that save no status, only the approval of an operation and the
\* receiver's decision change the state of an attempt.
LEMMA OperationStep ==
  ASSUME PublicationInvariant, [Next]_vars
  PROVE  \/ \A a \in Attempts : OperationKept(a)
         \/ \E a \in Attempts : SettleApproved(a) \/ Commit(a)
<1> TypeOK /\ (\A a \in Attempts : ControllerSafe(a) /\ ReceiverSafe(a))
  BY DEF PublicationInvariant
<1>1. CASE UNCHANGED <<journal, receiver>>
  BY <1>1 DEF OperationKept
<1>2. ASSUME NEW a \in Attempts, Controller(a) \/ StopBeforeSettlement(a) \/ Stage(a) \/ Commit(a),
             NEW c \in Attempts, ~SettleApproved(a), ~Commit(a)
      PROVE  OperationKept(c)
  <2>1. CASE Prepare(a) \/ Approve(a) \/ ApprovalFails(a) \/ StopBeforeSettlement(a)
    BY <2>1 DEF Prepare, Approve, ApprovalFails, StopBeforeSettlement, controllerElse, OperationKept
  <2>2. CASE AuthorizeCommit(a)
    BY <2>2 DEF AuthorizeCommit, controllerElse, OperationKept, TypeOK
  <2>3. CASE CommitReply(a)
    <3>1. receiver' = receiver /\ journal' = [journal EXCEPT ![a] = Accepted(a)]
      BY <2>3 DEF CommitReply, controllerElse
    <3> QED BY <3>1, ReplySafe DEF OperationKept, TypeOK
  <2>4. CASE Stage(a)
    BY <2>4 DEF Stage, receiverElse, controllerVars, OperationKept, TypeOK
  <2> QED BY <1>2, <2>1, <2>2, <2>3, <2>4 DEF Controller
<1>3. ASSUME NEW p \in Processes, Start(p) \/ Run(p) \/ Fail(p), NEW c \in Attempts
      PROVE  OperationKept(c)
  <2>1. CASE Reconcile(p)
    <3>1. /\ at[p] \in Attempts /\ receiver' = receiver
          /\ journal' = [journal EXCEPT ![at[p]] = Accepted(at[p])]
      BY <2>1 DEF Reconcile, TypeOK
    <3> QED BY <3>1, ReplySafe DEF OperationKept, TypeOK
  <2>2. CASE ~Reconcile(p)
    <3>1. UNCHANGED <<journal, receiver>>
      BY <1>3, <2>2 DEF Start, Fail, Run, Recover, CreateAttempt, Ask, SavePrepared, Refused, Recheck,
         SaveAuthorizing, Answer, RecoverRequest, SaveRetired, Adopt, SaveResult, Finalize,
         CompleteClaim, controllerVars
    <3> QED BY <3>1 DEF OperationKept
  <2> QED BY <2>1, <2>2
<1>4. CASE Pause \/ ResumePublication \/ Withdraw \/ Restart \/ UNCHANGED vars
  BY <1>1, <1>4 DEF Pause, ResumePublication, Withdraw, Decide, Restart, vars, controllerVars
<1> QED BY <1>2, <1>3, <1>4 DEF Next

\* A step of one attempt, seen in ClaimPublication.
ViewMoves(a, old, new) == View[a] = old /\ View' = [View EXCEPT ![a] = new]

\* An attempt that alone changes its state.
LEMMA OneMoves ==
  ASSUME NEW a \in Attempts, NEW old, NEW new, StateOf(a) = old, StateOf(a)' = new,
         \A b \in Attempts : b # a => StateOf(b)' = StateOf(b)
  PROVE  ViewMoves(a, old, new)
<1>1. Attempts' = Attempts
  BY DEF Attempts
<1> QED BY <1>1 DEF ViewMoves, View

\* An attempt is made, or its request is closed, when its store is changed.
LEMMA StatusIsSeen ==
  ASSUME PublicationInvariant, PublicationInvariant', StatusMoves, status' # status
  PROVE  \/ View' = View
         \/ \E a \in Attempts : \/ Created(a) /\ ViewMoves(a, "absent", "open")
                                \/ ViewMoves(a, "open", "retired")
<1>0. TypeOK /\ Attempts' = Attempts
  BY DEF PublicationInvariant, Attempts
<1>1. ASSUME NEW a \in Attempts, Created(a) PROVE ViewMoves(a, "absent", "open")
  <2>1. UNCHANGED <<journal, receiver>> /\ status[a] = "absent" /\ status'[a] = "preparing"
    BY <1>0, <1>1 DEF Created, MayCreate, controllerVars, TypeOK
  <2>2. \A b \in Attempts : b # a => status'[b] = status[b]
    BY <1>0, <1>1 DEF Created, TypeOK
  <2>3. StateOf(a) = "absent" /\ journal[a] = "none" /\ receiver[a] \notin {"committed", "cancelled"}
    BY <2>1, StateTells
  <2>4. StateOf(a)' = "open"
    BY <2>1, <2>3 DEF StateOf, Settled
  <2>5. \A b \in Attempts : b # a => StateOf(b)' = StateOf(b)
    BY <2>1, <2>2, StateKept DEF OperationKept
  <2> QED BY <2>3, <2>4, <2>5, OneMoves
<1>2. ASSUME NEW a \in Attempts, NEW new \in Status, Moved(a, new)
      PROVE  View' = View \/ ViewMoves(a, "open", "retired")
  <2>1. /\ UNCHANGED <<journal, receiver, request, op>> /\ status'[a] = new
        /\ Follows(status[a], new) /\ Truth(a, new)
    BY <1>0, <1>2 DEF Moved, controllerVars, TypeOK
  <2>2. \A b \in Attempts : b # a => StateOf(b)' = StateOf(b)
    <3>1. \A b \in Attempts : b # a => status'[b] = status[b]
      BY <1>0, <1>2 DEF Moved, TypeOK
    <3> QED BY <2>1, <3>1, StateKept DEF OperationKept
  <2>3. status[a] \notin {"absent", "not_prepared", "not_approved"} /\ new # "absent"
    BY <2>1 DEF Follows, Result
  <2>4. CASE new \in {"not_prepared", "not_approved"}
    <3>1. ControllerSafe(a) /\ ReceiverSafe(a)
      BY DEF PublicationInvariant
    <3>2. journal[a] = "none" /\ receiver[a] \notin {"committed", "cancelled"}
      BY <2>1, <2>4, <3>1 DEF ControllerSafe, ReceiverSafe, Truth
    <3>3. StateOf(a) = "open" /\ StateOf(a)' = "retired"
      BY <2>1, <2>3, <2>4, <3>2 DEF StateOf, Settled
    <3> QED BY <2>2, <3>3, OneMoves
  <2>5. CASE new \notin {"not_prepared", "not_approved"}
    <3>1. StateOf(a)' = StateOf(a)
      BY <2>1, <2>3, <2>5 DEF StateOf, Settled
    <3> QED BY <1>0, <2>2, <3>1 DEF View
  <2> QED BY <2>4, <2>5
<1> QED BY <1>1, <1>2 DEF StatusMoves

\* The other steps are the approval of an operation and the receiver's decision.
LEMMA OperationIsSeen ==
  ASSUME PublicationInvariant, [Next]_vars, status' = status
  PROVE  \/ View' = View
         \/ \E a \in Attempts : ViewMoves(a, "open", "approved") /\ SettleApproved(a)
         \/ \E a \in Attempts, result \in {"committed", "cancelled"} :
              ViewMoves(a, "approved", result) /\ Commit(a)
<1>0. TypeOK /\ Attempts' = Attempts
  BY DEF PublicationInvariant, Attempts
<1>1. CASE \A a \in Attempts : OperationKept(a)
  BY <1>0, <1>1, StateKept DEF View
<1>2. ASSUME NEW a \in Attempts, SettleApproved(a)
      PROVE  View' = View \/ ViewMoves(a, "open", "approved")
  <2>1. /\ receiver' = receiver /\ journal' = [journal EXCEPT ![a] = "pending"]
        /\ approval[a] = "native" /\ op[a] = "authorizing"
    BY <1>2 DEF SettleApproved, StillApproving, controllerElse
  <2>2. \A b \in Attempts : b # a => StateOf(b)' = StateOf(b)
    BY <1>0, <2>1, StateKept DEF OperationKept, TypeOK
  <2>3. status[a] \notin {"absent", "not_prepared", "not_approved"}
    <3>1. ControllerSafe(a) /\ RequestSafe(a) /\ AttemptSafe(a)
      BY DEF PublicationInvariant
    <3> QED BY <2>1, <3>1 DEF ControllerSafe, RequestSafe, AttemptSafe, Truth
  <2>4. journal'[a] = "pending"
    BY <1>0, <2>1 DEF TypeOK
  <2>5. StateOf(a)' = StateOf(a) \/ (StateOf(a) = "open" /\ StateOf(a)' = "approved")
    BY <2>1, <2>3, <2>4 DEF StateOf, Settled
  <2>6. CASE StateOf(a)' = StateOf(a)
    BY <1>0, <2>2, <2>6 DEF View
  <2> QED BY <2>2, <2>5, <2>6, OneMoves
<1>3. ASSUME NEW a \in Attempts, Commit(a)
      PROVE  \E result \in {"committed", "cancelled"} : ViewMoves(a, "approved", result)
  <2>1. PICK result \in {"committed", "cancelled"} : receiver' = [receiver EXCEPT ![a] = result]
    BY <1>3 DEF Commit
  <2>2. journal' = journal /\ journal[a] = "commit_authorized" /\ receiver[a] = "prepared"
    BY <1>3 DEF Commit, receiverElse, controllerVars
  <2>3. \A b \in Attempts : b # a => StateOf(b)' = StateOf(b)
    BY <1>0, <2>1, <2>2, StateKept DEF OperationKept, TypeOK
  <2>4. StateOf(a) = "approved"
    BY <2>2, StateTells
  <2>5. StateOf(a)' = result
    <3>1. receiver'[a] = result
      BY <1>0, <2>1 DEF TypeOK
    <3> QED BY <3>1 DEF StateOf
  <2> QED BY <2>3, <2>4, <2>5, OneMoves
<1> QED BY <1>1, <1>2, <1>3, OperationStep

\* The steps of the goal and of the claim leave the stores of the attempts alone.
LEMMA ClaimIsSeen ==
  ASSUME PublicationInvariant, [Next]_vars, <<goal, intent>>' # <<goal, intent>>
  PROVE  /\ View' = View
         /\ Claim!Credit \/ Claim!Complete \/ Claim!Decide
<1>0. TypeOK /\ Attempts' = Attempts
  BY DEF PublicationInvariant, Attempts
<1>1. ASSUME UNCHANGED <<status, journal, receiver>> PROVE View' = View
  BY <1>0, <1>1, StateKept DEF View, OperationKept
<1>2. CASE Pause \/ ResumePublication \/ Withdraw
  <2>1. View' = View
    BY <1>1, <1>2 DEF Pause, ResumePublication, Withdraw, Decide, storeVars, controllerVars
  <2>2. Claim!Decide
    BY <1>2, <2>1 DEF Claim!Decide, View, Pause, ResumePublication, Withdraw, Decide
  <2> QED BY <2>1, <2>2
<1>3. ASSUME NEW p \in Processes, Finalize(p) PROVE View' = View /\ Claim!Credit
  <2>1. View' = View
    BY <1>1, <1>3 DEF Finalize, controllerVars
  <2>2. /\ goal' = goal /\ intent' # intent
        /\ at[p] \in Attempts /\ status[at[p]] = "committed" /\ intent' = "committed"
    BY <1>0, <1>3 DEF Finalize, TypeOK
  <2>3. View[at[p]] = "committed"
    BY <2>2 DEF View, PublicationInvariant, AttemptSafe, Truth, StateOf
  <2> QED BY <2>1, <2>2, <2>3 DEF Claim!Credit, View
<1>4. ASSUME NEW p \in Processes, CompleteClaim(p) PROVE View' = View /\ Claim!Complete
  <2>1. View' = View
    BY <1>1, <1>4 DEF CompleteClaim, controllerVars
  <2>2. intent' = intent /\ goal' # goal
    BY <1>4 DEF CompleteClaim
  <2>3. goal = "active" /\ intent = "committed" /\ goal' = "complete"
    BY <1>4, <2>2 DEF CompleteClaim
  <2> QED BY <2>1, <2>2, <2>3 DEF Claim!Complete, View
<1>5. ASSUME NEW p \in Processes, Start(p) \/ Fail(p) \/ (Run(p) /\ ~Finalize(p) /\ ~CompleteClaim(p))
      PROVE  UNCHANGED <<goal, intent>>
  BY <1>5 DEF Start, Fail, Run, Recover, CreateAttempt, Ask, SavePrepared, Refused, Recheck, SaveAuthorizing,
     Answer, RecoverRequest, SaveRetired, Adopt, Reconcile, SaveResult, storeVars
<1>6. ASSUME NEW a \in Attempts, Controller(a) \/ StopBeforeSettlement(a) \/ Stage(a) \/ Commit(a)
      PROVE  UNCHANGED <<goal, intent>>
  BY <1>6 DEF Controller, Prepare, Approve, SettleApproved, AuthorizeCommit, CommitReply, ApprovalFails,
     StopBeforeSettlement, Stage, Commit, controllerElse, receiverElse, storeVars
<1>7. CASE Restart \/ UNCHANGED vars
  BY <1>7 DEF Restart, vars, storeVars
<1> QED BY <1>2, <1>3, <1>4, <1>5, <1>6, <1>7 DEF Next

\* An attempt may be made in ClaimPublication when it is made here.
LEMMA CreatedIsOpen ==
  ASSUME PublicationInvariant, NEW a \in Attempts, Created(a), ViewMoves(a, "absent", "open"),
         UNCHANGED <<goal, intent>>
  PROVE  Claim!Open(a)
<1>1. ASSUME NEW b \in Attempts, b < a PROVE View[b] \in Claim!Void
  <2>1. status[b] \in Retired
    BY <1>1 DEF Created, MayCreate
  <2> QED BY <2>1, StateTells DEF View, Claim!Void
<1> QED BY <1>1 DEF Claim!Open, Claim!Moves, ViewMoves, View, Created

\* The workflow, the controller and the receiver together implement
\* ClaimPublication, for any number of processes, attempts and faults.
THEOREM PublicationImplementsClaim == Spec => ImplementsClaim
<1>1. Init => Claim!Init
  BY DEF Init, Claim!Init, View, StateOf, Settled
<1>2. ASSUME PublicationInvariant, PublicationInvariant', [Next]_vars
      PROVE  [Claim!Next]_(Claim!vars)
  <2>1. CASE <<goal, intent>>' # <<goal, intent>>
    BY <1>2, <2>1, ClaimIsSeen DEF Claim!Next
  <2>2. CASE UNCHANGED <<goal, intent>> /\ status' # status
    <3>1. CASE View' = View
      BY <2>2, <3>1 DEF View, Claim!vars
    <3>2. ASSUME NEW a \in Attempts, Created(a), ViewMoves(a, "absent", "open") PROVE Claim!Next
      BY <1>2, <2>2, <3>2, CreatedIsOpen DEF Claim!Next
    <3>3. ASSUME NEW a \in Attempts, ViewMoves(a, "open", "retired") PROVE Claim!Next
      BY <2>2, <3>3 DEF Claim!Next, Claim!Retire, Claim!Moves, ViewMoves, View
    <3>4. StatusMoves
      BY <1>2, StatusStep DEF PublicationInvariant
    <3> QED BY <1>2, <2>2, <3>1, <3>2, <3>3, <3>4, StatusIsSeen
  <2>3. CASE UNCHANGED <<goal, intent>> /\ status' = status
    <3>1. CASE View' = View
      BY <2>3, <3>1 DEF View, Claim!vars
    <3>2. ASSUME NEW a \in Attempts, ViewMoves(a, "open", "approved") PROVE Claim!Next
      BY <2>3, <3>2 DEF Claim!Next, Claim!Approve, Claim!Moves, ViewMoves, View
    <3>3. ASSUME NEW a \in Attempts, NEW result \in {"committed", "cancelled"},
                 ViewMoves(a, "approved", result)
          PROVE  Claim!Next
      BY <2>3, <3>3 DEF Claim!Next, Claim!Publish, Claim!Moves, ViewMoves, View
    <3> QED BY <1>2, <2>3, <3>1, <3>2, <3>3, OperationIsSeen
  <2> QED BY <2>1, <2>2, <2>3
<1>3. PublicationInvariant /\ PublicationInvariant' /\ [Next]_vars => [Claim!Next]_(Claim!vars)
  BY <1>2
<1> QED BY <1>1, <1>3, InvariantInit, InvariantStep, PTL DEF Spec, ImplementsClaim, Claim!Spec
=============================================================================
