-------------------------- MODULE GoalPublication ---------------------------
(***************************************************************************)
(* How a goal's claim of completion is published.  The workflow of a       *)
(* process keeps the attempts of the claim in the goal store, asks the     *)
(* controller to prepare, to approve and to settle an operation for the    *)
(* last attempt, and the controller has the receiver stage and commit it.  *)
(* Several processes of a session work on one claim, each may stop, the    *)
(* controller may restart, and what it has sent may arrive late or never.  *)
(* An action is one await: of the store, of the controller, or, in the     *)
(* controller, of the native approval and of the receiver.                 *)
(***************************************************************************)
EXTENDS Naturals

CONSTANTS
  Processes,   \* the processes that work on the claim, one run of the workflow each
  MaxAttempts, \* bound: attempts of the claim (32 in the code)
  MaxFaults    \* bound: runs that stop and restarts of the controller

ASSUME BoundsAssumption == MaxAttempts \in Nat \ {0} /\ MaxFaults \in Nat

Attempts == 1 .. MaxAttempts

VARIABLES
  goal,      \* status of the goal; "withdrawn" once it is cancelled or replaced
  intent,    \* status of the claim
  status,    \* status of an attempt in the store, "absent" before it is created
  phase,     \* where a process's run stands
  at,        \* the attempt that the run works on
  fresh,     \* whether the attempt still has the revision that the run has read
  knows,     \* whether the run has read the attempt with its challenge
  asked,     \* attempts whose prepareRequest has been sent
  submitted, \* attempts whose approve has been sent
  request,   \* the controller's row of a prepareRequest, or its tombstone
  op,        \* state of the operation in the controller
  booted,    \* operations that the running controller has prepared
  approval,  \* where the controller's approve of an operation stands
  journal,   \* reservation of a settled operation
  receiver,  \* the receiver's record of an operation
  faults

storeVars == <<goal, intent, status>>
runVars == <<phase, at, fresh, knows>>
controllerVars == <<request, op, booted, approval, journal>>
vars == <<storeVars, runVars, asked, submitted, controllerVars, receiver, faults>>

-----------------------------------------------------------------------------
\* The outcomes of an operation; "unknown" is saved as "pending".
Result == {"committed", "cancelled", "pending"}
Retired == {"not_prepared", "not_approved", "cancelled"}
Terminal == Retired \cup {"committed"}
Status == {"absent", "preparing", "prepared", "authorizing", "pending"} \cup Terminal

\* A run that has an outcome, or the reply of a recovery, has yet to save it.
Phase == {"idle", "creating", "created", "preparing", "prepared", "current", "approving",
          "recovering", "unprepared", "unapproved", "settled", "reconciling",
          "finalizing", "completing"} \cup Result

TypeOK ==
  /\ goal \in {"active", "paused", "withdrawn", "complete"}
  /\ intent \in {"claimed", "committed"}
  /\ status \in [Attempts -> Status]
  /\ phase \in [Processes -> Phase]
  /\ at \in [Processes -> Attempts]
  /\ fresh \in [Processes -> BOOLEAN]
  /\ knows \in [Processes -> BOOLEAN]
  /\ asked \in SUBSET Attempts
  /\ submitted \in SUBSET Attempts
  /\ request \in [Attempts -> {"none", "prepared", "tombstone"}]
  /\ op \in [Attempts -> {"none", "prepared", "authorizing", "approved", "unknown",
                          "not_approved", "committed", "cancelled"}]
  /\ booted \in SUBSET Attempts
  /\ approval \in [Attempts -> {"none", "native", "staging", "committing", "failed"} \cup Result]
  /\ journal \in [Attempts -> {"none", "pending", "commit_authorized", "consumed", "cancelled"}]
  /\ receiver \in [Attempts -> {"none", "prepared", "committed", "cancelled"}]
  /\ faults \in Nat

\* The turn of the claim is settled, and the goal waits for its publication.
Init ==
  /\ goal = "active"
  /\ intent = "claimed"
  /\ status = [a \in Attempts |-> "absent"]
  /\ phase = [p \in Processes |-> "idle"]
  /\ at = [p \in Processes |-> 1]
  /\ fresh = [p \in Processes |-> FALSE]
  /\ knows = [p \in Processes |-> FALSE]
  /\ asked = {}
  /\ submitted = {}
  /\ request = [a \in Attempts |-> "none"]
  /\ op = [a \in Attempts |-> "none"]
  /\ booted = {}
  /\ approval = [a \in Attempts |-> "none"]
  /\ journal = [a \in Attempts |-> "none"]
  /\ receiver = [a \in Attempts |-> "none"]
  /\ faults = 0

-----------------------------------------------------------------------------
(* The goal.  Its user pauses, resumes, cancels or replaces it at any time.   *)

Decide(old, new) ==
  /\ goal \in old /\ goal' = new
  /\ UNCHANGED <<intent, status, runVars, asked, submitted, controllerVars, receiver, faults>>

Pause == Decide({"active"}, "paused")
ResumePublication == Decide({"paused"}, "active")
Withdraw == Decide({"active", "paused"}, "withdrawn")

-----------------------------------------------------------------------------
(* The attempts in the store.                                               *)

IsLast(a) == status[a] # "absent" /\ \A b \in Attempts : b > a => status[b] = "absent"

\* Variant of MayCreate: an attempt whose outcome is not known is over.
MayCreateBesidePending(a) ==
  status[a] = "absent" /\ \A b \in Attempts : b < a => status[b] \in Retired \cup {"pending"}

\* A claim has one attempt at a time, and none after a committed one.
MayCreate(a) ==
  status[a] = "absent" /\ \A b \in Attempts : b < a => status[b] \in Retired

Follows(old, new) ==
  CASE old = "preparing"   -> new \in {"prepared", "not_prepared", "not_approved"} \cup Result
    [] old = "prepared"    -> new \in {"authorizing", "not_approved"} \cup Result
    [] old = "authorizing" -> new \in {"not_approved"} \cup Result
    [] old = "pending"     -> new \in Result
    [] OTHER               -> FALSE

\* The compare-and-set of the attempt's revision, for this one run.
CanSave(p, new) == fresh[p] /\ Follows(status[at[p]], new) /\ IsLast(at[p])

\* The run goes on in phase `next`; one that ends forgets what it has read.
Goes(p, next) ==
  /\ phase' = [phase EXCEPT ![p] = next]
  /\ at' = [at EXCEPT ![p] = IF next = "idle" THEN 1 ELSE @]
  /\ fresh' = [fresh EXCEPT ![p] = @ /\ next # "idle"]
  /\ knows' = [knows EXCEPT ![p] = @ /\ next # "idle"]

\* The run saves a status, and goes on if this succeeds: the other runs of the
\* attempt have then read an old revision.  If it fails, so does the run.
Save(p, new, next) ==
  IF CanSave(p, new)
  THEN /\ status' = [status EXCEPT ![at[p]] = new]
       /\ phase' = [phase EXCEPT ![p] = next]
       /\ at' = [at EXCEPT ![p] = IF next = "idle" THEN 1 ELSE @]
       /\ fresh' = [q \in Processes |-> IF q = p THEN next # "idle" ELSE fresh[q] /\ at[q] # at[p]]
       /\ knows' = [knows EXCEPT ![p] = next # "idle"]
  ELSE Goes(p, "idle") /\ UNCHANGED status

-----------------------------------------------------------------------------
(* The run of a process: start, retry and recover.                            *)

\* start without an attempt, or retry of a retired one; the goal is current.
Start(p) ==
  /\ phase[p] = "idle" /\ intent = "claimed" /\ goal = "active"
  /\ \E a \in Attempts : MayCreate(a) /\ at' = [at EXCEPT ![p] = a]
  /\ phase' = [phase EXCEPT ![p] = "creating"]
  /\ UNCHANGED <<storeVars, fresh, knows, asked, submitted, controllerVars, receiver, faults>>

CreateAttempt(p) ==
  LET a == at[p] IN
  /\ phase[p] = "creating"
  /\ IF intent = "claimed" /\ MayCreate(a)
     THEN /\ status' = [status EXCEPT ![a] = "preparing"]
          /\ phase' = [phase EXCEPT ![p] = "created"]
          /\ fresh' = [fresh EXCEPT ![p] = TRUE]
          /\ knows' = [knows EXCEPT ![p] = FALSE]
          /\ UNCHANGED at
     ELSE Goes(p, "idle") /\ UNCHANGED status
  /\ UNCHANGED <<goal, intent, asked, submitted, controllerVars, receiver, faults>>

\* Variant of Resumable: a committed attempt is over.
ResumableOpen(a) == IsLast(a) /\ status[a] \notin Terminal

\* The last attempt, if it is open, or committed and perhaps not finalized.
Resumable(a) == IsLast(a) /\ status[a] \notin Retired

\* start or recover with an attempt in the store: its original request is
\* recovered, or its commit finalized.
Recover(p) ==
  /\ phase[p] = "idle"
  /\ \E a \in Attempts :
       /\ Resumable(a)
       /\ at' = [at EXCEPT ![p] = a]
       /\ fresh' = [fresh EXCEPT ![p] = TRUE]
       /\ knows' = [knows EXCEPT ![p] = status[a] # "preparing"]
       /\ phase' = [phase EXCEPT ![p] = IF status[a] = "committed" THEN "finalizing" ELSE "recovering"]
  /\ UNCHANGED <<storeVars, asked, submitted, controllerVars, receiver, faults>>

\* The goal is still current, and a request for an operation is sent.
Ask(p) ==
  /\ phase[p] = "created"
  /\ Goes(p, IF goal = "active" THEN "preparing" ELSE "recovering")
  /\ asked' = IF goal = "active" THEN asked \cup {at[p]} ELSE asked
  /\ UNCHANGED <<storeVars, submitted, controllerVars, receiver, faults>>

\* The challenge arrives.
SavePrepared(p) ==
  /\ phase[p] = "preparing" /\ request[at[p]] = "prepared"
  /\ Save(p, "prepared", "prepared")
  /\ UNCHANGED <<goal, intent, asked, submitted, controllerVars, receiver, faults>>

\* The controller has closed the request before it was prepared.
Refused(p) ==
  /\ phase[p] = "preparing" /\ request[at[p]] = "tombstone"
  /\ Goes(p, "idle")
  /\ UNCHANGED <<storeVars, asked, submitted, controllerVars, receiver, faults>>

Recheck(p) ==
  /\ phase[p] = "prepared"
  /\ Goes(p, IF goal = "active" THEN "current" ELSE "recovering")
  /\ UNCHANGED <<storeVars, asked, submitted, controllerVars, receiver, faults>>

\* 'authorizing' is saved before the approval is requested, which the host of a
\* goal that is no longer active may refuse.
SaveAuthorizing(p) ==
  /\ phase[p] = "current"
  /\ \/ /\ Save(p, "authorizing", "approving")
        /\ submitted' = IF CanSave(p, "authorizing") THEN submitted \cup {at[p]} ELSE submitted
     \/ goal # "active" /\ Save(p, "authorizing", "idle") /\ UNCHANGED submitted
  /\ UNCHANGED <<goal, intent, asked, controllerVars, receiver, faults>>

\* The reply of approve: an outcome, or an error.
Answer(p) ==
  /\ phase[p] = "approving"
  /\ \/ approval[at[p]] \in Result /\ Goes(p, approval[at[p]])
     \/ approval[at[p]] = "failed" /\ Goes(p, "idle")
     \/ approval[at[p]] = "none" /\ op[at[p]] = "not_approved" /\ Goes(p, "idle")
     \/ approval[at[p]] = "none" /\ at[p] \notin booted /\ Goes(p, "idle")
  /\ UNCHANGED <<storeVars, asked, submitted, controllerVars, receiver, faults>>

\* The original request is closed: it was never prepared, or never approved.
SaveRetired(p) ==
  /\ \/ phase[p] = "unprepared" /\ Save(p, "not_prepared", "idle")
     \/ phase[p] = "unapproved" /\ Save(p, "not_approved", "idle")
  /\ UNCHANGED <<goal, intent, asked, submitted, controllerVars, receiver, faults>>

\* A challenge that was lost is saved first.
Adopt(p) ==
  /\ phase[p] = "settled"
  /\ IF knows[p] THEN Goes(p, "reconciling") /\ UNCHANGED status
                 ELSE Save(p, "prepared", "reconciling")
  /\ UNCHANGED <<goal, intent, asked, submitted, controllerVars, receiver, faults>>

SaveResult(p) ==
  /\ phase[p] \in Result
  /\ Save(p, phase[p], IF phase[p] = "committed" THEN "finalizing" ELSE "idle")
  /\ UNCHANGED <<goal, intent, asked, submitted, controllerVars, receiver, faults>>

\* finalizeCompletionAttempt.
Finalize(p) ==
  /\ phase[p] = "finalizing"
  /\ intent' = IF IsLast(at[p]) /\ status[at[p]] = "committed" THEN "committed" ELSE intent
  /\ Goes(p, IF intent' = "committed" THEN "completing" ELSE "idle")
  /\ UNCHANGED <<goal, status, asked, submitted, controllerVars, receiver, faults>>

\* completeClaim, if the goal is active in its latest state.
CompleteClaim(p) ==
  /\ phase[p] = "completing"
  /\ goal' = IF goal = "active" /\ intent = "committed" THEN "complete" ELSE goal
  /\ Goes(p, "idle")
  /\ UNCHANGED <<intent, status, asked, submitted, controllerVars, receiver, faults>>

\* The run ends with an error, or its process stops; what it sent goes on.
Fail(p) ==
  /\ phase[p] # "idle" /\ faults < MaxFaults
  /\ Goes(p, "idle")
  /\ faults' = faults + 1
  /\ UNCHANGED <<storeVars, asked, submitted, controllerVars, receiver>>

-----------------------------------------------------------------------------
(* The controller.                                                          *)

controllerElse == <<storeVars, runVars, asked, submitted, receiver, faults>>

Prepare(a) ==
  /\ a \in asked /\ request[a] = "none"
  /\ request' = [request EXCEPT ![a] = "prepared"]
  /\ op' = [op EXCEPT ![a] = "prepared"]
  /\ booted' = booted \cup {a}
  /\ UNCHANGED <<approval, journal, controllerElse>>

\* approve takes a prepared operation once, and only of this controller's life.
Approve(a) ==
  /\ a \in submitted /\ op[a] = "prepared" /\ a \in booted
  /\ op' = [op EXCEPT ![a] = "authorizing"]
  /\ approval' = [approval EXCEPT ![a] = "native"]
  /\ UNCHANGED <<request, booted, journal, controllerElse>>

\* Variant of StillApproving: the native approval stands whatever the operation is now.
AnyApproving(a) == approval[a] = "native"

\* The operation as the native approval finds it.
StillApproving(a) == approval[a] = "native" /\ op[a] = "authorizing"

\* The native approval: the operation is settled, and a reservation pending.
SettleApproved(a) ==
  /\ StillApproving(a)
  /\ op' = [op EXCEPT ![a] = "approved"]
  /\ journal' = [journal EXCEPT ![a] = "pending"]
  /\ approval' = [approval EXCEPT ![a] = "staging"]
  /\ UNCHANGED <<request, booted, controllerElse>>

\* The controller stops after it has recorded the approval, before it settles.
StopBeforeSettlement(a) ==
  /\ StillApproving(a) /\ faults < MaxFaults
  /\ op' = [op EXCEPT ![a] = "approved"]
  /\ booted' = {}
  /\ approval' = [b \in Attempts |-> IF approval[b] \in {"native", "staging", "committing"}
                                     THEN "failed" ELSE approval[b]]
  /\ faults' = faults + 1
  /\ UNCHANGED <<request, journal, storeVars, runVars, asked, submitted, receiver>>

\* The payload is staged at the receiver, and the commit is authorized and sent.
AuthorizeCommit(a) ==
  /\ approval[a] = "staging" /\ receiver[a] = "prepared"
  /\ journal[a] = "pending" /\ op[a] # "not_approved"
  /\ journal' = [journal EXCEPT ![a] = "commit_authorized"]
  /\ approval' = [approval EXCEPT ![a] = "committing"]
  /\ UNCHANGED <<request, op, booted, controllerElse>>

\* acceptReceiverReply: only a terminal reply moves the reservation.
Accepted(a) ==
  CASE receiver[a] = "committed" -> "consumed"
    [] receiver[a] = "cancelled" -> "cancelled"
    [] OTHER -> journal[a]

\* Variant of Outcome: whatever was authorized counts as committed.
OutcomeAuthorized(j) ==
  CASE j \in {"commit_authorized", "consumed"} -> "committed"
    [] j = "cancelled" -> "cancelled" [] OTHER -> "pending"

Outcome(j) ==
  CASE j = "consumed" -> "committed" [] j = "cancelled" -> "cancelled" [] OTHER -> "pending"

\* The operation's row takes an outcome that is known.
Known(a, result) == IF result = "pending" THEN op[a] ELSE result

\* The receiver's reply to the commit ends the approval.
CommitReply(a) ==
  /\ approval[a] = "committing" /\ receiver[a] \in {"committed", "cancelled"}
  /\ journal' = [journal EXCEPT ![a] = Accepted(a)]
  /\ op' = [op EXCEPT ![a] = Outcome(Accepted(a))]
  /\ approval' = [approval EXCEPT ![a] = Outcome(Accepted(a))]
  /\ UNCHANGED <<request, booted, controllerElse>>

\* approve fails: a native refusal, an operation that is not current or has been
\* closed, or no valid reply of the receiver.
ApprovalFails(a) ==
  /\ approval[a] \in {"native", "staging", "committing"}
  /\ approval' = [approval EXCEPT ![a] = "failed"]
  /\ op' = [op EXCEPT ![a] = IF @ \in {"committed", "cancelled", "not_approved"} THEN @ ELSE "unknown"]
  /\ UNCHANGED <<request, booted, journal, controllerElse>>

\* There is a settlement and its reservation.
Settled(a) == journal[a] # "none"

\* recoverRequest: in one transaction, a request without an operation gets a
\* tombstone, and an operation without a settlement is closed.
RecoverRequest(p) ==
  LET a == at[p] IN
  /\ phase[p] = "recovering"
  /\ \/ /\ request[a] # "prepared"
        /\ request' = [request EXCEPT ![a] = "tombstone"]
        /\ UNCHANGED op
        /\ Goes(p, "unprepared")
     \/ /\ request[a] = "prepared" /\ ~Settled(a)
        /\ op' = [op EXCEPT ![a] = "not_approved"]
        /\ UNCHANGED request
        /\ Goes(p, "unapproved")
     \/ /\ request[a] = "prepared" /\ Settled(a)
        /\ UNCHANGED <<request, op>>
        /\ Goes(p, "settled")
  /\ UNCHANGED <<storeVars, asked, submitted, booted, approval, journal, receiver, faults>>

\* reconcile asks the receiver, and never approves or commits again.
Reconcile(p) ==
  LET a == at[p] IN
  /\ phase[p] = "reconciling"
  /\ journal' = [journal EXCEPT ![a] = Accepted(a)]
  /\ op' = [op EXCEPT ![a] = Known(a, Outcome(Accepted(a)))]
  /\ Goes(p, Outcome(Accepted(a)))
  /\ UNCHANGED <<storeVars, asked, submitted, request, booted, approval, receiver, faults>>

Restart ==
  /\ faults < MaxFaults
  /\ booted' = {}
  /\ approval' = [a \in Attempts |-> IF approval[a] \in {"native", "staging", "committing"}
                                     THEN "failed" ELSE approval[a]]
  /\ faults' = faults + 1
  /\ UNCHANGED <<storeVars, runVars, asked, submitted, request, op, journal, receiver>>

-----------------------------------------------------------------------------
(* The receiver.  A payload is on its way once the operation is settled, and a *)
(* commit once it is authorized; either may arrive late, again, or never.      *)

receiverElse == <<storeVars, runVars, asked, submitted, controllerVars, faults>>

Stage(a) ==
  /\ journal[a] # "none" /\ receiver[a] = "none"
  /\ receiver' = [receiver EXCEPT ![a] = "prepared"]
  /\ UNCHANGED receiverElse

\* A commit that is too late, or has no clock to show that it is not, cancels.
Commit(a) ==
  /\ journal[a] = "commit_authorized" /\ receiver[a] = "prepared"
  /\ \E result \in {"committed", "cancelled"} : receiver' = [receiver EXCEPT ![a] = result]
  /\ UNCHANGED receiverElse

-----------------------------------------------------------------------------
Run(p) ==
  \/ Recover(p) \/ CreateAttempt(p) \/ Ask(p) \/ SavePrepared(p) \/ Refused(p) \/ Recheck(p)
  \/ SaveAuthorizing(p) \/ Answer(p) \/ RecoverRequest(p) \/ SaveRetired(p) \/ Adopt(p)
  \/ Reconcile(p) \/ SaveResult(p) \/ Finalize(p) \/ CompleteClaim(p)

Controller(a) == Prepare(a) \/ Approve(a) \/ SettleApproved(a) \/ AuthorizeCommit(a) \/ CommitReply(a) \/ ApprovalFails(a)

Next ==
  \/ Pause \/ ResumePublication \/ Withdraw \/ Restart
  \/ \E p \in Processes : Start(p) \/ Run(p) \/ Fail(p)
  \/ \E a \in Attempts : Controller(a) \/ StopBeforeSettlement(a) \/ Stage(a) \/ Commit(a)

Spec == Init /\ [][Next]_vars

\* Calls are answered, and someone goes on recovering.  Nobody has to start or
\* to retry, nothing sent to the receiver has to arrive, and faults come to an end.
Fairness ==
  /\ \A p \in Processes : WF_vars(Run(p))
  /\ \A a \in Attempts : WF_vars(Controller(a))

FairSpec == Spec /\ Fairness

-----------------------------------------------------------------------------
(* What a claim may count on.                                               *)

\* At most one operation of a claim is ever committed by the receiver, and an
\* attempt that is retired, whatever was in flight for it, never is: a retry
\* cannot publish what an earlier attempt still publishes.
OnePublication ==
  /\ TypeOK
  /\ \A a, b \in Attempts : receiver[a] = "committed" /\ receiver[b] = "committed" => a = b
  /\ \A a \in Attempts : status[a] \in Retired => receiver[a] # "committed"

\* A goal is complete, a claim or an attempt committed, only if the receiver has
\* committed the operation of the claim's last attempt.
CompletionBacked ==
  /\ goal = "complete" => intent = "committed"
  /\ intent = "committed" => \E a \in Attempts : IsLast(a) /\ status[a] = "committed"
  /\ \A a \in Attempts : status[a] = "committed" => receiver[a] = "committed"

\* Once the receiver has committed, a goal that is left active completes, through
\* stopped runs, lost replies and restarts of the controller.
CommittedCompletes == \A a \in Attempts : receiver[a] = "committed" ~> (goal # "active")

\* What has become of an attempt: the receiver's decision counts before the
\* status in the store, which may be saved long after it.
StateOf(a) ==
  IF receiver[a] \in {"committed", "cancelled"} THEN receiver[a]
  ELSE IF status[a] \in {"not_prepared", "not_approved"} THEN "retired"
  ELSE IF Settled(a) THEN "approved"
  ELSE IF status[a] = "absent" THEN "absent" ELSE "open"

View == [a \in Attempts |-> StateOf(a)]

Claim == INSTANCE ClaimPublication WITH attempt <- View

\* The stores, the controller and the receiver implement ClaimPublication: no
\* attempt is given up once its operation is approved, whatever any process
\* believes, and none is made beside one that may still publish.
ImplementsClaim == Claim!Spec
=============================================================================
