-------------------------- MODULE ReminderDelivery --------------------------
(***************************************************************************)
(* The reminders of a workspace: rows of an SQLite file, and the calls of  *)
(* the scheduler's runOnce that deliver them.  Calls overlap: the timer    *)
(* does not wait for the last one, a workspace may have two schedulers,    *)
(* and every process that opens the workspace opens its file.  Nothing     *)
(* makes a transaction of the statements of a call, so an action is one    *)
(* statement, or the outcome of an awaited delivery; between the processes *)
(* any two of them may interleave, also a SELECT and the UPDATEs behind it.*)
(* Scheduled and retried rows ('pending', 'retry_wait') are both "waiting":*)
(* no statement tells them apart.                                          *)
(***************************************************************************)
EXTENDS Naturals, FiniteSets

CONSTANTS
  UserRows,       \* rows that users create
  CloneRows,      \* rows of the later occurrences of recurring ones
  Recurring,      \* the user rows with a recurrence; no two have one content
  Ticks,          \* calls of runOnce, each in a process that may crash
  NoRow,
  MaxRetry,       \* maxRetry of every row
  MaxOccurrences, \* maxOccurrences of every recurrence
  BatchSize,      \* batchSize
  MaxFaults       \* bound: crashes, errors of the store and slow deliveries

Rows == UserRows \cup CloneRows

ASSUME RowsAssumption == UserRows \cap CloneRows = {} /\ Recurring \subseteq UserRows /\ NoRow \notin Rows
ASSUME LimitsAssumption == MaxRetry \in Nat \ {0} /\ MaxOccurrences \in Nat /\ BatchSize \in Nat \ {0} /\ MaxFaults \in Nat
ASSUME FiniteAssumption == IsFiniteSet(Rows) /\ IsFiniteSet(Ticks)

VARIABLES
  status,       \* status of a row
  source,       \* the row that a row is the next occurrence of
  origin,       \* the user row whose content a row has
  occurrence,   \* occurrenceCount
  retryCount,   \* retry_count
  due,          \* whether next_attempt_at has come
  stale,        \* whether updated_at is staleAfterMs ago
  sent,         \* how many deliveries of a row are recorded as 'sent'
  up,           \* whether the process of a call runs, and its scheduler
  phase,        \* where a call stands
  found,        \* the rows that its last SELECT found, and it has not yet come to
  batch,        \* the claimed rows that it has not yet come to
  current,      \* the row that it has in hand
  seen,         \* retryCount of the claimed rows, as the call has read it
  shown,        \* how often a row's message has reached a sink
  lapses,       \* how often a row was taken back, or failed after its delivery
  faults

chainVars == <<source, origin, occurrence>>
callVars == <<up, found, batch, current, seen>>
vars == <<status, chainVars, retryCount, due, stale, sent, callVars, phase, shown, lapses, faults>>

-----------------------------------------------------------------------------
Status == {"absent", "waiting", "delivering", "sent", "failed", "cancelled"}
\* A call is "idle" between two firings of the timer.  It is "recovering" what was
\* found stale, with a row in hand that is "known sent" or "known lost", and then
\* "claiming" what is due, with a row in hand that it has "claimed".  Of the batch
\* it is "skipping" a row that was delivered before; a "rejected" delivery may be
\* retried, a "refused" one, to an offline session, may not; "overturned" is an
\* error after the delivery has been recorded.
Judged == {"known sent", "known lost"}
Phase == {"idle", "recovering", "claiming", "claimed", "next", "skipping", "sending", "delivered",
          "recorded", "marked", "rejected", "refused", "overturned"} \cup Judged

TypeOK ==
  /\ status \in [Rows -> Status]
  /\ source \in [Rows -> Rows \cup {NoRow}]
  /\ origin \in [Rows -> Rows]
  /\ occurrence \in [Rows -> Nat]
  /\ retryCount \in [Rows -> Nat]
  /\ due \in [Rows -> BOOLEAN]
  /\ stale \in [Rows -> BOOLEAN]
  /\ sent \in [Rows -> Nat]
  /\ up \in [Ticks -> BOOLEAN]
  /\ phase \in [Ticks -> Phase]
  /\ found \in [Ticks -> SUBSET Rows]
  /\ batch \in [Ticks -> SUBSET Rows]
  /\ current \in [Ticks -> Rows \cup {NoRow}]
  /\ seen \in [Ticks -> [Rows -> Nat]]
  /\ shown \in [Rows -> Nat]
  /\ lapses \in [Rows -> Nat]
  /\ faults \in Nat

Init ==
  /\ status = [i \in Rows |-> "absent"]
  /\ source = [i \in Rows |-> NoRow]
  /\ origin = [i \in Rows |-> i]
  /\ occurrence = [i \in Rows |-> 0]
  /\ retryCount = [i \in Rows |-> 0]
  /\ due = [i \in Rows |-> FALSE]
  /\ stale = [i \in Rows |-> FALSE]
  /\ sent = [i \in Rows |-> 0]
  /\ up = [t \in Ticks |-> FALSE]
  /\ phase = [t \in Ticks |-> "idle"]
  /\ found = [t \in Ticks |-> {}]
  /\ batch = [t \in Ticks |-> {}]
  /\ current = [t \in Ticks |-> NoRow]
  /\ seen = [t \in Ticks |-> [i \in Rows |-> 0]]
  /\ shown = [i \in Rows |-> 0]
  /\ lapses = [i \in Rows |-> 0]
  /\ faults = 0

-----------------------------------------------------------------------------
(* Users and time.                                                          *)

\* Bound: a user row is created once.
Create(i) ==
  /\ status[i] = "absent" /\ \E t \in Ticks : up[t]
  /\ status' = [status EXCEPT ![i] = "waiting"]
  /\ UNCHANGED <<chainVars, retryCount, due, stale, sent, callVars, phase, shown, lapses, faults>>

\* The UPDATEs that cancel only touch a waiting row.
Cancellable(i) == status[i] = "waiting"

CancelRows(S) ==
  /\ status' = [i \in Rows |-> IF i \in S /\ Cancellable(i) THEN "cancelled" ELSE status[i]]
  /\ UNCHANGED <<chainVars, retryCount, due, stale, sent, callVars, phase, shown, lapses, faults>>

\* cancelReminder, and the first UPDATE of cancelTaskChain.
CancelReminder(i) == status[i] # "absent" /\ CancelRows({i})

\* The second one, of a recurring row, cancels the later occurrences of its content.
\* Unless the row waited, the first has changed nothing, and it may have come to wait
\* in the meantime: whatever the row is, this statement may be the next.
CancelLater(i) ==
  /\ status[i] # "absent" /\ origin[i] \in Recurring
  /\ CancelRows({j \in Rows : origin[j] = origin[i] /\ occurrence[j] > occurrence[i]})

BecomeDue(i) ==
  /\ status[i] = "waiting" /\ ~due[i]
  /\ due' = [due EXCEPT ![i] = TRUE]
  /\ UNCHANGED <<status, chainVars, retryCount, stale, sent, callVars, phase, shown, lapses, faults>>

\* The calls that work on a row they have claimed.
Holds(t, i) == i \in batch[t] \/ (current[t] = i /\ phase[t] \notin Judged)

\* Ten minutes pass over a claimed row.  Bound: if a call holds it, and so is
\* slow or suspended, this is one of the faults.
BecomeStale(i) ==
  /\ status[i] = "delivering" /\ ~stale[i]
  /\ stale' = [stale EXCEPT ![i] = TRUE]
  /\ IF \E t \in Ticks : Holds(t, i)
     THEN faults < MaxFaults /\ faults' = faults + 1
     ELSE faults' = faults
  /\ UNCHANGED <<status, chainVars, retryCount, due, sent, callVars, phase, shown, lapses>>

\* A statement that changes a row sets updated_at.
Write(i, value) ==
  /\ status' = [status EXCEPT ![i] = value]
  /\ stale' = [stale EXCEPT ![i] = FALSE]

-----------------------------------------------------------------------------
(* recoverStaleDelivering: rows that nobody seems to deliver.               *)

\* Variant of Stale: only rows with a sent delivery are found.
StaleSent == {i \in Rows : status[i] = "delivering" /\ stale[i] /\ sent[i] > 0}

Stale == {i \in Rows : status[i] = "delivering" /\ stale[i]}

SelectStale(t) ==
  /\ phase' = [phase EXCEPT ![t] = "recovering"]
  /\ found' = [found EXCEPT ![t] = Stale]
  /\ UNCHANGED <<status, chainVars, retryCount, due, stale, sent, up, batch, current, seen, shown, lapses, faults>>

\* The first call to the workspace's service of a daemon starts its scheduler, ...
Serve(t) == phase[t] = "idle" /\ ~up[t] /\ SelectStale(t)

\* ... whose timer fires again and again.
Fire(t) == phase[t] = "idle" /\ up[t] /\ SelectStale(t)

\* hasSentDelivery of a stale row.
Judge(t, i) ==
  /\ phase[t] = "recovering" /\ i \in found[t]
  /\ found' = [found EXCEPT ![t] = @ \ {i}]
  /\ current' = [current EXCEPT ![t] = i]
  /\ phase' = [phase EXCEPT ![t] = IF sent[i] > 0 THEN "known sent" ELSE "known lost"]
  /\ UNCHANGED <<status, chainVars, retryCount, due, stale, sent, up, batch, seen, shown, lapses, faults>>

\* Variant of Retakable: the UPDATE takes the row whatever it has become.
RetakableAnyway(i) == status[i] # "absent"

\* The UPDATE looks at the status again, and not at updated_at: the row may have been
\* taken back and claimed by another call in the meantime.
Retakable(i) == status[i] = "delivering"

\* A row without a sent delivery waits again, and is due.
TakeBack(t) ==
  LET i == current[t] IN
  /\ phase[t] = "known lost"
  /\ IF Retakable(i)
     THEN /\ Write(i, "waiting")
          /\ due' = [due EXCEPT ![i] = TRUE]
          /\ lapses' = [lapses EXCEPT ![i] = @ + 1]
     ELSE UNCHANGED <<status, stale, due, lapses>>
  /\ phase' = [phase EXCEPT ![t] = "recovering"]
  /\ current' = [current EXCEPT ![t] = NoRow]
  /\ UNCHANGED <<chainVars, retryCount, sent, up, found, batch, seen, shown, faults>>

\* markReminderSent for any other, whatever its status has become.
MarkFoundSent(t) ==
  LET i == current[t] IN
  /\ phase[t] = "known sent"
  /\ Write(i, "sent")
  /\ lapses' = IF status[i] = "sent" THEN lapses ELSE [lapses EXCEPT ![i] = @ + 1]
  /\ phase' = [phase EXCEPT ![t] = "recovering"]
  /\ current' = [current EXCEPT ![t] = NoRow]
  /\ UNCHANGED <<chainVars, retryCount, due, sent, up, found, batch, seen, shown, faults>>

Recovered(t) == phase[t] = "recovering" /\ found[t] = {}

StartTimer(t) ==
  /\ Recovered(t) /\ ~up[t]
  /\ up' = [up EXCEPT ![t] = TRUE]
  /\ phase' = [phase EXCEPT ![t] = "idle"]
  /\ UNCHANGED <<status, chainVars, retryCount, due, stale, sent, found, batch, current, seen, shown, lapses, faults>>

-----------------------------------------------------------------------------
(* claimDueReminders.                                                       *)

Claimable(i) == status[i] = "waiting" /\ due[i]

\* Where a call stands with rows found and claimed: without any it is over.
Standing(rows, claimed) == IF rows # {} THEN "claiming" ELSE IF claimed # {} THEN "next" ELSE "idle"

\* As many due rows as a batch takes.
SelectDue(t) ==
  /\ Recovered(t) /\ up[t]
  /\ \E B \in SUBSET {i \in Rows : Claimable(i)} :
       /\ Cardinality(B) <= BatchSize
       /\ Cardinality(B) = BatchSize \/ \A i \in Rows : Claimable(i) => i \in B
       /\ found' = [found EXCEPT ![t] = B]
       /\ phase' = [phase EXCEPT ![t] = Standing(B, {})]
  /\ UNCHANGED <<status, chainVars, retryCount, due, stale, sent, up, batch, current, seen, shown, lapses, faults>>

\* Variant of StillClaimable: the UPDATE trusts the SELECT.
StillClaimableUnchecked(i) == status[i] # "absent"

\* The UPDATE looks again at what the SELECT has seen.
StillClaimable(i) == Claimable(i)

ClaimRow(t, i) ==
  /\ phase[t] = "claiming" /\ i \in found[t] /\ StillClaimable(i)
  /\ Write(i, "delivering")
  /\ found' = [found EXCEPT ![t] = @ \ {i}]
  /\ current' = [current EXCEPT ![t] = i]
  /\ phase' = [phase EXCEPT ![t] = "claimed"]
  /\ UNCHANGED <<chainVars, retryCount, due, sent, up, batch, seen, shown, lapses, faults>>

\* It has changed nothing: another call has the row, or it is cancelled.
MissRow(t, i) ==
  /\ phase[t] = "claiming" /\ i \in found[t] /\ ~StillClaimable(i)
  /\ found' = [found EXCEPT ![t] = @ \ {i}]
  /\ phase' = [phase EXCEPT ![t] = Standing(found[t] \ {i}, batch[t])]
  /\ UNCHANGED <<status, chainVars, retryCount, due, stale, sent, up, batch, current, seen, shown, lapses, faults>>

\* getReminder: what the call will know of the row.
ReadClaimed(t) ==
  LET i == current[t] IN
  /\ phase[t] = "claimed"
  /\ seen' = [seen EXCEPT ![t][i] = retryCount[i]]
  /\ batch' = [batch EXCEPT ![t] = @ \cup {i}]
  /\ current' = [current EXCEPT ![t] = NoRow]
  /\ phase' = [phase EXCEPT ![t] = Standing(found[t], batch[t] \cup {i})]
  /\ UNCHANGED <<status, chainVars, retryCount, due, stale, sent, up, found, shown, lapses, faults>>

-----------------------------------------------------------------------------
(* Delivering one row.                                                      *)

\* The call goes on with its next row, or is over.
Onward(t) ==
  /\ phase' = [phase EXCEPT ![t] = Standing({}, batch[t])]
  /\ current' = [current EXCEPT ![t] = NoRow]
  /\ seen' = [seen EXCEPT ![t][current[t]] = 0]

\* hasSentDelivery; without one the attempt is created.
Attempt(t, i) ==
  /\ phase[t] = "next" /\ i \in batch[t]
  /\ batch' = [batch EXCEPT ![t] = @ \ {i}]
  /\ current' = [current EXCEPT ![t] = i]
  /\ phase' = [phase EXCEPT ![t] = IF sent[i] > 0 THEN "skipping" ELSE "sending"]
  /\ UNCHANGED <<status, chainVars, retryCount, due, stale, sent, up, found, seen, shown, lapses, faults>>

\* A row that has a sent delivery is marked and left, without a next occurrence.
SkipSent(t) ==
  /\ phase[t] = "skipping"
  /\ Write(current[t], "sent")
  /\ Onward(t)
  /\ UNCHANGED <<chainVars, retryCount, due, sent, up, found, batch, shown, lapses, faults>>

\* The sink has taken the message, has failed, or there is none.
Deliver(t) ==
  /\ phase[t] = "sending"
  /\ \E outcome \in {"delivered", "rejected", "refused"} :
       /\ phase' = [phase EXCEPT ![t] = outcome]
       /\ shown' = IF outcome = "delivered" THEN [shown EXCEPT ![current[t]] = @ + 1] ELSE shown
  /\ UNCHANGED <<status, chainVars, retryCount, due, stale, sent, callVars, lapses, faults>>

MarkDeliverySent(t) ==
  /\ phase[t] = "delivered"
  /\ phase' = [phase EXCEPT ![t] = "recorded"]
  /\ sent' = [sent EXCEPT ![current[t]] = @ + 1]
  /\ UNCHANGED <<status, chainVars, retryCount, due, stale, callVars, shown, lapses, faults>>

\* Whatever the status of the row has become.
MarkReminderSent(t) ==
  /\ phase[t] = "recorded"
  /\ Write(current[t], "sent")
  /\ phase' = [phase EXCEPT ![t] = "marked"]
  /\ UNCHANGED <<chainVars, retryCount, due, sent, callVars, shown, lapses, faults>>

Continues(i) == origin[i] \in Recurring /\ occurrence[i] + 1 < MaxOccurrences

CloneNextOccurrence(t) ==
  LET i == current[t] IN
  /\ phase[t] = "marked" /\ Continues(i)
  /\ \E c \in CloneRows :
       /\ status[c] = "absent"
       /\ status' = [status EXCEPT ![c] = "waiting"]
       /\ source' = [source EXCEPT ![c] = i]
       /\ origin' = [origin EXCEPT ![c] = origin[i]]
       /\ occurrence' = [occurrence EXCEPT ![c] = occurrence[i] + 1]
  /\ Onward(t)
  /\ UNCHANGED <<retryCount, due, stale, sent, up, found, batch, shown, lapses, faults>>

NoNextOccurrence(t) ==
  /\ phase[t] = "marked" /\ ~Continues(current[t])
  /\ Onward(t)
  /\ UNCHANGED <<status, chainVars, retryCount, due, stale, sent, up, found, batch, shown, lapses, faults>>

\* An error of the store after the delivery is caught as one of the delivery.
StoreError(t) ==
  /\ phase[t] \in {"delivered", "recorded", "marked"} /\ faults < MaxFaults
  /\ phase[t] = "marked" => origin[current[t]] \in Recurring
  /\ phase' = [phase EXCEPT ![t] = IF phase[t] = "delivered" THEN "rejected" ELSE "overturned"]
  /\ lapses' = [lapses EXCEPT ![current[t]] = @ + 1]
  /\ faults' = faults + 1
  /\ UNCHANGED <<status, chainVars, retryCount, due, stale, sent, callVars, shown>>

\* The recorded attempt has failed after all.
MarkDeliveryFailed(t) ==
  /\ phase[t] = "overturned"
  /\ phase' = [phase EXCEPT ![t] = "rejected"]
  /\ sent' = [sent EXCEPT ![current[t]] = @ - 1]
  /\ UNCHANGED <<status, chainVars, retryCount, due, stale, callVars, shown, lapses, faults>>

Retried(t) == phase[t] = "rejected" /\ seen[t][current[t]] + 1 < MaxRetry

\* markReminderRetry or markReminderFailed, whatever the row's status is now.
Reject(t) ==
  LET i == current[t] IN
  /\ phase[t] \in {"rejected", "refused"}
  /\ Write(i, IF Retried(t) THEN "waiting" ELSE "failed")
  /\ retryCount' = [retryCount EXCEPT ![i] = @ + 1]
  /\ due' = [due EXCEPT ![i] = @ /\ ~Retried(t)]
  /\ Onward(t)
  /\ UNCHANGED <<chainVars, sent, up, found, batch, shown, lapses, faults>>

\* The call ends before it is done, in a crash of its process or with an error
\* outside the try: what it has claimed stays 'delivering'.
Lose(t) ==
  /\ up[t] \/ phase[t] # "idle"
  /\ faults < MaxFaults
  /\ up' \in {up, [up EXCEPT ![t] = FALSE]}
  /\ up' = up => phase[t] # "idle"
  /\ phase' = [phase EXCEPT ![t] = "idle"]
  /\ found' = [found EXCEPT ![t] = {}]
  /\ batch' = [batch EXCEPT ![t] = {}]
  /\ current' = [current EXCEPT ![t] = NoRow]
  /\ seen' = [seen EXCEPT ![t] = [i \in Rows |-> 0]]
  /\ faults' = faults + 1
  /\ UNCHANGED <<status, chainVars, retryCount, due, stale, sent, shown, lapses>>

-----------------------------------------------------------------------------
Cancel(i) == CancelReminder(i) \/ CancelLater(i)
Recover(t) == (\E i \in Rows : Judge(t, i)) \/ TakeBack(t) \/ MarkFoundSent(t) \/ StartTimer(t)
Claim(t) == SelectDue(t) \/ (\E i \in Rows : ClaimRow(t, i) \/ MissRow(t, i)) \/ ReadClaimed(t)
Attend(t) == (\E i \in Rows : Attempt(t, i)) \/ SkipSent(t) \/ Deliver(t)
Settle(t) == MarkDeliverySent(t) \/ MarkReminderSent(t) \/ CloneNextOccurrence(t) \/ NoNextOccurrence(t)
Excuse(t) == MarkDeliveryFailed(t) \/ Reject(t)
Work(t) == Recover(t) \/ Claim(t) \/ Attend(t) \/ Settle(t) \/ Excuse(t)

Next ==
  \/ \E i \in UserRows : Create(i)
  \/ \E i \in Rows : Cancel(i) \/ BecomeDue(i) \/ BecomeStale(i)
  \/ \E t \in Ticks : Serve(t) \/ Fire(t) \/ Work(t) \/ StoreError(t) \/ Lose(t)

Spec == Init /\ [][Next]_vars

\* Time passes, timers fire, and calls go on.  Nothing starts a daemon or cancels,
\* and no fault has to happen.
Fairness ==
  /\ \A i \in Rows : WF_vars(BecomeDue(i)) /\ WF_vars(faults' = faults /\ BecomeStale(i))
  /\ \A t \in Ticks : WF_vars(Fire(t) \/ Work(t))

FairSpec == Spec /\ Fairness

-----------------------------------------------------------------------------
(* What users may count on.                                                 *)

Settled == {"sent", "failed", "cancelled"}
NextOf(i) == {c \in Rows : source[c] = i}

\* A reminder reaches its user once, plus once for every time it was taken back
\* from a call or failed after its delivery, and has no more next occurrences
\* than it has reached the user: calls that overlap, in one process or several,
\* do not deliver it twice.
ShownOnce ==
  /\ TypeOK
  /\ \A i \in Rows : shown[i] <= 1 + lapses[i] /\ Cardinality(NextOf(i)) <= shown[i]

\* A reminder that is sent, failed or cancelled stays so, whatever calls are still
\* at work, those included that found it stale or due before: only one that was taken
\* back or failed after its delivery before may be overtaken by a late result.
SettledIsFinal ==
  [][\A i \in Rows : status[i] \in Settled /\ lapses[i] = 0 => status'[i] = status[i]]_vars

\* While a scheduler of the workspace runs, a reminder that has come due is
\* delivered or given up, through crashes, errors and retries.
DueSettles ==
  (<>[](\E t \in Ticks : up[t])) => \A i \in Rows : Claimable(i) ~> (status[i] \in Settled)
=============================================================================
