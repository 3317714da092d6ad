---------------------- MODULE ReminderDelivery_proofs ----------------------
(***************************************************************************)
(* That a reminder is not delivered twice, and that its outcome is final,  *)
(* for any number of rows, overlapping calls, crashes and errors.          *)
(***************************************************************************)
EXTENDS ReminderDelivery, FiniteSetTheorems, TLAPS

-----------------------------------------------------------------------------
(* Types.                                                                   *)

\* The type invariant but for the sign of sent, which RecordedFirst is about.
Types ==
  /\ status \in [Rows -> Status] /\ source \in [Rows -> Rows \cup {NoRow}] /\ origin \in [Rows -> Rows]
  /\ occurrence \in [Rows -> Nat] /\ retryCount \in [Rows -> Nat]
  /\ due \in [Rows -> BOOLEAN] /\ stale \in [Rows -> BOOLEAN]
  /\ sent \in [Rows -> Int] /\ shown \in [Rows -> Nat] /\ lapses \in [Rows -> Nat] /\ faults \in Nat
  /\ up \in [Ticks -> BOOLEAN] /\ phase \in [Ticks -> Phase]
  /\ found \in [Ticks -> SUBSET Rows] /\ batch \in [Ticks -> SUBSET Rows]
  /\ current \in [Ticks -> Rows \cup {NoRow}] /\ seen \in [Ticks -> [Rows -> Nat]]

\* What a call has in hand, by its phase.
Between == {"idle", "recovering", "claiming", "next"}
CallSafe ==
  \A t \in Ticks :
    /\ phase[t] \in {"idle", "recovering"} \cup Judged => batch[t] = {}
    /\ phase[t] \in Between <=> current[t] = NoRow
    /\ found[t] \cap batch[t] = {} /\ current[t] \notin found[t] \cup batch[t]

LEMMA TypeInit == Init => Types
<1> SUFFICES ASSUME Init PROVE Types
  OBVIOUS
<1>1. /\ status \in [Rows -> Status] /\ source \in [Rows -> Rows \cup {NoRow}] /\ origin \in [Rows -> Rows]
      /\ phase \in [Ticks -> Phase] /\ current \in [Ticks -> Rows \cup {NoRow}]
  BY DEF Init, Status, Phase, Judged
<1>2. /\ occurrence \in [Rows -> Nat] /\ retryCount \in [Rows -> Nat] /\ sent \in [Rows -> Int]
      /\ shown \in [Rows -> Nat] /\ lapses \in [Rows -> Nat] /\ faults \in Nat
  BY DEF Init
<1>3. /\ due \in [Rows -> BOOLEAN] /\ stale \in [Rows -> BOOLEAN] /\ up \in [Ticks -> BOOLEAN]
      /\ found \in [Ticks -> SUBSET Rows] /\ batch \in [Ticks -> SUBSET Rows]
  BY DEF Init
<1>4. seen \in [Ticks -> [Rows -> Nat]]
  BY DEF Init
<1>5. QED
  BY <1>1, <1>2, <1>3, <1>4 DEF Types

LEMMA UserType ==
  ASSUME Types, NEW i \in Rows, Create(i) \/ Cancel(i) \/ BecomeDue(i) \/ BecomeStale(i)
  PROVE  Types'
<1> USE DEF chainVars, callVars
<1>1. CASE Create(i)
  <2>1. status' \in [Rows -> Status]
    BY <1>1 DEF Types, Create, Status
  <2> QED BY <1>1, <2>1 DEF Types, Create
<1>2. ASSUME NEW S, CancelRows(S) PROVE Types'
  <2>1. status' \in [Rows -> Status]
    BY <1>2 DEF Types, CancelRows, Status
  <2> QED BY <1>2, <2>1 DEF Types, CancelRows
<1>3. CASE BecomeDue(i)
  BY <1>3 DEF Types, BecomeDue
<1>4. CASE BecomeStale(i)
  <2>1. faults \in Nat /\ (faults' = faults \/ faults' = faults + 1)
    BY <1>4 DEF Types, BecomeStale
  <2>2. faults' \in Nat
    BY <2>1
  <2>3. stale' \in [Rows -> BOOLEAN]
    BY <1>4 DEF Types, BecomeStale
  <2> QED BY <1>4, <2>2, <2>3 DEF Types, BecomeStale
<1> QED BY <1>1, <1>2, <1>3, <1>4 DEF Cancel, CancelReminder, CancelLater

LEMMA WriteType ==
  ASSUME Types, NEW i, NEW value \in Status, Write(i, value)
  PROVE  status' \in [Rows -> Status] /\ stale' \in [Rows -> BOOLEAN]
BY DEF Types, Write

LEMMA RecoveryType ==
  ASSUME Types, CallSafe, NEW t \in Ticks, SelectStale(t) \/ Recover(t)
  PROVE  Types'
<1> USE DEF chainVars, callVars
<1>1. CASE SelectStale(t)
  <2>1. phase' \in [Ticks -> Phase]
    BY <1>1 DEF Types, SelectStale, Phase
  <2>2. Stale \subseteq Rows
    BY DEF Stale
  <2>3. found' \in [Ticks -> SUBSET Rows]
    BY <1>1, <2>2 DEF Types, SelectStale
  <2> QED BY <1>1, <2>1, <2>3 DEF Types, SelectStale
<1>2. ASSUME NEW i \in Rows, Judge(t, i) PROVE Types'
  <2>1. phase' \in [Ticks -> Phase]
    BY <1>2 DEF Types, Judge, Phase, Judged
  <2>2. found' \in [Ticks -> SUBSET Rows] /\ current' \in [Ticks -> Rows \cup {NoRow}]
    BY <1>2 DEF Types, Judge
  <2> QED BY <1>2, <2>1, <2>2 DEF Types, Judge
<1>3. CASE TakeBack(t)
  <2>1. phase' \in [Ticks -> Phase] /\ current' \in [Ticks -> Rows \cup {NoRow}]
    BY <1>3 DEF Types, TakeBack, Phase
  <2>2. status' \in [Rows -> Status] /\ stale' \in [Rows -> BOOLEAN]
    BY <1>3, WriteType DEF Types, TakeBack, Status
  <2>3. due' \in [Rows -> BOOLEAN]
    BY <1>3 DEF Types, TakeBack
  <2>4. lapses' \in [Rows -> Nat]
    <3>1. lapses' = lapses \/ lapses' = [lapses EXCEPT ![current[t]] = @ + 1]
      BY <1>3 DEF TakeBack
    <3>2. current[t] \in Rows
      BY <1>3 DEF TakeBack, CallSafe, Between, Types
    <3> QED BY <3>1, <3>2 DEF Types
  <2>5. UNCHANGED <<source, origin, occurrence, retryCount, sent, up, found, batch, seen, shown, faults>>
    BY <1>3 DEF TakeBack
  <2> QED BY <2>1, <2>2, <2>3, <2>4, <2>5 DEF Types
<1>4. CASE MarkFoundSent(t)
  <2>1. phase' \in [Ticks -> Phase] /\ current' \in [Ticks -> Rows \cup {NoRow}]
    BY <1>4 DEF Types, MarkFoundSent, Phase
  <2>2. status' \in [Rows -> Status] /\ stale' \in [Rows -> BOOLEAN]
    BY <1>4, WriteType DEF MarkFoundSent, Status
  <2>3. lapses' \in [Rows -> Nat]
    <3>1. lapses' = lapses \/ lapses' = [lapses EXCEPT ![current[t]] = @ + 1]
      BY <1>4 DEF MarkFoundSent
    <3>2. current[t] \in Rows
      BY <1>4 DEF MarkFoundSent, CallSafe, Between, Types
    <3> QED BY <3>1, <3>2 DEF Types
  <2>4. UNCHANGED <<source, origin, occurrence, retryCount, due, sent, up, found, batch, seen, shown, faults>>
    BY <1>4 DEF MarkFoundSent
  <2> QED BY <2>1, <2>2, <2>3, <2>4 DEF Types
<1>5. CASE StartTimer(t)
  <2>1. phase' \in [Ticks -> Phase] /\ up' \in [Ticks -> BOOLEAN]
    BY <1>5 DEF Types, StartTimer, Phase
  <2> QED BY <1>5, <2>1 DEF Types, StartTimer
<1> QED BY <1>1, <1>2, <1>3, <1>4, <1>5 DEF Recover

LEMMA StandingType == \A F, B : Standing(F, B) \in Phase /\ Standing(F, B) \in Between
BY DEF Standing, Phase, Between

LEMMA ClaimType ==
  ASSUME Types, CallSafe, NEW t \in Ticks, Claim(t) \/ Lose(t)
  PROVE  Types'
<1> USE DEF chainVars, callVars
<1>1. CASE SelectDue(t)
  <2>1. PICK B \in SUBSET Rows : /\ found' = [found EXCEPT ![t] = B]
                                 /\ phase' = [phase EXCEPT ![t] = Standing(B, {})]
    BY <1>1 DEF SelectDue
  <2>2. found' \in [Ticks -> SUBSET Rows]
    BY <2>1 DEF Types
  <2>3. phase' \in [Ticks -> Phase]
    BY <2>1, StandingType DEF Types
  <2> QED BY <1>1, <2>2, <2>3 DEF Types, SelectDue
<1>2. ASSUME NEW i \in Rows, ClaimRow(t, i) PROVE Types'
  <2>1. status' \in [Rows -> Status] /\ stale' \in [Rows -> BOOLEAN]
    BY <1>2, WriteType DEF ClaimRow, Status
  <2>2. found' \in [Ticks -> SUBSET Rows] /\ current' \in [Ticks -> Rows \cup {NoRow}]
    BY <1>2 DEF Types, ClaimRow
  <2>3. phase' \in [Ticks -> Phase]
    BY <1>2 DEF Types, ClaimRow, Phase
  <2> QED BY <1>2, <2>1, <2>2, <2>3 DEF Types, ClaimRow
<1>3. ASSUME NEW i \in Rows, MissRow(t, i) PROVE Types'
  <2>1. found' \in [Ticks -> SUBSET Rows]
    BY <1>3 DEF Types, MissRow
  <2>2. phase' \in [Ticks -> Phase]
    BY <1>3, StandingType DEF Types, MissRow
  <2> QED BY <1>3, <2>1, <2>2 DEF Types, MissRow
<1>4. CASE ReadClaimed(t)
  <2>0. current[t] \in Rows
    BY <1>4 DEF ReadClaimed, CallSafe, Types, Between
  <2>1. seen' \in [Ticks -> [Rows -> Nat]]
    BY <1>4, <2>0 DEF Types, ReadClaimed
  <2>2. batch' \in [Ticks -> SUBSET Rows] /\ current' \in [Ticks -> Rows \cup {NoRow}]
    BY <1>4, <2>0 DEF Types, ReadClaimed
  <2>3. phase' \in [Ticks -> Phase]
    BY <1>4, StandingType DEF Types, ReadClaimed
  <2> QED BY <1>4, <2>1, <2>2, <2>3 DEF Types, ReadClaimed
<1>5. CASE Lose(t)
  <2>1. up' \in [Ticks -> BOOLEAN] /\ phase' \in [Ticks -> Phase]
    BY <1>5 DEF Types, Lose, Phase
  <2>2. /\ found' \in [Ticks -> SUBSET Rows] /\ batch' \in [Ticks -> SUBSET Rows]
        /\ current' \in [Ticks -> Rows \cup {NoRow}]
    BY <1>5 DEF Types, Lose
  <2>3. faults' \in Nat
    BY <1>5 DEF Types, Lose
  <2>4. seen' \in [Ticks -> [Rows -> Nat]]
    BY <1>5 DEF Types, Lose
  <2> QED BY <1>5, <2>1, <2>2, <2>3, <2>4 DEF Types, Lose
<1> QED BY <1>1, <1>2, <1>3, <1>4, <1>5 DEF Claim

LEMMA OnwardType ==
  ASSUME Types, NEW t \in Ticks, Onward(t)
  PROVE  /\ phase' \in [Ticks -> Phase] /\ current' \in [Ticks -> Rows \cup {NoRow}]
         /\ seen' \in [Ticks -> [Rows -> Nat]]
<1>1. phase' \in [Ticks -> Phase]
  BY StandingType DEF Types, Onward
<1>2. current' \in [Ticks -> Rows \cup {NoRow}]
  BY DEF Types, Onward
<1>3. seen' \in [Ticks -> [Rows -> Nat]]
  BY DEF Types, Onward
<1> QED BY <1>1, <1>2, <1>3

LEMMA DeliveryType ==
  ASSUME Types, CallSafe, NEW t \in Ticks, Attend(t) \/ Settle(t) \/ Excuse(t) \/ StoreError(t)
  PROVE  Types'
<1> USE DEF chainVars, callVars
<1>0. phase[t] \notin Between => current[t] \in Rows
  BY DEF CallSafe, Types
<1>1. ASSUME NEW i \in Rows, Attempt(t, i) PROVE Types'
  <2>1. batch' \in [Ticks -> SUBSET Rows] /\ phase' \in [Ticks -> Phase]
    BY <1>1 DEF Types, Attempt, Phase
  <2>2. current' \in [Ticks -> Rows \cup {NoRow}]
    BY <1>1 DEF Types, Attempt
  <2> QED BY <1>1, <2>1, <2>2 DEF Types, Attempt
<1>2. CASE SkipSent(t)
  <2>1. status' \in [Rows -> Status] /\ stale' \in [Rows -> BOOLEAN]
    BY <1>2, WriteType DEF SkipSent, Status
  <2>2. Onward(t)
    BY <1>2 DEF SkipSent
  <2> QED BY <1>2, <2>1, <2>2, OnwardType DEF Types, SkipSent
<1>3. CASE Deliver(t)
  <2>1. phase' \in [Ticks -> Phase]
    BY <1>3 DEF Types, Deliver, Phase
  <2>2. shown' \in [Rows -> Nat]
    BY <1>0, <1>3 DEF Types, Deliver, Between
  <2> QED BY <1>3, <2>1, <2>2 DEF Types, Deliver
<1>4. CASE MarkDeliverySent(t)
  <2>1. phase' \in [Ticks -> Phase]
    BY <1>4 DEF Types, MarkDeliverySent, Phase
  <2>2. sent' \in [Rows -> Int]
    BY <1>0, <1>4 DEF Types, MarkDeliverySent, Between
  <2> QED BY <1>4, <2>1, <2>2 DEF Types, MarkDeliverySent
<1>5. CASE MarkReminderSent(t)
  <2>1. phase' \in [Ticks -> Phase]
    BY <1>5 DEF Types, MarkReminderSent, Phase
  <2>2. status' \in [Rows -> Status] /\ stale' \in [Rows -> BOOLEAN]
    BY <1>5, WriteType DEF MarkReminderSent, Status
  <2> QED BY <1>5, <2>1, <2>2 DEF Types, MarkReminderSent
<1>6. CASE CloneNextOccurrence(t)
  <2>1. PICK c \in CloneRows :
          /\ status' = [status EXCEPT ![c] = "waiting"]
          /\ source' = [source EXCEPT ![c] = current[t]]
          /\ origin' = [origin EXCEPT ![c] = origin[current[t]]]
          /\ occurrence' = [occurrence EXCEPT ![c] = occurrence[current[t]] + 1]
    BY <1>6 DEF CloneNextOccurrence
  <2>2. status' \in [Rows -> Status] /\ source' \in [Rows -> Rows \cup {NoRow}]
    BY <2>1 DEF Types, Status
  <2>3. origin' \in [Rows -> Rows] /\ occurrence' \in [Rows -> Nat]
    <3>1. current[t] \in Rows
      BY <1>0, <1>6 DEF CloneNextOccurrence, Between
    <3>2. origin[current[t]] \in Rows /\ occurrence[current[t]] + 1 \in Nat
      BY <3>1 DEF Types
    <3> QED BY <2>1, <3>2 DEF Types
  <2>4. Onward(t)
    BY <1>6 DEF CloneNextOccurrence
  <2> QED BY <1>6, <2>2, <2>3, <2>4, OnwardType DEF Types, CloneNextOccurrence
<1>7. CASE NoNextOccurrence(t)
  BY <1>7, OnwardType DEF Types, NoNextOccurrence
<1>8. CASE StoreError(t)
  <2>1. phase' \in [Ticks -> Phase] /\ faults' \in Nat
    BY <1>8 DEF Types, StoreError, Phase
  <2>2. lapses' \in [Rows -> Nat]
    BY <1>0, <1>8 DEF Types, StoreError, Between
  <2> QED BY <1>8, <2>1, <2>2 DEF Types, StoreError
<1>9. CASE MarkDeliveryFailed(t)
  <2>1. phase' \in [Ticks -> Phase]
    BY <1>9 DEF Types, MarkDeliveryFailed, Phase
  <2>2. sent' \in [Rows -> Int]
    BY <1>0, <1>9 DEF Types, MarkDeliveryFailed, Between
  <2> QED BY <1>9, <2>1, <2>2 DEF Types, MarkDeliveryFailed
<1>10. CASE Reject(t)
  <2>1. Write(current[t], IF Retried(t) THEN "waiting" ELSE "failed") /\ Onward(t)
    BY <1>10 DEF Reject
  <2>2. status' \in [Rows -> Status] /\ stale' \in [Rows -> BOOLEAN]
    BY <2>1, WriteType DEF Status
  <2>3. due' \in [Rows -> BOOLEAN]
    BY <1>10 DEF Types, Reject
  <2>4. retryCount' \in [Rows -> Nat]
    BY <1>0, <1>10 DEF Types, Reject, Between
  <2> QED BY <1>10, <2>1, <2>2, <2>3, <2>4, OnwardType DEF Types, Reject
<1> QED BY <1>1, <1>2, <1>3, <1>4, <1>5, <1>6, <1>7, <1>8, <1>9, <1>10 DEF Attend, Settle, Excuse

\* The steps of a call, grouped as the proofs treat them.
CallWork(t) == Attend(t) \/ Settle(t) \/ Excuse(t) \/ StoreError(t)

LEMMA NextCases ==
  ASSUME Next
  PROVE  \/ \E i \in Rows : Create(i) \/ Cancel(i) \/ BecomeDue(i) \/ BecomeStale(i)
         \/ \E t \in Ticks : SelectStale(t) /\ phase[t] = "idle"
         \/ \E t \in Ticks : Recover(t) \/ Claim(t) \/ Lose(t) \/ CallWork(t)
BY DEF Next, Serve, Fire, Work, CallWork, Rows

LEMMA TypesStep ==
  ASSUME Types, CallSafe, [Next]_vars
  PROVE  Types'
<1>1. CASE UNCHANGED vars
  BY <1>1 DEF Types, vars, chainVars, callVars
<1> QED BY <1>1, NextCases, UserType, RecoveryType, ClaimType, DeliveryType DEF CallWork

-----------------------------------------------------------------------------
(* Calls.                                                                   *)

LEMMA CallStep ==
  ASSUME Types, CallSafe, [Next]_vars
  PROVE  CallSafe'
<1> USE DEF callVars, chainVars, Judged, Between
<1>0. NoRow \notin Rows
  BY RowsAssumption
<1>1. CASE UNCHANGED <<phase, found, batch, current>>
  BY <1>1 DEF CallSafe
\* It is enough to look at the call that works.
<1> DEFINE Safe(p, f, b, c) == /\ p \in {"idle", "recovering"} \cup Judged => b = {}
                               /\ p \in Between <=> c = NoRow
                               /\ f \cap b = {} /\ c \notin f \cup b
<1>2. ASSUME NEW t \in Ticks, Safe(phase'[t], found'[t], batch'[t], current'[t]),
             \A u \in Ticks : u # t => /\ phase'[u] = phase[u] /\ found'[u] = found[u]
                                       /\ batch'[u] = batch[u] /\ current'[u] = current[u]
      PROVE  CallSafe'
  BY <1>2 DEF CallSafe
<1>3. ASSUME NEW t \in Ticks PROVE Safe(phase[t], found[t], batch[t], current[t]) /\ batch[t] \subseteq Rows /\ found[t] \subseteq Rows
  BY DEF CallSafe, Types
<1>4. ASSUME NEW t \in Ticks, (SelectStale(t) /\ phase[t] = "idle") \/ StartTimer(t) PROVE CallSafe'
  <2>1. phase[t] \in {"idle", "recovering"} /\ UNCHANGED <<batch, current>>
    BY <1>4 DEF SelectStale, StartTimer, Recovered
  <2>2. /\ phase'[t] \in {"idle", "recovering"} /\ found'[t] \subseteq Rows
        /\ \A u \in Ticks : u # t => phase'[u] = phase[u] /\ found'[u] = found[u]
    BY <1>4 DEF SelectStale, StartTimer, Stale, Types
  <2>3. Safe(phase'[t], found'[t], batch'[t], current'[t])
    BY <1>0, <1>3, <2>1, <2>2
  <2> QED BY <1>2, <2>1, <2>2, <2>3
<1>5. ASSUME NEW t \in Ticks, NEW i \in Rows, Judge(t, i) \/ ClaimRow(t, i) PROVE CallSafe'
  <2>1. phase[t] \in {"recovering", "claiming"} /\ batch' = batch /\ i \in found[t]
    BY <1>5 DEF Judge, ClaimRow
  <2>2. /\ phase'[t] \in Judged \cup {"claimed"} /\ (phase'[t] \in Judged => phase[t] = "recovering")
        /\ found'[t] = found[t] \ {i} /\ current'[t] = i
    BY <1>5 DEF Judge, ClaimRow, Types
  <2>3. \A u \in Ticks : u # t => phase'[u] = phase[u] /\ found'[u] = found[u] /\ current'[u] = current[u]
    BY <1>5 DEF Judge, ClaimRow, Types
  <2>4. Safe(phase'[t], found'[t], batch'[t], current'[t])
    BY <1>0, <1>3, <2>1, <2>2
  <2> QED BY <1>2, <2>1, <2>3, <2>4
<1>6. ASSUME NEW t \in Ticks, TakeBack(t) \/ MarkFoundSent(t) PROVE CallSafe'
  <2>1. /\ phase[t] \in Judged /\ phase' = [phase EXCEPT ![t] = "recovering"]
        /\ current' = [current EXCEPT ![t] = NoRow] /\ UNCHANGED <<found, batch>>
    BY <1>6 DEF TakeBack, MarkFoundSent
  <2>2. /\ phase'[t] = "recovering" /\ current'[t] = NoRow
        /\ \A u \in Ticks : u # t => phase'[u] = phase[u] /\ current'[u] = current[u]
    BY <2>1 DEF Types
  <2>3. Safe(phase'[t], found'[t], batch'[t], current'[t])
    BY <1>0, <1>3, <2>1, <2>2
  <2> QED BY <1>2, <2>1, <2>2, <2>3
<1>7. ASSUME NEW t \in Ticks, SelectDue(t) PROVE CallSafe'
  <2>1. PICK B \in SUBSET Rows : /\ found' = [found EXCEPT ![t] = B]
                                 /\ phase' = [phase EXCEPT ![t] = Standing(B, {})]
    BY <1>7 DEF SelectDue
  <2>2. phase[t] = "recovering" /\ UNCHANGED <<batch, current>>
    BY <1>7 DEF SelectDue, Recovered
  <2>3. /\ phase'[t] \in Between /\ found'[t] = B
        /\ \A u \in Ticks : u # t => phase'[u] = phase[u] /\ found'[u] = found[u]
    BY <2>1, StandingType DEF Types
  <2>4. Safe(phase'[t], found'[t], batch'[t], current'[t])
    BY <1>0, <1>3, <2>2, <2>3
  <2> QED BY <1>2, <2>2, <2>3, <2>4
<1>8. ASSUME NEW t \in Ticks, NEW i \in Rows, MissRow(t, i) PROVE CallSafe'
  <2>1. phase[t] = "claiming" /\ UNCHANGED <<batch, current>>
    BY <1>8 DEF MissRow
  <2>2. /\ phase'[t] = Standing(found[t] \ {i}, batch[t]) /\ found'[t] = found[t] \ {i}
        /\ \A u \in Ticks : u # t => phase'[u] = phase[u] /\ found'[u] = found[u]
    BY <1>8 DEF MissRow, Types
  <2>3. Safe(phase'[t], found'[t], batch'[t], current'[t])
    BY <1>0, <1>3, <2>1, <2>2 DEF Standing
  <2> QED BY <1>2, <2>1, <2>2, <2>3
<1>9. ASSUME NEW t \in Ticks, ReadClaimed(t) PROVE CallSafe'
  <2>1. phase[t] = "claimed" /\ UNCHANGED found
    BY <1>9 DEF ReadClaimed
  <2>2. /\ phase'[t] = Standing(found[t], batch[t] \cup {current[t]}) /\ current'[t] = NoRow
        /\ batch'[t] = batch[t] \cup {current[t]}
        /\ \A u \in Ticks : u # t => phase'[u] = phase[u] /\ batch'[u] = batch[u] /\ current'[u] = current[u]
    BY <1>9 DEF ReadClaimed, Types
  <2>3. phase'[t] \in {"claiming", "next"}
    BY <2>2 DEF Standing
  <2>4. Safe(phase'[t], found'[t], batch'[t], current'[t])
    BY <1>0, <1>3, <2>1, <2>2, <2>3
  <2> QED BY <1>2, <2>1, <2>2, <2>4
<1>10. ASSUME NEW t \in Ticks, Lose(t) PROVE CallSafe'
  <2>1. /\ phase'[t] = "idle" /\ found'[t] = {} /\ batch'[t] = {} /\ current'[t] = NoRow
        /\ \A u \in Ticks : u # t => /\ phase'[u] = phase[u] /\ found'[u] = found[u]
                                     /\ batch'[u] = batch[u] /\ current'[u] = current[u]
    BY <1>10 DEF Lose, Types
  <2> QED BY <1>2, <2>1
<1>11. ASSUME NEW t \in Ticks, NEW i \in Rows, Attempt(t, i) PROVE CallSafe'
  <2>1. phase[t] = "next" /\ i \in batch[t] /\ UNCHANGED found
    BY <1>11 DEF Attempt
  <2>2. /\ phase'[t] \in {"skipping", "sending"} /\ current'[t] = i /\ batch'[t] = batch[t] \ {i}
        /\ \A u \in Ticks : u # t => phase'[u] = phase[u] /\ batch'[u] = batch[u] /\ current'[u] = current[u]
    BY <1>11 DEF Attempt, Types
  <2>3. Safe(phase'[t], found'[t], batch'[t], current'[t])
    BY <1>0, <1>3, <2>1, <2>2
  <2> QED BY <1>2, <2>1, <2>2, <2>3
<1>12. ASSUME NEW t \in Ticks,
             Deliver(t) \/ MarkDeliverySent(t) \/ MarkReminderSent(t) \/ StoreError(t) \/ MarkDeliveryFailed(t)
       PROVE  CallSafe'
  <2>1. /\ phase[t] \in {"sending", "delivered", "recorded", "marked", "overturned"}
        /\ UNCHANGED <<found, batch, current>>
    BY <1>12 DEF Deliver, MarkDeliverySent, MarkReminderSent, StoreError, MarkDeliveryFailed
  <2>2. /\ phase'[t] \in {"delivered", "recorded", "marked", "rejected", "refused", "overturned"}
        /\ \A u \in Ticks : u # t => phase'[u] = phase[u]
    BY <1>12 DEF Deliver, MarkDeliverySent, MarkReminderSent, StoreError, MarkDeliveryFailed, Types
  <2>3. Safe(phase'[t], found'[t], batch'[t], current'[t])
    BY <1>3, <2>1, <2>2
  <2> QED BY <1>2, <2>1, <2>2, <2>3
<1>13. ASSUME NEW t \in Ticks, SkipSent(t) \/ CloneNextOccurrence(t) \/ NoNextOccurrence(t) \/ Reject(t)
       PROVE  CallSafe'
  <2>1. Onward(t) /\ UNCHANGED <<found, batch>>
    BY <1>13 DEF SkipSent, CloneNextOccurrence, NoNextOccurrence, Reject
  <2>2. /\ phase'[t] = Standing({}, batch[t]) /\ current'[t] = NoRow
        /\ \A u \in Ticks : u # t => phase'[u] = phase[u] /\ current'[u] = current[u]
    BY <2>1 DEF Onward, Types
  <2>3. Safe(phase'[t], found'[t], batch'[t], current'[t])
    BY <1>0, <1>3, <2>1, <2>2 DEF Standing
  <2> QED BY <1>2, <2>1, <2>2, <2>3
<1>14. UNCHANGED vars \/ (\E i \in Rows : Create(i) \/ Cancel(i) \/ BecomeDue(i) \/ BecomeStale(i))
      => UNCHANGED <<phase, found, batch, current>>
  BY DEF vars, Create, Cancel, CancelReminder, CancelLater, CancelRows, BecomeDue, BecomeStale
<1> HIDE DEF Safe
<1> QED BY <1>1, <1>4, <1>5, <1>6, <1>7, <1>8, <1>9, <1>10, <1>11, <1>12, <1>13, <1>14, NextCases
        DEF Recover, Claim, CallWork, Attend, Settle, Excuse

-----------------------------------------------------------------------------
(* Cardinalities.                                                           *)

LEMMA Smaller ==
  ASSUME NEW T, IsFiniteSet(T), NEW S \in SUBSET T
  PROVE  Cardinality(S) \in Nat /\ Cardinality(T) \in Nat /\ Cardinality(S) <= Cardinality(T)
BY FS_Subset, FS_CardinalityType

LEMMA OneMore ==
  ASSUME NEW T, IsFiniteSet(T), NEW x, NEW S, S \subseteq T \cup {x}
  PROVE  Cardinality(S) \in Nat /\ Cardinality(T) \in Nat /\ Cardinality(S) <= Cardinality(T) + 1
<1>1. IsFiniteSet(T \cup {x}) /\ Cardinality(T \cup {x}) <= Cardinality(T) + 1
  <2>1. IsFiniteSet(T \cup {x}) /\ Cardinality(T \cup {x}) = IF x \in T THEN Cardinality(T) ELSE Cardinality(T) + 1
    BY FS_AddElement, Zenon
  <2>2. Cardinality(T) \in Nat
    BY FS_CardinalityType
  <2>3. QED
    BY <2>1, <2>2
<1>2. QED
  BY <1>1, Smaller, FS_CardinalityType

LEMMA OneLess ==
  ASSUME NEW T, IsFiniteSet(T), NEW x \in T, NEW S, S \subseteq T \ {x}
  PROVE  Cardinality(S) \in Nat /\ Cardinality(T) \in Nat /\ Cardinality(S) + 1 <= Cardinality(T)
<1>1. IsFiniteSet(T \ {x}) /\ Cardinality(T \ {x}) = Cardinality(T) - 1 /\ Cardinality(T) \in Nat
  BY FS_RemoveElement, FS_CardinalityType
<1>2. Cardinality(S) \in Nat /\ Cardinality(S) <= Cardinality(T \ {x})
  BY <1>1, Smaller
<1>3. QED
  BY <1>1, <1>2

-----------------------------------------------------------------------------
(* What a step leaves alone.                                                *)

LEMMA Frame ==
  ASSUME [Next]_vars
  PROVE  /\ UNCHANGED sent \/ \E t \in Ticks : MarkDeliverySent(t) \/ MarkDeliveryFailed(t)
         /\ UNCHANGED shown \/ \E t \in Ticks : Deliver(t)
         /\ UNCHANGED <<source, origin, occurrence>> \/ \E t \in Ticks : CloneNextOccurrence(t)
         /\ UNCHANGED lapses \/ \E t \in Ticks : TakeBack(t) \/ MarkFoundSent(t) \/ StoreError(t)
<1> USE DEF callVars, chainVars
<1>1. CASE UNCHANGED vars
  BY <1>1 DEF vars
<1>2. ASSUME NEW i \in Rows, Create(i) \/ Cancel(i) \/ BecomeDue(i) \/ BecomeStale(i)
      PROVE  UNCHANGED <<sent, shown, source, origin, occurrence, lapses>>
  BY <1>2 DEF Create, Cancel, CancelReminder, CancelLater, CancelRows, BecomeDue, BecomeStale
<1>3. ASSUME NEW t \in Ticks, SelectStale(t) \/ Claim(t) \/ Lose(t)
      PROVE  UNCHANGED <<sent, shown, source, origin, occurrence, lapses>>
  BY <1>3 DEF SelectStale, Claim, SelectDue, ClaimRow, MissRow, ReadClaimed, Lose
<1>4. ASSUME NEW t \in Ticks, Recover(t)
      PROVE  /\ UNCHANGED <<sent, shown, source, origin, occurrence>>
             /\ UNCHANGED lapses \/ TakeBack(t) \/ MarkFoundSent(t)
  BY <1>4 DEF Recover, Judge, TakeBack, MarkFoundSent, StartTimer
<1>5. ASSUME NEW t \in Ticks, CallWork(t)
      PROVE  /\ UNCHANGED sent \/ MarkDeliverySent(t) \/ MarkDeliveryFailed(t)
             /\ UNCHANGED shown \/ Deliver(t)
             /\ UNCHANGED <<source, origin, occurrence>> \/ CloneNextOccurrence(t)
             /\ UNCHANGED lapses \/ StoreError(t)
  BY <1>5 DEF CallWork, Attend, Attempt, SkipSent, Deliver, Settle, MarkDeliverySent, MarkReminderSent,
    CloneNextOccurrence, NoNextOccurrence, Excuse, MarkDeliveryFailed, Reject, StoreError
<1> QED BY <1>1, <1>2, <1>3, <1>4, <1>5, NextCases

-----------------------------------------------------------------------------
(* How often a reminder is shown.                                           *)

\* The calls that may still show a row, or let it be shown again.
Bearing == {"claimed", "sending", "rejected", "refused", "overturned"}
Bearers(i) == {t \in Ticks : i \in batch[t] \/ (current[t] = i /\ phase[t] \in Bearing)}

\* Whether a call may still take it.
Fresh(i) == IF status[i] \in {"absent", "waiting"} THEN 1 ELSE 0

ShownBound(i) == shown[i] + Cardinality(Bearers(i)) + Fresh(i) <= 1 + lapses[i]

LEMMA BearersFinite == ASSUME NEW i PROVE IsFiniteSet(Bearers(i)) /\ IsFiniteSet(Bearers(i)')
<1>1. Bearers(i) \subseteq Ticks /\ Bearers(i)' \subseteq Ticks
  BY DEF Bearers
<1>2. QED
  BY <1>1, FiniteAssumption, FS_Subset

\* A step that shows nothing, and after which no more calls may show the row.
LEMMA ShownQuiet ==
  ASSUME Types, Types', NEW i \in Rows, ShownBound(i),
         Bearers(i)' \subseteq Bearers(i), shown'[i] = shown[i], Fresh(i)' - lapses'[i] <= Fresh(i) - lapses[i]
  PROVE  ShownBound(i)'
<1>1. /\ Cardinality(Bearers(i)') \in Nat /\ Cardinality(Bearers(i)) \in Nat
      /\ Cardinality(Bearers(i)') <= Cardinality(Bearers(i))
  BY Smaller, BearersFinite
<1>2. shown[i] \in Nat /\ lapses[i] \in Nat /\ lapses'[i] \in Nat
  BY DEF Types
<1>3. Fresh(i) \in Nat /\ Fresh(i)' \in Nat
  BY DEF Fresh
<1>4. QED
  BY <1>1, <1>2, <1>3 DEF ShownBound

\* A step of a call that stops being one of them.
LEMMA ShownLess ==
  ASSUME Types, Types', NEW i \in Rows, ShownBound(i), NEW t \in Bearers(i), Bearers(i)' \subseteq Bearers(i) \ {t},
         shown'[i] - lapses'[i] + Fresh(i)' <= shown[i] - lapses[i] + Fresh(i) + 1
  PROVE  ShownBound(i)'
<1>1. shown[i] \in Nat /\ lapses[i] \in Nat /\ shown'[i] \in Nat /\ lapses'[i] \in Nat
  BY DEF Types
<1>2. Fresh(i) \in Nat /\ Fresh(i)' \in Nat
  BY DEF Fresh
<1>3. /\ Cardinality(Bearers(i)') \in Nat /\ Cardinality(Bearers(i)) \in Nat
      /\ Cardinality(Bearers(i)') + 1 <= Cardinality(Bearers(i))
  BY OneLess, BearersFinite
<1>4. QED
  BY <1>1, <1>2, <1>3 DEF ShownBound

\* A step of a call that starts being one.
LEMMA ShownMore ==
  ASSUME Types, Types', NEW i \in Rows, ShownBound(i), NEW t \in Ticks, Bearers(i)' \subseteq Bearers(i) \cup {t},
         shown'[i] - lapses'[i] + Fresh(i)' + 1 <= shown[i] - lapses[i] + Fresh(i)
  PROVE  ShownBound(i)'
<1>1. shown[i] \in Nat /\ lapses[i] \in Nat /\ shown'[i] \in Nat /\ lapses'[i] \in Nat
  BY DEF Types
<1>2. Fresh(i) \in Nat /\ Fresh(i)' \in Nat
  BY DEF Fresh
<1>3. /\ Cardinality(Bearers(i)') \in Nat /\ Cardinality(Bearers(i)) \in Nat
      /\ Cardinality(Bearers(i)') <= Cardinality(Bearers(i)) + 1
  BY OneMore, BearersFinite
<1>4. QED
  BY <1>1, <1>2, <1>3 DEF ShownBound

\* The step of a call leaves the others what they are.
LEMMA BearersOf ==
  ASSUME NEW i, NEW t \in Ticks,
         \A u \in Ticks : u # t => phase'[u] = phase[u] /\ batch'[u] = batch[u] /\ current'[u] = current[u]
  PROVE  /\ Bearers(i)' \subseteq Bearers(i) \cup {t}
         /\ (i \in batch'[t] \/ (current'[t] = i /\ phase'[t] \in Bearing) => t \in Bearers(i)) => Bearers(i)' \subseteq Bearers(i)
         /\ ~(i \in batch'[t] \/ (current'[t] = i /\ phase'[t] \in Bearing)) => Bearers(i)' \subseteq Bearers(i) \ {t}
BY DEF Bearers

\* Recovery shows nothing; a row whose status it changes has lapsed.
LEMMA ShownRecovery ==
  ASSUME Types, Types', CallSafe, NEW t \in Ticks, (SelectStale(t) /\ phase[t] = "idle") \/ Recover(t),
         NEW i \in Rows, ShownBound(i)
  PROVE  ShownBound(i)'
<1> USE DEF callVars, chainVars
<1>0. NoRow \notin Rows
  BY RowsAssumption
<1>1. UNCHANGED <<batch, shown>>
  BY DEF SelectStale, Recover, Judge, TakeBack, MarkFoundSent, StartTimer
<1>2. /\ \A u \in Ticks : u # t => phase'[u] = phase[u] /\ current'[u] = current[u]
      /\ phase'[t] \in {"idle", "recovering"} \cup Judged
  <2>1. CASE SelectStale(t) \/ StartTimer(t)
    BY <2>1 DEF SelectStale, StartTimer, Types
  <2>2. ASSUME NEW j \in Rows, Judge(t, j)
        PROVE  /\ \A u \in Ticks : u # t => phase'[u] = phase[u] /\ current'[u] = current[u]
               /\ phase'[t] \in Judged
    BY <2>2 DEF Judge, Judged, Types
  <2>3. CASE TakeBack(t)
    BY <2>3 DEF TakeBack, Types
  <2>4. CASE MarkFoundSent(t)
    BY <2>4 DEF MarkFoundSent, Types
  <2> QED BY <2>1, <2>2, <2>3, <2>4 DEF Recover
<1>3. Bearers(i)' \subseteq Bearers(i)
  BY <1>1, <1>2, BearersOf DEF Bearing, Bearers, Judged
<1>4. lapses[i] \in Nat /\ lapses'[i] \in Nat /\ Fresh(i) \in Nat /\ Fresh(i)' <= Fresh(i) + 1 /\ Fresh(i)' \in Nat
  BY DEF Types, Fresh
<1>5. lapses'[i] = lapses[i] + 1 \/ (lapses'[i] = lapses[i] /\ status'[i] = status[i])
  <2>1. CASE TakeBack(t)
    <3>1. CASE Retakable(current[t])
      <4>1. /\ status' = [status EXCEPT ![current[t]] = "waiting"]
            /\ lapses' = [lapses EXCEPT ![current[t]] = @ + 1]
        BY <2>1, <3>1 DEF TakeBack, Write
      <4> QED BY <4>1 DEF Types
    <3>2. CASE ~Retakable(current[t])
      BY <2>1, <3>2 DEF TakeBack
    <3> QED BY <3>1, <3>2
  <2>2. CASE MarkFoundSent(t)
    BY <2>2 DEF MarkFoundSent, Write, Types
  <2>3. ASSUME NEW j, SelectStale(t) \/ Judge(t, j) \/ StartTimer(t) PROVE UNCHANGED <<status, lapses>>
    BY <2>3 DEF SelectStale, Judge, StartTimer
  <2> QED BY <2>1, <2>2, <2>3 DEF Recover
<1>6. Fresh(i)' - lapses'[i] <= Fresh(i) - lapses[i]
  <2>1. CASE lapses'[i] = lapses[i] + 1
    BY <1>4, <2>1
  <2>2. CASE lapses'[i] = lapses[i] /\ status'[i] = status[i]
    <3>1. Fresh(i)' = Fresh(i)
      BY <2>2 DEF Fresh
    <3> QED BY <1>4, <2>2, <3>1
  <2> QED BY <1>5, <2>1, <2>2
<1> QED BY <1>1, <1>3, <1>6, ShownQuiet

\* Only the UPDATE of a row that still waits makes a call one that may show it.
LEMMA ShownClaim ==
  ASSUME Types, Types', CallSafe, NEW t \in Ticks, Claim(t), NEW i \in Rows, ShownBound(i)
  PROVE  ShownBound(i)'
<1> USE DEF callVars, chainVars
<1>0. UNCHANGED <<shown, lapses>>
  BY DEF Claim, SelectDue, ClaimRow, MissRow, ReadClaimed
<1>1. CASE SelectDue(t) \/ (\E j \in Rows : MissRow(t, j))
  <2>1. /\ UNCHANGED <<status, batch, current>> /\ \A u \in Ticks : u # t => phase'[u] = phase[u]
        /\ phase'[t] \in Between
    <3>1. PICK f, b : phase' = [phase EXCEPT ![t] = Standing(f, b)]
      BY <1>1 DEF SelectDue, MissRow
    <3>2. UNCHANGED <<status, batch, current>>
      BY <1>1 DEF SelectDue, MissRow
    <3> QED BY <3>1, <3>2, StandingType DEF Types
  <2>2. Bearers(i)' \subseteq Bearers(i) /\ Fresh(i)' = Fresh(i)
    BY <2>1, BearersOf DEF Bearing, Between, Bearers, Fresh
  <2>3. Fresh(i)' - lapses'[i] <= Fresh(i) - lapses[i]
    BY <1>0, <2>2 DEF Fresh, Types
  <2> QED BY <1>0, <2>2, <2>3, ShownQuiet
<1>2. ASSUME NEW j \in Rows, ClaimRow(t, j) PROVE ShownBound(i)'
  <2>1. /\ UNCHANGED batch /\ status[j] = "waiting" /\ status' = [status EXCEPT ![j] = "delivering"]
        /\ \A u \in Ticks : u # t => phase'[u] = phase[u] /\ current'[u] = current[u]
        /\ phase'[t] = "claimed" /\ current'[t] = j
    BY <1>2 DEF ClaimRow, Write, StillClaimable, Claimable, Types
  <2>2. CASE j = i
    <3>1. Bearers(i)' \subseteq Bearers(i) \cup {t}
      BY <2>1, BearersOf
    <3>2. Fresh(i) = 1 /\ Fresh(i)' = 0
      BY <2>1, <2>2 DEF Fresh, Types
    <3>3. shown'[i] - lapses'[i] + Fresh(i)' + 1 <= shown[i] - lapses[i] + Fresh(i)
      BY <1>0, <3>2 DEF Types
    <3> QED BY <3>1, <3>3, ShownMore
  <2>3. CASE j # i
    <3>1. Bearers(i)' \subseteq Bearers(i)
      BY <2>1, <2>3, BearersOf DEF Bearers
    <3>2. Fresh(i)' = Fresh(i)
      BY <2>1, <2>3 DEF Fresh, Types
    <3>3. Fresh(i)' - lapses'[i] <= Fresh(i) - lapses[i]
      BY <1>0, <3>2 DEF Fresh, Types
    <3> QED BY <1>0, <3>1, <3>3, ShownQuiet
  <2> QED BY <2>2, <2>3
<1>3. CASE ReadClaimed(t)
  <2>1. /\ UNCHANGED status /\ phase[t] = "claimed"
        /\ \A u \in Ticks : u # t => phase'[u] = phase[u] /\ batch'[u] = batch[u] /\ current'[u] = current[u]
        /\ batch'[t] = batch[t] \cup {current[t]} /\ phase'[t] \in Between
    BY <1>3, StandingType DEF ReadClaimed, Types
  <2>2. Bearers(i)' \subseteq Bearers(i)
    BY <2>1, BearersOf DEF Bearing, Between, Bearers
  <2>3. Fresh(i)' = Fresh(i)
    BY <2>1 DEF Fresh
  <2>4. Fresh(i)' - lapses'[i] <= Fresh(i) - lapses[i]
    BY <1>0, <2>3 DEF Fresh, Types
  <2> QED BY <1>0, <2>2, <2>4, ShownQuiet
<1> QED BY <1>1, <1>2, <1>3 DEF Claim

LEMMA ShownStep ==
  ASSUME Types, Types', CallSafe, [Next]_vars, NEW i \in Rows, ShownBound(i)
  PROVE  ShownBound(i)'
<1> USE DEF callVars, chainVars
<1>0. NoRow \notin Rows
  BY RowsAssumption
<1>1. CASE UNCHANGED vars
  <2>1. Bearers(i)' = Bearers(i) /\ Fresh(i)' = Fresh(i) /\ shown'[i] = shown[i] /\ lapses'[i] = lapses[i]
    BY <1>1 DEF vars, Bearers, Fresh
  <2>2. Fresh(i)' - lapses'[i] <= Fresh(i) - lapses[i]
    BY <2>1 DEF Fresh, Types
  <2>3. QED
    BY <2>1, <2>2, ShownQuiet
<1>2. ASSUME NEW j \in Rows, Create(j) \/ Cancel(j) \/ BecomeDue(j) \/ BecomeStale(j)
      PROVE  ShownBound(i)'
  <2>1. UNCHANGED <<batch, current, phase, shown, lapses>>
    BY <1>2 DEF Create, Cancel, CancelReminder, CancelLater, CancelRows, BecomeDue, BecomeStale
  <2>2. status'[i] \in {"absent", "waiting"} => status[i] \in {"absent", "waiting"}
    <3>1. CASE Create(j) \/ BecomeDue(j) \/ BecomeStale(j)
      BY <3>1 DEF Create, BecomeDue, BecomeStale, Types
    <3>2. ASSUME NEW S, CancelRows(S)
          PROVE  status'[i] \in {"absent", "waiting"} => status[i] \in {"absent", "waiting"}
      BY <3>2 DEF CancelRows
    <3>3. QED
      BY <1>2, <3>1, <3>2 DEF Cancel, CancelReminder, CancelLater
  <2>3. Bearers(i)' = Bearers(i) /\ shown'[i] = shown[i] /\ lapses'[i] = lapses[i]
    BY <2>1 DEF Bearers
  <2>4. Fresh(i)' <= Fresh(i)
    BY <2>2 DEF Fresh
  <2>5. Fresh(i)' - lapses'[i] <= Fresh(i) - lapses[i]
    BY <2>3, <2>4 DEF Fresh, Types
  <2>6. QED
    BY <2>3, <2>5, ShownQuiet
<1>3. ASSUME NEW t \in Ticks, (SelectStale(t) /\ phase[t] = "idle") \/ Recover(t) PROVE ShownBound(i)'
  BY <1>3, ShownRecovery
<1>4. ASSUME NEW t \in Ticks, Claim(t) PROVE ShownBound(i)'
  BY <1>4, ShownClaim
<1>5. ASSUME NEW t \in Ticks,
             \/ (\E j \in Rows : Attempt(t, j)) \/ SkipSent(t) \/ MarkDeliverySent(t) \/ MarkReminderSent(t)
             \/ CloneNextOccurrence(t) \/ NoNextOccurrence(t) \/ MarkDeliveryFailed(t) \/ Lose(t)
      PROVE  ShownBound(i)'
  <2>1. Bearers(i)' \subseteq Bearers(i)
    <3>1. ASSUME NEW j \in Rows, Attempt(t, j) PROVE Bearers(i)' \subseteq Bearers(i)
      <4>1. /\ j \in batch[t] /\ batch'[t] = batch[t] \ {j} /\ current'[t] = j
            /\ \A u \in Ticks : u # t => phase'[u] = phase[u] /\ batch'[u] = batch[u] /\ current'[u] = current[u]
        BY <3>1 DEF Attempt, Types
      <4> QED BY <4>1, BearersOf DEF Bearers
    <3>2. CASE MarkDeliverySent(t) \/ MarkReminderSent(t) \/ MarkDeliveryFailed(t)
      <4>1. /\ UNCHANGED <<batch, current>> /\ \A u \in Ticks : u # t => phase'[u] = phase[u]
            /\ phase'[t] \in Bearing => phase[t] \in Bearing
        BY <3>2 DEF MarkDeliverySent, MarkReminderSent, MarkDeliveryFailed, Types, Bearing
      <4> QED BY <4>1, BearersOf DEF Bearers
    <3>3. CASE SkipSent(t) \/ CloneNextOccurrence(t) \/ NoNextOccurrence(t)
      <4>1. Onward(t) /\ UNCHANGED batch
        BY <3>3 DEF SkipSent, CloneNextOccurrence, NoNextOccurrence
      <4>2. current'[t] = NoRow /\ \A u \in Ticks : u # t => phase'[u] = phase[u] /\ current'[u] = current[u]
        BY <4>1 DEF Onward, Types
      <4> QED BY <1>0, <4>1, <4>2, BearersOf DEF Bearers
    <3>4. CASE Lose(t)
      <4>1. /\ batch'[t] = {} /\ current'[t] = NoRow
            /\ \A u \in Ticks : u # t => phase'[u] = phase[u] /\ batch'[u] = batch[u] /\ current'[u] = current[u]
        BY <3>4 DEF Lose, Types
      <4> QED BY <1>0, <4>1, BearersOf
    <3> QED BY <1>5, <3>1, <3>2, <3>3, <3>4
  <2>2. UNCHANGED <<shown, lapses>>
    BY <1>5 DEF Attempt, SkipSent, MarkDeliverySent, MarkReminderSent, CloneNextOccurrence, NoNextOccurrence,
                MarkDeliveryFailed, Lose
  <2>3. status'[i] \in {"absent", "waiting"} => status[i] \in {"absent", "waiting"}
    <3>1. CASE CloneNextOccurrence(t)
      BY <3>1, RowsAssumption DEF CloneNextOccurrence, Types, Rows
    <3>2. CASE ~CloneNextOccurrence(t)
      BY <1>5, <3>2 DEF Attempt, SkipSent, MarkDeliverySent, MarkReminderSent, NoNextOccurrence,
                        MarkDeliveryFailed, Lose, Write, Types
    <3> QED BY <3>1, <3>2
  <2>4. Fresh(i)' <= Fresh(i)
    BY <2>3 DEF Fresh
  <2>5. Fresh(i)' - lapses'[i] <= Fresh(i) - lapses[i] /\ shown'[i] = shown[i]
    BY <2>2, <2>4 DEF Fresh, Types
  <2> QED BY <2>1, <2>5, ShownQuiet
<1>6. ASSUME NEW t \in Ticks, Deliver(t) PROVE ShownBound(i)'
  <2>1. phase[t] = "sending" /\ UNCHANGED <<status, batch, current, lapses>> /\ Fresh(i)' = Fresh(i)
    BY <1>6 DEF Deliver, Fresh
  <2>2. PICK outcome \in {"delivered", "rejected", "refused"} :
          /\ phase' = [phase EXCEPT ![t] = outcome]
          /\ shown' = IF outcome = "delivered" THEN [shown EXCEPT ![current[t]] = @ + 1] ELSE shown
    BY <1>6 DEF Deliver
  <2>3. CASE outcome = "delivered" /\ current[t] = i
    <3>1. t \in Bearers(i) /\ Bearers(i)' \subseteq Bearers(i) \ {t}
      BY <2>1, <2>2, <2>3 DEF Bearers, Bearing, CallSafe, Types
    <3>2. shown'[i] = shown[i] + 1
      BY <2>2, <2>3 DEF Types
    <3>3. shown'[i] - lapses'[i] + Fresh(i)' <= shown[i] - lapses[i] + Fresh(i) + 1
      BY <2>1, <3>2 DEF Fresh, Types
    <3>4. QED
      BY <3>1, <3>3, ShownLess
  <2>4. CASE outcome # "delivered" \/ current[t] # i
    <3>1. Bearers(i)' \subseteq Bearers(i)
      BY <2>1, <2>2, <2>4 DEF Bearers, Bearing, Types
    <3>2. shown'[i] = shown[i]
      BY <2>2, <2>4 DEF Types
    <3>3. Fresh(i)' - lapses'[i] <= Fresh(i) - lapses[i]
      BY <2>1 DEF Fresh, Types
    <3>4. QED
      BY <3>1, <3>2, <3>3, ShownQuiet
  <2>5. QED
    BY <2>3, <2>4
<1>7. ASSUME NEW t \in Ticks, StoreError(t) PROVE ShownBound(i)'
  <2>1. /\ phase[t] \in {"delivered", "recorded", "marked"} /\ UNCHANGED <<status, batch, current, shown>>
        /\ phase' = [phase EXCEPT ![t] = IF phase[t] = "delivered" THEN "rejected" ELSE "overturned"]
        /\ lapses' = [lapses EXCEPT ![current[t]] = @ + 1] /\ Fresh(i)' = Fresh(i)
    BY <1>7 DEF StoreError, Fresh
  <2>2. CASE current[t] = i
    <3>1. Bearers(i)' \subseteq Bearers(i) \cup {t}
      BY <2>1 DEF Bearers, Types
    <3>2. lapses'[i] = lapses[i] + 1
      BY <2>1, <2>2 DEF Types
    <3>3. shown'[i] - lapses'[i] + Fresh(i)' + 1 <= shown[i] - lapses[i] + Fresh(i)
      BY <2>1, <3>2 DEF Fresh, Types
    <3>4. QED
      BY <3>1, <3>3, ShownMore
  <2>3. CASE current[t] # i
    <3>1. Bearers(i)' \subseteq Bearers(i)
      <4>1. \A u \in Ticks : u # t => phase'[u] = phase[u]
        BY <2>1 DEF Types
      <4>2. QED
        <5>1. \A u \in Ticks : current[u] = i => phase'[u] = phase[u]
          BY <2>3, <4>1
        <5>2. UNCHANGED <<batch, current>>
          BY <2>1
        <5>3. QED
          BY <5>1, <5>2 DEF Bearers
    <3>2. lapses'[i] = lapses[i] /\ shown'[i] = shown[i]
      BY <2>1, <2>3 DEF Types
    <3>3. Fresh(i)' - lapses'[i] <= Fresh(i) - lapses[i]
      BY <2>1, <3>2 DEF Fresh, Types
    <3>4. QED
      BY <3>1, <3>2, <3>3, ShownQuiet
  <2>4. QED
    BY <2>2, <2>3
<1>8. ASSUME NEW t \in Ticks, Reject(t) PROVE ShownBound(i)'
  <2>1. phase[t] \in {"rejected", "refused"} /\ UNCHANGED <<batch, shown, lapses>> /\ Onward(t)
    BY <1>8 DEF Reject
  <2>2. status' = [status EXCEPT ![current[t]] = IF Retried(t) THEN "waiting" ELSE "failed"]
    BY <1>8 DEF Reject, Write
  <2>3. CASE current[t] = i
    <3>1. t \in Bearers(i) /\ Bearers(i)' \subseteq Bearers(i) \ {t}
      BY <1>0, <2>1, <2>3 DEF Bearers, Bearing, Onward, CallSafe, Types
    <3>2. Fresh(i)' <= Fresh(i) + 1
      BY DEF Fresh
    <3>3. shown'[i] - lapses'[i] + Fresh(i)' <= shown[i] - lapses[i] + Fresh(i) + 1
      BY <2>1, <3>2 DEF Fresh, Types
    <3>4. QED
      BY <3>1, <3>3, ShownLess
  <2>4. CASE current[t] # i
    <3>1. Bearers(i)' \subseteq Bearers(i)
      BY <1>0, <2>1, <2>4 DEF Bearers, Onward, Types
    <3>2. Fresh(i)' = Fresh(i)
      BY <2>2, <2>4 DEF Fresh, Types
    <3>3. Fresh(i)' - lapses'[i] <= Fresh(i) - lapses[i] /\ shown'[i] = shown[i]
      BY <2>1, <3>2 DEF Fresh, Types
    <3>4. QED
      BY <3>1, <3>3, ShownQuiet
  <2>5. QED
    BY <2>3, <2>4
<1>9. QED
  BY <1>1, <1>2, <1>3, <1>4, <1>5, <1>6, <1>7, <1>8, NextCases DEF CallWork, Attend, Settle, Excuse
-----------------------------------------------------------------------------
(* Next occurrences, and recorded deliveries.                               *)

HasShown == {"delivered", "recorded", "marked"}
HasRecorded == {"recorded", "marked", "overturned"}

\* The calls that have shown a row and may yet create its next occurrence, and
\* those whose delivery of it is on record.
Pending(i) == {t \in Ticks : current[t] = i /\ phase[t] \in HasShown}
Recorders(i) == {t \in Ticks : current[t] = i /\ phase[t] \in HasRecorded}

NextBound(i) == Cardinality(NextOf(i)) + Cardinality(Pending(i)) <= shown[i]
RecordedBound(i) == Cardinality(Recorders(i)) <= sent[i]

LEMMA CallsFinite ==
  ASSUME NEW i
  PROVE  /\ IsFiniteSet(Pending(i)) /\ IsFiniteSet(Pending(i)') /\ IsFiniteSet(NextOf(i)) /\ IsFiniteSet(NextOf(i)')
         /\ IsFiniteSet(Recorders(i)) /\ IsFiniteSet(Recorders(i)')
<1>1. /\ Pending(i) \subseteq Ticks /\ Pending(i)' \subseteq Ticks /\ Recorders(i) \subseteq Ticks /\ Recorders(i)' \subseteq Ticks
      /\ NextOf(i) \subseteq Rows /\ NextOf(i)' \subseteq Rows
  BY DEF Pending, Recorders, NextOf
<1>2. QED
  BY <1>1, FiniteAssumption, FS_Subset

\* Only Deliver makes a call one that has shown its row, only MarkDeliverySent
\* one that has recorded it.
LEMMA PhaseStep ==
  ASSUME Types, [Next]_vars, NEW u \in Ticks
  PROVE  /\ phase'[u] \in HasShown /\ ~Deliver(u) => phase[u] \in HasShown /\ current'[u] = current[u]
         /\ phase'[u] \in HasRecorded /\ ~MarkDeliverySent(u) => phase[u] \in HasRecorded /\ current'[u] = current[u]
<1> USE DEF HasShown, HasRecorded, callVars
<1> DEFINE Kept == phase'[u] = phase[u] /\ current'[u] = current[u]
           Other == phase'[u] \notin HasShown \cup HasRecorded
<1>1. CASE UNCHANGED <<phase, current>>
  BY <1>1
<1>2. ASSUME NEW t \in Ticks, SelectStale(t) \/ Recover(t) PROVE Other \/ Kept
  <2>1. ASSUME NEW v \in Ticks, v # t PROVE phase'[v] = phase[v] /\ current'[v] = current[v]
    BY <1>2, <2>1 DEF SelectStale, Recover, Judge, TakeBack, MarkFoundSent, StartTimer, Types
  <2>2. phase'[t] \in {"idle", "recovering"} \cup Judged
    BY <1>2 DEF SelectStale, Recover, Judge, TakeBack, MarkFoundSent, StartTimer, Types, Judged
  <2> QED BY <2>1, <2>2 DEF Judged
<1>3. ASSUME NEW t \in Ticks, Claim(t) \/ Lose(t) PROVE Other \/ Kept
  <2>1. ASSUME NEW v \in Ticks, v # t PROVE phase'[v] = phase[v] /\ current'[v] = current[v]
    BY <1>3, <2>1 DEF Claim, SelectDue, ClaimRow, MissRow, ReadClaimed, Lose, Types
  <2>2. phase'[t] \in Between \cup {"claimed"}
    <3>1. ASSUME NEW f, NEW b, phase' = [phase EXCEPT ![t] = Standing(f, b)] PROVE phase'[t] \in Between
      BY <3>1, StandingType DEF Types
    <3>2. CASE \E i \in Rows : ClaimRow(t, i)
      BY <3>2 DEF ClaimRow, Types
    <3>3. CASE Lose(t)
      BY <3>3 DEF Lose, Types, Between
    <3>4. CASE SelectDue(t) \/ ReadClaimed(t) \/ \E i \in Rows : MissRow(t, i)
      BY <3>1, <3>4 DEF SelectDue, ReadClaimed, MissRow
    <3> QED BY <1>3, <3>2, <3>3, <3>4 DEF Claim
  <2> QED BY <2>1, <2>2 DEF Between
<1>4. ASSUME NEW t \in Ticks, (\E i \in Rows : Attempt(t, i)) \/ Onward(t) PROVE Other \/ Kept
  <2>1. ASSUME NEW v \in Ticks, v # t PROVE phase'[v] = phase[v] /\ current'[v] = current[v]
    BY <1>4, <2>1 DEF Attempt, Onward, Types
  <2>2. phase'[t] \in Between \cup {"skipping", "sending"}
    BY <1>4, StandingType DEF Attempt, Onward, Types
  <2> QED BY <2>1, <2>2 DEF Between
<1>5. ASSUME NEW t \in Ticks,
             Deliver(t) \/ MarkDeliverySent(t) \/ MarkReminderSent(t) \/ StoreError(t) \/ MarkDeliveryFailed(t)
      PROVE  Kept \/ t = u
  BY <1>5 DEF Deliver, MarkDeliverySent, MarkReminderSent, StoreError, MarkDeliveryFailed, Types
<1>6. CASE Deliver(u) \/ MarkDeliverySent(u) \/ MarkReminderSent(u) \/ StoreError(u) \/ MarkDeliveryFailed(u)
  BY <1>6 DEF Deliver, MarkDeliverySent, MarkReminderSent, StoreError, MarkDeliveryFailed, Types
<1>7. ASSUME NEW t \in Ticks, SkipSent(t) \/ Reject(t) \/ CloneNextOccurrence(t) \/ NoNextOccurrence(t) PROVE Onward(t)
  BY <1>7 DEF SkipSent, Reject, CloneNextOccurrence, NoNextOccurrence
<1>8. UNCHANGED vars \/ (\E i \in Rows : Create(i) \/ Cancel(i) \/ BecomeDue(i) \/ BecomeStale(i))
      => UNCHANGED <<phase, current>>
  BY DEF vars, Create, Cancel, CancelReminder, CancelLater, CancelRows, BecomeDue, BecomeStale
<1> HIDE DEF Kept, Other
<1>9. ASSUME NEW t \in Ticks, CallWork(t)
      PROVE  \/ Kept \/ Other
             \/ Deliver(u) \/ MarkDeliverySent(u) \/ MarkReminderSent(u) \/ StoreError(u) \/ MarkDeliveryFailed(u)
  BY <1>4, <1>5, <1>7, <1>9 DEF CallWork, Attend, Settle, Excuse
<1>10. \/ Kept \/ Other \/ UNCHANGED <<phase, current>>
       \/ Deliver(u) \/ MarkDeliverySent(u) \/ MarkReminderSent(u) \/ StoreError(u) \/ MarkDeliveryFailed(u)
  BY <1>2, <1>3, <1>8, <1>9, NextCases
<1> QED BY <1>1, <1>6, <1>10 DEF Kept, Other

LEMMA RecordedStep ==
  ASSUME Types, Types', CallSafe, [Next]_vars, NEW i \in Rows, RecordedBound(i)
  PROVE  RecordedBound(i)'
<1> USE DEF callVars, chainVars
<1>1. sent[i] \in Int /\ sent'[i] \in Int
  BY DEF Types
<1>2. ASSUME NEW t \in Ticks, MarkDeliverySent(t) PROVE RecordedBound(i)'
  <2>1. /\ phase[t] = "delivered" /\ phase' = [phase EXCEPT ![t] = "recorded"]
        /\ sent' = [sent EXCEPT ![current[t]] = @ + 1] /\ UNCHANGED current
    BY <1>2 DEF MarkDeliverySent
  <2>2. \A u \in Ticks : u # t => phase'[u] = phase[u]
    BY <2>1 DEF Types
  <2>3. CASE current[t] = i
    <3>1. Recorders(i)' \subseteq Recorders(i) \cup {t}
      BY <2>1, <2>2 DEF Recorders
    <3>2. sent'[i] = sent[i] + 1
      BY <2>1, <2>3 DEF Types
    <3>3. /\ Cardinality(Recorders(i)') \in Nat /\ Cardinality(Recorders(i)) \in Nat
          /\ Cardinality(Recorders(i)') <= Cardinality(Recorders(i)) + 1
      BY <3>1, OneMore, CallsFinite
    <3>4. QED
      BY <1>1, <3>2, <3>3 DEF RecordedBound
  <2>4. CASE current[t] # i
    <3>1. Recorders(i)' \subseteq Recorders(i)
      BY <2>1, <2>2, <2>4 DEF Recorders
    <3>2. sent'[i] = sent[i]
      BY <2>1, <2>4 DEF Types
    <3>3. /\ Cardinality(Recorders(i)') \in Nat /\ Cardinality(Recorders(i)) \in Nat
          /\ Cardinality(Recorders(i)') <= Cardinality(Recorders(i))
      BY <3>1, Smaller, CallsFinite
    <3>4. QED
      BY <1>1, <3>2, <3>3 DEF RecordedBound
  <2>5. QED
    BY <2>3, <2>4
<1>3. ASSUME NEW t \in Ticks, MarkDeliveryFailed(t), current[t] = i PROVE RecordedBound(i)'
  <2>1. /\ phase[t] = "overturned" /\ phase' = [phase EXCEPT ![t] = "rejected"]
        /\ sent' = [sent EXCEPT ![current[t]] = @ - 1] /\ UNCHANGED current
    BY <1>3 DEF MarkDeliveryFailed
  <2>2. (\A u \in Ticks : u # t => phase'[u] = phase[u]) /\ phase'[t] = "rejected"
    BY <2>1 DEF Types
  <2>3. t \in Recorders(i) /\ Recorders(i)' \subseteq Recorders(i) \ {t}
    BY <1>3, <2>1, <2>2 DEF Recorders, HasRecorded
  <2>4. sent'[i] = sent[i] - 1
    BY <1>3, <2>1 DEF Types
  <2>5. /\ Cardinality(Recorders(i)') \in Nat /\ Cardinality(Recorders(i)) \in Nat
        /\ Cardinality(Recorders(i)') + 1 <= Cardinality(Recorders(i))
    BY <2>3, OneLess, CallsFinite
  <2>6. QED
    BY <1>1, <2>4, <2>5 DEF RecordedBound
<1>4. CASE /\ \A t \in Ticks : ~MarkDeliverySent(t)
           /\ \A t \in Ticks : MarkDeliveryFailed(t) => current[t] # i
  <2>1. Recorders(i)' \subseteq Recorders(i)
    BY <1>4, PhaseStep DEF Recorders
  <2>2. sent'[i] = sent[i]
    <3>1. CASE \E t \in Ticks : MarkDeliveryFailed(t)
      BY <1>4, <3>1 DEF MarkDeliveryFailed, Types
    <3>2. CASE \A t \in Ticks : ~MarkDeliveryFailed(t)
      <4>1. UNCHANGED sent
        BY <1>4, <3>2, Frame
      <4>2. QED
        BY <4>1
    <3>3. QED
      BY <3>1, <3>2
  <2>3. /\ Cardinality(Recorders(i)') \in Nat /\ Cardinality(Recorders(i)) \in Nat
        /\ Cardinality(Recorders(i)') <= Cardinality(Recorders(i))
    BY <2>1, Smaller, CallsFinite
  <2>4. QED
    BY <1>1, <2>2, <2>3 DEF RecordedBound
<1>5. QED
  BY <1>2, <1>3, <1>4

LEMMA NextStep ==
  ASSUME Types, Types', CallSafe, [Next]_vars, NEW i \in Rows, NextBound(i)
  PROVE  NextBound(i)'
<1> USE DEF callVars, chainVars
<1>1. shown[i] \in Nat /\ shown'[i] \in Nat /\ NoRow \notin Rows
  BY RowsAssumption DEF Types
<1>2. ASSUME NEW t \in Ticks, Deliver(t) PROVE NextBound(i)'
  <2>1. NextOf(i)' = NextOf(i) /\ Cardinality(NextOf(i)) \in Nat /\ UNCHANGED current
    BY <1>2, CallsFinite, FS_CardinalityType DEF Deliver, NextOf
  <2>2. PICK outcome \in {"delivered", "rejected", "refused"} :
          /\ phase' = [phase EXCEPT ![t] = outcome]
          /\ shown' = IF outcome = "delivered" THEN [shown EXCEPT ![current[t]] = @ + 1] ELSE shown
    BY <1>2 DEF Deliver
  <2>3. (\A u \in Ticks : u # t => phase'[u] = phase[u]) /\ phase'[t] = outcome
    BY <2>2 DEF Types
  <2>4. CASE outcome = "delivered" /\ current[t] = i
    <3>1. Pending(i)' \subseteq Pending(i) \cup {t}
      BY <2>1, <2>3 DEF Pending
    <3>2. shown'[i] = shown[i] + 1
      BY <2>2, <2>4 DEF Types
    <3>3. /\ Cardinality(Pending(i)') \in Nat /\ Cardinality(Pending(i)) \in Nat
          /\ Cardinality(Pending(i)') <= Cardinality(Pending(i)) + 1
      BY <3>1, OneMore, CallsFinite
    <3>4. QED
      BY <1>1, <2>1, <3>2, <3>3 DEF NextBound
  <2>5. CASE outcome # "delivered" \/ current[t] # i
    <3>1. Pending(i)' \subseteq Pending(i)
      BY <2>1, <2>3, <2>5 DEF Pending, HasShown
    <3>2. shown'[i] = shown[i]
      BY <2>2, <2>5 DEF Types
    <3>3. /\ Cardinality(Pending(i)') \in Nat /\ Cardinality(Pending(i)) \in Nat
          /\ Cardinality(Pending(i)') <= Cardinality(Pending(i))
      BY <3>1, Smaller, CallsFinite
    <3>4. QED
      BY <1>1, <2>1, <3>2, <3>3 DEF NextBound
  <2>6. QED
    BY <2>4, <2>5
<1>3. ASSUME NEW t \in Ticks, CloneNextOccurrence(t), current[t] = i PROVE NextBound(i)'
  <2>1. PICK c \in CloneRows : source' = [source EXCEPT ![c] = i]
    BY <1>3 DEF CloneNextOccurrence
  <2>2. NextOf(i)' \subseteq NextOf(i) \cup {c}
    BY <2>1 DEF NextOf, Types
  <2>3. phase[t] = "marked" /\ Onward(t) /\ UNCHANGED shown
    BY <1>3 DEF CloneNextOccurrence
  <2>4. (\A u \in Ticks : u # t => phase'[u] = phase[u] /\ current'[u] = current[u]) /\ current'[t] = NoRow
    BY <2>3 DEF Onward, Types
  <2>5. t \in Pending(i) /\ Pending(i)' \subseteq Pending(i) \ {t}
    BY <1>1, <1>3, <2>3, <2>4 DEF Pending, HasShown
  <2>6. /\ Cardinality(Pending(i)') \in Nat /\ Cardinality(Pending(i)) \in Nat
        /\ Cardinality(Pending(i)') + 1 <= Cardinality(Pending(i))
    BY <2>5, OneLess, CallsFinite
  <2>7. /\ Cardinality(NextOf(i)') \in Nat /\ Cardinality(NextOf(i)) \in Nat
        /\ Cardinality(NextOf(i)') <= Cardinality(NextOf(i)) + 1
    BY <2>2, OneMore, CallsFinite
  <2>8. QED
    BY <1>1, <2>3, <2>6, <2>7 DEF NextBound
<1>4. CASE /\ \A t \in Ticks : ~Deliver(t)
           /\ \A t \in Ticks : CloneNextOccurrence(t) => current[t] # i
  <2>1. Pending(i)' \subseteq Pending(i)
    BY <1>4, PhaseStep DEF Pending
  <2>2. UNCHANGED shown
    BY <1>4, Frame
  <2>3. NextOf(i)' \subseteq NextOf(i)
    <3>1. CASE \E t \in Ticks : CloneNextOccurrence(t)
      <4>1. PICK c \in CloneRows, j \in Rows \cup {NoRow} : j # i /\ source' = [source EXCEPT ![c] = j]
        BY <1>4, <3>1 DEF CloneNextOccurrence, Types
      <4>2. QED
        BY <4>1 DEF NextOf, Types
    <3>2. CASE \A t \in Ticks : ~CloneNextOccurrence(t)
      <4>1. UNCHANGED source
        BY <3>2, Frame
      <4>2. QED
        BY <4>1 DEF NextOf
    <3>3. QED
      BY <3>1, <3>2
  <2>4. /\ Cardinality(Pending(i)') \in Nat /\ Cardinality(Pending(i)) \in Nat
        /\ Cardinality(Pending(i)') <= Cardinality(Pending(i))
        /\ Cardinality(NextOf(i)') \in Nat /\ Cardinality(NextOf(i)) \in Nat
        /\ Cardinality(NextOf(i)') <= Cardinality(NextOf(i))
    BY <2>1, <2>3, Smaller, CallsFinite
  <2>5. QED
    BY <1>1, <2>2, <2>4 DEF NextBound
<1>5. QED
  BY <1>2, <1>3, <1>4

-----------------------------------------------------------------------------
(* Who may write the status of a row.                                       *)

\* A row that was never taken back is held by one call at most, and by none while
\* it waits or has failed or been cancelled; the call that has sent it is done.  If
\* a delivery of it is recorded, it is claimed or sent, and the call that holds it
\* has recorded it; a call that takes a row for delivered has seen that record.
Done(t, i) == current[t] = i /\ phase[t] \in {"recorded", "marked"}

Sole(i) ==
  lapses[i] = 0 =>
    /\ \A t, u \in Ticks : Holds(t, i) /\ Holds(u, i) => t = u
    /\ status[i] \in {"absent", "waiting", "failed", "cancelled"} => \A t \in Ticks : ~Holds(t, i)
    /\ status[i] = "sent" => \A t \in Ticks : Holds(t, i) => current[t] = i /\ phase[t] = "marked"
    /\ sent[i] > 0 => status[i] \in {"delivering", "sent"} /\ \A t \in Ticks : Holds(t, i) => Done(t, i)
    /\ \A t \in Ticks : current[t] = i /\ phase[t] = "known sent" => sent[i] > 0

LEMMA NoLapse == \A x, y \in Nat : (x <= y /\ y = 0 => x = 0) /\ (y = x + 1 => y # 0)
OBVIOUS

LEMMA LapsesGrow ==
  ASSUME Types, [Next]_vars, NEW i \in Rows
  PROVE  lapses[i] <= lapses'[i]
<1>0. lapses[i] \in Nat
  BY DEF Types
<1>1. CASE UNCHANGED lapses
  BY <1>0, <1>1
<1>2. ASSUME NEW t \in Ticks, TakeBack(t) \/ MarkFoundSent(t) \/ StoreError(t) PROVE lapses[i] <= lapses'[i]
  <2>1. lapses' = lapses \/ lapses' = [lapses EXCEPT ![current[t]] = @ + 1]
    <3>1. CASE TakeBack(t)
      BY <3>1 DEF TakeBack
    <3>2. CASE MarkFoundSent(t)
      BY <3>2 DEF MarkFoundSent
    <3>3. CASE StoreError(t)
      BY <3>3 DEF StoreError
    <3> QED BY <1>2, <3>1, <3>2, <3>3
  <2>2. lapses'[i] = lapses[i] \/ lapses'[i] = lapses[i] + 1
    BY <2>1 DEF Types
  <2> HIDE <1>2
  <2> QED BY <1>0, <2>2
<1> QED BY <1>1, <1>2, Frame

\* No step disturbs this that leaves the status of a row and its record alone and
\* gives it to no other call, unless the call that has sent it goes back, or that
\* creates or cancels it while it waits.
LEMMA SoleKept ==
  ASSUME Types, Types', NEW i \in Rows, Sole(i), lapses[i] <= lapses'[i], sent'[i] = sent[i],
         status'[i] = status[i] \/ (status[i] \in {"absent", "waiting"} /\ status'[i] \in {"absent", "waiting", "cancelled"}),
         \A u \in Ticks : Holds(u, i)' => Holds(u, i),
         \A u \in Ticks : Holds(u, i)' /\ Done(u, i) => current'[u] = i /\ phase'[u] = phase[u],
         \A u \in Ticks : current'[u] = i /\ phase'[u] = "known sent" =>
                            sent[i] > 0 \/ (current[u] = i /\ phase[u] = "known sent")
  PROVE  Sole(i)'
<1>1. lapses[i] \in Nat /\ lapses'[i] \in Nat
  BY DEF Types
<1>2. CASE lapses'[i] = 0
  <2>1. lapses[i] = 0
    BY <1>1, <1>2, NoLapse
  <2>2. \A t, u \in Ticks : Holds(t, i)' /\ Holds(u, i)' => t = u
    BY <2>1 DEF Sole
  <2>3. status'[i] \in {"absent", "waiting", "failed", "cancelled"} => \A t \in Ticks : ~Holds(t, i)'
    BY <2>1 DEF Sole
  <2>4. status'[i] = "sent" => \A t \in Ticks : Holds(t, i)' => current'[t] = i /\ phase'[t] = "marked"
    BY <2>1 DEF Sole, Done
  <2>5. sent'[i] > 0 => status'[i] \in {"delivering", "sent"} /\ \A t \in Ticks : Holds(t, i)' => Done(t, i)'
    BY <2>1 DEF Sole, Done
  <2>6. \A t \in Ticks : current'[t] = i /\ phase'[t] = "known sent" => sent'[i] > 0
    BY <2>1 DEF Sole
  <2> QED BY <2>2, <2>3, <2>4, <2>5, <2>6 DEF Sole
<1> QED BY <1>2 DEF Sole

\* A call that writes the status of a row that it holds, and lets go of it or has
\* sent it.
LEMMA SoleWritten ==
  ASSUME Types, Types', NEW i \in Rows, Sole(i), lapses'[i] = lapses[i], sent'[i] = sent[i],
         NEW t \in Ticks, Holds(t, i), current[t] = i => phase[t] # "known sent",
         \A u \in Ticks : u # t => (Holds(u, i)' => Holds(u, i)) /\ current'[u] = current[u] /\ phase'[u] = phase[u],
         current'[t] = i => phase'[t] # "known sent",
         \/ ~Holds(t, i)' /\ (sent[i] > 0 => ~Done(t, i))
         \/ status'[i] = "sent" /\ current'[t] = i /\ phase'[t] = "marked"
  PROVE  Sole(i)'
<1>1. CASE lapses[i] = 0
  <2>1. \A u \in Ticks : u # t => ~Holds(u, i)
    BY <1>1 DEF Sole
  <2>2. \A u \in Ticks : Holds(u, i)' => u = t
    BY <2>1
  <2>3. \A u \in Ticks : current'[u] = i /\ phase'[u] = "known sent" => sent'[i] > 0
    BY <1>1 DEF Sole
  <2>4. CASE ~Holds(t, i)' /\ (sent[i] > 0 => ~Done(t, i))
    <3>1. ~(sent'[i] > 0)
      BY <1>1, <2>4 DEF Sole
    <3> QED BY <2>2, <2>3, <2>4, <3>1 DEF Sole
  <2>5. CASE status'[i] = "sent" /\ current'[t] = i /\ phase'[t] = "marked"
    BY <2>2, <2>3, <2>5 DEF Sole, Done
  <2> QED BY <2>4, <2>5
<1> QED BY <1>1 DEF Sole

\* A row that has lapsed is not spoken of.
LEMMA SoleLapsed ==
  ASSUME Types, Types', NEW i \in Rows, lapses'[i] = lapses[i] + 1
  PROVE  Sole(i)'
<1>1. lapses[i] \in Nat /\ lapses'[i] \in Nat
  BY DEF Types
<1>2. lapses'[i] # 0
  BY <1>1, NoLapse
<1> QED BY <1>2 DEF Sole

LEMMA SoleRecovery ==
  ASSUME Types, Types', CallSafe, NEW t \in Ticks, (SelectStale(t) /\ phase[t] = "idle") \/ Recover(t),
         NEW i \in Rows, Sole(i), lapses[i] <= lapses'[i]
  PROVE  Sole(i)'
<1> USE DEF callVars, chainVars
<1>0. NoRow \notin Rows
  BY RowsAssumption
<1>1. UNCHANGED <<batch, sent>>
  BY DEF SelectStale, Recover, Judge, TakeBack, MarkFoundSent, StartTimer
<1>2. CASE (SelectStale(t) /\ phase[t] = "idle") \/ StartTimer(t)
  <2>1. /\ UNCHANGED <<status, current>>
        /\ \A u \in Ticks : u # t => phase'[u] = phase[u]
    BY <1>2 DEF SelectStale, StartTimer, Types
  <2>2. current[t] = NoRow
    <3>1. phase[t] \in {"idle", "recovering"}
      BY <1>2 DEF StartTimer, Recovered
    <3> QED BY <3>1 DEF CallSafe, Between
  <2>3. \A u \in Ticks : current[u] = i => u # t
    BY <1>0, <2>2
  <2>4. \A u \in Ticks : Holds(u, i)' => Holds(u, i)
    BY <1>1, <2>1, <2>3 DEF Holds
  <2> QED BY <1>1, <2>1, <2>3, <2>4, SoleKept DEF Done
<1>3. ASSUME NEW j \in Rows, Judge(t, j) PROVE Sole(i)'
  <2>1. /\ UNCHANGED status /\ current[t] = NoRow /\ current'[t] = j
        /\ phase'[t] \in Judged /\ (phase'[t] = "known sent" => sent[j] > 0)
        /\ \A u \in Ticks : u # t => phase'[u] = phase[u] /\ current'[u] = current[u]
    <3>1. /\ UNCHANGED status /\ phase[t] = "recovering" /\ current' = [current EXCEPT ![t] = j]
          /\ phase' = [phase EXCEPT ![t] = IF sent[j] > 0 THEN "known sent" ELSE "known lost"]
      BY <1>3 DEF Judge
    <3>2. phase'[t] = IF sent[j] > 0 THEN "known sent" ELSE "known lost"
      BY <3>1 DEF Types
    <3>3. phase'[t] \in Judged /\ (phase'[t] = "known sent" => sent[j] > 0)
      BY <3>2 DEF Judged
    <3> QED BY <3>1, <3>3 DEF CallSafe, Between, Types
  <2>2. Holds(t, i)' => i \in batch[t]
    BY <1>1, <2>1 DEF Holds
  <2>3. \A u \in Ticks : Holds(u, i)' => Holds(u, i)
    BY <1>1, <2>1, <2>2 DEF Holds
  <2>4. \A u \in Ticks : Holds(u, i)' /\ Done(u, i) => current'[u] = i /\ phase'[u] = phase[u]
    BY <1>0, <2>1 DEF Done
  <2>5. \A u \in Ticks : current'[u] = i /\ phase'[u] = "known sent" =>
                            sent[i] > 0 \/ (current[u] = i /\ phase[u] = "known sent")
    BY <2>1
  <2> QED BY <1>1, <2>1, <2>3, <2>4, <2>5, SoleKept
<1>4. CASE TakeBack(t) \/ MarkFoundSent(t)
  <2>1. /\ phase[t] \in Judged /\ current'[t] = NoRow
        /\ \A u \in Ticks : u # t => phase'[u] = phase[u] /\ current'[u] = current[u]
    BY <1>4 DEF TakeBack, MarkFoundSent, Judged, Types
  <2>2. status'[i] = status[i] \/ lapses'[i] = lapses[i] + 1
    <3>1. CASE TakeBack(t)
      <4>1. UNCHANGED status \/ (/\ status' = [status EXCEPT ![current[t]] = "waiting"]
                                 /\ lapses' = [lapses EXCEPT ![current[t]] = @ + 1])
        BY <3>1 DEF TakeBack, Write
      <4> QED BY <4>1 DEF Types
    <3>2. CASE MarkFoundSent(t)
      <4>1. /\ status' = [status EXCEPT ![current[t]] = "sent"]
            /\ lapses' = IF status[current[t]] = "sent" THEN lapses ELSE [lapses EXCEPT ![current[t]] = @ + 1]
        BY <3>2 DEF MarkFoundSent, Write
      <4> QED BY <4>1 DEF Types
    <3> QED BY <1>4, <3>1, <3>2
  <2>3. \A u \in Ticks : Holds(u, i)' => Holds(u, i)
    BY <1>0, <1>1, <2>1 DEF Holds
  <2>4. \A u \in Ticks : Holds(u, i)' /\ Done(u, i) => current'[u] = i /\ phase'[u] = phase[u]
    BY <2>1 DEF Done, Judged
  <2>5. \A u \in Ticks : current'[u] = i /\ phase'[u] = "known sent" =>
                            sent[i] > 0 \/ (current[u] = i /\ phase[u] = "known sent")
    BY <1>0, <2>1
  <2>6. CASE status'[i] = status[i]
    BY <1>1, <2>3, <2>4, <2>5, <2>6, SoleKept
  <2> QED BY <2>2, <2>6, SoleLapsed
<1> QED BY <1>2, <1>3, <1>4 DEF Recover

LEMMA SoleClaim ==
  ASSUME Types, Types', CallSafe, NEW t \in Ticks, Claim(t), NEW i \in Rows, Sole(i)
  PROVE  Sole(i)'
<1> USE DEF callVars, chainVars
<1>0. UNCHANGED <<sent, lapses>> /\ lapses[i] \in Nat /\ lapses[i] <= lapses'[i]
  <2>1. UNCHANGED <<sent, lapses>>
    BY DEF Claim, SelectDue, ClaimRow, MissRow, ReadClaimed
  <2>2. lapses[i] \in Nat /\ lapses'[i] = lapses[i]
    BY <2>1 DEF Types
  <2> QED BY <2>1, <2>2
<1>1. CASE SelectDue(t) \/ (\E j \in Rows : MissRow(t, j))
  <2>1. /\ UNCHANGED <<status, batch, current>> /\ current[t] = NoRow
    BY <1>1 DEF SelectDue, MissRow, Recovered, CallSafe, Between
  <2>2. \A u \in Ticks : u # t => phase'[u] = phase[u]
    BY <1>1 DEF SelectDue, MissRow, Types
  <2> QED BY <1>0, <2>1, <2>2, RowsAssumption, SoleKept DEF Holds, Done
<1>2. ASSUME NEW j \in Rows, ClaimRow(t, j) PROVE Sole(i)'
  <2>1. /\ UNCHANGED batch /\ status[j] = "waiting" /\ status' = [status EXCEPT ![j] = "delivering"]
        /\ \A u \in Ticks : u # t => phase'[u] = phase[u] /\ current'[u] = current[u]
        /\ phase'[t] = "claimed" /\ current'[t] = j /\ current[t] = NoRow
    BY <1>2 DEF ClaimRow, Write, StillClaimable, Claimable, Types, CallSafe, Between
  <2>2. \A u \in Ticks : current'[u] = i /\ phase'[u] = "known sent" => current[u] = i /\ phase[u] = "known sent"
    BY <2>1
  <2>3. CASE j = i
    <3>1. lapses[i] = 0 => ~(sent[i] > 0) /\ \A u \in Ticks : ~Holds(u, i)
      BY <2>1, <2>3 DEF Sole
    <3>2. \A u \in Ticks : u # t => (Holds(u, i)' => Holds(u, i))
      BY <2>1 DEF Holds
    <3>3. status'[i] = "delivering"
      BY <2>1, <2>3 DEF Types
    <3>4. CASE lapses[i] = 0
      <4>1. \A u \in Ticks : Holds(u, i)' => u = t
        BY <3>1, <3>2, <3>4
      <4>2. ~(sent'[i] > 0) /\ lapses'[i] = 0
        BY <1>0, <3>1, <3>4
      <4>3. \A u \in Ticks : ~(current'[u] = i /\ phase'[u] = "known sent")
        BY <2>2, <3>1, <3>4 DEF Sole
      <4> QED BY <3>3, <4>1, <4>2, <4>3 DEF Sole
    <3> QED BY <1>0, <3>4 DEF Sole
  <2>4. CASE j # i
    <3>1. status'[i] = status[i]
      BY <2>1, <2>4 DEF Types
    <3>2. \A u \in Ticks : Holds(u, i)' => Holds(u, i)
      BY <2>1, <2>4 DEF Holds
    <3>3. \A u \in Ticks : Holds(u, i)' /\ Done(u, i) => current'[u] = i /\ phase'[u] = phase[u]
      BY <2>1, RowsAssumption DEF Done
    <3> QED BY <1>0, <2>2, <3>1, <3>2, <3>3, SoleKept
  <2> QED BY <2>3, <2>4
<1>3. CASE ReadClaimed(t)
  <2>1. /\ UNCHANGED status /\ phase[t] = "claimed" /\ current'[t] = NoRow
        /\ \A u \in Ticks : u # t => phase'[u] = phase[u] /\ batch'[u] = batch[u] /\ current'[u] = current[u]
        /\ batch'[t] = batch[t] \cup {current[t]}
    BY <1>3 DEF ReadClaimed, Types
  <2>2. \A u \in Ticks : Holds(u, i)' => Holds(u, i)
    BY <2>1, RowsAssumption DEF Holds, Judged
  <2>3. \A u \in Ticks : Done(u, i) => u # t
    BY <2>1 DEF Done
  <2> QED BY <1>0, <2>1, <2>2, <2>3, RowsAssumption, SoleKept DEF Done
<1> QED BY <1>1, <1>2, <1>3 DEF Claim

LEMMA SoleRecorded ==
  ASSUME Types, Types', CallSafe, NEW i \in Rows, Sole(i), RecordedBound(i), NEW t \in Ticks,
         MarkDeliverySent(t) \/ MarkDeliveryFailed(t)
  PROVE  Sole(i)'
<1> USE DEF callVars, chainVars
<1>0. /\ UNCHANGED <<status, batch, current, lapses>> /\ phase[t] \in {"delivered", "overturned"}
      /\ phase'[t] \in {"recorded", "rejected"} /\ \A u \in Ticks : u # t => phase'[u] = phase[u]
  BY DEF MarkDeliverySent, MarkDeliveryFailed, Types
<1>1. \A u \in Ticks : Holds(u, i)' => Holds(u, i)
  BY <1>0 DEF Holds, Judged
<1>2. ~Done(t, i) /\ \A u \in Ticks : current'[u] = i /\ phase'[u] = "known sent" => current[u] = i /\ phase[u] = "known sent"
  BY <1>0 DEF Done
<1>3. Cardinality(Recorders(i)) \in Nat /\ Cardinality(Recorders(i)) <= sent[i] /\ sent[i] \in Int
  BY CallsFinite, FS_CardinalityType DEF RecordedBound, Types
<1>4. CASE current[t] # i
  <2>1. sent'[i] = sent[i]
    BY <1>4 DEF MarkDeliverySent, MarkDeliveryFailed, Types
  <2>2. lapses[i] <= lapses'[i]
    BY <1>0 DEF Types
  <2> QED BY <1>0, <1>1, <1>2, <2>1, <2>2, SoleKept DEF Done
<1>5. CASE current[t] = i /\ lapses[i] = 0
  <2>1. Holds(t, i) /\ \A u \in Ticks : Holds(u, i) => u = t
    BY <1>0, <1>5 DEF Holds, Judged, Sole
  <2>2. \A u \in Ticks : Holds(u, i)' => u = t
    BY <1>1, <2>1
  <2>3. status[i] \in Status /\ status[i] = "delivering"
    BY <1>0, <1>5, <2>1 DEF Sole, Types, Status
  <2>4. CASE MarkDeliverySent(t)
    <3>1. sent'[i] = sent[i] + 1 /\ Done(t, i)'
      BY <1>5, <2>4 DEF MarkDeliverySent, Types, Done
    <3>2. sent'[i] > 0
      BY <1>3, <3>1
    <3> QED BY <1>0, <2>2, <2>3, <3>1, <3>2 DEF Sole
  <2>5. CASE MarkDeliveryFailed(t)
    <3>1. t \in Recorders(i)
      BY <1>5, <2>5 DEF MarkDeliveryFailed, Recorders, HasRecorded
    <3>2. {} \subseteq Recorders(i) \ {t} /\ IsFiniteSet(Recorders(i))
      BY CallsFinite
    <3>3. Cardinality({}) + 1 <= Cardinality(Recorders(i))
      BY <3>1, <3>2, OneLess
    <3>4. sent[i] > 0
      BY <1>3, <3>3, FS_EmptySet
    <3> QED BY <1>2, <1>5, <2>1, <3>4 DEF Sole
  <2> QED BY <2>4, <2>5
<1>6. CASE lapses[i] # 0
  BY <1>0, <1>6 DEF Sole
<1> QED BY <1>4, <1>5, <1>6

LEMMA SoleDelivery ==
  ASSUME Types, Types', CallSafe, NEW t \in Ticks, Attend(t) \/ Settle(t) \/ Excuse(t) \/ Lose(t),
         NEW i \in Rows, Sole(i), RecordedBound(i)
  PROVE  Sole(i)'
<1> USE DEF callVars, chainVars
<1>0. NoRow \notin Rows /\ \A x \in Nat : x <= x
  BY RowsAssumption
<1>1. ASSUME NEW j \in Rows, Attempt(t, j) PROVE Sole(i)'
  <2>1. /\ UNCHANGED <<status, sent, lapses>> /\ phase[t] = "next" /\ j \in batch[t]
        /\ \A u \in Ticks : u # t => phase'[u] = phase[u] /\ batch'[u] = batch[u] /\ current'[u] = current[u]
    BY <1>1 DEF Attempt, Types
  <2>2. batch'[t] = batch[t] \ {j} /\ current'[t] = j /\ phase'[t] \in {"skipping", "sending"}
    BY <1>1 DEF Attempt, Types
  <2>3. \A u \in Ticks : Holds(u, i)' => Holds(u, i)
    BY <2>1, <2>2 DEF Holds
  <2>4. lapses[i] <= lapses'[i]
    BY <1>0, <2>1 DEF Types
  <2> QED BY <2>1, <2>2, <2>3, <2>4, SoleKept DEF Done
<1>2. CASE Deliver(t)
  <2>1. /\ UNCHANGED <<status, sent, batch, current, lapses>> /\ phase[t] = "sending"
        /\ \A u \in Ticks : u # t => phase'[u] = phase[u]
    BY <1>2 DEF Deliver, Types
  <2>2. phase'[t] \in {"delivered", "rejected", "refused"}
    BY <1>2 DEF Deliver, Types
  <2>3. \A u \in Ticks : Holds(u, i)' => Holds(u, i)
    BY <2>1 DEF Holds, Judged
  <2>4. lapses[i] <= lapses'[i]
    BY <1>0, <2>1 DEF Types
  <2> QED BY <2>1, <2>2, <2>3, <2>4, SoleKept DEF Done
<1>3. CASE MarkReminderSent(t)
  <2>1. /\ UNCHANGED <<batch, current, lapses, sent>> /\ phase[t] = "recorded"
        /\ status' = [status EXCEPT ![current[t]] = "sent"]
    BY <1>3 DEF MarkReminderSent, Write
  <2>2. phase'[t] = "marked" /\ \A u \in Ticks : u # t => phase'[u] = phase[u]
    BY <1>3 DEF MarkReminderSent, Types
  <2>3. \A u \in Ticks : Holds(u, i)' => Holds(u, i)
    BY <2>1, <2>2 DEF Holds, Judged
  <2>4. CASE current[t] = i
    <3>1. Holds(t, i) /\ status'[i] = "sent" /\ current'[t] = i
      BY <2>1, <2>4 DEF Holds, Judged, Types
    <3> QED BY <2>1, <2>2, <2>3, <3>1, SoleWritten
  <2>5. CASE current[t] # i
    <3>1. status'[i] = status[i] /\ lapses[i] <= lapses'[i]
      BY <1>0, <2>1, <2>5 DEF Types
    <3>2. \A u \in Ticks : current[u] = i => u # t
      BY <2>5
    <3> QED BY <2>1, <2>2, <2>3, <3>1, <3>2, SoleKept DEF Done
  <2> QED BY <2>4, <2>5
<1>4. CASE CloneNextOccurrence(t) \/ NoNextOccurrence(t)
  <2>1. Onward(t) /\ UNCHANGED <<batch, lapses, sent>> /\ phase[t] = "marked"
    BY <1>4 DEF CloneNextOccurrence, NoNextOccurrence
  <2>2. /\ \A u \in Ticks : u # t => phase'[u] = phase[u] /\ current'[u] = current[u]
        /\ current'[t] = NoRow
    BY <2>1 DEF Onward, Types
  <2>3. status'[i] = status[i] \/ (status[i] \in {"absent", "waiting"} /\ status'[i] \in {"absent", "waiting", "cancelled"})
    BY <1>4 DEF CloneNextOccurrence, NoNextOccurrence, Types
  <2>4. \A u \in Ticks : Holds(u, i)' => Holds(u, i) /\ (u = t => i \in batch[u])
    BY <1>0, <2>1, <2>2 DEF Holds
  <2>5. \A u \in Ticks : Holds(u, i)' /\ current[u] = i => u # t
    BY <2>4 DEF CallSafe
  <2>6. lapses[i] <= lapses'[i]
    BY <1>0, <2>1 DEF Types
  <2> QED BY <1>0, <2>1, <2>2, <2>3, <2>4, <2>5, <2>6, SoleKept DEF Done
<1>5. CASE SkipSent(t) \/ Reject(t)
  <2>1. Onward(t) /\ UNCHANGED <<batch, lapses, sent>> /\ phase[t] \in {"skipping", "rejected", "refused"}
    BY <1>5 DEF SkipSent, Reject
  <2>2. PICK v : status' = [status EXCEPT ![current[t]] = v]
    BY <1>5 DEF SkipSent, Reject, Write
  <2>3. /\ \A u \in Ticks : u # t => phase'[u] = phase[u] /\ current'[u] = current[u]
        /\ current'[t] = NoRow
    BY <2>1 DEF Onward, Types
  <2>4. \A u \in Ticks : Holds(u, i)' => Holds(u, i)
    BY <1>0, <2>1, <2>3 DEF Holds
  <2>5. CASE current[t] = i
    <3>1. Holds(t, i) /\ ~Holds(t, i)' /\ ~Done(t, i)
      BY <1>0, <2>1, <2>3, <2>5 DEF Holds, CallSafe, Judged, Done
    <3> QED BY <1>0, <2>1, <2>3, <2>4, <3>1, SoleWritten
  <2>6. CASE current[t] # i
    <3>1. status'[i] = status[i] /\ lapses[i] <= lapses'[i]
      BY <1>0, <2>1, <2>2, <2>6 DEF Types
    <3>2. \A u \in Ticks : current[u] = i => u # t
      BY <2>6
    <3> QED BY <1>0, <2>1, <2>3, <2>4, <3>1, <3>2, SoleKept DEF Done
  <2> QED BY <2>5, <2>6
<1>6. CASE Lose(t)
  <2>1. /\ UNCHANGED <<status, sent, lapses>> /\ batch'[t] = {} /\ current'[t] = NoRow
        /\ \A u \in Ticks : u # t => phase'[u] = phase[u] /\ current'[u] = current[u] /\ batch'[u] = batch[u]
    BY <1>6 DEF Lose, Types
  <2>2. \A u \in Ticks : Holds(u, i)' => Holds(u, i) /\ u # t
    BY <1>0, <2>1 DEF Holds
  <2>3. lapses[i] <= lapses'[i]
    BY <1>0, <2>1 DEF Types
  <2> QED BY <1>0, <2>1, <2>2, <2>3, SoleKept DEF Done
<1> QED BY <1>1, <1>2, <1>3, <1>4, <1>5, <1>6, SoleRecorded DEF Attend, Settle, Excuse

LEMMA SoleStep ==
  ASSUME Types, Types', CallSafe, [Next]_vars, NEW i \in Rows, Sole(i), RecordedBound(i)
  PROVE  Sole(i)'
<1> USE DEF callVars, chainVars
<1>0. lapses[i] <= lapses'[i] /\ lapses[i] \in Nat /\ lapses'[i] \in Nat
  BY LapsesGrow DEF Types
<1>1. CASE UNCHANGED vars
  <2>1. UNCHANGED <<status, sent, batch, current, phase>>
    BY <1>1 DEF vars
  <2> QED BY <1>0, <2>1, SoleKept DEF Holds, Done
<1>2. ASSUME NEW j \in Rows, Create(j) \/ Cancel(j) \/ BecomeDue(j) \/ BecomeStale(j)
      PROVE  Sole(i)'
  <2>1. UNCHANGED <<sent, batch, current, phase>>
    BY <1>2 DEF Create, Cancel, CancelReminder, CancelLater, CancelRows, BecomeDue, BecomeStale
  <2>2. status'[i] = status[i] \/ (status[i] \in {"absent", "waiting"} /\ status'[i] \in {"absent", "waiting", "cancelled"})
    <3>1. CASE Create(j) \/ BecomeDue(j) \/ BecomeStale(j)
      BY <3>1 DEF Create, BecomeDue, BecomeStale, Types
    <3>2. ASSUME NEW S, CancelRows(S)
          PROVE  status'[i] = status[i] \/ (status[i] \in {"absent", "waiting"} /\ status'[i] \in {"absent", "waiting", "cancelled"})
      BY <3>2 DEF CancelRows, Cancellable
    <3> QED BY <1>2, <3>1, <3>2 DEF Cancel, CancelReminder, CancelLater
  <2> QED BY <1>0, <2>1, <2>2, SoleKept DEF Holds, Done
<1>3. ASSUME NEW t \in Ticks, StoreError(t) PROVE Sole(i)'
  <2>1. /\ UNCHANGED <<status, sent, batch, current>> /\ lapses' = [lapses EXCEPT ![current[t]] = @ + 1]
        /\ phase[t] \notin Judged /\ phase'[t] \notin Judged
        /\ \A u \in Ticks : u # t => phase'[u] = phase[u]
    BY <1>3 DEF StoreError, Judged, Types
  <2>2. CASE current[t] = i
    <3>1. lapses'[i] = lapses[i] + 1
      BY <2>1, <2>2 DEF Types
    <3> QED BY <3>1, SoleLapsed
  <2>3. CASE current[t] # i
    <3>1. \A u \in Ticks : current[u] = i => u # t
      BY <2>3
    <3> QED BY <1>0, <2>1, <3>1, SoleKept DEF Holds, Done
  <2> QED BY <2>2, <2>3
<1> QED BY <1>0, <1>1, <1>2, <1>3, SoleRecovery, SoleClaim, SoleDelivery, NextCases DEF CallWork

\* A settled row that was never taken back is held by no call that would write it,
\* and taken for delivered by none unless it is sent.
LEMMA FinalStep ==
  ASSUME Types, CallSafe, [Next]_vars, NEW i \in Rows, Sole(i), status[i] \in Settled, lapses[i] = 0
  PROVE  status'[i] = status[i]
<1> USE DEF callVars, chainVars, Settled
<1>1. \A t \in Ticks : Holds(t, i) => current[t] = i /\ phase[t] = "marked"
  BY DEF Sole
<1>2. ASSUME NEW j \in Rows, Create(j) \/ Cancel(j) \/ BecomeDue(j) \/ BecomeStale(j)
      PROVE  status'[i] = status[i]
  <2>1. CASE Create(j) \/ BecomeDue(j) \/ BecomeStale(j)
    BY <2>1 DEF Create, BecomeDue, BecomeStale, Types
  <2>2. ASSUME NEW S, CancelRows(S) PROVE status'[i] = status[i]
    BY <2>2 DEF CancelRows, Cancellable
  <2> QED BY <1>2, <2>1, <2>2 DEF Cancel, CancelReminder, CancelLater
<1>3. ASSUME NEW t \in Ticks, SelectStale(t) \/ Recover(t) PROVE status'[i] = status[i]
  <2>1. CASE TakeBack(t)
    <3>1. status' = status \/ (Retakable(current[t]) /\ status' = [status EXCEPT ![current[t]] = "waiting"])
      BY <2>1 DEF TakeBack, Write
    <3> QED BY <3>1 DEF Retakable, Types
  <2>2. CASE MarkFoundSent(t)
    <3>1. phase[t] = "known sent" /\ status' = [status EXCEPT ![current[t]] = "sent"]
      BY <2>2 DEF MarkFoundSent, Write
    <3>2. CASE current[t] = i
      <4>1. status[i] = "sent"
        BY <3>1, <3>2 DEF Sole
      <4> QED BY <3>1, <3>2, <4>1 DEF Types
    <3>3. CASE current[t] # i
      BY <3>1, <3>3 DEF Types
    <3> QED BY <3>2, <3>3
  <2>3. CASE SelectStale(t) \/ StartTimer(t) \/ \E j \in Rows : Judge(t, j)
    <3>1. UNCHANGED status
      BY <2>3 DEF SelectStale, StartTimer, Judge
    <3> QED BY <3>1
  <2> QED BY <1>3, <2>1, <2>2, <2>3 DEF Recover
<1>4. ASSUME NEW t \in Ticks, Claim(t) \/ Lose(t) PROVE status'[i] = status[i]
  <2>1. ASSUME NEW j \in Rows, ClaimRow(t, j) PROVE status'[i] = status[i]
    <3>1. status[j] = "waiting" /\ status' = [status EXCEPT ![j] = "delivering"]
      BY <2>1 DEF ClaimRow, StillClaimable, Claimable, Write
    <3> QED BY <3>1 DEF Types
  <2>2. ASSUME NEW j, SelectDue(t) \/ MissRow(t, j) \/ ReadClaimed(t) \/ Lose(t) PROVE UNCHANGED status
    BY <2>2 DEF SelectDue, MissRow, ReadClaimed, Lose
  <2> QED BY <1>4, <2>1, <2>2 DEF Claim
<1>5. ASSUME NEW t \in Ticks, CallWork(t) PROVE status'[i] = status[i]
  <2>1. CASE SkipSent(t) \/ MarkReminderSent(t) \/ Reject(t)
    <3>1. PICK v : status' = [status EXCEPT ![current[t]] = v]
      BY <2>1 DEF SkipSent, MarkReminderSent, Reject, Write
    <3>2. phase[t] \in {"skipping", "recorded", "rejected", "refused"}
      BY <2>1 DEF SkipSent, MarkReminderSent, Reject
    <3>3. current[t] # i
      BY <1>1, <3>2 DEF Holds, Judged
    <3> QED BY <3>1, <3>3 DEF Types
  <2>2. CASE CloneNextOccurrence(t)
    BY <2>2 DEF CloneNextOccurrence, Types
  <2>3. ASSUME NEW j, \/ Attempt(t, j) \/ Deliver(t) \/ MarkDeliverySent(t) \/ NoNextOccurrence(t)
                      \/ MarkDeliveryFailed(t) \/ StoreError(t)
        PROVE  UNCHANGED status
    BY <2>3 DEF Attempt, Deliver, MarkDeliverySent, NoNextOccurrence, MarkDeliveryFailed, StoreError
  <2> QED BY <1>5, <2>1, <2>2, <2>3 DEF CallWork, Attend, Settle, Excuse
<1>6. CASE UNCHANGED vars
  BY <1>6 DEF vars
<1> QED BY <1>2, <1>3, <1>4, <1>5, <1>6, NextCases

-----------------------------------------------------------------------------
(* The invariant.                                                           *)

DeliverySafe ==
  /\ Types
  /\ CallSafe
  /\ \A i \in Rows : ShownBound(i) /\ NextBound(i) /\ RecordedBound(i) /\ Sole(i)

LEMMA SafeInit == Init => DeliverySafe
<1> SUFFICES ASSUME Init PROVE DeliverySafe
  OBVIOUS
<1>1. Types
  BY TypeInit
<1>2. CallSafe
  BY RowsAssumption DEF Init, CallSafe, Between, Judged
<1>3. ASSUME NEW i \in Rows PROVE ShownBound(i) /\ NextBound(i) /\ RecordedBound(i) /\ Sole(i)
  <2>1. Bearers(i) = {} /\ Pending(i) = {} /\ Recorders(i) = {} /\ NextOf(i) = {}
    BY RowsAssumption DEF Init, Bearers, Bearing, Pending, Recorders, NextOf, HasShown, HasRecorded
  <2>2. Cardinality({}) = 0
    BY FS_EmptySet
  <2>3. shown[i] = 0 /\ lapses[i] = 0 /\ sent[i] = 0 /\ status[i] = "absent" /\ Fresh(i) = 1
    BY DEF Init, Fresh
  <2>4. \A t \in Ticks : ~Holds(t, i)
    BY RowsAssumption DEF Init, Holds
  <2>5. ShownBound(i)
    BY <2>1, <2>2, <2>3 DEF ShownBound
  <2>6. NextBound(i) /\ RecordedBound(i)
    BY <2>1, <2>2, <2>3 DEF NextBound, RecordedBound
  <2>7. Sole(i)
    BY <2>3, <2>4, RowsAssumption DEF Sole, Init
  <2> QED BY <2>5, <2>6, <2>7
<1>4. QED
  BY <1>1, <1>2, <1>3 DEF DeliverySafe

LEMMA SafeStep == DeliverySafe /\ [Next]_vars => DeliverySafe'
<1> SUFFICES ASSUME DeliverySafe, [Next]_vars PROVE DeliverySafe'
  OBVIOUS
<1>1. Types' /\ CallSafe'
  BY TypesStep, CallStep DEF DeliverySafe
<1>2. ASSUME NEW i \in Rows PROVE ShownBound(i)' /\ NextBound(i)' /\ RecordedBound(i)' /\ Sole(i)'
  BY <1>1, ShownStep, NextStep, RecordedStep, SoleStep DEF DeliverySafe
<1>3. QED
  BY <1>1, <1>2 DEF DeliverySafe

LEMMA SafeIsTyped == DeliverySafe => TypeOK
<1> SUFFICES ASSUME DeliverySafe PROVE TypeOK
  OBVIOUS
<1>1. \A i \in Rows : sent[i] \in Int /\ Cardinality(Recorders(i)) \in Nat /\ Cardinality(Recorders(i)) <= sent[i]
  BY CallsFinite, FS_CardinalityType DEF DeliverySafe, RecordedBound, Types
<1>2. \A i \in Rows : sent[i] \in Nat
  BY <1>1
<1>3. sent \in [Rows -> Nat]
  BY <1>2 DEF DeliverySafe, Types
<1>4. QED
  BY <1>3 DEF DeliverySafe, Types, TypeOK

LEMMA SafeIsShownOnce == DeliverySafe => ShownOnce
<1> SUFFICES ASSUME DeliverySafe PROVE ShownOnce
  OBVIOUS
<1>1. ASSUME NEW i \in Rows PROVE shown[i] <= 1 + lapses[i] /\ Cardinality(NextOf(i)) <= shown[i]
  <2>1. shown[i] \in Nat /\ lapses[i] \in Nat /\ Fresh(i) \in Nat
    BY DEF DeliverySafe, Types, Fresh
  <2>2. Cardinality(Bearers(i)) \in Nat /\ Cardinality(Pending(i)) \in Nat /\ Cardinality(NextOf(i)) \in Nat
    BY CallsFinite, BearersFinite, FS_CardinalityType
  <2>3. ShownBound(i) /\ NextBound(i)
    BY DEF DeliverySafe
  <2>4. QED
    BY <2>1, <2>2, <2>3 DEF ShownBound, NextBound
<1>2. QED
  BY <1>1, SafeIsTyped DEF ShownOnce

LEMMA DeliveryInvariant == Spec => []DeliverySafe
BY SafeInit, SafeStep, PTL DEF Spec

\* Every reachable state is well typed: a delivery that is taken back from the
\* record has been recorded.
THEOREM TypeCorrect == Spec => []TypeOK
BY DeliveryInvariant, SafeIsTyped, PTL

\* A reminder reaches its user once, and once more for every time it was taken back
\* or failed after its delivery, however many calls and processes overlap.
THEOREM DeliveredOnce == Spec => []ShownOnce
BY DeliveryInvariant, SafeIsShownOnce, PTL

\* What has become of a reminder stays so, unless it was taken back before or failed
\* after its delivery: calls that found it stale or due earlier do not change it.
THEOREM OutcomeIsFinal == Spec => SettledIsFinal
<1>1. DeliverySafe /\ [Next]_vars
        => [\A i \in Rows : status[i] \in Settled /\ lapses[i] = 0 => status'[i] = status[i]]_vars
  BY FinalStep DEF DeliverySafe
<1>2. QED
  BY <1>1, DeliveryInvariant, PTL DEF Spec, SettledIsFinal

-----------------------------------------------------------------------------
(* The later occurrences of a recurring reminder.                           *)

Exists(i) == status[i] # "absent"

\* What a call has found, claimed or has in hand exists.
HeldExist == \A t \in Ticks : \A i \in Rows : i \in found[t] \cup batch[t] \/ current[t] = i => Exists(i)

\* A row is the first occurrence of its content, or the next one of its source.
First(i) == source[i] = NoRow /\ origin[i] = i /\ occurrence[i] = 0
Later(i) ==
  /\ source[i] \in Rows /\ Exists(source[i])
  /\ origin[i] = origin[source[i]] /\ origin[i] \in Recurring
  /\ occurrence[i] = occurrence[source[i]] + 1 /\ occurrence[i] < MaxOccurrences

ChainSafe == \A i \in Rows : IF i \in CloneRows /\ Exists(i) THEN Later(i) ELSE First(i)

\* Two rows are the same occurrence of the same content.
Twins(i, j) ==
  Exists(i) /\ Exists(j) /\ i # j /\ origin[i] = origin[j] /\ occurrence[i] = occurrence[j]

\* An occurrence before that of a row was taken back, or failed after its delivery.
LapsedBefore(i) ==
  \E k \in Rows : Exists(k) /\ origin[k] = origin[i] /\ occurrence[k] < occurrence[i] /\ lapses[k] > 0

\* The row i has become what it was not: a clone of the row that a call has marked.
Cloned(c, i) ==
  /\ c \in CloneRows /\ ~Exists(c) /\ Continues(i)
  /\ status' = [status EXCEPT ![c] = "waiting"] /\ source' = [source EXCEPT ![c] = i]
  /\ origin' = [origin EXCEPT ![c] = origin[i]]
  /\ occurrence' = [occurrence EXCEPT ![c] = occurrence[i] + 1]

\* A step makes a row of a user, clones one that exists, or makes none.
LEMMA RowsStep ==
  ASSUME Types, CallSafe, HeldExist, [Next]_vars
  PROVE  \/ \E c \in CloneRows, k \in Rows : Cloned(c, k) /\ Exists(k)
         \/ /\ UNCHANGED <<source, origin, occurrence>>
            /\ \A i \in Rows : Exists(i) => Exists(i)'
            /\ \A i \in CloneRows : Exists(i)' => Exists(i)
<1> USE DEF chainVars, callVars
<1> DEFINE Stay == /\ UNCHANGED <<source, origin, occurrence>>
                   /\ \A i \in Rows : Exists(i) => Exists(i)'
                   /\ \A i \in CloneRows : Exists(i)' => Exists(i)
<1>0. CloneRows \subseteq Rows /\ UserRows \subseteq Rows /\ UserRows \cap CloneRows = {} /\ NoRow \notin Rows
  BY RowsAssumption DEF Rows
<1>a. ASSUME NEW t \in Ticks, current[t] \in Rows PROVE Exists(current[t])
  BY <1>a DEF HeldExist
<1>1. ASSUME NEW t \in Ticks, CloneNextOccurrence(t)
      PROVE  \E c \in CloneRows, k \in Rows : Cloned(c, k) /\ Exists(k)
  <2>1. current[t] \in Rows
    BY <1>1 DEF CloneNextOccurrence, CallSafe, Between, Types
  <2> QED BY <1>1, <1>a, <2>1 DEF CloneNextOccurrence, Cloned, Exists
<1>2. ASSUME NEW i \in UserRows, Create(i) PROVE Stay
  BY <1>0, <1>2 DEF Create, Exists, Types
<1>3. ASSUME NEW S, CancelRows(S) PROVE Stay
  BY <1>0, <1>3 DEF CancelRows, Cancellable, Exists, Types
<1>4. ASSUME NEW t \in Ticks, NEW j \in Rows, ClaimRow(t, j) PROVE Stay
  <2>1. /\ Exists(j) /\ status' = [status EXCEPT ![j] = "delivering"]
        /\ UNCHANGED <<source, origin, occurrence>>
    BY <1>4 DEF ClaimRow, StillClaimable, Claimable, Write, Exists
  <2> QED BY <1>0, <2>1 DEF Exists, Types
<1>5. ASSUME NEW t \in Ticks, NEW v \in Status \ {"absent"}, current[t] \in Rows, Write(current[t], v),
             UNCHANGED <<source, origin, occurrence>>
      PROVE  Stay
  <2>1. Exists(current[t]) /\ status' = [status EXCEPT ![current[t]] = v]
    BY <1>a, <1>5 DEF Write
  <2> QED BY <1>0, <1>5, <2>1 DEF Exists, Types
<1>6. ASSUME NEW t \in Ticks, TakeBack(t) \/ MarkFoundSent(t) \/ SkipSent(t) \/ MarkReminderSent(t) \/ Reject(t)
      PROVE  Stay
  <2>1. current[t] \in Rows
    <3>1. phase[t] \notin Between
      BY <1>6 DEF TakeBack, MarkFoundSent, SkipSent, MarkReminderSent, Reject, Between
    <3> QED BY <3>1 DEF CallSafe, Types
  <2>2. UNCHANGED <<source, origin, occurrence>>
    BY <1>6 DEF TakeBack, MarkFoundSent, SkipSent, MarkReminderSent, Reject
  <2>3. CASE UNCHANGED status
    BY <2>2, <2>3 DEF Exists
  <2>4. ASSUME NEW v \in Status \ {"absent"}, Write(current[t], v) PROVE Stay
    BY <1>5, <2>1, <2>2, <2>4
  <2>5. UNCHANGED status \/ \E v \in Status \ {"absent"} : Write(current[t], v)
    <3>1. {"waiting", "sent", "failed"} \subseteq Status \ {"absent"}
      BY DEF Status
    <3>2. CASE TakeBack(t)
      BY <3>1, <3>2 DEF TakeBack
    <3>3. CASE MarkFoundSent(t) \/ SkipSent(t) \/ MarkReminderSent(t)
      BY <3>1, <3>3 DEF MarkFoundSent, SkipSent, MarkReminderSent
    <3>4. CASE Reject(t)
      <4>1. Write(current[t], IF Retried(t) THEN "waiting" ELSE "failed")
        BY <3>4 DEF Reject
      <4>2. (IF Retried(t) THEN "waiting" ELSE "failed") \in {"waiting", "failed"}
        OBVIOUS
      <4> QED BY <3>1, <4>1, <4>2
    <3> QED BY <1>6, <3>2, <3>3, <3>4
  <2> QED BY <2>3, <2>4, <2>5
<1>7. ASSUME UNCHANGED <<status, source, origin, occurrence>> PROVE Stay
  BY <1>7 DEF Exists
<1>8. \/ UNCHANGED <<status, source, origin, occurrence>>
      \/ (\E i \in UserRows : Create(i))
      \/ (\E S : CancelRows(S))
      \/ (\E t \in Ticks, j \in Rows : ClaimRow(t, j))
      \/ (\E t \in Ticks : \/ TakeBack(t) \/ MarkFoundSent(t) \/ SkipSent(t) \/ MarkReminderSent(t) \/ Reject(t)
                            \/ CloneNextOccurrence(t))
  <2>1. ASSUME NEW t \in Ticks, CallWork(t)
        PROVE  \/ UNCHANGED <<status, source, origin, occurrence>>
               \/ SkipSent(t) \/ MarkReminderSent(t) \/ Reject(t) \/ CloneNextOccurrence(t)
    BY <2>1 DEF CallWork, Attend, Attempt, Deliver, Settle, MarkDeliverySent, NoNextOccurrence, Excuse,
      MarkDeliveryFailed, StoreError
  <2>2. ASSUME NEW t \in Ticks, Serve(t) \/ Fire(t) \/ Recover(t) \/ Claim(t) \/ Lose(t)
        PROVE  \/ UNCHANGED <<status, source, origin, occurrence>> \/ (\E j \in Rows : ClaimRow(t, j))
               \/ TakeBack(t) \/ MarkFoundSent(t)
    BY <2>2 DEF Serve, Fire, SelectStale, Recover, Judge, StartTimer, Claim, SelectDue, MissRow, ReadClaimed, Lose
  <2>3. ASSUME NEW i \in Rows, BecomeDue(i) \/ BecomeStale(i) PROVE UNCHANGED <<status, source, origin, occurrence>>
    BY <2>3 DEF BecomeDue, BecomeStale
  <2>4. ASSUME NEW i \in Rows, Cancel(i) PROVE \E S : CancelRows(S)
    BY <2>4 DEF Cancel, CancelReminder, CancelLater
  <2>5. CASE UNCHANGED vars
    BY <2>5 DEF vars
  <2> QED BY <2>1, <2>2, <2>3, <2>4, <2>5 DEF Next, Work, CallWork
<1> HIDE DEF Stay
<1>10. CASE \E t \in Ticks : CloneNextOccurrence(t)
  BY <1>1, <1>10
<1>11. CASE ~\E t \in Ticks : CloneNextOccurrence(t)
  <2>1. Stay
    BY <1>2, <1>3, <1>4, <1>6, <1>7, <1>8, <1>11
  <2> QED BY <2>1 DEF Stay
<1> QED BY <1>10, <1>11

\* A row stays what it is, and once it exists what it was is not forgotten.
LEMMA RowsKept ==
  ASSUME Types, CallSafe, HeldExist, [Next]_vars, NEW i \in Rows, Exists(i)
  PROVE  /\ Exists(i)' /\ origin'[i] = origin[i] /\ occurrence'[i] = occurrence[i]
         /\ source'[i] = source[i]
<1>1. ASSUME NEW c \in CloneRows, NEW j, Cloned(c, j)
      PROVE  /\ Exists(i)' /\ origin'[i] = origin[i] /\ occurrence'[i] = occurrence[i]
             /\ source'[i] = source[i]
  BY <1>1 DEF Cloned, Exists, Types
<1> QED BY <1>1, RowsStep

LEMMA HeldExistStep ==
  ASSUME Types, CallSafe, HeldExist, [Next]_vars
  PROVE  HeldExist'
<1> USE DEF callVars, chainVars
<1> DEFINE Has(u, i) == i \in found[u] \cup batch[u] \/ current[u] = i
<1> SUFFICES ASSUME NEW u \in Ticks, NEW i \in Rows, Has(u, i)' PROVE Exists(i)'
  BY DEF HeldExist
<1>0. NoRow \notin Rows
  BY RowsAssumption
<1>1. CASE Exists(i)
  BY <1>1, RowsKept
<1>2. CASE ~Exists(i)
  <2>1. \A v \in Ticks : ~Has(v, i)
    BY <1>2 DEF HeldExist
  <2>2. UNCHANGED <<found, batch, current>> => FALSE
    BY <2>1
  <2>3. ASSUME NEW t \in Ticks, SelectStale(t) PROVE FALSE
    <3>1. found' = [found EXCEPT ![t] = Stale] /\ UNCHANGED <<batch, current>> /\ i \notin Stale
      BY <1>2, <2>3 DEF SelectStale, Stale, Exists
    <3> QED BY <2>1, <3>1 DEF Types
  <2>4. ASSUME NEW t \in Ticks, SelectDue(t) PROVE FALSE
    <3>1. PICK B \in SUBSET {j \in Rows : Claimable(j)} : found' = [found EXCEPT ![t] = B]
      BY <2>4 DEF SelectDue
    <3>2. UNCHANGED <<batch, current>> /\ i \notin B
      BY <1>2, <2>4 DEF SelectDue, Claimable, Exists
    <3> QED BY <2>1, <3>1, <3>2 DEF Types
  <2>5. ASSUME NEW t \in Ticks, NEW j \in Rows, Judge(t, j) \/ ClaimRow(t, j) PROVE FALSE
    <3>1. /\ found' = [found EXCEPT ![t] = @ \ {j}] /\ current' = [current EXCEPT ![t] = j] /\ batch' = batch
          /\ j \in found[t]
      BY <2>5 DEF Judge, ClaimRow
    <3> QED BY <2>1, <3>1 DEF Types
  <2>6. ASSUME NEW t \in Ticks, NEW j \in Rows, MissRow(t, j) PROVE FALSE
    <3>1. found' = [found EXCEPT ![t] = @ \ {j}] /\ UNCHANGED <<batch, current>>
      BY <2>6 DEF MissRow
    <3> QED BY <2>1, <3>1 DEF Types
  <2>7. ASSUME NEW t \in Ticks, TakeBack(t) \/ MarkFoundSent(t) PROVE FALSE
    <3>1. current' = [current EXCEPT ![t] = NoRow] /\ UNCHANGED <<batch, found>>
      BY <2>7 DEF TakeBack, MarkFoundSent
    <3> QED BY <1>0, <2>1, <3>1 DEF Types
  <2>8. ASSUME NEW t \in Ticks, ReadClaimed(t) PROVE FALSE
    <3>1. /\ batch' = [batch EXCEPT ![t] = @ \cup {current[t]}] /\ current' = [current EXCEPT ![t] = NoRow]
          /\ UNCHANGED found
      BY <2>8 DEF ReadClaimed
    <3> QED BY <1>0, <2>1, <3>1 DEF Types
  <2>9. ASSUME NEW t \in Ticks, NEW j \in Rows, Attempt(t, j) PROVE FALSE
    <3>1. /\ batch' = [batch EXCEPT ![t] = @ \ {j}] /\ current' = [current EXCEPT ![t] = j] /\ j \in batch[t]
          /\ UNCHANGED found
      BY <2>9 DEF Attempt
    <3> QED BY <2>1, <3>1 DEF Types
  <2>10. ASSUME NEW t \in Ticks, SkipSent(t) \/ CloneNextOccurrence(t) \/ NoNextOccurrence(t) \/ Reject(t) PROVE FALSE
    <3>1. Onward(t) /\ UNCHANGED <<batch, found>>
      BY <2>10 DEF SkipSent, CloneNextOccurrence, NoNextOccurrence, Reject
    <3>2. current' = [current EXCEPT ![t] = NoRow]
      BY <3>1 DEF Onward
    <3> QED BY <1>0, <2>1, <3>1, <3>2 DEF Types
  <2>11. ASSUME NEW t \in Ticks, Lose(t) PROVE FALSE
    <3>1. /\ current' = [current EXCEPT ![t] = NoRow] /\ batch' = [batch EXCEPT ![t] = {}]
          /\ found' = [found EXCEPT ![t] = {}]
      BY <2>11 DEF Lose
    <3> QED BY <1>0, <2>1, <3>1 DEF Types
  <2>12. ASSUME UNCHANGED vars \/ \E j \in Rows : Create(j) \/ Cancel(j) \/ BecomeDue(j) \/ BecomeStale(j)
         PROVE  UNCHANGED <<found, batch, current>>
    BY <2>12 DEF vars, Create, Cancel, CancelReminder, CancelLater, CancelRows, BecomeDue, BecomeStale
  <2>13. ASSUME NEW t \in Ticks, Recover(t) \/ Claim(t) PROVE FALSE
    <3>1. StartTimer(t) => UNCHANGED <<found, batch, current>>
      BY DEF StartTimer
    <3> QED BY <2>2, <2>4, <2>5, <2>6, <2>7, <2>8, <2>13, <3>1 DEF Recover, Claim
  <2>14. ASSUME NEW t \in Ticks, CallWork(t) PROVE FALSE
    <3>1. Deliver(t) \/ MarkDeliverySent(t) \/ MarkReminderSent(t) \/ MarkDeliveryFailed(t) \/ StoreError(t)
            => UNCHANGED <<found, batch, current>>
      BY DEF Deliver, MarkDeliverySent, MarkReminderSent, MarkDeliveryFailed, StoreError
    <3> QED BY <2>2, <2>9, <2>10, <2>14, <3>1 DEF CallWork, Attend, Settle, Excuse
  <2> HIDE DEF Has
  <2> QED BY <2>2, <2>3, <2>11, <2>12, <2>13, <2>14, NextCases
<1> QED BY <1>1, <1>2

LEMMA ChainStep ==
  ASSUME Types, CallSafe, HeldExist, ChainSafe, [Next]_vars
  PROVE  ChainSafe'
<1>0. CloneRows \subseteq Rows /\ NoRow \notin Rows
  BY RowsAssumption DEF Rows
<1> SUFFICES ASSUME NEW i \in Rows PROVE IF i \in CloneRows /\ Exists(i)' THEN Later(i)' ELSE First(i)'
  BY DEF ChainSafe
<1>1. CASE i \in CloneRows /\ Exists(i)
  <2>1. Later(i)
    BY <1>1 DEF ChainSafe
  <2>2. /\ Exists(i)' /\ origin'[i] = origin[i] /\ occurrence'[i] = occurrence[i] /\ source'[i] = source[i]
        /\ Exists(source[i])' /\ origin'[source[i]] = origin[source[i]]
        /\ occurrence'[source[i]] = occurrence[source[i]]
    BY <1>1, <2>1, RowsKept DEF Later
  <2> QED BY <1>1, <2>1, <2>2 DEF Later
<1>2. CASE ~(i \in CloneRows /\ Exists(i))
  <2>1. First(i)
    BY <1>2 DEF ChainSafe
  <2>2. CASE UNCHANGED <<source, origin, occurrence>> /\ (i \in CloneRows => (Exists(i)' => Exists(i)))
    BY <1>2, <2>1, <2>2 DEF First
  <2>3. ASSUME NEW c \in CloneRows, NEW k \in Rows, Cloned(c, k), Exists(k)
        PROVE  IF i \in CloneRows /\ Exists(i)' THEN Later(i)' ELSE First(i)'
    <3>1. k # c
      BY <2>3 DEF Cloned
    <3>2. CASE i = c
      <4>1. /\ source'[i] = k /\ origin'[i] = origin[k]
            /\ occurrence'[i] = occurrence[k] + 1 /\ Exists(i)'
        BY <2>3, <3>2 DEF Cloned, Exists, Types
      <4>2. /\ Exists(k)' /\ origin'[k] = origin[k]
            /\ occurrence'[k] = occurrence[k]
        BY <2>3, RowsKept
      <4>3. origin[k] \in Recurring /\ occurrence[k] + 1 < MaxOccurrences
        BY <2>3 DEF Cloned, Continues
      <4> QED BY <2>3, <3>2, <4>1, <4>2, <4>3 DEF Later
    <3>3. CASE i # c
      <4>1. /\ source'[i] = source[i] /\ origin'[i] = origin[i] /\ occurrence'[i] = occurrence[i]
            /\ status'[i] = status[i]
        BY <2>3, <3>3 DEF Cloned, Types
      <4> QED BY <1>2, <2>1, <4>1 DEF First, Exists
    <3> QED BY <3>2, <3>3
  <2> QED BY <2>2, <2>3, RowsStep
<1> QED BY <1>1, <1>2

-----------------------------------------------------------------------------
(* No occurrence comes twice.                                               *)

\* A recurring reminder is there once in every occurrence, whatever calls overlap
\* and processes crash, unless an earlier occurrence was taken back or failed after
\* its delivery, and so went on twice; and no chain is longer than maxOccurrences.
OccurrenceOnce ==
  /\ \A i, j \in Rows : Twins(i, j) => LapsedBefore(i)
  /\ \A i \in Rows : i \in CloneRows /\ Exists(i) => occurrence[i] < MaxOccurrences

\* Two next occurrences of one row take a lapse of that row.
LEMMA NextTwice ==
  ASSUME DeliverySafe, NEW i \in Rows, NEW c \in NextOf(i), NEW d \in NextOf(i), c # d
  PROVE  lapses[i] > 0
<1>1. IsFiniteSet(NextOf(i)) /\ IsFiniteSet(Pending(i)) /\ IsFiniteSet(Bearers(i))
  BY CallsFinite, BearersFinite
<1>2. Cardinality(NextOf(i)) \in Nat /\ Cardinality(NextOf(i)) >= 2
  <2>1. {c} \subseteq NextOf(i) \ {d} /\ IsFiniteSet({c}) /\ Cardinality({c}) = 1
    BY FS_Singleton
  <2>2. /\ Cardinality({c}) \in Nat /\ Cardinality(NextOf(i)) \in Nat
        /\ Cardinality({c}) + 1 <= Cardinality(NextOf(i))
    BY <1>1, <2>1, OneLess
  <2> QED BY <2>1, <2>2
<1>3. ShownOnce
  BY SafeIsShownOnce
<1>4. shown[i] \in Nat /\ lapses[i] \in Nat /\ shown[i] <= 1 + lapses[i] /\ Cardinality(NextOf(i)) <= shown[i]
  BY <1>3 DEF ShownOnce, DeliverySafe, Types
<1> QED BY <1>2, <1>4

ChainInvariant == DeliverySafe /\ HeldExist /\ ChainSafe /\ (\A i, j \in Rows : Twins(i, j) => LapsedBefore(i))

\* What has lapsed has lapsed.
LEMMA LapsedKept ==
  ASSUME ChainInvariant, [Next]_vars, NEW i \in Rows, Exists(i), LapsedBefore(i)
  PROVE  LapsedBefore(i)'
<1>1. Types /\ CallSafe /\ HeldExist /\ DeliverySafe'
  BY SafeStep DEF ChainInvariant, DeliverySafe
<1>2. PICK k \in Rows : Exists(k) /\ origin[k] = origin[i] /\ occurrence[k] < occurrence[i] /\ lapses[k] > 0
  BY DEF LapsedBefore
<1>3. /\ Exists(k)' /\ origin'[k] = origin[k] /\ occurrence'[k] = occurrence[k]
      /\ origin'[i] = origin[i] /\ occurrence'[i] = occurrence[i]
  BY <1>1, <1>2, RowsKept
<1>4. lapses'[k] > 0
  <2>1. lapses[k] \in Nat /\ lapses'[k] \in Nat /\ lapses[k] <= lapses'[k]
    BY <1>1, LapsesGrow DEF DeliverySafe, Types
  <2> QED BY <1>2, <2>1
<1>5. Exists(k)' /\ (origin[k] = origin[i])' /\ (occurrence[k] < occurrence[i])' /\ (lapses[k] > 0)'
  BY <1>2, <1>3, <1>4
<1> QED BY <1>5 DEF LapsedBefore

\* The rows of a pair that are one occurrence come of one row, or of such a pair.
TwinsOfTwins ==
  \A i, j \in Rows :
    /\ DeliverySafe /\ ChainSafe /\ Twins(i, j)
    /\ source[i] \in Rows /\ source[j] \in Rows /\ Twins(source[i], source[j]) => LapsedBefore(source[i])
    => LapsedBefore(i)

LEMMA TwinsLapse == TwinsOfTwins
<1> SUFFICES ASSUME NEW i \in Rows, NEW j \in Rows, DeliverySafe, ChainSafe, Twins(i, j),
                    source[i] \in Rows /\ source[j] \in Rows /\ Twins(source[i], source[j]) => LapsedBefore(source[i])
             PROVE  LapsedBefore(i)
  BY DEF TwinsOfTwins
<1>0. CloneRows \subseteq Rows /\ NoRow \notin Rows /\ UserRows \cap CloneRows = {} /\ Rows = UserRows \cup CloneRows
      /\ Types
  BY RowsAssumption DEF Rows, DeliverySafe
<1>1. Exists(i) /\ Exists(j) /\ i # j /\ origin[i] = origin[j] /\ occurrence[i] = occurrence[j]
  BY DEF Twins
<1>2. \A k \in Rows : occurrence[k] \in Nat /\ lapses[k] \in Nat
  BY <1>0 DEF Types
<1>3. i \in CloneRows /\ j \in CloneRows
  <2>1. i \in CloneRows \/ First(i)
    BY DEF ChainSafe
  <2>2. j \in CloneRows \/ First(j)
    BY DEF ChainSafe
  <2>3. i \in CloneRows => occurrence[i] # 0
    <3>1. ASSUME i \in CloneRows PROVE occurrence[i] # 0
      <4>1. Later(i)
        BY <1>1, <3>1 DEF ChainSafe
      <4>2. occurrence[source[i]] \in Nat /\ occurrence[i] = occurrence[source[i]] + 1
        BY <1>2, <4>1 DEF Later
      <4> QED BY <4>2
    <3> QED BY <3>1
  <2>4. j \in CloneRows => occurrence[j] # 0
    <3>1. ASSUME j \in CloneRows PROVE occurrence[j] # 0
      <4>1. Later(j)
        BY <1>1, <3>1 DEF ChainSafe
      <4>2. occurrence[source[j]] \in Nat /\ occurrence[j] = occurrence[source[j]] + 1
        BY <1>2, <4>1 DEF Later
      <4> QED BY <4>2
    <3> QED BY <3>1
  <2> QED BY <1>1, <2>1, <2>2, <2>3, <2>4 DEF First
<1>4. Later(i) /\ Later(j)
  BY <1>1, <1>3 DEF ChainSafe
<1>5. /\ source[i] \in Rows /\ source[j] \in Rows /\ Exists(source[i]) /\ Exists(source[j])
      /\ origin[source[i]] = origin[i] /\ origin[source[j]] = origin[i]
      /\ occurrence[i] = occurrence[source[i]] + 1 /\ occurrence[i] = occurrence[source[j]] + 1
  BY <1>1, <1>4 DEF Later
<1>6. occurrence[source[i]] = occurrence[source[j]] /\ occurrence[source[i]] < occurrence[i]
  BY <1>2, <1>5
<1>7. CASE source[i] = source[j]
  <2>1. lapses[source[i]] > 0
    BY <1>1, <1>5, <1>7, NextTwice DEF NextOf
  <2> QED BY <1>5, <1>6, <2>1 DEF LapsedBefore
<1>8. CASE source[i] # source[j]
  <2>1. Twins(source[i], source[j])
    BY <1>5, <1>6, <1>8 DEF Twins
  <2>2. PICK k \in Rows : /\ Exists(k) /\ origin[k] = origin[source[i]]
                          /\ occurrence[k] < occurrence[source[i]] /\ lapses[k] > 0
    BY <1>5, <2>1 DEF LapsedBefore
  <2>3. occurrence[k] < occurrence[i]
    BY <1>2, <1>5, <1>6, <2>2
  <2> QED BY <1>5, <2>2, <2>3 DEF LapsedBefore
<1> QED BY <1>7, <1>8

LEMMA TwinsLapseNext == TwinsOfTwins'
BY TwinsLapse, PTL

\* A row that is the next of another is the next of one that a step finds.
LEMMA OldSource ==
  ASSUME Types, CallSafe, HeldExist, ChainSafe, ChainSafe', [Next]_vars,
         NEW i \in Rows, NEW x \in Rows, x = source'[i], Exists(i)'
  PROVE  Exists(x)
<1>0. CloneRows \subseteq Rows /\ NoRow \notin Rows
  BY RowsAssumption DEF Rows
<1>1. i \in CloneRows
  BY <1>0 DEF ChainSafe, First
<1>2. CASE Exists(i)
  BY <1>1, <1>2, RowsKept DEF ChainSafe, Later
<1>3. CASE ~Exists(i)
  <2>1. PICK c \in CloneRows, k \in Rows : Cloned(c, k) /\ Exists(k)
    BY <1>1, <1>3, RowsStep
  <2>2. i = c
    BY <1>0, <1>3, <2>1 DEF Cloned, Exists, Types
  <2>3. source'[i] = k
    BY <1>0, <2>1, <2>2 DEF Cloned, Types
  <2> QED BY <2>1, <2>3
<1> QED BY <1>2, <1>3

LEMMA ChainInvariantInit == Init => ChainInvariant
<1> SUFFICES ASSUME Init PROVE ChainInvariant
  OBVIOUS
<1>1. HeldExist /\ (\A i, j \in Rows : Twins(i, j) => LapsedBefore(i))
  BY RowsAssumption DEF Init, HeldExist, Twins, Exists
<1>2. ChainSafe
  BY DEF Init, ChainSafe, First, Exists
<1> QED BY <1>1, <1>2, SafeInit DEF ChainInvariant

LEMMA ChainInvariantStep == ChainInvariant /\ [Next]_vars => ChainInvariant'
<1> SUFFICES ASSUME ChainInvariant, [Next]_vars PROVE ChainInvariant'
  OBVIOUS
<1>1. DeliverySafe /\ DeliverySafe' /\ Types /\ CallSafe /\ HeldExist /\ ChainSafe
  BY SafeStep DEF ChainInvariant, DeliverySafe
<1>2. HeldExist' /\ ChainSafe'
  BY <1>1, HeldExistStep, ChainStep
<1>3. ASSUME NEW i \in Rows, NEW j \in Rows, Exists(i), Exists(j), Twins(i, j)' PROVE LapsedBefore(i)'
  <2>1. Twins(i, j)
    BY <1>1, <1>3, RowsKept DEF Twins
  <2> QED BY <1>3, <2>1, LapsedKept DEF ChainInvariant
<1>4. ASSUME NEW i \in Rows, NEW j \in Rows, ~Exists(i) \/ ~Exists(j), Twins(i, j)' PROVE LapsedBefore(i)'
  <2>1. ASSUME NEW x \in Rows, NEW y \in Rows, x = source'[i], y = source'[j], Twins(x, y)'
        PROVE  LapsedBefore(x)'
    <3>1. Exists(x) /\ Exists(y)
      BY <1>1, <1>2, <1>4, <2>1, OldSource DEF Twins
    <3>2. Twins(x, y)
      BY <1>1, <2>1, <3>1, RowsKept DEF Twins
    <3> QED BY <3>1, <3>2, LapsedKept DEF ChainInvariant
  <2>2. (source[i] \in Rows /\ source[j] \in Rows /\ Twins(source[i], source[j]) => LapsedBefore(source[i]))'
    BY <2>1
  <2> QED BY <1>1, <1>2, <1>4, <2>2, TwinsLapseNext DEF TwinsOfTwins
<1> QED BY <1>1, <1>2, <1>3, <1>4 DEF ChainInvariant

LEMMA ChainLemma == Spec => []ChainInvariant
BY ChainInvariantInit, ChainInvariantStep, PTL DEF Spec

\* Calls that overlap, processes that crash and stores that fail make no second
\* copy of an occurrence, but behind a row that went on twice.
THEOREM OccurrencesOnce == Spec => []OccurrenceOnce
<1>1. ChainInvariant => OccurrenceOnce
  BY DEF ChainInvariant, ChainSafe, Later, OccurrenceOnce
<1> QED BY <1>1, ChainLemma, PTL
=============================================================================
