---------------------------- MODULE AgentMailbox ----------------------------
(***************************************************************************)
(* The mailboxes of the SubAgent coordinator in its automatic mode         *)
(* (src/src/ai/agents/multi-agent-coordinator.ts): the messages agents send*)
(* to each other, the results reported to a parent, and the calls of       *)
(* waitForUpdate that sleep until something happens to their targets.      *)
(*                                                                         *)
(* A wait sleeps in waitForSignal and is woken by notifyWaiters.  Its      *)
(* promise then resolves, but the code behind it runs only after the       *)
(* section that woke it: a wait is "asleep", "woken" or "over".  A watchdog*)
(* or the host of a wait comes in between only when no wait is left woken: *)
(* the continuation of a wait is a microtask, it runs before their tasks.  *)
(*                                                                         *)
(* The turns, the tree and the closing of agents are those of              *)
(* AgentLifecycle, reduced to what a mailbox or a wait can see: resources, *)
(* capacity and the stages of a cleanup are left out.  All agents have been*)
(* spawned already.                                                        *)
(***************************************************************************)
EXTENDS Integers, SequencesExt, FiniteSetsExt, Relation

CONSTANTS
  Agents, Root,
  Parent,            \* the parent of every agent, Root or another agent
  Waits,             \* identifiers of the waitForUpdate calls in progress
  WaitCalls,         \* bound: the caller and targets that each of them may have
  SendCalls,         \* bound: who sends messages to whom
  MaxInboxMessages,  \* options.maxInboxMessages
  MaxWaitMessages,   \* options.maxWaitMessages, messages taken at once
  MaxQueue           \* bound: follow-up tasks queued for an agent

Nodes == Agents \cup {Root}

ASSUME MailboxAssumption ==
  /\ Root \notin Agents
  /\ Parent \in [Agents -> Nodes]
  /\ MaxInboxMessages \in Nat \ {0} /\ MaxWaitMessages \in Nat \ {0}
  /\ WaitCalls \in [Waits -> SUBSET (Nodes \X SUBSET Nodes)]
  /\ SendCalls \subseteq Nodes \X Nodes
  /\ MaxQueue \in Nat

VARIABLES
  nodes,     \* records: what a wait or a mailbox sees of every AgentRecord
  inbox,     \* record.inbox of every agent
  waits,     \* the calls of waitForUpdate
  disposed   \* dispose() was called

vars == <<nodes, inbox, waits, disposed>>

-----------------------------------------------------------------------------
Final == {"completed", "failed", "interrupted", "closed"}
Status == {"pending", "running"} \cup Final

\* No execution, awaiting createSession, awaiting run, in the finally callback.
Execution == {"none", "creating", "running", "settling"}

\* due: closeAgent has frozen the agent but not come to closeRecord yet.
NodeRecord ==
  [status: Status, exec: Execution, open: BOOLEAN, queue: Nat,
   aborted: BOOLEAN, closing: BOOLEAN, cleanup: BOOLEAN, due: BOOLEAN,
   broken: BOOLEAN]

\* The id tells the messages in one inbox apart.
Message == [id: 1..MaxInboxMessages, sender: Nodes]

WaitRecord ==
  [phase: {"asleep", "woken", "over"}, caller: Nodes, targets: SUBSET Nodes,
   expired: BOOLEAN, aborted: BOOLEAN]

-----------------------------------------------------------------------------
(* The tree. *)

Above ==
  TransitiveClosure([p \in Nodes \X Nodes |-> p[1] \in Agents /\ Parent[p[1]] = p[2]], Nodes)
Subtree(a) == {d \in Agents : d = a \/ Above[<<d, a>>]}

\* A parent exists before its children, whose spawn it has called.
ASSUME TreeAssumption == \A a \in Agents : Parent[a] \notin Subtree(a)

InClosingSubtree(a) == \E b \in Nodes : (b = a \/ Above[<<a, b>>]) /\ nodes[b].closing
OpenCaller(c) == nodes[c].status # "closed" /\ ~InClosingSubtree(c)

-----------------------------------------------------------------------------
(* Sleeping and waking. *)

Pending(w) == waits[w].phase # "over"
NoneWoken == \A w \in Waits : waits[w].phase # "woken"

\* notifyWaiters()
Notified(ws) ==
  [w \in Waits |-> [ws[w] EXCEPT !.phase = IF @ = "asleep" THEN "woken" ELSE @]]

\* The signal of the turns of agents S aborts.  Only a wait that is asleep
\* listens: waking it has removed its listener, and one that goes back to sleep
\* adds a listener to a signal that never fires again.
Aborted(ws, S) ==
  [w \in Waits |->
     IF ws[w].caller \in S /\ ws[w].phase # "over"
     THEN [ws[w] EXCEPT !.aborted = TRUE, !.phase = IF @ = "asleep" THEN "over" ELSE @]
     ELSE ws[w]]

-----------------------------------------------------------------------------
(* Taking and leaving messages. *)

\* takeInboxInput(): the turn takes the oldest messages.
WithoutOldest(box) == SubSeq(box, MaxWaitMessages + 1, Len(box))

Matching(box, targets) == {i \in DOMAIN box : box[i].sender \in targets}

\* Variant of Matched: the latest messages are taken first.
MatchedLatest(box, targets) ==
  {i \in Matching(box, targets) :
     Cardinality({j \in Matching(box, targets) : j > i}) < MaxWaitMessages}

\* drainMessages(): the wait takes the oldest messages of its targets.
Matched(box, targets) ==
  {i \in Matching(box, targets) :
     Cardinality({j \in Matching(box, targets) : j < i}) < MaxWaitMessages}

Drained(box, targets) ==
  LET taken == Matched(box, targets)
  IN  [i \in 1..(Len(box) - Cardinality(taken)) |->
         box[CHOOSE k \in DOMAIN box \ taken :
               Cardinality({j \in DOMAIN box \ taken : j <= k}) = i]]

Post(boxes, n, sender) ==
  LET used == {boxes[n][i].id : i \in DOMAIN boxes[n]}
  IN  [boxes EXCEPT ![n] =
         Append(@, [id |-> Min((1..MaxInboxMessages) \ used), sender |-> sender])]

\* Variant of Report: a result reaches a parent that is being closed.
ReportWhileClosing(ns, boxes, a) ==
  LET p == Parent[a]
  IN  IF Len(boxes[p]) >= MaxInboxMessages
      THEN boxes
      ELSE Post(boxes, p, a)

\* notifyParent(): a parent that is closed or whose inbox is full gets nothing.
Report(ns, boxes, a) ==
  LET p == Parent[a]
  IN  IF \/ ns[p].status = "closed" \/ ns[p].closing
         \/ Len(boxes[p]) >= MaxInboxMessages
      THEN boxes
      ELSE Post(boxes, p, a)

-----------------------------------------------------------------------------
(* The turns of one agent. *)

Begin(r) ==
  [r EXCEPT !.queue = @ - 1, !.aborted = FALSE,
            !.status = IF r.open THEN "running" ELSE @,
            !.exec = IF r.open THEN "running" ELSE "creating"]

\* The condition of the loop of processQueue and of schedule.
CanRun(r) == r.queue > 0 /\ ~r.closing /\ ~r.broken

\* A run that begins takes the inbox of its agent along.
StartRun(boxes, a, r) ==
  IF r.exec = "running" THEN [boxes EXCEPT ![a] = WithoutOldest(@)] ELSE boxes

Settling(r) == [r EXCEPT !.exec = "settling", !.aborted = FALSE]

\* A turn ends with a status: the parent is told, the next turn may begin.
EndTurn(a, r, outcome) ==
  LET status == IF r.aborted \/ outcome = "abort" THEN "interrupted"
                ELSE IF outcome = "ok" THEN "completed" ELSE "failed"
      ended == [r EXCEPT !.status = status]
      next == IF CanRun(ended) THEN Begin(ended) ELSE Settling(ended)
      boxes == IF status = "interrupted" THEN inbox ELSE Report(nodes, inbox, a)
  IN  /\ nodes' = [nodes EXCEPT ![a] = next]
      /\ inbox' = StartRun(boxes, a, next)

-----------------------------------------------------------------------------
Spawned == [status |-> "pending", exec |-> "creating", open |-> FALSE, queue |-> 0,
            aborted |-> FALSE, closing |-> FALSE, cleanup |-> FALSE,
            due |-> FALSE, broken |-> FALSE]
Over == [phase |-> "over", caller |-> Root, targets |-> {},
         expired |-> FALSE, aborted |-> FALSE]

Init ==
  /\ nodes = [n \in Nodes |->
       IF n = Root THEN [Spawned EXCEPT !.status = "running", !.exec = "running", !.open = TRUE]
                   ELSE Spawned]
  /\ inbox = [n \in Nodes |-> <<>>]
  /\ waits = [w \in Waits |-> Over]
  /\ disposed = FALSE

\* Variant of SendMessage: the waits are not notified.
SendMessageSilently(c, t) ==
  /\ ~disposed
  /\ OpenCaller(c) /\ nodes[t].status # "closed" /\ ~InClosingSubtree(t)
  /\ Len(inbox[t]) < MaxInboxMessages
  /\ inbox' = Post(inbox, t, c)
  /\ UNCHANGED <<nodes, waits, disposed>>

\* sendMessage()
SendMessage(c, t) ==
  /\ ~disposed
  /\ OpenCaller(c)
  /\ nodes[t].status # "closed"
  /\ ~InClosingSubtree(t)
  /\ Len(inbox[t]) < MaxInboxMessages
  /\ inbox' = Post(inbox, t, c)
  /\ waits' = Notified(waits)
  /\ UNCHANGED <<nodes, disposed>>

\* takePendingInput() of a run in progress.
TakePendingInput(a) ==
  /\ nodes[a].exec = "running" /\ ~nodes[a].aborted /\ ~nodes[a].closing
  /\ inbox[a] # <<>>
  /\ inbox' = [inbox EXCEPT ![a] = WithoutOldest(@)]
  /\ UNCHANGED <<nodes, waits, disposed>>

\* followupTask()
FollowupTask(t) ==
  LET r == nodes[t]
      queued == [r EXCEPT !.queue = @ + 1,
                          !.status = IF @ = "running" THEN @ ELSE "pending"]
      next == IF r.exec = "none" THEN Begin(queued) ELSE queued
  IN  /\ ~disposed
      /\ r.status # "closed" /\ ~InClosingSubtree(t)
      /\ ~r.broken /\ ~r.aborted
      /\ r.queue < MaxQueue
      /\ nodes' = [nodes EXCEPT ![t] = next]
      /\ inbox' = IF r.exec = "none" THEN StartRun(inbox, t, next) ELSE inbox
      /\ waits' = Notified(waits)
      /\ UNCHANGED disposed

\* interruptAgent()
InterruptAgent(t) ==
  LET r == nodes[t]
      live == r.exec \in {"creating", "running"} /\ ~r.aborted
  IN  /\ ~disposed
      /\ ~InClosingSubtree(t)
      /\ live \/ r.queue > 0
      /\ nodes' = [nodes EXCEPT ![t] = [r EXCEPT !.queue = 0, !.status = "interrupted",
                                                 !.aborted = @ \/ live]]
      /\ waits' = Notified(IF live THEN Aborted(waits, {t}) ELSE waits)
      /\ UNCHANGED <<inbox, disposed>>

\* createSession settles.
CreateReturns(a, outcome) ==
  LET r == [nodes[a] EXCEPT !.open = outcome = "ok",
                            !.broken = @ \/ outcome = "leak"]
      running == [r EXCEPT !.status = "running", !.exec = "running"]
  IN  /\ nodes[a].exec = "creating"
      /\ \/ /\ r.closing
            /\ nodes' = [nodes EXCEPT ![a] = Settling(r)]
            /\ inbox' = inbox
         \/ /\ ~r.closing /\ outcome = "ok" /\ ~r.aborted
            /\ nodes' = [nodes EXCEPT ![a] = running]
            /\ inbox' = StartRun(inbox, a, running)
         \/ /\ ~r.closing /\ (outcome # "ok" \/ r.aborted)
            /\ EndTurn(a, r, outcome)
      /\ waits' = Notified(waits)
      /\ UNCHANGED disposed

\* session.run settles, after the waits it made.
RunReturns(a, outcome) ==
  /\ nodes[a].exec = "running" /\ a \in Agents
  /\ \A w \in Waits : Pending(w) => waits[w].caller # a
  /\ \/ /\ nodes[a].closing
        /\ nodes' = [nodes EXCEPT ![a] = Settling(@)]
        /\ inbox' = inbox
     \/ /\ ~nodes[a].closing
        /\ EndTurn(a, nodes[a], outcome)
  /\ waits' = Notified(waits)
  /\ UNCHANGED disposed

\* The finally callback of schedule, with or without a suspension.
Settle(a) ==
  LET idle == [nodes[a] EXCEPT !.exec = "none"]
      next == IF CanRun(idle) THEN Begin([idle EXCEPT !.status = "pending"]) ELSE idle
  IN  /\ nodes[a].exec = "settling"
      /\ nodes' = [nodes EXCEPT ![a] = next]
      /\ inbox' = StartRun(inbox, a, next)
      /\ waits' = Notified(waits)
      /\ UNCHANGED disposed

\* ... when the suspension rejects: what was queued meanwhile is cancelled.
SuspendFails(a) ==
  LET r == nodes[a]
  IN  /\ r.exec = "settling" /\ r.open /\ ~r.broken
      /\ nodes' = [nodes EXCEPT ![a] =
           [r EXCEPT !.exec = "none", !.broken = TRUE, !.queue = 0,
                     !.status = IF r.queue > 0 /\ ~r.closing THEN "failed" ELSE @]]
      /\ inbox' = Report(nodes, inbox, a)
      /\ waits' = Notified(waits)
      /\ UNCHANGED disposed

-----------------------------------------------------------------------------
(* Closing. *)

Freeze(r) == [r EXCEPT !.closing = TRUE, !.queue = 0]

CloseRecord(r, status) ==
  IF r.cleanup
  THEN [r EXCEPT !.status = status, !.due = FALSE]
  ELSE [Freeze(r) EXCEPT !.status = status, !.cleanup = TRUE, !.due = FALSE,
                         !.aborted = @ \/ r.exec \in {"creating", "running"}]

\* The agents of S whose cleanup has not begun: closing them empties their
\* inbox and aborts their turn.
Fresh(S) == {a \in S : ~nodes[a].cleanup}
Emptied(S) == [n \in Nodes |-> IF n \in Fresh(S) THEN <<>> ELSE inbox[n]]

Depth(a) == Cardinality({b \in Nodes : Above[<<a, b>>]})

\* closeAgent() up to its first await.
CloseAgent(t) ==
  LET S == Subtree(t)
  IN  /\ ~disposed
      /\ \E d \in S :
           /\ \A b \in S : Depth(b) <= Depth(d)
           /\ nodes' = [n \in Nodes |->
                CASE n = d -> CloseRecord(Freeze(nodes[n]), "closed")
                  [] n \in S \ {d} -> [Freeze(nodes[n]) EXCEPT !.due = TRUE]
                  [] OTHER -> nodes[n]]
           /\ inbox' = Emptied({d})
           /\ waits' = Aborted(Notified(waits), Fresh({d}))
      /\ UNCHANGED disposed

\* closeAgent() goes on with the parent of what it has closed.
CloseNext(a) ==
  /\ nodes[a].due
  /\ \A d \in Subtree(a) \ {a} : ~nodes[d].due
  /\ nodes' = [nodes EXCEPT ![a] = CloseRecord(@, "closed")]
  /\ inbox' = Emptied({a})
  /\ waits' = Notified(Aborted(waits, Fresh({a})))
  /\ UNCHANGED disposed

\* A watchdog of startWatchdog fires.
Timeout(a) ==
  LET S == Subtree(a)
  IN  /\ nodes[a].exec \in {"creating", "running"}
      /\ ~nodes[a].aborted /\ ~nodes[a].closing
      /\ NoneWoken
      /\ nodes' = [n \in Nodes |->
           CASE n = a -> CloseRecord(nodes[n], "failed")
             [] n \in S \ {a} -> CloseRecord(nodes[n], "closed")
             [] OTHER -> nodes[n]]
      /\ inbox' = Report(nodes, Emptied(S), a)
      /\ waits' = Aborted(Notified(waits), Fresh(S))
      /\ UNCHANGED disposed

\* A step of a cleanup fails, and the parent is told.
CleanupFails(a) ==
  /\ nodes[a].cleanup /\ ~nodes[a].broken
  /\ nodes' = [nodes EXCEPT ![a].broken = TRUE]
  /\ inbox' = Report(nodes, inbox, a)
  /\ waits' = Notified(waits)
  /\ UNCHANGED disposed

\* dispose()
Dispose ==
  /\ ~disposed /\ disposed' = TRUE
  /\ nodes' = [n \in Nodes |-> IF n \in Agents THEN CloseRecord(nodes[n], "closed") ELSE nodes[n]]
  /\ inbox' = Emptied(Agents)
  /\ waits' = Aborted(Notified(waits), Fresh(Agents))

DisposeEnds ==
  /\ disposed /\ nodes[Root].status # "closed"
  /\ nodes' = [nodes EXCEPT ![Root].status = "closed"]
  /\ waits' = Notified(waits)
  /\ UNCHANGED <<inbox, disposed>>

-----------------------------------------------------------------------------
(* waitForUpdate. *)

\* buildResult() finds something to return.
Answered(c, targets) ==
  \/ Matching(inbox[c], targets) # {}
  \/ \E t \in targets : nodes[t].status \in Final

Drain(c, targets) == inbox' = [inbox EXCEPT ![c] = Drained(@, targets)]

\* Called by Root's host, or by a tool in a turn of agent c.
WaitForUpdate(w, c, targets) ==
  /\ ~Pending(w)
  /\ OpenCaller(c)
  /\ nodes[c].exec = "running"
  /\ Drain(c, targets)
  /\ waits' = [waits EXCEPT ![w] =
       IF Answered(c, targets) \/ nodes[c].aborted
       THEN Over
       ELSE [Over EXCEPT !.phase = "asleep", !.caller = c, !.targets = targets]]
  /\ UNCHANGED <<nodes, disposed>>

\* Variant of Resume: a deadline that has passed is not looked at.
ResumeForever(w) ==
  LET r == waits[w]
  IN  /\ r.phase = "woken"
      /\ Drain(r.caller, r.targets)
      /\ waits' = [waits EXCEPT ![w] =
           IF Answered(r.caller, r.targets) THEN Over ELSE [r EXCEPT !.phase = "asleep"]]
      /\ UNCHANGED <<nodes, disposed>>

\* The code behind waitForSignal.
Resume(w) ==
  LET r == waits[w]
  IN  /\ r.phase = "woken"
      /\ Drain(r.caller, r.targets)
      /\ waits' = [waits EXCEPT ![w] =
           IF Answered(r.caller, r.targets) \/ r.expired
           THEN Over
           ELSE [r EXCEPT !.phase = "asleep"]]
      /\ UNCHANGED <<nodes, disposed>>

\* The clock passes the deadline of a wait.
Deadline(w) ==
  /\ Pending(w) /\ ~waits[w].expired
  /\ waits' = [waits EXCEPT ![w].expired = TRUE, ![w].phase = "woken"]
  /\ UNCHANGED <<nodes, inbox, disposed>>

\* The host aborts a wait of its own.
CancelWait(w) ==
  /\ NoneWoken
  /\ waits[w].phase = "asleep" /\ waits[w].caller = Root
  /\ waits' = [waits EXCEPT ![w] = Over]
  /\ UNCHANGED <<nodes, inbox, disposed>>

-----------------------------------------------------------------------------
Messages == \E call \in SendCalls : SendMessage(call[1], call[2])

Turns ==
  \E a \in Agents :
    \/ TakePendingInput(a)
    \/ FollowupTask(a)
    \/ InterruptAgent(a)
    \/ \E outcome \in {"ok", "error", "leak", "abort"} : CreateReturns(a, outcome)
    \/ \E outcome \in {"ok", "error", "abort"} : RunReturns(a, outcome)
    \/ Settle(a)
    \/ SuspendFails(a)

Closings ==
  \/ \E a \in Agents : CloseAgent(a) \/ CloseNext(a) \/ Timeout(a) \/ CleanupFails(a)
  \/ Dispose
  \/ DisposeEnds

Waiting ==
  \E w \in Waits :
    \/ \E call \in WaitCalls[w] : WaitForUpdate(w, call[1], call[2])
    \/ Resume(w)
    \/ Deadline(w)
    \/ CancelWait(w)

Next == Messages \/ Turns \/ Closings \/ Waiting

Spec == Init /\ [][Next]_vars

\* A woken wait is resumed by the event loop, and time passes.
Fairness == \A w \in Waits : WF_vars(Resume(w)) /\ WF_vars(Deadline(w))
FairSpec == Spec /\ Fairness

-----------------------------------------------------------------------------
TypeOK ==
  /\ nodes \in [Nodes -> NodeRecord]
  /\ inbox \in [Nodes -> Seq(Message)]
  /\ waits \in [Waits -> WaitRecord]
  /\ disposed \in BOOLEAN

\* No wait sleeps over something it should return: whatever makes a message or
\* a final status visible wakes it in the same section, and another wait of the
\* same caller that took the message instead leaves nothing behind.
NoMissedUpdate ==
  \A w \in Waits :
    waits[w].phase = "asleep" => ~Answered(waits[w].caller, waits[w].targets)

\* No message overtakes an earlier one of its sender, although turns take from
\* the front of an inbox and waits from the middle of it.
NoOvertaking ==
  [][\A n \in Nodes : \A i, j \in DOMAIN inbox[n] :
       /\ i < j /\ inbox[n][i].sender = inbox[n][j].sender
       /\ Contains(inbox'[n], inbox[n][i])
       => Contains(inbox'[n], inbox[n][j])]_vars

\* The inbox emptied by closeRecord stays empty: nothing is delivered to an
\* agent that will not read it any more.
ClosedInboxEmpty ==
  /\ TypeOK
  /\ \A a \in Agents : nodes[a].cleanup => inbox[a] = <<>>

\* Every waitForUpdate returns, whatever happens to its targets and its caller.
WaitsEnd == \A w \in Waits : Pending(w) ~> ~Pending(w)

\* A wait whose signal aborted does not sleep on: it rejects.
AbortEndsWait == \A w \in Waits : waits[w].aborted => waits[w].phase # "asleep"
=============================================================================
