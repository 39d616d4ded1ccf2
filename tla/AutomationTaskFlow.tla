--------------------------- MODULE AutomationTaskFlow ---------------------------
(***************************************************************************)
(* The task flows of one lookup key: the runs of an automation are tasks   *)
(* of the latest revision of its task flow, whose status is aggregated     *)
(* from theirs (apps/adapter/src/automation-service.ts, the launches in    *)
(* run-service.ts, the cancellation in routers/automation.ts).             *)
(*                                                                         *)
(* A launch, and each change of a run's status, is a transaction at READ   *)
(* COMMITTED.  It holds the lock of a row from its first write to its end, *)
(* and its selects see what is committed, and what it wrote itself.  A     *)
(* cancellation of a task flow is not a transaction: it marks the row,     *)
(* lists the tasks, and cancels their runs one after the other.            *)
(*                                                                         *)
(* A task's status is that of its run, since one transaction changes both; *)
(* which of the changes of one run succeeds is RunLifecycle's subject.     *)
(***************************************************************************)
EXTENDS Integers, Sequences, FiniteSets, FiniteSetsExt

CONSTANTS
    Runs,        \* the runs there may be, each a task of some revision
    Cancellers,  \* cancellations of a task flow, one each
    MaxOpen      \* bound: how many transactions are open at a time

ASSUME ActorsAssumption == IsFiniteSet(Runs) /\ Runs \cap Cancellers = {}
ASSUME BoundAssumption  == MaxOpen \in Nat

VARIABLES
    flows,      \* the statuses of the revisions, oldest first
    tasks,      \* the task of each run, or NoTask
    tx,         \* the open transaction of each run, or of each canceller
    cancel,     \* how far each cancellation is
    overlapped  \* revisions two transactions were ever open on at a time

vars == <<flows, tasks, tx, cancel, overlapped>>

-----------------------------------------------------------------------------
(* Rows and transactions.                                                  *)

Actors    == Runs \cup Cancellers
Active    == {"running", "waiting"}
Ended     == {"succeeded", "failed", "cancelled"}
Statuses  == Active \cup Ended \cup {"partial", "blocked"}
Revisions == 1..Cardinality(Runs)

NoTask == [flow |-> 0, seq |-> 0, status |-> "none"]

TasksOf(f)  == {r \in Runs : tasks[r].flow = f}
ActiveIn(f) == {r \in TasksOf(f) : tasks[r].status \in Active}

\* A launch is "read", then "updated" when it holds the lock of the task
\* flow.  A change of status is "read" until it holds the lock of the run,
\* "locked", then "computed" when it has aggregated.
\* seen: of a change that is "read", the status of its run; of one "locked",
\* that of the task flow; of one "computed", what it is to become.
\* op: a launch joins a task flow or creates one; seq is the task's number.
Tx(pc, op, r, f, to, seen) ==
    [pc |-> pc, op |-> op, run |-> r, flow |-> f, seq |-> 0, to |-> to, seen |-> seen]
TxIdle == Tx("idle", "none", "none", 0, "none", "none")
TxLaunch(op, r, f) == Tx("read", op, r, f, "none", "none")
TxChange(pc, r, f, to, seen) == Tx(pc, "change", r, f, to, seen)

NoCancel == [pc |-> "idle", flow |-> 0, todo |-> {}, asked |-> {}]

Launching(a, pc) == tx[a].op \in {"join", "create"} /\ tx[a].pc = pc
Changing(a, pc)  == tx[a].op = "change" /\ tx[a].pc = pc

Open       == {a \in Actors : tx[a].pc # "idle"}
MayOpen(a) == a \notin Open /\ Cardinality(Open) < MaxOpen

RunLocked(r)  == \E a \in Actors : tx[a].pc \in {"locked", "computed"} /\ tx[a].run = r
\* Mutant: the task flow is updated last.
FlowNeverLocked(f) == FALSE
FlowLocked(f) == \E a \in Actors : Launching(a, "updated") /\ tx[a].flow = f

\* Who begins to read now, while others have not committed?
NoteOverlap(a, f) ==
    overlapped' = IF \E b \in Open \ {a} : tx[b].flow = f
                  THEN overlapped \cup {f} ELSE overlapped

End(a)  == tx' = [tx EXCEPT ![a] = TxIdle]

-----------------------------------------------------------------------------
(* aggregateAutomationFlowStatus, of the set of the tasks' statuses.       *)

Aggregate(statuses, current, managed) ==
    CASE "running" \in statuses -> "running"
      [] "running" \notin statuses /\ "waiting" \in statuses -> "waiting"
      [] statuses \cap Active = {} ->
            IF current = "cancelled" THEN "cancelled"
            ELSE IF "failed" \in statuses
                 THEN IF statuses # {"failed"} THEN "partial"
                      ELSE IF managed THEN "blocked" ELSE "failed"
            ELSE IF "cancelled" \in statuses THEN "cancelled" ELSE "succeeded"

\* The first task of a task flow is its root; any other is not alone.
HasManagedChildren(f) == Cardinality(TasksOf(f)) > 1

\* Mutant: the siblings are read before the task is updated.
SiblingsBefore(a) == {tasks[r].status : r \in TasksOf(tx[a].flow)}
\* What the select of the siblings finds, the update of the task included.
Siblings(a) ==
    {IF r = tx[a].run THEN tx[a].to ELSE tasks[r].status : r \in TasksOf(tx[a].flow)}

-----------------------------------------------------------------------------
(* Launches: startPublishedFlowRun and trackAutomationRunStarted.          *)

Latest == Len(flows)

\* A run that a task or a standing order starts: a task of the latest
\* revision if that is active, of a new one otherwise.
Launch(r) ==
    LET op == IF Latest > 0 /\ flows[Latest] \in Active THEN "join" ELSE "create"
        f  == IF op = "join" THEN Latest ELSE Latest + 1
    IN  /\ tasks[r] = NoTask /\ MayOpen(r)
        /\ tx' = [tx EXCEPT ![r] = TxLaunch(op, r, f)]
        /\ NoteOverlap(r, f)
        /\ UNCHANGED <<flows, tasks, cancel>>

\* Mutant: only a cancelled task flow is closed.
AcceptsUnlessCancelled(status) == status # "cancelled"
\* assertAutomationTaskFlowCanAcceptNewRun
Accepts(status) == status \notin {"cancelled", "succeeded"}

\* A child of some task.  A retry differs in the task it names, which must
\* have failed, and stays so.
LaunchInto(r, f) ==
    /\ tasks[r] = NoTask /\ MayOpen(r)
    /\ Accepts(flows[f])
    /\ tx' = [tx EXCEPT ![r] = TxLaunch("join", r, f)]
    /\ NoteOverlap(r, f)
    /\ UNCHANGED <<flows, tasks, cancel>>

\* Mutant: one number is left out.
NextSequenceSkips(f) == Max({tasks[r].seq : r \in TasksOf(f)} \cup {0}) + 2
\* getLatestTask
NextSequence(f) == Max({tasks[r].seq : r \in TasksOf(f)} \cup {0}) + 1

\* The row of the task flow is written, whatever it has become.  A revision
\* that somebody else has inserted is refused by the index, and the launch
\* fails.
LaunchUpdate(r) ==
    LET f == tx[r].flow IN
    /\ Launching(r, "read")
    /\ ~FlowLocked(f)
    /\ IF tx[r].op = "create" /\ f <= Latest
       THEN End(r)
       ELSE tx' = [tx EXCEPT ![r] = [@ EXCEPT !.pc = "updated", !.seq = NextSequence(f)]]
    /\ UNCHANGED <<flows, tasks, cancel, overlapped>>

LaunchCommit(r) ==
    LET f == tx[r].flow IN
    /\ Launching(r, "updated")
    /\ flows' = IF tx[r].op = "create" THEN Append(flows, "running")
                ELSE [flows EXCEPT ![f] = "running"]
    /\ tasks' = [tasks EXCEPT ![r] =
                    [flow |-> f, seq |-> tx[r].seq, status |-> "running"]]
    /\ End(r)
    /\ UNCHANGED <<cancel, overlapped>>

-----------------------------------------------------------------------------
(* Changes of a run's status, each with syncAutomationRunState.            *)

\* The edges of RunContract: a suspension, the end of an execution, a
\* resumption, a failure, a cancellation.
Moves(status) ==
    CASE status = "running" -> {"waiting"} \cup Ended
      [] status = "waiting" -> {"running", "failed", "cancelled"}
      [] OTHER              -> {}

\* The guarded update of the run has found its row; the task and the status
\* of its task flow are read.
ChangeBegin(r, to) ==
    LET f == tasks[r].flow IN
    /\ to \in Moves(tasks[r].status)
    /\ MayOpen(r) /\ ~RunLocked(r)
    /\ tx' = [tx EXCEPT ![r] = TxChange("locked", r, f, to, flows[f])]
    /\ NoteOverlap(r, f)
    /\ UNCHANGED <<flows, tasks, cancel>>

\* The task is updated, its siblings are read and aggregated.
ChangeAggregate(a) ==
    /\ Changing(a, "locked")
    /\ LET status == Aggregate(Siblings(a), tx[a].seen, HasManagedChildren(tx[a].flow))
       IN  tx' = [tx EXCEPT ![a] = [@ EXCEPT !.pc = "computed", !.seen = status]]
    /\ UNCHANGED <<flows, tasks, cancel, overlapped>>

ChangeCommit(a) ==
    /\ Changing(a, "computed")
    /\ ~FlowLocked(tx[a].flow)
    /\ tasks' = [tasks EXCEPT ![tx[a].run].status = tx[a].to]
    /\ flows' = [flows EXCEPT ![tx[a].flow] = tx[a].seen]
    /\ cancel' = IF a \in Cancellers
                 THEN [cancel EXCEPT ![a].todo = @ \ {tx[a].run}] ELSE cancel
    /\ End(a)
    /\ UNCHANGED overlapped

\* A transaction of a run fails, or its process dies.
Abort(r) ==
    /\ tx[r].pc # "idle"
    /\ End(r)
    /\ UNCHANGED <<flows, tasks, cancel, overlapped>>

-----------------------------------------------------------------------------
(* automation.cancel                                                       *)

\* markAutomationTaskFlowCancelled: the row is overwritten, unless it says so
\* already.  `asked` is what the cancellation is to end.
CancelMark(c, f) ==
    /\ cancel[c].pc = "idle"
    /\ ~FlowLocked(f)
    /\ flows'  = [flows EXCEPT ![f] = "cancelled"]
    /\ cancel' = [cancel EXCEPT ![c] = [pc |-> "marked", flow |-> f, todo |-> {},
                                         asked |-> ActiveIn(f)]]
    /\ NoteOverlap(c, f)
    /\ UNCHANGED <<tasks, tx>>

\* Mutant: suspended tasks are overlooked.
CancellableRunning(f) == {r \in TasksOf(f) : tasks[r].status = "running"}
Cancellable(f) == ActiveIn(f)

CancelList(c) ==
    /\ cancel[c].pc = "marked"
    /\ cancel' = [cancel EXCEPT ![c] =
                      [@ EXCEPT !.pc = "looping", !.todo = Cancellable(cancel[c].flow)]]
    /\ UNCHANGED <<flows, tasks, tx, overlapped>>

\* cancelRun, of the tasks in any order: a run that has ended is left alone.
CancelRead(c, r) ==
    LET f == cancel[c].flow IN
    /\ cancel[c].pc = "looping" /\ tx[c].pc = "idle"
    /\ r \in cancel[c].todo
    /\ IF tasks[r].status \in Ended
       THEN /\ cancel' = [cancel EXCEPT ![c].todo = @ \ {r}]
            /\ UNCHANGED <<tx, overlapped>>
       ELSE /\ MayOpen(c)
            /\ tx' = [tx EXCEPT ![c] = TxChange("read", r, f, "cancelled", tasks[r].status)]
            /\ NoteOverlap(c, f)
            /\ UNCHANGED cancel
    /\ UNCHANGED <<flows, tasks>>

\* The guarded update of the run: if its status has changed meanwhile, it is
\* not cancelled, and the loop goes on.
CancelLock(c) ==
    LET r == tx[c].run IN
    /\ Changing(c, "read")
    /\ ~RunLocked(r)
    /\ IF tasks[r].status = tx[c].seen
       THEN /\ tx' = [tx EXCEPT ![c] = [@ EXCEPT !.pc = "locked", !.seen = flows[tx[c].flow]]]
            /\ UNCHANGED cancel
       ELSE /\ End(c)
            /\ cancel' = [cancel EXCEPT ![c].todo = @ \ {r}]
    /\ UNCHANGED <<flows, tasks, overlapped>>

CancelReturn(c) ==
    /\ cancel[c].pc = "looping" /\ cancel[c].todo = {}
    /\ cancel' = [cancel EXCEPT ![c].pc = "done"]
    /\ UNCHANGED <<flows, tasks, tx, overlapped>>

\* One of the transactions fails, on the number of its event for one, or the
\* process dies: the other tasks are not cancelled.
CancelFails(c) ==
    /\ cancel[c].pc \in {"marked", "looping"}
    /\ cancel' = [cancel EXCEPT ![c] = [@ EXCEPT !.pc = "failed", !.todo = {}]]
    /\ End(c)
    /\ UNCHANGED <<flows, tasks, overlapped>>

-----------------------------------------------------------------------------
Init ==
    /\ flows      = << >>
    /\ tasks      = [r \in Runs |-> NoTask]
    /\ tx         = [a \in Actors |-> TxIdle]
    /\ cancel     = [c \in Cancellers |-> NoCancel]
    /\ overlapped = {}

RunStep(r) ==
    \/ Launch(r)
    \/ \E f \in DOMAIN flows : LaunchInto(r, f)
    \/ LaunchUpdate(r) \/ LaunchCommit(r)
    \/ \E to \in Active \cup Ended : ChangeBegin(r, to)
    \/ Abort(r)

CancelStep(c) ==
    \/ \E f \in DOMAIN flows : CancelMark(c, f)
    \/ CancelList(c)
    \/ \E r \in Runs : CancelRead(c, r)
    \/ CancelLock(c) \/ CancelReturn(c) \/ CancelFails(c)

Next ==
    \/ \E r \in Runs : RunStep(r)
    \/ \E c \in Cancellers : CancelStep(c)
    \/ \E a \in Actors : ChangeAggregate(a) \/ ChangeCommit(a)

Spec == Init /\ [][Next]_vars
-----------------------------------------------------------------------------

\* Every field stays in its domain.
TypeOK ==
    /\ flows \in Seq(Statuses) /\ Len(flows) <= Cardinality(Runs)
    /\ tasks \in [Runs -> {NoTask} \cup [flow : Revisions, seq : Revisions,
                                         status : Active \cup Ended]]
    /\ tx \in [Actors -> [pc : {"idle", "read", "updated", "locked", "computed"},
                          op : {"none", "join", "create", "change"}, run : Runs \cup {"none"},
                          flow : Revisions \cup {0},
                          seq : Revisions \cup {0},
                          to : Active \cup Ended \cup {"none"},
                          seen : Statuses \cup {"none"}]]
    /\ cancel \in [Cancellers -> [pc : {"idle", "marked", "looping", "done", "failed"},
                                  flow : Revisions \cup {0}, todo : SUBSET Runs,
                                  asked : SUBSET Runs]]
    /\ overlapped \subseteq Revisions

\* No two tasks of a task flow have the same number, although each launch
\* counts for itself and no index forbids it (trackAutomationRunStarted).
SequencesUnique ==
    \A q, r \in Runs : q # r /\ tasks[q].flow = tasks[r].flow /\ tasks[q] # NoTask
        => tasks[q].seq # tasks[r].seq

\* Between the transactions on a task flow, if no two of them overlapped, its
\* status is what its tasks say: it is active just while one of them is, and
\* has succeeded or failed as they have.  (A cancelled one says so at once.)
Quiet(f) == f \notin overlapped /\ \A a \in Actors : tx[a].flow # f
StatusTruthful ==
    \A f \in DOMAIN flows : Quiet(f) /\ flows[f] # "cancelled" =>
        LET statuses == {tasks[r].status : r \in TasksOf(f)} IN
        /\ flows[f] = "running" <=> "running" \in statuses
        /\ flows[f] = "waiting" <=> "waiting" \in statuses /\ "running" \notin statuses
        /\ flows[f] = "succeeded" <=> statuses = {"succeeded"}
        /\ flows[f] \in {"failed", "blocked"} <=> statuses = {"failed"}

\* "will not accept new work": a task flow that has succeeded, or that was
\* cancelled and whose tasks have ended, gets no further task, and does not
\* become anything else than cancelled, if no two transactions overlapped.
Closed(f) == flows[f] \in {"succeeded", "cancelled"} /\ ActiveIn(f) = {}
ClosedStaysClosed ==
    [][\A f \in DOMAIN flows : Closed(f) /\ f \notin overlapped' =>
            /\ flows'[f] \in {flows[f], "cancelled"}
            /\ \A r \in Runs : tasks'[r].flow = f => tasks[r].flow = f]_vars

\* A cancellation that returns has ended every task that was active when the
\* task flow was marked, if no two transactions overlapped.
CancelReaches ==
    \A c \in Cancellers : cancel[c].pc = "done" /\ cancel[c].flow \notin overlapped
        => \A r \in cancel[c].asked : tasks[r].status \in Ended

\* A task flow and its tasks tell the same story, after changes of status as
\* well as after a cancellation.
FlowTellsTasks == TypeOK /\ StatusTruthful /\ CancelReaches

\* "keeps cancelled flows cancelled once all active work has stopped": when a
\* cancellation has returned, and what was active has been cancelled. It does not
\* hold, see the README; no configuration lists it.
CancelledStays ==
    \A c \in Cancellers : LET f == cancel[c].flow IN
        /\ cancel[c].pc = "done" /\ Quiet(f) /\ ActiveIn(f) = {}
        /\ cancel[c].asked # {}
        /\ \A r \in cancel[c].asked : tasks[r].status = "cancelled"
        => flows[f] = "cancelled"

=============================================================================
