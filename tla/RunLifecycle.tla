---------------------------- MODULE RunLifecycle ----------------------------
(***************************************************************************)
(* The life of one run of a published flow: its row in `runs`, its event   *)
(* log `run_events`, its rows in `run_approval_requests`, and everything   *)
(* that changes them concurrently: background executions, ticks of the     *)
(* wait-resume service, approval decisions and cancellations               *)
(* (apps/adapter/src/run-service.ts, wait-resume-service.ts,               *)
(* routers/runs.ts).                                                       *)
(*                                                                         *)
(* Every operation is one Postgres transaction at READ COMMITTED with      *)
(* plain selects.  It is split where another commit can come between:      *)
(* the read of the run row, the read of the last event sequence, and the   *)
(* writes.  The writes are one step: among them is the insert of event     *)
(* last + 1, and the unique index on (run_id, sequence) makes any other    *)
(* writer of this run wait and fail, so nobody else commits among them.    *)
(* (Two writers that lock the request and the event in opposite orders     *)
(* deadlock; the database aborts one, as if the other had come first.)     *)
(***************************************************************************)
EXTENDS Integers, Sequences, FiniteSets

CONSTANTS
    Tickers,      \* ticks of the wait-resume service that may overlap
    Reviewers,    \* approval decisions, one request each
    Cancellers,   \* cancel requests, one each
    Executors,    \* slots for executions in the background
    Nodes,        \* approval nodes of the flow
    NoNode,       \* "not waiting on an approval node"
    MaxParks,     \* bound: how often executions may suspend the run
    MaxCrashes    \* bound: how often the adapter process may die

Requests == Reviewers \cup Cancellers
Actors   == Tickers \cup Requests \cup Executors

ASSUME BoundsAssumption == MaxParks \in Nat /\ MaxCrashes \in Nat
ASSUME NodesAssumption  == NoNode \notin Nodes
\* One actor, one role.
ASSUME ActorsAssumption ==
    /\ Tickers \cap Requests = {}
    /\ Executors \cap (Tickers \cup Requests) = {}
    /\ Reviewers \cap Cancellers = {}

VARIABLES
    run,       \* the committed row of the run
    log,       \* the committed run_events, by sequence number
    reqs,      \* the committed run_approval_requests, oldest first
    tx,        \* the transaction each actor has open
    exec,      \* the executions held in the memory of the process
    parks,     \* how often an execution ended in a suspension
    crashes,   \* how often the process died
    echoed     \* history: an execution was queued for a run already running

vars == <<run, log, reqs, tx, exec, parks, crashes, echoed>>

-----------------------------------------------------------------------------
(* Rows, events, transactions.                                             *)

Terminal  == {"succeeded", "failed", "cancelled"}
Statuses  == {"absent", "running", "waiting"} \cup Terminal
Decisions == {"approved", "rejected"}

\* The queue a resumed execution starts from: the entry of the flow, the
\* continuation of a timer wait, or the approved or rejected queue of a node.
Branches == {"none", "entry", "timer"} \cup Decisions
Works    == [branch : Branches, node : Nodes \cup {NoNode}]

Work(branch, node) == [branch |-> branch, node |-> node]
NoWork == Work("none", NoNode)

\* `errs`: the continuation carries rejectionError and timeoutError, as the
\* approval of an exec node does and the one of an Approval node does not.
Row(status, wait, node, errs, work) ==
    [status |-> status, wait |-> wait, node |-> node, errs |-> errs,
     work |-> work]

ClosedRow(status) == Row(status, "none", NoNode, FALSE, NoWork)
RunningRow(work)  == Row("running", "none", NoNode, FALSE, work)

\* What an execution can leave in the row: status, continuation, resumeAt.
Suspensions == {Row("waiting", "timer", NoNode, FALSE, NoWork)} \cup
               {Row("waiting", "approval", n, b, NoWork) : n \in Nodes, b \in BOOLEAN}
Endings     == {ClosedRow("succeeded"), ClosedRow("failed")}

\* The continuation says what the status needs, and nothing else.
Rows == {ClosedRow(s) : s \in {"absent"} \cup Terminal}
        \cup {RunningRow(w) : w \in Works} \cup Suspensions

EventTypes == {"run.queued", "run.started", "run.waiting", "run.resumed",
               "run.approval.recorded", "run.finished"}
Events == [type : EventTypes, node : Nodes \cup {NoNode},
           arg : Statuses \cup Decisions \cup {"", "timer", "approval"}]

Event(type, arg, node) == [type |-> type, arg |-> arg, node |-> node]
Finished(status)       == Event("run.finished", status, NoNode)
Resumed                == Event("run.resumed", "", NoNode)
Recorded(say, node)    == Event("run.approval.recorded", say, node)

Logged(e) == \E i \in DOMAIN log : log[i] = e

RequestRows == [node : Nodes,
                status : {"pending", "timed_out", "cancelled"} \cup Decisions]

\* say: the decision a reviewer brings.
Transactions == [pc : {"idle", "listed", "read", "write", "done"}, row : Rows,
                 last : Nat, say : Decisions \cup {"none"}]
TxIdle == [pc |-> "idle", row |-> ClosedRow("absent"), last |-> 0, say |-> "none"]
TxDone == [TxIdle EXCEPT !.pc = "done"]

Executions == [pc : {"idle", "queued", "working", "finishing", "recovering"},
               work : Works]
ExecIdle == [pc |-> "idle", work |-> NoWork]

-----------------------------------------------------------------------------
Init ==
    /\ run     = ClosedRow("absent")
    /\ log     = << >>
    /\ reqs    = << >>
    /\ tx      = [a \in Actors |-> TxIdle]
    /\ exec    = [e \in Executors |-> ExecIdle]
    /\ parks   = 0
    /\ crashes = 0
    /\ echoed  = FALSE

-----------------------------------------------------------------------------
(* The steps every transaction is made of.                                 *)

\* First select: the whole row of the run.
ReadRow(a, say) ==
    tx' = [tx EXCEPT ![a] = [pc |-> "read", row |-> run, last |-> 0, say |-> say]]

\* Second select: the last sequence number of the event log.
ReadLast(a) ==
    /\ tx[a].pc = "read"
    /\ tx' = [tx EXCEPT ![a].pc = "write", ![a].last = Len(log)]
    /\ UNCHANGED <<run, log, reqs, exec, parks, crashes, echoed>>

\* Mutant: the update goes by the id of the run alone.
AppliesAlways(a) == TRUE

\* The update is guarded by the status the transaction has read.
Applies(a) == run.status = tx[a].row.status

\* The events go in at last + 1 whether or not the update then finds its row;
\* an update of no row does not roll anything back.
Commit(a, events, row) ==
    /\ tx[a].pc = "write"
    /\ tx[a].last = Len(log)
    /\ log' = log \o events
    /\ run' = IF Applies(a) THEN row ELSE run

\* Someone else has inserted event last + 1: unique violation, rollback.
Collides(a) == tx[a].pc = "write" /\ tx[a].last # Len(log)

PendingRows(node) ==
    {i \in DOMAIN reqs : reqs[i].node = node /\ reqs[i].status = "pending"}

\* updatePendingApprovalRequest: the latest pending row of the node, if any.
Resolve(node, status) ==
    IF PendingRows(node) = {} THEN reqs
    ELSE LET latest == CHOOSE i \in PendingRows(node) :
                           \A j \in PendingRows(node) : j <= i
         IN  [reqs EXCEPT ![latest].status = status]

\* Mutant: a node is only ever asked about once.
CreateRequestOnce(node) ==
    IF \E i \in DOMAIN reqs : reqs[i].node = node THEN reqs
    ELSE Append(reqs, [node |-> node, status |-> "pending"])

\* createPendingApprovalRequest.
CreateRequest(node) == Append(reqs, [node |-> node, status |-> "pending"])

\* executeRunInBackground: a microtask is queued.
Spawn == \E e \in Executors :
             /\ exec[e].pc = "idle"
             /\ exec' = [exec EXCEPT ![e].pc = "queued"]

\* Mutant: the resumed run is not executed.
NeverSpawn(row) == UNCHANGED <<exec, echoed>>

\* What the callers do with the run the transaction returns: whoever has brought
\* it there, they execute it. `echoed` remembers that it was running before.
SpawnIfRunning(row) ==
    IF row.status = "running"
    THEN Spawn /\ echoed' = (echoed \/ run.status = "running")
    ELSE UNCHANGED <<exec, echoed>>

-----------------------------------------------------------------------------
(* startPublishedFlowRun: one transaction inserts the row as pending, its  *)
(* two events, and updates it to running; the caller then executes it.     *)

Start ==
    /\ run.status = "absent"
    /\ run' = RunningRow(Work("entry", NoNode))
    /\ log' = log \o <<Event("run.queued", "", NoNode), Event("run.started", "", NoNode)>>
    /\ Spawn
    /\ UNCHANGED <<reqs, tx, parks, crashes, echoed>>

-----------------------------------------------------------------------------
(* executeRunToCompletion, and markRunExecutionFailed when it throws.      *)

\* The microtask reads the row; a run that is not running is left alone.
ExecStart(e) ==
    /\ exec[e].pc = "queued"
    /\ exec' = [exec EXCEPT ![e] = IF run.status = "running"
                                   THEN [@ EXCEPT !.pc = "working", !.work = run.work]
                                   ELSE ExecIdle]
    /\ UNCHANGED <<run, log, reqs, tx, parks, crashes, echoed>>

\* executePublishedFlow returns.  What it returns matters only in Finalize, and
\* is chosen there; "cancelled" it returns only after the abort poll has seen
\* the run cancelled, and then ExecBegin gives up.  What its nodes do outside
\* (agents, channels, memory, commands) is left out.
ExecEnd(e) ==
    /\ exec[e].pc = "working"
    /\ exec' = [exec EXCEPT ![e].pc = "finishing"]
    /\ UNCHANGED <<run, log, reqs, tx, parks, crashes, echoed>>

\* Anything around the execution throws.
ExecThrow(e) ==
    /\ exec[e].pc = "working"
    /\ exec' = [exec EXCEPT ![e].pc = "recovering"]
    /\ UNCHANGED <<run, log, reqs, tx, parks, crashes, echoed>>

\* Mutant: the finalising transaction trusts that the run is still running.
ExecBeginUnchecked(e) ==
    /\ exec[e].pc \in {"finishing", "recovering"}
    /\ tx[e].pc = "idle"
    /\ ReadRow(e, "none")
    /\ UNCHANGED <<run, log, reqs, exec, parks, crashes, echoed>>

\* The finalising and the recovering transaction both give up on a run that is
\* no longer running.
ExecBegin(e) ==
    /\ exec[e].pc \in {"finishing", "recovering"}
    /\ tx[e].pc = "idle"
    /\ IF run.status = "running"
       THEN ReadRow(e, "none") /\ UNCHANGED exec
       ELSE exec' = [exec EXCEPT ![e] = ExecIdle] /\ UNCHANGED tx
    /\ UNCHANGED <<run, log, reqs, parks, crashes, echoed>>

\* The events of an execution: all that happened in it, and its end.
OutcomeEvent(o) ==
    IF o.status = "waiting" THEN Event("run.waiting", o.wait, o.node)
    ELSE Finished(o.status)

\* Mutant: an execution that has suspended its run goes on with its queue.
FinalizeGoesOn(e) ==
    /\ exec[e].pc = "finishing"
    /\ \E o \in Endings \cup (IF parks < MaxParks THEN Suspensions ELSE {}) :
        /\ Commit(e, <<OutcomeEvent(o)>>, o)
        /\ reqs' = IF Applies(e) /\ o.wait = "approval"
                   THEN CreateRequest(o.node) ELSE reqs
        /\ parks' = IF o.status = "waiting" THEN parks + 1 ELSE parks
        /\ exec' = [exec EXCEPT ![e] = IF o.status = "waiting"
                                       THEN [@ EXCEPT !.pc = "working"] ELSE ExecIdle]
    /\ tx'   = [tx EXCEPT ![e] = TxIdle]
    /\ UNCHANGED <<crashes, echoed>>

Finalize(e) ==
    /\ exec[e].pc = "finishing"
    /\ \E o \in Endings \cup (IF parks < MaxParks THEN Suspensions ELSE {}) :
        /\ Commit(e, <<OutcomeEvent(o)>>, o)
        /\ reqs' = IF Applies(e) /\ o.wait = "approval"
                   THEN CreateRequest(o.node) ELSE reqs
        /\ parks' = IF o.status = "waiting" THEN parks + 1 ELSE parks
    /\ tx'   = [tx EXCEPT ![e] = TxIdle]
    /\ exec' = [exec EXCEPT ![e] = ExecIdle]
    /\ UNCHANGED <<crashes, echoed>>

\* The rejection of the insert is an exception: the catch marks the run failed.
FinalizeCollides(e) ==
    /\ exec[e].pc = "finishing"
    /\ Collides(e)
    /\ tx'   = [tx EXCEPT ![e] = TxIdle]
    /\ exec' = [exec EXCEPT ![e].pc = "recovering"]
    /\ UNCHANGED <<run, log, reqs, parks, crashes, echoed>>

MarkFailed(e) ==
    /\ exec[e].pc = "recovering"
    /\ Commit(e, <<Finished("failed")>>, ClosedRow("failed"))
    /\ tx'   = [tx EXCEPT ![e] = TxIdle]
    /\ exec' = [exec EXCEPT ![e] = ExecIdle]
    /\ UNCHANGED <<reqs, parks, crashes, echoed>>

\* The second failure is only logged.
MarkFailedCollides(e) ==
    /\ exec[e].pc = "recovering"
    /\ Collides(e)
    /\ tx'   = [tx EXCEPT ![e] = TxIdle]
    /\ exec' = [exec EXCEPT ![e] = ExecIdle]
    /\ UNCHANGED <<run, log, reqs, parks, crashes, echoed>>

-----------------------------------------------------------------------------
(* processWaitingRuns and resumeWaitingRun.  Every suspension has a        *)
(* resumeAt; that it has passed is a matter of time and always possible.   *)

TickList(t) ==
    /\ tx[t].pc = "idle"
    /\ run.status = "waiting"
    /\ tx' = [tx EXCEPT ![t].pc = "listed"]
    /\ UNCHANGED <<run, log, reqs, exec, parks, crashes, echoed>>

\* A run that is no longer waiting is returned as it is, and the caller
\* executes whatever comes back running.
ResumeBegin(t) ==
    /\ tx[t].pc = "listed"
    /\ IF run.status = "waiting"
       THEN ReadRow(t, "rejected") /\ UNCHANGED <<exec, echoed>>
       ELSE tx' = [tx EXCEPT ![t] = TxIdle] /\ SpawnIfRunning(run)
    /\ UNCHANGED <<run, log, reqs, parks, crashes>>

\* What a decision on the suspension in row r leads to.
Fails(r, say) == say = "rejected" /\ r.errs

\* Mutant: a rejected exec approval logs a resumption like any other.
DecisionEventsResumed(r, say) == <<Recorded(say, r.node), Resumed>>

DecisionEvents(r, say) ==
    <<Recorded(say, r.node), IF Fails(r, say) THEN Finished("failed") ELSE Resumed>>

\* Mutant: the queues of the two branches are swapped.
DecisionRowSwapped(r, say) ==
    IF Fails(r, say) THEN ClosedRow("failed")
    ELSE RunningRow(Work(IF say = "approved" THEN "rejected" ELSE "approved", r.node))


DecisionRow(r, say) ==
    IF Fails(r, say) THEN ClosedRow("failed") ELSE RunningRow(Work(say, r.node))

\* An approval that timed out counts as rejected; a timer just continues.
Resume(t) ==
    LET r == tx[t].row IN
    /\ t \in Tickers
    /\ IF r.wait = "approval"
       THEN /\ Commit(t, DecisionEvents(r, "rejected"), DecisionRow(r, "rejected"))
            /\ reqs' = Resolve(r.node, "timed_out")
       ELSE /\ Commit(t, <<Resumed>>, RunningRow(Work("timer", NoNode)))
            /\ UNCHANGED reqs
    /\ tx' = [tx EXCEPT ![t] = TxIdle]
    /\ SpawnIfRunning(run')
    /\ UNCHANGED <<parks, crashes>>

\* The tick warns and leaves the run to a later tick.
ResumeCollides(t) ==
    /\ t \in Tickers
    /\ Collides(t)
    /\ tx' = [tx EXCEPT ![t] = TxIdle]
    /\ UNCHANGED <<run, log, reqs, exec, parks, crashes, echoed>>

-----------------------------------------------------------------------------
(* recordApprovalDecision, called by decideApproval.                       *)

DecideBegin(d, say) ==
    /\ tx[d].pc = "idle"
    /\ run.status # "absent"
    /\ IF run.status = "waiting" /\ run.wait = "approval"
       THEN ReadRow(d, say)
       ELSE tx' = [tx EXCEPT ![d] = TxDone]   \* RUN_NOT_WAITING, APPROVAL_NOT_PENDING
    /\ UNCHANGED <<run, log, reqs, exec, parks, crashes, echoed>>

Decide(d) ==
    LET r == tx[d].row  say == tx[d].say IN
    /\ d \in Reviewers
    /\ Commit(d, DecisionEvents(r, say), DecisionRow(r, say))
    /\ reqs' = Resolve(r.node, say)
    /\ tx' = [tx EXCEPT ![d] = TxDone]
    /\ SpawnIfRunning(run')
    /\ UNCHANGED <<parks, crashes>>

(* cancelRun.                                                              *)

CancelBegin(c) ==
    /\ tx[c].pc = "idle"
    /\ run.status # "absent"
    /\ IF run.status \in Terminal
       THEN tx' = [tx EXCEPT ![c] = TxDone]
       ELSE ReadRow(c, "none")
    /\ UNCHANGED <<run, log, reqs, exec, parks, crashes, echoed>>

Cancel(c) ==
    LET r == tx[c].row IN
    /\ c \in Cancellers
    /\ Commit(c, <<Finished("cancelled")>>, ClosedRow("cancelled"))
    /\ reqs' = IF r.wait = "approval" THEN Resolve(r.node, "cancelled") ELSE reqs
    /\ tx' = [tx EXCEPT ![c] = TxDone]
    /\ UNCHANGED <<exec, parks, crashes, echoed>>

\* A decision or a cancellation that collides answers with an error.
RequestCollides(a) ==
    /\ a \in Requests
    /\ Collides(a)
    /\ tx' = [tx EXCEPT ![a] = TxDone]
    /\ UNCHANGED <<run, log, reqs, exec, parks, crashes, echoed>>

-----------------------------------------------------------------------------
(* The process dies and starts again: open transactions roll back, and no  *)
(* code looks for runs that were executing.                                *)

Crash ==
    /\ crashes < MaxCrashes
    /\ crashes' = crashes + 1
    /\ exec' = [e \in Executors |-> ExecIdle]
    /\ tx' = [a \in Actors |-> IF a \in Requests /\ tx[a].pc # "idle"
                               THEN TxDone ELSE TxIdle]
    /\ UNCHANGED <<run, log, reqs, parks, echoed>>

-----------------------------------------------------------------------------
ExecStep(e) == ExecStart(e) \/ ExecEnd(e) \/ ExecThrow(e) \/ ExecBegin(e)
               \/ Finalize(e) \/ FinalizeCollides(e)
               \/ MarkFailed(e) \/ MarkFailedCollides(e)

TickStep(t) == TickList(t) \/ ResumeBegin(t) \/ Resume(t) \/ ResumeCollides(t)

DecideStep(d) == (\E say \in Decisions : DecideBegin(d, say)) \/ Decide(d)
CancelStep(c) == CancelBegin(c) \/ Cancel(c)

Next ==
    \/ Start
    \/ \E a \in Actors     : ReadLast(a)
    \/ \E e \in Executors  : ExecStep(e)
    \/ \E t \in Tickers    : TickStep(t)
    \/ \E d \in Reviewers  : DecideStep(d)
    \/ \E c \in Cancellers : CancelStep(c)
    \/ \E a \in Requests   : RequestCollides(a)
    \/ Crash

Spec == Init /\ [][Next]_vars

(* Transactions that have begun go on, microtasks run, executions end (the *)
(* executor bounds every node by a timeout or the abort poll), and the     *)
(* interval timer keeps ticking.  Nobody owes a decision or a cancellation.*)
Fairness ==
    /\ \A a \in Actors    : WF_vars(ReadLast(a))
    /\ \A e \in Executors : WF_vars(ExecStep(e))
    /\ \A t \in Tickers   : WF_vars(TickStep(t))
    /\ \A d \in Reviewers : WF_vars(Decide(d))
    /\ \A c \in Cancellers : WF_vars(Cancel(c))
    /\ \A a \in Requests  : WF_vars(RequestCollides(a))

LiveSpec == Spec /\ Fairness
-----------------------------------------------------------------------------
(* Properties.                                                             *)

Executing(e) == exec[e].pc \in {"working", "finishing", "recovering"}
WaitsOn(r)   == r.status = "waiting" /\ r.wait = "approval"

\* What a transaction past its first select has read: every operation gives up
\* on a row that is not in the state it is about.
HasRead(a) ==
    LET r == tx[a].row IN
    tx[a].pc \in {"read", "write"} =>
        /\ r.status \in {"running", "waiting"}
        /\ a \in Executors => r.status = "running"
        /\ a \in Tickers   => r.status = "waiting"
        /\ a \in Reviewers => WaitsOn(r) /\ tx[a].say \in Decisions

\* The type invariant, down to the rows transactions may hold.
TypeOK ==
    /\ run \in Rows
    /\ log \in Seq(Events)
    /\ reqs \in Seq(RequestRows)
    /\ tx \in [Actors -> Transactions]
    /\ exec \in [Executors -> Executions]
    /\ parks \in 0..MaxParks
    /\ crashes \in 0..MaxCrashes
    /\ echoed \in BOOLEAN
    /\ \A a \in Actors : HasRead(a)

\* A finished run is finished for good: no late result of an execution, no
\* stale decision, tick or cancellation changes its row again.
TerminalIsFinal == [][run.status \in Terminal => run' = run]_run

\* Whatever ended a run, its event log says so: there is a run.finished event
\* with the status of the row.
FinishedRecorded == run.status \in Terminal => Logged(Finished(run.status))

\* A run that waits for an approval can be found by those who decide: its node
\* has a pending request.  Only then do the approval queue and the row agree.
WaitingHasRequest == WaitsOn(run) => PendingRows(run.node) # {}

\* Nothing starts from the approved (rejected) queue of a node unless the log
\* records that approval (rejection), whoever decided and however it raced.
DecidedWorkIsRecorded ==
    \A w \in {run.work} \cup {exec[e].work : e \in Executors} :
        w.branch \in Decisions => Logged(Recorded(w.branch, w.node))

\* The contract of a run, with the request table as what is open.  In particular
\* no stale transaction closes the request of a run that goes on waiting.
OpenRequests == IF WaitsOn(run) /\ PendingRows(run.node) # {} THEN {run.node} ELSE {}
Contract     == INSTANCE RunContract WITH status <- run.status, open <- OpenRequests
ImplementsContract == Contract!Spec

\* Two executions of the run are under way at a time only after a tick or a
\* decision has been handed the run as running by resumeWaitingRun or
\* recordApprovalDecision and executed it, although somebody else had brought it
\* out of its suspension (H4).  Nothing else doubles an execution: not ticks
\* that overlap, a stale transaction that passes the status guard in a later
\* suspension, a cancellation, a recovery or a restart.
SingleExecution ==
    echoed \/ \A e, f \in Executors : Executing(e) /\ Executing(f) => e = f

\* A run that was started comes to its end: it is not left running with nothing
\* that executes it, nor waiting with nothing that resumes it.
RunSettles == run.status # "absent" ~> run.status \in Terminal

\* "approval can only be recorded while it is waiting": a decision of a reviewer
\* enters the log only while the run waits on that node. With two reviewers it
\* does not hold, see the README; no configuration lists it.
StaleDecisionRejected ==
    [][\A d \in Reviewers, n \in Nodes :
            tx[d].pc = "write" /\ tx'[d].pc = "done" /\ log' # log
                /\ tx[d].row.node = n
            => WaitsOn(run) /\ run.node = n]_vars
=============================================================================
