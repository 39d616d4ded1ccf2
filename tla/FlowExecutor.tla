----------------------------- MODULE FlowExecutor -----------------------------
(***************************************************************************)
(* One run of a published flow, node by node: the executor's queue         *)
(* (executePublishedFlow in apps/adapter/src/flow-executor.ts), the        *)
(* continuation the run row keeps while it waits, and the log of the run   *)
(* (executeRunToCompletion, resumeWaitingRun, recordApprovalDecision and   *)
(* cancelRun in apps/adapter/src/run-service.ts).                          *)
(*                                                                         *)
(* RunLifecycle models the races of these operations for the row of a run; *)
(* here they are one transaction each and at most one execution is under   *)
(* way, and what they do to the nodes of the graph is modelled instead,    *)
(* and what the canvas makes of the log (RunInspector.tsx).                *)
(***************************************************************************)
EXTENDS Integers, Sequences, FiniteSets, SequencesExt, FlowNodes

CONSTANTS
    Graphs,      \* the graphs a flow may have published, runnable or not
    Launches,    \* the triggers a run may be launched with
    MaxCommand,  \* bound: how often the command of the exec nodes changes
    None         \* "no node"

Commands == 1..MaxCommand

ASSUME CommandsAssumption == MaxCommand \in Nat \ {0}
ASSUME LaunchesAssumption ==
    Launches \subseteq [type : Triggers \cup {"manual"}, fits : BOOLEAN]

VARIABLES
    graph,    \* the snapshot the run executes
    run,      \* the row of the run
    log,      \* the committed events of the run, those of its nodes
    ex,       \* the execution under way, in memory
    aborted,  \* the abort signal of that execution
    hist      \* what has happened, for the properties

vars == <<graph, run, log, ex, aborted, hist>>

\* An edge leads from a port of a node to a node.
Edge(source, port, target) == [source |-> source, port |-> port, target |-> target]

NodesOf(g) == DOMAIN g.kind
EdgesOf(g) == ToSet(g.edges)

\* A graph gives its nodes a kind and has a list of edges; it begins with the
\* first command.
ASSUME GraphsAssumption ==
    \A g \in Graphs : g \in [kind : [NodesOf(g) -> Kinds], edges : Seq(EdgesOf(g)),
                            command : {1}]

\* A queue item: the node to run, the nodes on the path to it, and the
\* command whose execution has been approved, or 0.
Item(node, path, grant) == [node |-> node, path |-> path, grant |-> grant]

\* runs.continuation: the queue to go on with, the visited nodes and, while
\* the run waits, what for, where, and the queues of the two decisions.
Continuation(kind, queue, visited, node, yes, no) ==
    [kind |-> kind, queue |-> queue, visited |-> visited, node |-> node,
     yes |-> yes, no |-> no]
NoContinuation == Continuation("null", <<>>, {}, None, <<>>, <<>>)
\* Mutant: the continuation of a resumed run still says what it waits for.
StillWaiting(queue, c) == Continuation(c.kind, queue, c.visited, None, <<>>, <<>>)
Ready(queue, c) == Continuation("ready", queue, c.visited, None, <<>>, <<>>)

Idle == [pc |-> "idle", queue |-> <<>>, visited |-> {},
         cur |-> Item(None, {}, 0), outcome |-> Fails(FALSE),
         events |-> <<>>, status |-> "running", error |-> "none",
         continuation |-> NoContinuation]

Event(type, node) == [type |-> type, node |-> node]

-----------------------------------------------------------------------------
\* The graph and its entry.

Incoming(g, n) == {i \in DOMAIN g.edges : g.edges[i].target = n}

\* Mutant: no check for cycles.
AnyGraph(g) == TRUE

\* Kahn's algorithm removes every node of a graph without a cycle: in every
\* set of nodes there is one that no edge of the set enters.
Acyclic(g) ==
    \A S \in SUBSET NodesOf(g) : S # {} =>
        \E n \in S : \A e \in EdgesOf(g) : e.target = n => e.source \notin S

TriggerNodes(g) == {n \in NodesOf(g) : g.kind[n] \in Triggers}

\* Mutant: fan-in is allowed.
ValidWithFanIn(g) ==
    /\ Cardinality(TriggerNodes(g)) = 1
    /\ \A e \in EdgesOf(g) : {e.source, e.target} \subseteq NodesOf(g)
    /\ Acyclic(g)

\* validateExecutableFlowGraph
Valid(g) ==
    /\ Cardinality(TriggerNodes(g)) = 1
    /\ \A e \in EdgesOf(g) : {e.source, e.target} \subseteq NodesOf(g)
    /\ \A n \in NodesOf(g) : Cardinality(Incoming(g, n)) <= 1
    /\ Acyclic(g)

\* resolveExecutionEntryTrigger: a manual trigger enters at the only trigger
\* node, any other at the only one of its type whose configuration it fits.
Fitting(g, trigger) ==
    {n \in TriggerNodes(g) :
        trigger.type = "manual" \/ (g.kind[n] = trigger.type /\ trigger.fits)}
Entry(g, trigger) ==
    IF Cardinality(Fitting(g, trigger)) = 1
    THEN CHOOSE n \in Fitting(g, trigger) : TRUE
    ELSE None

\* The edges behind the ports of a node, and these in their order: the k-th is
\* the one that k of them do not come after.
Behind(n, ports) ==
    {i \in DOMAIN graph.edges : graph.edges[i].source = n /\ graph.edges[i].port \in ports}
Upto(S, i)   == {j \in S : j <= i}
Kth(S, k)    == CHOOSE i \in S : Cardinality(Upto(S, i)) = k
InOrder(S)   == [k \in 1..Cardinality(S) |-> Kth(S, k)]
Targets(n, ports) == {graph.edges[i].target : i \in Behind(n, ports)}

\* buildQueuedEdgeItems: the items behind the ports of a node, in the order
\* of the edges; none of them may lead back into the path.
ReEnters(item, ports) == Targets(item.node, ports) \cap item.path # {}
QueuedItem(item, e) == Item(e.target, item.path \cup {e.target}, 0)
QueuedItems(item, ports) ==
    LET next == InOrder(Behind(item.node, ports))
    IN  [k \in DOMAIN next |-> QueuedItem(item, graph.edges[next[k]])]

-----------------------------------------------------------------------------
Init ==
    /\ graph \in Graphs
    /\ run = [status |-> "none", trigger |-> [type |-> "manual", fits |-> TRUE],
              error |-> "none", continuation |-> NoContinuation]
    /\ log     = <<>>
    /\ ex      = Idle
    /\ aborted = FALSE
    /\ hist    = [ran |-> <<>>, owed |-> {}, dropped |-> {}, approved |-> {}]

\* startPublishedFlowRun, for a snapshot that passes the validation.
Launch(trigger) ==
    /\ run.status = "none"
    /\ Valid(graph)
    /\ Entry(graph, trigger) # None
    /\ run' = [run EXCEPT !.status = "running", !.trigger = trigger]
    /\ UNCHANGED <<graph, log, ex, aborted, hist>>

\* executeRunToCompletion reads the run and the snapshot; the execution goes
\* on with the continuation, or enters at the trigger.
Begin ==
    /\ ex.pc = "idle"
    /\ run.status = "running"
    /\ LET entry == Entry(graph, run.trigger)
           next  == run.continuation
       IN  ex' = IF next.kind # "null"
                 THEN [Idle EXCEPT !.pc = "loop", !.queue = next.queue, !.visited = next.visited]
                 ELSE IF entry # None
                 THEN [Idle EXCEPT !.pc = "loop", !.queue = <<Item(entry, {entry}, 0)>>]
                 ELSE [Idle EXCEPT !.pc = "done", !.status = "failed", !.error = "entry"]
    /\ aborted' = FALSE
    /\ UNCHANGED <<graph, run, log, hist>>

Stop(status, error) ==
    ex' = [ex EXCEPT !.pc = "done", !.status = status, !.error = error]

\* wasCancelled: before the next node, after a node, at the end of the queue.
StopCancelled ==
    /\ ex.pc \in {"loop", "route"}
    /\ aborted
    /\ Stop("cancelled", "none")
    /\ UNCHANGED <<graph, run, log, aborted, hist>>

Succeed ==
    /\ ex.pc = "loop" /\ ~aborted /\ ex.queue = <<>>
    /\ Stop("succeeded", "none")
    /\ UNCHANGED <<graph, run, log, aborted, hist>>

TakeNode ==
    /\ ex.pc = "loop" /\ ~aborted /\ ex.queue # <<>>
    /\ LET item == Head(ex.queue)
       IN  IF item.node \in NodesOf(graph)
           THEN ex' = [ex EXCEPT !.pc = "node", !.queue = Tail(@), !.cur = item,
                                 !.visited = @ \cup {item.node},
                                 !.events = Append(@, Event("started", item.node))]
           ELSE Stop("failed", "missing")
    /\ UNCHANGED <<graph, run, log, aborted, hist>>

Kind == graph.kind[ex.cur.node]
\* Mutant: an approval counts whatever command it was given for.
GrantedAnything == ex.cur.grant # 0
\* hasApprovedExecGrant
Granted == ex.cur.grant = graph.command

\* What the properties remember of a node that ran.
Remember(how, effect, owed) ==
    hist' = [hist EXCEPT
        !.ran = Append(@, [node |-> ex.cur.node, how |-> how, effect |-> effect,
                           command |-> graph.command]),
        !.owed = @ \cup owed]

\* A handoff that returns is recorded as a delegated run.
Delegations ==
    IF Kind = "action.agent-send" THEN <<Event("delegated", ex.cur.node)>> ELSE <<>>
\* appendAbortRelayEvents
RelayEvents(outcome) ==
    IF outcome.relayed THEN <<Event("relayed", ex.cur.node)>> ELSE <<>>

\* executeNode returned.  A handler that asks for an approval of its own is
\* not finished.
NodeReturns(outcome) ==
    /\ outcome.returns
    /\ LET n     == ex.cur.node
           asks  == outcome.until = "exec"
       IN  /\ ex' = [ex EXCEPT
                !.pc = "route", !.outcome = outcome,
                !.events = @ \o Delegations
                             \o (IF asks THEN <<>> ELSE <<Event("finished", n)>>)]
           /\ Remember(IF asks THEN "asked" ELSE "finished", outcome.effect,
                       IF outcome.until \in {"control", "exec"} THEN {}
                       ELSE Targets(n, outcome.ports))

\* executeNode threw: a cancellation if the run has been aborted.
NodeThrows(outcome) ==
    /\ ~outcome.returns
    /\ IF aborted
       THEN /\ ex' = [ex EXCEPT !.pc = "done", !.status = "cancelled",
                        !.events = @ \o RelayEvents(outcome)]
            /\ Remember("aborted", outcome.effect, {})
       ELSE /\ ex' = [ex EXCEPT !.pc = "done", !.status = "failed", !.error = "node",
                        !.events = Append(@, Event("failed", ex.cur.node))]
            /\ Remember("failed", outcome.effect, {})

RunNode ==
    /\ ex.pc = "node"
    /\ \E outcome \in NodeOutcomes(Kind, Granted, aborted) :
           NodeReturns(outcome) \/ NodeThrows(outcome)
    /\ UNCHANGED <<graph, run, log, aborted>>

\* What comes after a node: the items behind its ports join the queue, and
\* the executor goes on or returns a continuation.
GoOn(items) ==
    /\ ex.outcome.until = "none"
    /\ ex' = [ex EXCEPT !.pc = "loop", !.queue = @ \o items]
    /\ UNCHANGED hist

\* Mutant: the items that were in the queue already are lost.
WaitForTimerOnly(items) ==
    /\ ex.outcome.until = "timer"
    /\ ex' = [ex EXCEPT !.pc = "done", !.status = "waiting",
            !.events = Append(@, Event("waiting", ex.cur.node)),
            !.continuation = Continuation("timer", items, ex.visited, ex.cur.node, <<>>, <<>>)]
    /\ UNCHANGED hist
WaitForTimer(items) ==
    /\ ex.outcome.until = "timer"
    /\ ex' = [ex EXCEPT !.pc = "done", !.status = "waiting",
            !.events = Append(@, Event("waiting", ex.cur.node)),
            !.continuation = Continuation("timer", ex.queue \o items, ex.visited,
                                          ex.cur.node, <<>>, <<>>)]
    /\ UNCHANGED hist

\* A node that asks for an approval of its own is still to be visited.
\* Mutant: it counts as visited.
VisitedToo(asks) == ex.visited
VisitedBefore(asks) == IF asks THEN ex.visited \ {ex.cur.node} ELSE ex.visited

\* The continuation has the queues of the decisions and no other.
WaitForDecision ==
    /\ ex.outcome.until \in {"control", "exec"}
    /\ LET asks == ex.outcome.until = "exec"
           n    == ex.cur.node
           yes  == IF asks THEN <<Item(n, ex.cur.path, graph.command)>>
                           ELSE QueuedItems(ex.cur, {"approved"})
           no   == IF asks THEN <<>> ELSE QueuedItems(ex.cur, {"rejected"})
       IN  ex' = [ex EXCEPT !.pc = "done", !.status = "waiting",
                !.events = @ \o <<Event("requested", n), Event("waiting", n)>>,
                !.continuation = Continuation(ex.outcome.until, <<>>,
                                              VisitedBefore(asks), n, yes, no)]
    /\ hist' = [hist EXCEPT !.dropped = @ \cup {item.node : item \in ToSet(ex.queue)}]

Route ==
    /\ ex.pc = "route" /\ ~aborted
    /\ LET items == QueuedItems(ex.cur, ex.outcome.ports)
       IN  IF ReEnters(ex.cur, ex.outcome.ports)
           THEN Stop("failed", "cycle") /\ UNCHANGED hist
           ELSE GoOn(items) \/ WaitForTimer(items) \/ WaitForDecision
    /\ UNCHANGED <<graph, run, log, aborted>>

\* Mutant: a run that waits stores its continuation and not its events.
FinalizeQuietly ==
    /\ ex.pc = "done"
    /\ IF run.status = "running"
       THEN /\ log' = IF ex.status = "waiting" THEN log ELSE log \o ex.events
            /\ run' = [run EXCEPT !.status = ex.status, !.error = ex.error,
                                  !.continuation = ex.continuation]
       ELSE UNCHANGED <<log, run>>
    /\ ex' = Idle
    /\ UNCHANGED <<graph, aborted, hist>>

\* executeRunToCompletion stores what the execution came to, unless the run
\* is no longer running.
Finalize ==
    /\ ex.pc = "done"
    /\ IF run.status = "running"
       THEN /\ log' = log \o ex.events
            /\ run' = [run EXCEPT !.status = ex.status, !.error = ex.error,
                                  !.continuation = ex.continuation]
       ELSE UNCHANGED <<log, run>>
    /\ ex' = Idle
    /\ UNCHANGED <<graph, aborted, hist>>

-----------------------------------------------------------------------------
\* cancelRun; the poll of createRunAbortController sees it later.
Cancel ==
    /\ run.status \in {"running", "waiting"}
    /\ run' = [run EXCEPT !.status = "cancelled", !.continuation = NoContinuation]
    /\ UNCHANGED <<graph, log, ex, aborted, hist>>

PollAbort ==
    /\ ex.pc \in {"loop", "node", "route"}
    /\ run.status = "cancelled"
    /\ aborted' = TRUE
    /\ UNCHANGED <<graph, run, log, ex, hist>>

Resume(queue) ==
    run' = [run EXCEPT !.status = "running", !.error = "none",
                       !.continuation = Ready(queue, run.continuation)]

\* An exec request has errors for its rejection and its timeout, and nothing
\* to go on with.
Refuse ==
    IF run.continuation.kind = "exec"
    THEN run' = [run EXCEPT !.status = "failed", !.error = "rejected",
                            !.continuation = NoContinuation]
    ELSE Resume(run.continuation.no)

\* Mutant: a request that is refused with an error leaves no event.
RecordUnlessRefused(decision) ==
    log' = IF decision = "rejected" /\ run.continuation.kind = "exec" THEN log
           ELSE Append(log, Event(decision, run.continuation.node))
\* The event run.approval.recorded, with its decision.
Record(decision) == log' = Append(log, Event(decision, run.continuation.node))

\* What a decision makes the run owe, read off the graph.
Decided(port) ==
    IF run.continuation.kind = "control"
    THEN hist.owed \cup Targets(run.continuation.node, {port})
    ELSE hist.owed

\* recordApprovalDecision
Decide(decision) ==
    /\ run.status = "waiting"
    /\ run.continuation.kind \in {"control", "exec"}
    /\ IF decision = "approved" THEN Resume(run.continuation.yes) ELSE Refuse
    /\ Record(decision)
    /\ hist' = [hist EXCEPT
            !.owed = Decided(decision),
            !.approved = IF decision = "approved" /\ run.continuation.kind = "exec"
                         THEN @ \cup {[node |-> run.continuation.node,
                                       command |-> run.continuation.yes[1].grant]}
                         ELSE @]
    /\ UNCHANGED <<graph, ex, aborted>>

\* Mutant: an approval has no timeout.
ResumeTimers ==
    /\ run.status = "waiting"
    /\ run.continuation.kind = "timer"
    /\ Resume(run.continuation.queue)
    /\ UNCHANGED <<graph, log, ex, aborted, hist>>

\* resumeWaitingRun, when resumeAt has come: the timer of a wait or the
\* timeout of an approval, which is recorded as its rejection.
ResumeWaiting ==
    /\ run.status = "waiting"
    /\ IF run.continuation.kind = "timer"
       THEN Resume(run.continuation.queue) /\ UNCHANGED <<log, hist>>
       ELSE /\ Refuse
            /\ Record("rejected")
            /\ hist' = [hist EXCEPT !.owed = Decided("rejected")]
    /\ UNCHANGED <<graph, ex, aborted>>

\* Drafts saved at the same time have the same version (see FlowVersions):
\* the publication of the second replaces the snapshot of the run, here by
\* one with another command.  An execution has read its snapshot.
Overwrite ==
    /\ run.status = "waiting"
    /\ graph.command < MaxCommand
    /\ graph' = [graph EXCEPT !.command = @ + 1]
    /\ UNCHANGED <<run, log, ex, aborted, hist>>

Execute ==
    Begin \/ StopCancelled \/ Succeed \/ TakeNode \/ RunNode \/ Route \/ Finalize

Next ==
    \/ \E trigger \in Launches : Launch(trigger)
    \/ Execute
    \/ Cancel
    \/ PollAbort
    \/ \E decision \in {"approved", "rejected"} : Decide(decision)
    \/ ResumeWaiting
    \/ Overwrite

\* The executions the adapter starts come to their end, and the wait-resume
\* service resumes what is due.
Fairness == WF_vars(Execute) /\ WF_vars(ResumeWaiting)

Spec == Init /\ [][Next]_vars /\ Fairness

-----------------------------------------------------------------------------
\* What the canvas shows at a node while a run is selected: what the last event
\* of the node makes of it.  As long as no node has one, a running run shows at
\* the nodes that no edge enters.
BadgeOf ==
    [started |-> "running", finished |-> "succeeded", failed |-> "failed",
     requested |-> "waiting", waiting |-> "waiting", approved |-> "succeeded",
     rejected |-> "rejected"]
Told(events, n) == {i \in DOMAIN events : events[i].node = n /\ events[i].type \in DOMAIN BadgeOf}
LastTold(events, n) == events[Max(Told(events, n))].type
Badge(n) ==
    CASE Told(log, n) # {} -> BadgeOf[LastTold(log, n)]
      [] /\ run.status = "running" /\ Incoming(graph, n) = {}
         /\ \A m \in NodesOf(graph) : Told(log, m) = {} -> "running"
      [] OTHER -> "none"

-----------------------------------------------------------------------------
\* Types.
Names == UNION {NodesOf(g) \cup {e.target : e \in EdgesOf(g)} : g \in Graphs}
Items == [node : Names, path : SUBSET Names, grant : 0..MaxCommand]
Continuations ==
    [kind : {"null", "ready", "timer", "control", "exec"}, queue : Seq(Items),
     visited : SUBSET Names, node : Names \cup {None}, yes : Seq(Items), no : Seq(Items)]
Statuses == {"none", "running", "waiting", "succeeded", "failed", "cancelled"}
Errors   == {"none", "entry", "missing", "cycle", "node", "rejected"}
Events   == [type : {"started", "finished", "failed", "delegated", "relayed", "requested",
                     "waiting", "approved", "rejected"},
             node : Names]
Runs     == [node : Names, how : {"finished", "asked", "failed", "aborted"},
             effect : BOOLEAN, command : Commands]

\* Every field of the run row, the log and the execution has its type, and a
\* run waits exactly if its continuation says what for.
TypeOK ==
    /\ graph.command \in Commands
    /\ run \in [status : Statuses, trigger : [type : Triggers \cup {"manual"}, fits : BOOLEAN],
                error : Errors, continuation : Continuations]
    /\ run.status = "waiting" <=> run.continuation.kind \in {"timer", "control", "exec"}
    /\ log \in Seq(Events)
    /\ ex \in [pc : {"idle", "loop", "node", "route", "done"}, queue : Seq(Items),
               visited : SUBSET Names, cur : Items \cup {Item(None, {}, 0)}, outcome : Outcomes,
               events : Seq(Events), status : Statuses, error : Errors,
               continuation : Continuations]
    /\ aborted \in BOOLEAN
    /\ hist \in [ran : Seq(Runs), owed : SUBSET Names, dropped : SUBSET Names,
                 approved : SUBSET [node : Names, command : Commands]]

-----------------------------------------------------------------------------
\* Safety.

HasRun == {r \in ToSet(hist.ran) : r.how # "asked"}

\* A command that needs an approval runs only if this very command has been
\* approved for this node, whatever happened to the snapshot of the flow
\* between the question and the answer (executeDefaultExecNode).
ApprovedBeforeExec ==
    \A r \in HasRun :
        graph.kind[r.node] = "tool.exec" /\ r.effect =>
            [node |-> r.node, command |-> r.command] \in hist.approved

\* No node runs twice, over all the waits and approvals of a run: the requests
\* to the gateway carry the key `${runId}:${node.id}`, and a second one would
\* be taken for a repetition of the first.
RunsOnce ==
    \A i, j \in DOMAIN hist.ran :
        /\ hist.ran[i].node = hist.ran[j].node
        /\ hist.ran[i].how # "asked" /\ hist.ran[j].how # "asked"
        => i = j

\* A run of a graph that was launched fails because one of its nodes fails or
\* is refused, never because the executor finds its entry, a node or the path
\* it is on to be wrong (validateExecutableFlowGraph).
OnlyNodesFail == run.error \in {"none", "node", "rejected"}

\* What runs is what the ports and decisions before it chose; and a run that
\* succeeds has run all of it, but for what the queue held when the run began
\* to wait for a decision.
PathsFollowed ==
    LET nodes == {r.node : r \in HasRun}
    IN  /\ nodes \subseteq hist.owed \cup {Entry(graph, run.trigger)}
        /\ run.status = "succeeded" => hist.owed \ hist.dropped \subseteq nodes

Ends == {"finished", "failed"}
Tells(e, r) == e.type \in Ends /\ e.type = r.how /\ e.node = r.node

\* The log tells what has run, each node once, in order, without a gap and nothing
\* else; all of it once the run rests, unless it has been cancelled.
LogTellsRuns ==
    LET ran == hist.ran
    IN  /\ \A i \in DOMAIN log : log[i].type \in Ends => \E k \in DOMAIN ran : Tells(log[i], ran[k])
        /\ \A i, j \in DOMAIN log, k, l \in DOMAIN ran :
               Tells(log[i], ran[k]) /\ Tells(log[j], ran[l]) => (i < j <=> k < l)
        /\ \A i \in DOMAIN log, k, l \in DOMAIN ran :
               Tells(log[i], ran[l]) /\ k < l /\ ran[k].how \in Ends =>
                   \E j \in DOMAIN log : Tells(log[j], ran[k])
        /\ run.status \in {"waiting", "succeeded", "failed"} =>
               \A k \in DOMAIN ran : ran[k].how \in Ends =>
                   \E i \in DOMAIN log : Tells(log[i], ran[k])

\* The canvas tells what became of a run by its nodes.  Once a run rests, a node
\* has a badge if it ran or asked, and none says that it is running; the one
\* that the run waits on says so, and no other but a timer that is over; a node
\* that failed is that of a failed run; and behind a decision only what it chose
\* has run.  (The events of an execution that was cancelled are not stored.)
BadgesTell ==
    LET ran   == {r.node : r \in HasRun}
        rests == run.status \in {"waiting", "succeeded", "failed"}
    IN  \A n \in NodesOf(graph) :
            LET waits == run.status = "waiting" /\ run.continuation.node = n
            IN  /\ rests => /\ Badge(n) # "running"
                            /\ Badge(n) # "none" <=> \E r \in ToSet(hist.ran) : r.node = n
                            /\ Badge(n) = "succeeded" => n \in ran
                /\ waits => Badge(n) = "waiting"
                /\ Badge(n) = "waiting" =>
                       waits \/ run.status = "cancelled" \/ graph.kind[n] = "control.wait"
                /\ Badge(n) = "failed" => run.status = "failed" /\ run.error = "node"
                /\ Badge(n) = "rejected" => ran \cap Targets(n, {"approved"}) = {}
                /\ Badge(n) = "succeeded" /\ graph.kind[n] = "control.approval" =>
                       ran \cap Targets(n, {"rejected"}) = {}

\* The log, and the canvas that reads it, tell what has happened.
LogIsTruthful == LogTellsRuns /\ BadgesTell

\* A waiting run has visited the nodes it has finished.
VisitedAreFinished ==
    run.status = "waiting" =>
        run.continuation.visited = {r.node : r \in HasRun}

\* A run goes through its graph as it was drawn: by the paths that were chosen,
\* with a continuation that knows what is done, and to no failure of its own.
RunsAsDrawn == TypeOK /\ OnlyNodesFail /\ PathsFollowed /\ VisitedAreFinished

\* Every run comes to its end, whatever it has to wait for.
Settles ==
    run.status = "running" ~> run.status \in {"succeeded", "failed", "cancelled"}

-----------------------------------------------------------------------------
\* What the repository says and the code does not do: these two do not hold, see
\* the README, and no configuration lists them.

\* An approval node whose request is switched off passes "through the approved
\* path" (node-catalog.ts), so nothing behind its rejected port runs.
SkippedApproves ==
    \A e \in EdgesOf(graph) :
        /\ graph.kind[e.source] = "control.approval-off"
        /\ e.port = "rejected"
        => e.target \notin {r.node : r \in HasRun}

\* An approval "pauses execution until an approval decision is recorded"
\* (node-catalog.ts): a run that succeeds has run every branch it had begun.
BranchesRun ==
    run.status = "succeeded" => hist.owed \subseteq {r.node : r \in HasRun}
=============================================================================
