-------------------------- MODULE FlowExecutorProofs --------------------------
(***************************************************************************)
(* A run of FlowExecutor goes through its graph as it was drawn, no node   *)
(* runs twice, and no command runs without its approval: for every set of  *)
(* graphs, every number of commands and every trigger.                     *)
(***************************************************************************)
EXTENDS FlowExecutor, FiniteSetTheorems, SequenceTheorems, WellFoundedInduction, TLAPS

\* The graph is one that has been published, but for its command.
Drawn ==
    /\ graph \in [kind : [NodesOf(graph) -> Kinds], edges : Seq(EdgesOf(graph)),
                  command : Commands]
    /\ \E g \in Graphs : graph.kind = g.kind /\ graph.edges = g.edges

\* A continuation that waits knows where, and for which command.
Asking(c) ==
    /\ c.kind \in {"timer", "control", "exec"} => c.node \in Names
    /\ c.kind = "exec" => DOMAIN c.yes = {1} /\ c.yes[1].grant \in Commands

\* An execution is one of a run that goes on, and comes to what its row may be.
Phases ==
    /\ run.status = "none" => run.continuation.kind = "null"
    /\ run.status = "running" => run.continuation.kind \in {"null", "ready"}
    /\ ex.pc # "idle" => run.status \in {"running", "cancelled"}
    /\ ex.pc # "done" => ex.continuation.kind = "null"
    /\ ex.pc \in {"node", "route"} => ex.cur.node \in NodesOf(graph)
    /\ Asking(run.continuation) /\ Asking(ex.continuation)
    /\ ex.pc = "done" =>
          /\ ex.status \in {"waiting", "succeeded", "failed", "cancelled"}
          /\ ex.status = "waiting" <=> ex.continuation.kind \in {"timer", "control", "exec"}

Typed == TypeOK /\ Drawn /\ Phases

\* Where the run was launched, what has run, and the way it may take.
Start == Entry(graph, run.trigger)
Ran   == {r.node : r \in HasRun}
NodesIn(q) == {q[i].node : i \in DOMAIN q}
Now == [nodes |-> NodesOf(graph), edges |-> graph.edges, start |-> Start,
        ran |-> Ran, owed |-> hist.owed, dropped |-> hist.dropped]
Led(w, n, ports) ==
    {w.edges[i].target : i \in {j \in DOMAIN w.edges : /\ w.edges[j].source = n
                                                       /\ w.edges[j].port \in ports}}

-----------------------------------------------------------------------------
(* Order.                                                                  *)

\* Everything that has run was chosen by the nodes before it.
Chosen(w) ==
    /\ w.ran \subseteq w.owed \cup {w.start}
    /\ \A n \in w.owed : \E i \in DOMAIN w.edges : /\ w.edges[i].target = n
                                                   /\ w.edges[i].source \in w.ran

\* An item knows the way that led to it.
OnPath(w, item) ==
    /\ item.node \in item.path /\ w.start \in item.path
    /\ item.path \subseteq w.nodes
    /\ item.path \ {item.node} \subseteq w.ran
    /\ \A n \in item.path \ {w.start} :
          \E i \in DOMAIN w.edges : w.edges[i].target = n /\ w.edges[i].source \in item.path

\* Queues of what has not run yet, each node once; of what has been chosen; and
\* that nothing else has been chosen and is left.
Fresh(w, q) ==
    /\ \A i \in DOMAIN q : OnPath(w, q[i]) /\ q[i].node \notin w.ran
    /\ \A i, j \in DOMAIN q : q[i].node = q[j].node => i = j
Owed(w, q) == NodesIn(q) \subseteq w.owed \cup {w.start}
Rest(w, S) == w.owed \ w.dropped \subseteq w.ran \cup S

\* What a continuation holds: the queue to go on with, the queues of a decision
\* that nobody has taken, or the item that asks.
Stored(w, c) ==
    /\ c.visited = w.ran
    /\ c.kind = "null" => w.ran = {} /\ w.owed = {}
    /\ c.kind \in {"ready", "timer"} =>
          Fresh(w, c.queue) /\ Owed(w, c.queue) /\ Rest(w, NodesIn(c.queue))
    /\ c.kind = "control" =>
          /\ c.node \in w.ran /\ Rest(w, {})
          /\ Fresh(w, c.yes) /\ NodesIn(c.yes) = Led(w, c.node, {"approved"})
          /\ Fresh(w, c.no) /\ NodesIn(c.no) = Led(w, c.node, {"rejected"})
    /\ c.kind = "exec" =>
          /\ Fresh(w, c.yes) /\ Owed(w, c.yes) /\ Rest(w, {c.node})
          /\ DOMAIN c.yes = {1} /\ c.yes[1].node = c.node

\* The execution: between two nodes, at a node, and behind it.
AtLoop(w, x) == x.visited = w.ran /\ Rest(w, NodesIn(x.queue))
AtNode(w, x) ==
    /\ x.cur.node \notin w.ran
    /\ Rest(w, NodesIn(x.queue) \cup {x.cur.node})
Ahead(w, x) == Led(w, x.cur.node, x.outcome.ports)
AtRoute(w, x) ==
    /\ Ahead(w, x) \cap (x.cur.path \cup w.ran \cup NodesIn(x.queue)) = {}
    /\ x.outcome.until = "exec" => AtNode(w, x)
    /\ x.outcome.until # "exec" => x.cur.node \in w.ran
    /\ x.outcome.until \in {"none", "timer"} =>
          Ahead(w, x) \subseteq w.owed /\ Rest(w, NodesIn(x.queue) \cup Ahead(w, x))
    /\ x.outcome.until = "control" =>
          Rest(w, NodesIn(x.queue)) /\ x.outcome.ports = {"approved", "rejected"}
Underway(w, x) ==
    /\ x.error \in {"none", "node"}
    /\ x.pc \in {"loop", "node", "route"} => Fresh(w, x.queue) /\ Owed(w, x.queue)
    /\ x.pc = "loop" => AtLoop(w, x)
    /\ x.pc \in {"node", "route"} =>
          /\ OnPath(w, x.cur) /\ x.cur.node \notin NodesIn(x.queue)
          /\ x.cur.node \in w.owed \cup {w.start}
          /\ x.visited = w.ran \cup {x.cur.node}
    /\ x.pc = "node" => AtNode(w, x)
    /\ x.pc = "route" => AtRoute(w, x)
    /\ x.pc = "done" =>
          /\ x.status = "waiting" => Stored(w, x.continuation)
          /\ x.status = "succeeded" => Rest(w, {})

Order ==
    /\ run.status # "none" => Valid(graph) /\ Start # None
    /\ run.status = "none" => Ran = {} /\ hist.owed = {}
    /\ ex.pc = "idle" /\ run.status \in {"none", "running", "waiting"} =>
          Stored(Now, run.continuation)
    /\ run.status = "succeeded" => Rest(Now, {})
    /\ Underway(Now, ex) /\ Chosen(Now)
    /\ RunsOnce /\ OnlyNodesFail

-----------------------------------------------------------------------------
(* Grants.                                                                 *)

\* An item carries no grant but one that was given for its node; the item that
\* asks is the only one of its queue.
Sound(item, approved) ==
    item.grant = 0 \/ [node |-> item.node, command |-> item.grant] \in approved
AllSound(q, approved) == \A i \in DOMAIN q : Sound(q[i], approved)
Grants(c, approved) ==
    /\ AllSound(c.queue, approved) /\ AllSound(c.no, approved)
    /\ IF c.kind = "exec" THEN DOMAIN c.yes = {1} /\ c.yes[1].node = c.node
                          ELSE AllSound(c.yes, approved)
Granting ==
    /\ AllSound(ex.queue, hist.approved) /\ Sound(ex.cur, hist.approved)
    /\ Grants(ex.continuation, hist.approved) /\ Grants(run.continuation, hist.approved)
    /\ ApprovedBeforeExec

IInv == Typed /\ Order /\ Granting

-----------------------------------------------------------------------------
(* Lemmas about the operators.                                             *)

\* What the outcomes are built from.
LEMMA ReturnsShape ==
    ASSUME NEW P \in SUBSET Ports, NEW b \in BOOLEAN
    PROVE  /\ Returns(P, b) \in Outcomes
           /\ Returns(P, b).until = "none" /\ Returns(P, b).effect = b
  BY DEF Returns, Outcomes

LEMMA FailsShape ==
    ASSUME NEW b \in BOOLEAN
    PROVE  Fails(b) \in Outcomes /\ Fails(b).until = "none" /\ Fails(b).effect = b
  <1>1. {} \in SUBSET Ports
    OBVIOUS
  <1>2. /\ Returns({}, b) \in Outcomes
        /\ Returns({}, b).until = "none" /\ Returns({}, b).effect = b
    BY <1>1, ReturnsShape
  <1> QED  BY <1>2 DEF Fails, Outcomes

LEMMA WaitsShape ==
    ASSUME NEW P \in SUBSET Ports, NEW u \in {"timer", "control", "exec"}
    PROVE  /\ Waits(P, u) \in Outcomes /\ Waits(P, u).until = u
           /\ Waits(P, u).ports = P /\ Waits(P, u).effect = FALSE
  <1>1. /\ Returns(P, FALSE) \in Outcomes /\ Returns(P, FALSE).ports = P
        /\ Returns(P, FALSE).effect = FALSE
    BY ReturnsShape DEF Returns
  <1> QED  BY <1>1 DEF Waits, Outcomes

\* The outcomes that ask for no decision.
Plain(S) == \A o \in S : o \in Outcomes /\ o.until \notin {"control"}

LEMMA CallsPlain ==
    /\ Plain(Pure) /\ Plain(Answers) /\ Plain(Called)
    /\ \A b \in BOOLEAN : Plain({RelayedAbort(b)}) /\ Plain({Fails(b)})
    /\ \A b \in BOOLEAN, P \in SUBSET Ports : Plain({Returns(P, b)})
    /\ \A S : Plain(S) => Plain(WithFallback(S))
  <1>1. /\ \A b \in BOOLEAN : Plain({Fails(b)})
        /\ \A b \in BOOLEAN, P \in SUBSET Ports : Plain({Returns(P, b)})
    BY ReturnsShape, FailsShape DEF Plain
  <1>2. {"out"} \in SUBSET Ports
    BY DEF Ports
  <1>3. Plain(Pure) /\ Plain(Answers)
    BY <1>1, <1>2 DEF Plain, Pure, Answers
  <1>4. ASSUME NEW b \in BOOLEAN
        PROVE  Plain({RelayedAbort(b)}) /\ Plain({[Fails(b) EXCEPT !.offline = TRUE]})
    BY FailsShape DEF Plain, RelayedAbort, Outcomes
  <1>5. Plain(Called)
    BY <1>3, <1>4 DEF Plain, Called, Cut
  <1>6. ASSUME NEW S, Plain(S)
        PROVE  Plain(WithFallback(S))
    <2> SUFFICES ASSUME NEW c \in S
                 PROVE  Plain({IF c.offline
                               THEN [Returns({"out"}, c.effect) EXCEPT !.offline = TRUE] ELSE c})
      BY DEF Plain, WithFallback
    <2>1. c \in Outcomes /\ c.until # "control" /\ c.effect \in BOOLEAN
      BY <1>6 DEF Plain, Outcomes
    <2>2. Returns({"out"}, c.effect) \in Outcomes /\ Returns({"out"}, c.effect).until = "none"
      BY <1>2, <2>1, ReturnsShape
    <2> QED  BY <2>1, <2>2 DEF Plain, Outcomes
  <1> QED  BY <1>1, <1>3, <1>4, <1>5, <1>6

\* The outcomes of a node are outcomes; what asks for a decision leads out by
\* the ports of both; and a command that runs was granted.
LEMMA OutcomeFacts ==
    ASSUME NEW k, NEW granted, NEW abort, NEW o \in NodeOutcomes(k, granted, abort)
    PROVE  /\ o \in Outcomes
           /\ o.until = "control" => o.ports = {"approved", "rejected"}
           /\ k = "tool.exec" /\ o.effect => granted
  <1> DEFINE Both == {"approved", "rejected"}
  <1>1. /\ {"out"} \in SUBSET Ports /\ {"true"} \in SUBSET Ports /\ {"false"} \in SUBSET Ports
        /\ {} \in SUBSET Ports /\ Both \in SUBSET Ports
    BY DEF Ports
  <1>2. Plain(LogicSteps(k))
    BY <1>1, CallsPlain DEF LogicSteps, Trigger, Branch, Plain
  <1>3. /\ Plain(RunOpenClawAgent(abort)) /\ Plain(RunOpenClawSkill(abort))
        /\ Plain(SendOpenClawChannelReply)
    BY CallsPlain DEF RunOpenClawAgent, RunOpenClawSkill, SendOpenClawChannelReply, Plain
  <1>4. Plain(AgentSteps(k, abort))
    BY <1>3, CallsPlain DEF AgentSteps, Agent, AgentSend, Skill, Plain
  <1>5. Plain(FetchSteps(k))
    BY CallsPlain DEF FetchSteps, Http, Browser, WebSearch, Plain
  <1>6. Plain(MessageSteps(k))
    BY <1>3, CallsPlain DEF MessageSteps, Shape, ChannelReply, ChannelRoute, Plain
  <1>7. Plain(ReportSteps(k))
    BY <1>1, CallsPlain DEF ReportSteps, Log, Usage, Plain
  <1>8. Plain(ContextSteps(k))
    BY <1>1, CallsPlain DEF ContextSteps, ThreadBind, MemoryWrite, MemoryQuery, Plain
  <1>w. /\ Plain({Waits({"out"}, "timer"), Fails(FALSE)})
        /\ Plain({Waits({"out"}, "exec"), Fails(FALSE)})
    <2>1. Waits({"out"}, "timer") \in Outcomes /\ Waits({"out"}, "timer").until = "timer"
      BY <1>1, WaitsShape
    <2>2. Waits({"out"}, "exec") \in Outcomes /\ Waits({"out"}, "exec").until = "exec"
      BY <1>1, WaitsShape
    <2>3. Fails(FALSE) \in Outcomes /\ Fails(FALSE).until = "none"
      BY FailsShape
    <2> QED  BY <2>1, <2>2, <2>3 DEF Plain
  <1>9. Plain(ToolSteps(k, granted))
    <2>1. Plain(YouTubeTranscript) /\ Plain(TranscriptApi) /\ Plain({})
      BY <1>1, CallsPlain DEF YouTubeTranscript, TranscriptApi, Plain
    <2>2. \A trusted : Plain(Exec(trusted, granted))
      BY <1>w, CallsPlain DEF Exec
    <2> QED  BY <2>1, <2>2 DEF ToolSteps
  <1>10. \A x \in WaitingSteps(k) :
            x \in Outcomes /\ (x.until = "control" => x.ports = Both)
    <2>1. Plain(Wait) /\ Plain(Approval(FALSE))
      BY <1>1, <1>w, CallsPlain DEF Wait, Approval
    <2>2. \A x \in Approval(TRUE) : x \in Outcomes /\ (x.until = "control" => x.ports = Both)
      BY <1>1, FailsShape, WaitsShape DEF Approval
    <2> QED  BY <2>1, <2>2 DEF WaitingSteps, Plain
  <1>11. \A x \in NodeOutcomes(k, granted, abort) :
            x \in Outcomes /\ (x.until = "control" => x.ports = Both)
    BY <1>2, <1>4, <1>5, <1>6, <1>7, <1>8, <1>9, <1>10, CallsPlain DEF NodeOutcomes, Plain
  <1>12. ASSUME k = "tool.exec", o.effect
         PROVE  granted
    <2>1. o \in ToolSteps(k, granted)
      BY <1>12 DEF NodeOutcomes, LogicSteps, Triggers, AgentSteps, FetchSteps, MessageSteps,
                   ReportSteps, WaitingSteps, ContextSteps
    <2>2. o \in Exec(FALSE, granted)
      BY <1>12, <2>1 DEF ToolSteps
    <2>3. ~granted => o \in {Waits({"out"}, "exec"), Fails(FALSE)}
      BY <2>2 DEF Exec
    <2>4. Waits({"out"}, "exec").effect = FALSE /\ Fails(FALSE).effect = FALSE
      BY <1>1, FailsShape, WaitsShape
    <2> QED  BY <1>12, <2>3, <2>4
  <1> QED  BY <1>11, <1>12

\* Any finite set of numbers is put in order: a list of all of them, each once.
LEMMA Ordered ==
    ASSUME NEW S \in SUBSET Int, IsFiniteSet(S)
    PROVE  /\ Cardinality(S) \in Nat
           /\ InOrder(S) \in [1..Cardinality(S) -> S]
           /\ \A i \in S : \E k \in 1..Cardinality(S) : InOrder(S)[k] = i
           /\ \A k, l \in 1..Cardinality(S) : InOrder(S)[k] = InOrder(S)[l] => k = l
  <1> DEFINE n == Cardinality(S)
             rank == [i \in S |-> Cardinality(Upto(S, i))]
  <1>0. n \in Nat
    BY FS_CardinalityType
  <1>1. ASSUME NEW i \in S
        PROVE  /\ Upto(S, i) \in SUBSET S /\ IsFiniteSet(Upto(S, i))
               /\ Cardinality(Upto(S, i)) \in 1..n
    <2>1. Upto(S, i) \in SUBSET S /\ i \in Upto(S, i)
      BY DEF Upto
    <2>2. IsFiniteSet(Upto(S, i)) /\ Cardinality(Upto(S, i)) <= n
      BY <2>1, FS_Subset
    <2>3. Cardinality(Upto(S, i)) \in Nat /\ Cardinality(Upto(S, i)) # 0
      BY <2>1, <2>2, FS_CardinalityType, FS_EmptySet
    <2> QED  BY <1>0, <2>1, <2>2, <2>3
  <1>2. ASSUME NEW i \in S, NEW j \in S, i < j
        PROVE  Cardinality(Upto(S, i)) # Cardinality(Upto(S, j))
    <2>0. i \in Int /\ j \in Int /\ \A m \in S : m \in Int
      OBVIOUS
    <2>1. Upto(S, i) \in SUBSET Upto(S, j) /\ j \in Upto(S, j) /\ j \notin Upto(S, i)
      <3>1. \A m \in S : m <= i => m <= j
        BY <1>2, <2>0
      <3>2. j <= j /\ ~(j <= i)
        BY <1>2, <2>0
      <3> QED  BY <3>1, <3>2 DEF Upto
    <2>2. IsFiniteSet(Upto(S, j))
      BY <1>1
    <2> QED  BY <2>1, <2>2, FS_Subset
  <1>3. \A i, j \in S : Cardinality(Upto(S, i)) = Cardinality(Upto(S, j)) => i = j
    <2> SUFFICES ASSUME NEW i \in S, NEW j \in S, i # j
                 PROVE  Cardinality(Upto(S, i)) # Cardinality(Upto(S, j))
      OBVIOUS
    <2>1. i < j \/ j < i
      OBVIOUS
    <2> QED  BY <1>2, <2>1
  <1>4. rank \in [S -> 1..n] /\ \A i, j \in S : rank[i] = rank[j] => i = j
    BY <1>1, <1>3
  <1>5. rank \in Injection(S, 1..n)
    BY <1>4 DEF Injection, IsInjective
  <1>6. IsFiniteSet(1..n) /\ Cardinality(1..n) = n
    BY <1>0, FS_Interval
  <1>7. rank \in Surjection(S, 1..n)
    BY <1>5, <1>6, FS_Injection
  <1>8. \A k \in 1..n : \E i \in S : Cardinality(Upto(S, i)) = k
    BY <1>7 DEF Surjection
  <1>9. \A k \in 1..n : Kth(S, k) \in S /\ Cardinality(Upto(S, Kth(S, k))) = k
    BY <1>8 DEF Kth
  <1>10. InOrder(S) \in [1..n -> S] /\ \A k \in 1..n : InOrder(S)[k] = Kth(S, k)
    BY <1>9 DEF InOrder
  <1>11. ASSUME NEW i \in S
         PROVE  \E k \in 1..n : InOrder(S)[k] = i
    BY <1>1, <1>3, <1>9, <1>10
  <1> QED  BY <1>0, <1>9, <1>10, <1>11

\* Two edges that lead to one node are one.
LEMMA OneIncoming ==
    ASSUME Drawn, Valid(graph), NEW i \in DOMAIN graph.edges, NEW j \in DOMAIN graph.edges,
           graph.edges[i].target = graph.edges[j].target
    PROVE  i = j
  <1> DEFINE n == graph.edges[i].target
  <1>1. DOMAIN graph.edges = 1..Len(graph.edges) /\ Len(graph.edges) \in Nat
    BY DEF Drawn
  <1>2. IsFiniteSet(1..Len(graph.edges))
    BY <1>1, FS_Interval
  <1>3. IsFiniteSet(Incoming(graph, n)) /\ i \in Incoming(graph, n) /\ j \in Incoming(graph, n)
    BY <1>1, <1>2, FS_Subset DEF Incoming
  <1>4. n \in NodesOf(graph)
    BY DEF Valid, EdgesOf, ToSet
  <1>5. Cardinality(Incoming(graph, n)) <= 1
    BY <1>4 DEF Valid
  <1>6. Cardinality({i}) = 1
    BY FS_Singleton
  <1>7. Cardinality(Incoming(graph, n)) = 1
    BY <1>3, <1>5, FS_EmptySet, FS_CardinalityType
  <1>8. {i} = Incoming(graph, n)
    BY <1>3, <1>6, <1>7, FS_Subset
  <1> QED  BY <1>3, <1>8

\* The edges behind a node lead to names, and are in the order of the queue.
LEMMA GraphNames ==
    ASSUME Drawn
    PROVE  /\ NodesOf(graph) \subseteq Names
           /\ \A e \in EdgesOf(graph) : e.target \in Names
           /\ graph.edges \in Seq(EdgesOf(graph)) /\ graph.command \in Commands
           /\ \A n \in NodesOf(graph) : graph.kind[n] \in Kinds
           /\ \A n, ports : Targets(n, ports) \subseteq Names
  <1>1. PICK g \in Graphs : graph.kind = g.kind /\ graph.edges = g.edges
    BY DEF Drawn
  <1>2. NodesOf(g) = NodesOf(graph) /\ EdgesOf(g) = EdgesOf(graph)
    BY <1>1 DEF NodesOf, EdgesOf
  <1>3. NodesOf(graph) \subseteq Names /\ \A e \in EdgesOf(graph) : e.target \in Names
    BY <1>2 DEF Names
  <1>4. \A i \in DOMAIN graph.edges : graph.edges[i] \in EdgesOf(graph)
    BY DEF EdgesOf, ToSet
  <1>5. \A n, ports : Targets(n, ports) \subseteq Names
    BY <1>3, <1>4 DEF Targets, Behind
  <1> QED  BY <1>3, <1>5 DEF Drawn, NodesOf

LEMMA Queued ==
    ASSUME Drawn, NEW item \in Items, NEW ports
    PROVE  LET q == QueuedItems(item, ports)
           IN  /\ q \in Seq(Items)
               /\ NodesIn(q) = Targets(item.node, ports)
               /\ \A i \in DOMAIN q : /\ q[i].grant = 0
                                      /\ \E e \in EdgesOf(graph) :
                                            /\ e.source = item.node /\ e.target = q[i].node
                                            /\ q[i].path = item.path \cup {e.target}
               /\ Valid(graph) => \A i, j \in DOMAIN q : q[i].node = q[j].node => i = j
  <1> DEFINE B == Behind(item.node, ports)
             n == Cardinality(B)
             o == InOrder(B)
             q == QueuedItems(item, ports)
  <1>1. DOMAIN graph.edges = 1..Len(graph.edges) /\ Len(graph.edges) \in Nat
    BY DEF Drawn
  <1>2. B \in SUBSET Int /\ IsFiniteSet(B) /\ B \subseteq DOMAIN graph.edges
    <2>1. IsFiniteSet(1..Len(graph.edges))
      BY <1>1, FS_Interval
    <2>2. B \in SUBSET (1..Len(graph.edges))
      BY <1>1 DEF Behind
    <2>3. IsFiniteSet(B)
      BY <2>1, <2>2, FS_Subset
    <2> QED  BY <1>1, <2>2, <2>3
  <1>3. /\ n \in Nat /\ o \in [1..n -> B]
        /\ \A i \in B : \E k \in 1..n : o[k] = i
        /\ \A k, l \in 1..n : o[k] = o[l] => k = l
    BY <1>2, Ordered
  <1>4. q = [k \in 1..n |-> QueuedItem(item, graph.edges[o[k]])]
    BY <1>3 DEF QueuedItems
  <1>5. ASSUME NEW k \in 1..n
        PROVE  LET e == graph.edges[o[k]]
               IN  /\ e \in EdgesOf(graph) /\ e.source = item.node
                   /\ q[k] \in Items /\ q[k].node = e.target /\ q[k].grant = 0
                   /\ q[k].path = item.path \cup {e.target}
    <2> DEFINE e == graph.edges[o[k]]
    <2>1. o[k] \in B
      BY <1>3
    <2>2. e \in EdgesOf(graph) /\ e.source = item.node
      BY <1>2, <2>1 DEF EdgesOf, ToSet, Behind
    <2>3. q[k] = QueuedItem(item, e)
      BY <1>4
    <2>4. e.target \in Names /\ item.path \cup {e.target} \in SUBSET Names /\ 0 \in 0..MaxCommand
      BY <2>2, GraphNames, CommandsAssumption DEF Items
    <2> HIDE DEF e
    <2>5. q[k] = [node |-> e.target, path |-> item.path \cup {e.target}, grant |-> 0]
      BY <2>3 DEF QueuedItem, Item
    <2>6. q[k] \in Items
      BY <2>4, <2>5 DEF Items
    <2> QED  BY <2>2, <2>5, <2>6 DEF e
  <1>6. q \in Seq(Items) /\ DOMAIN q = 1..n
    BY <1>3, <1>4, <1>5
  <1>7. NodesIn(q) = Targets(item.node, ports)
    <2>1. \A k \in 1..n : q[k].node \in Targets(item.node, ports)
      BY <1>3, <1>5 DEF Targets
    <2>2. ASSUME NEW i \in B
          PROVE  graph.edges[i].target \in NodesIn(q)
      BY <1>3, <1>5, <1>6 DEF NodesIn
    <2> QED  BY <1>6, <2>1, <2>2 DEF NodesIn, Targets
  <1>8. ASSUME Valid(graph), NEW i \in 1..n, NEW j \in 1..n, q[i].node = q[j].node
        PROVE  i = j
    <2>1. o[i] \in DOMAIN graph.edges /\ o[j] \in DOMAIN graph.edges
      BY <1>2, <1>3
    <2>2. o[i] = o[j]
      BY <1>5, <1>8, <2>1, OneIncoming
    <2> QED  BY <1>3, <2>2
  <1> HIDE DEF q
  <1>9. \A i \in DOMAIN q : /\ q[i].grant = 0
                            /\ \E e \in EdgesOf(graph) :
                                  /\ e.source = item.node /\ e.target = q[i].node
                                  /\ q[i].path = item.path \cup {e.target}
    BY <1>5, <1>6
  <1>10. Valid(graph) => \A i, j \in DOMAIN q : q[i].node = q[j].node => i = j
    BY <1>6, <1>8
  <1> QED  BY <1>6, <1>7, <1>9, <1>10 DEF q

\* The queue: its first item, the others, and more at its end.
LEMMA Taken ==
    ASSUME NEW q \in Seq(Items), q # <<>>
    PROVE  /\ Head(q) \in Items /\ Tail(q) \in Seq(Items) /\ 1 \in DOMAIN q /\ Head(q) = q[1]
           /\ \A i \in DOMAIN Tail(q) : i + 1 \in DOMAIN q /\ i + 1 # 1 /\ Tail(q)[i] = q[i + 1]
           /\ \A i, j \in DOMAIN Tail(q) : i + 1 = j + 1 => i = j
           /\ NodesIn(q) = NodesIn(Tail(q)) \cup {Head(q).node}
  <1>1. Len(q) \in Nat /\ Len(q) > 0 /\ DOMAIN q = 1..Len(q)
    BY EmptySeq, LenProperties
  <1>2. /\ Head(q) \in Items /\ Tail(q) \in Seq(Items) /\ Head(q) = q[1]
        /\ Len(Tail(q)) = Len(q) - 1 /\ \A i \in 1..Len(Tail(q)) : Tail(q)[i] = q[i + 1]
    BY <1>1, HeadTailProperties
  <1>3. DOMAIN Tail(q) = 1..(Len(q) - 1)
    BY <1>2, LenProperties
  <1>4. \A i \in DOMAIN q : i = 1 \/ (i - 1 \in DOMAIN Tail(q) /\ Tail(q)[i - 1] = q[i])
    BY <1>1, <1>2, <1>3
  <1>5. \A i \in DOMAIN Tail(q) : i + 1 \in DOMAIN q /\ i + 1 # 1 /\ Tail(q)[i] = q[i + 1]
    BY <1>1, <1>2, <1>3
  <1>6. 1 \in DOMAIN q /\ \A i, j \in DOMAIN Tail(q) : i + 1 = j + 1 => i = j
    BY <1>1, <1>3
  <1>7. NodesIn(q) = NodesIn(Tail(q)) \cup {Head(q).node}
    BY <1>2, <1>4, <1>5, <1>6 DEF NodesIn
  <1> QED  BY <1>2, <1>5, <1>6, <1>7

LEMMA Joined ==
    ASSUME NEW q \in Seq(Items), NEW r \in Seq(Items)
    PROVE  /\ q \o r \in Seq(Items)
           /\ NodesIn(q \o r) = NodesIn(q) \cup NodesIn(r)
           /\ \A i \in DOMAIN (q \o r) :
                 \/ i \in DOMAIN q /\ (q \o r)[i] = q[i]
                 \/ i - Len(q) \in DOMAIN r /\ (q \o r)[i] = r[i - Len(q)]
           /\ \A i, j \in DOMAIN (q \o r) : i - Len(q) = j - Len(q) => i = j
  <1>1. DOMAIN q = 1..Len(q) /\ DOMAIN r = 1..Len(r) /\ Len(q) \in Nat /\ Len(r) \in Nat
    BY LenProperties
  <1>2. /\ q \o r \in Seq(Items) /\ Len(q \o r) = Len(q) + Len(r)
        /\ \A i \in 1 .. Len(q) + Len(r) : (q \o r)[i] =
                 IF i <= Len(q) THEN q[i] ELSE r[i - Len(q)]
    BY ConcatProperties
  <1>3. DOMAIN (q \o r) = 1 .. Len(q) + Len(r)
    BY <1>2, LenProperties
  <1>4. \A i \in DOMAIN (q \o r) :
                 \/ i \in DOMAIN q /\ (q \o r)[i] = q[i]
                 \/ i - Len(q) \in DOMAIN r /\ (q \o r)[i] = r[i - Len(q)]
    BY <1>1, <1>2, <1>3
  <1>5. /\ \A i \in DOMAIN q : i \in DOMAIN (q \o r) /\ (q \o r)[i] = q[i]
        /\ \A i \in DOMAIN r : i + Len(q) \in DOMAIN (q \o r) /\ (q \o r)[i + Len(q)] = r[i]
    BY <1>1, <1>2, <1>3
  <1>6. NodesIn(q \o r) = NodesIn(q) \cup NodesIn(r)
    <2> DEFINE s == q \o r
    <2> HIDE DEF s
    <2>1. \A i \in DOMAIN s : s[i].node \in NodesIn(q) \cup NodesIn(r)
      BY <1>4 DEF NodesIn, s
    <2>2. \A i \in DOMAIN q : q[i].node \in NodesIn(s)
      BY <1>5 DEF NodesIn, s
    <2>3. \A i \in DOMAIN r : r[i].node \in NodesIn(s)
      <3> TAKE i \in DOMAIN r
      <3>1. i + Len(q) \in DOMAIN s /\ s[i + Len(q)] = r[i]
        BY <1>5 DEF s
      <3> QED  BY <3>1 DEF NodesIn
    <2>4. NodesIn(s) = NodesIn(q) \cup NodesIn(r)
      BY <2>1, <2>2, <2>3 DEF NodesIn
    <2> QED  BY <2>4 DEF s
  <1>7. \A i, j \in DOMAIN (q \o r) : i - Len(q) = j - Len(q) => i = j
    BY <1>1, <1>3
  <1> QED  BY <1>2, <1>4, <1>6, <1>7

-----------------------------------------------------------------------------
(* Types.                                                                  *)

PCs    == {"idle", "loop", "node", "route", "done"}
Cs     == {"null", "ready", "timer", "control", "exec"}
Queues == Seq(Items)
Currents == Items \cup {Item(None, {}, 0)}
Execs  == [pc : PCs, queue : Queues, visited : SUBSET Names, cur : Currents, outcome : Outcomes,
           events : Seq(Events), status : Statuses, error : Errors,
           continuation : Continuations]
Starts == [type : Triggers \cup {"manual"}, fits : BOOLEAN]
Rows   == [status : Statuses, trigger : Starts, error : Errors, continuation : Continuations]
Pasts  == [ran : Seq(Runs), owed : SUBSET Names, dropped : SUBSET Names,
           approved : SUBSET [node : Names, command : Commands]]

LEMMA TypeIs ==
    TypeOK <=> /\ graph.command \in Commands /\ run \in Rows
               /\ run.status = "waiting" <=>
                      run.continuation.kind \in {"timer", "control", "exec"}
               /\ log \in Seq(Events) /\ ex \in Execs /\ aborted \in BOOLEAN /\ hist \in Pasts
  BY DEF TypeOK, PCs, Queues, Currents, Execs, Starts, Rows, Pasts

LEMMA ContinuationTyped ==
    ASSUME NEW k \in Cs, NEW q \in Queues, NEW v \in SUBSET Names, NEW n \in Names \cup {None},
           NEW y \in Queues, NEW o \in Queues
    PROVE  /\ Continuation(k, q, v, n, y, o) \in Continuations
           /\ Continuation(k, q, v, n, y, o).kind = k
  BY DEF Continuation, Continuations, Queues, Cs

LEMMA NothingTyped ==
    /\ NoContinuation \in Continuations /\ NoContinuation.kind = "null"
    /\ Idle \in Execs /\ Idle.pc = "idle" /\ Idle.continuation = NoContinuation
  <1>1. /\ <<>> \in Queues /\ {} \in SUBSET Names /\ None \in Names \cup {None}
        /\ "null" \in Cs /\ "idle" \in PCs /\ "running" \in Statuses /\ "none" \in Errors
        /\ <<>> \in Seq(Events) /\ 0 \in 0..MaxCommand
    BY CommandsAssumption DEF Queues, Cs, PCs, Statuses, Errors
  <1>2. NoContinuation \in Continuations /\ NoContinuation.kind = "null"
    BY <1>1, ContinuationTyped DEF NoContinuation
  <1>3. Item(None, {}, 0) \in Currents
    BY DEF Currents
  <1>4. Fails(FALSE) \in Outcomes
    BY FailsShape
  <1>5. Idle \in Execs
    BY <1>1, <1>2, <1>3, <1>4 DEF Idle, Execs
  <1> QED  BY <1>2, <1>5 DEF Idle

\* The launch finds an entry only among the nodes.
LEMMA EntryNode ==
    ASSUME NEW g, NEW trigger, Entry(g, trigger) # None
    PROVE  Entry(g, trigger) \in NodesOf(g)
  <1>1. Cardinality(Fitting(g, trigger)) = 1
    BY DEF Entry
  <1>2. Fitting(g, trigger) # {}
    BY <1>1, FS_EmptySet
  <1>3. Entry(g, trigger) \in Fitting(g, trigger)
    BY <1>1, <1>2 DEF Entry
  <1> QED  BY <1>3 DEF Fitting, TriggerNodes

LEMMA NamedTyped ==
    /\ PCs = {"idle", "loop", "node", "route", "done"}
    /\ \A s \in {"none", "running", "waiting", "succeeded", "failed", "cancelled"} : s \in Statuses
    /\ \A s \in {"none", "entry", "missing", "cycle", "node", "rejected"} : s \in Errors
    /\ \A s \in {"null", "ready", "timer", "control", "exec"} : s \in Cs
    /\ \A n \in Names, t \in {"started", "finished", "failed", "delegated", "relayed",
                              "requested", "waiting", "approved", "rejected"} :
          Event(t, n) \in Events
  BY DEF PCs, Statuses, Errors, Cs, Event, Events

\* A step of the execution keeps the phases if it says what it comes to.
Came(x) ==
    \/ x.pc = "loop" /\ x.continuation.kind = "null"
    \/ /\ x.pc \in {"node", "route"} /\ x.continuation.kind = "null"
       /\ x.cur.node \in NodesOf(graph)
    \/ /\ x.pc = "done" /\ x.status \in {"waiting", "succeeded", "failed", "cancelled"}
       /\ x.status = "waiting" <=> x.continuation.kind \in {"timer", "control", "exec"}
       /\ Asking(x.continuation)

LEMMA PhaseStep ==
    ASSUME Typed, UNCHANGED <<graph, run>>, ex.pc # "idle" \/ run.status = "running",
           NEW x, ex' = x, Came(x)
    PROVE  Phases'
  <1>1. /\ run.status = "none" => run.continuation.kind = "null"
        /\ run.status = "running" => run.continuation.kind \in {"null", "ready"}
        /\ run.status \in {"running", "cancelled"}
    BY DEF Typed, Phases
  <1>2. NodesOf(graph)' = NodesOf(graph)
    BY DEF NodesOf
  <1>3. x.pc # "idle" /\ Asking(x.continuation) /\ Asking(run.continuation)
    BY DEF Came, Typed, Phases, Asking
  <1> QED  BY <1>1, <1>2, <1>3 DEF Phases, Came

\* What an execution does to its own record.
LEMMA TypedLoop ==
    ASSUME Typed, Begin \/ StopCancelled \/ Succeed \/ TakeNode
    PROVE  ex' \in Execs /\ Phases'
  <1>0. /\ graph.command \in Commands /\ run \in Rows /\ ex \in Execs
        /\ ex.queue \in Seq(Items) /\ ex.visited \subseteq Names /\ ex.events \in Seq(Events)
        /\ run.continuation \in Continuations /\ UNCHANGED <<graph, run, log, hist>>
    <2>1. run \in Rows /\ ex \in Execs /\ graph.command \in Commands
      BY TypeIs DEF Typed
    <2> QED  BY <2>1 DEF Execs, Rows, Queues, Begin, StopCancelled, Succeed, Stop, TakeNode
  <1>1. CASE Begin
    <2> DEFINE entry == Entry(graph, run.trigger)
               next  == run.continuation
               a == [Idle EXCEPT !.pc = "loop", !.queue = next.queue, !.visited = next.visited]
               b == [Idle EXCEPT !.pc = "loop", !.queue = <<Item(entry, {entry}, 0)>>]
               c == [Idle EXCEPT !.pc = "done", !.status = "failed", !.error = "entry"]
    <2>1. ex' \in {a, c} \/ (entry # None /\ ex' = b)
      BY <1>1 DEF Begin
    <2>2. a \in Execs /\ a.pc = "loop" /\ a.continuation = NoContinuation
      BY <1>0, NothingTyped, NamedTyped DEF Execs, Continuations, Queues
    <2>3. c \in Execs /\ c.pc = "done" /\ c.status = "failed" /\ c.continuation = NoContinuation
      BY NothingTyped, NamedTyped DEF Execs
    <2>4. ASSUME entry # None
          PROVE  b \in Execs /\ b.pc = "loop" /\ b.continuation = NoContinuation
      <3>1. entry \in Names
        BY <2>4, EntryNode, GraphNames DEF Typed
      <3>2. Item(entry, {entry}, 0) \in Items
        BY <3>1, CommandsAssumption DEF Item, Items
      <3>3. <<Item(entry, {entry}, 0)>> \in Queues
        BY <3>2 DEF Queues
      <3> QED  BY <3>3, NothingTyped, NamedTyped DEF Execs
    <2> HIDE DEF a, b, c
    <2>5. ex' \in Execs /\ ex'.continuation = NoContinuation /\ ex'.pc \in {"loop", "done"}
          /\ (ex'.pc = "done" => ex'.status = "failed")
      BY <2>1, <2>2, <2>3, <2>4
    <2>6. run.status = "running"
      BY <1>1 DEF Begin
    <2>7. Came(ex')
      BY <2>5, NothingTyped DEF Came, Asking
    <2> QED  BY <1>0, <2>5, <2>6, <2>7, PhaseStep
  <1>2. ASSUME NEW s \in {"cancelled", "succeeded", "failed"}, NEW e \in {"none", "missing"},
               Stop(s, e), ex.pc = "loop" \/ ex.pc = "route"
        PROVE  ex' \in Execs /\ Phases'
    <2>1. /\ ex' \in Execs /\ ex'.pc = "done" /\ ex'.status = s
          /\ ex'.continuation = ex.continuation
      BY <1>0, <1>2, NamedTyped DEF Stop, Execs
    <2>2. ex.continuation.kind = "null"
      BY <1>2 DEF Typed, Phases
    <2>3. Came(ex') /\ ex.pc # "idle"
      BY <1>2, <2>1, <2>2 DEF Came, Asking
    <2> QED  BY <1>0, <2>1, <2>3, PhaseStep
  <1>3. CASE StopCancelled
    BY <1>2, <1>3 DEF StopCancelled
  <1>4. CASE Succeed
    BY <1>2, <1>4 DEF Succeed
  <1>5. CASE TakeNode
    <2> DEFINE item == Head(ex.queue)
               o == [ex EXCEPT !.pc = "node", !.queue = Tail(@), !.cur = item,
                                 !.visited = @ \cup {item.node},
                                 !.events = Append(@, Event("started", item.node))]
    <2>1. CASE item.node \in NodesOf(graph)
      <3>1. /\ item \in Items /\ Tail(ex.queue) \in Queues /\ item.node \in Names
            /\ ex.pc = "loop"
        BY <1>0, <1>5, <2>1, Taken, GraphNames DEF TakeNode, Queues, Typed
      <3>2. Append(ex.events, Event("started", item.node)) \in Seq(Events)
        BY <1>0, <3>1, NamedTyped
      <3>3. ex' = o
        BY <1>5, <2>1 DEF TakeNode
      <3>4. o \in Execs /\ o.pc = "node" /\ o.continuation = ex.continuation /\ o.cur = item
        BY <1>0, <3>1, <3>2, NamedTyped DEF Execs, Currents
      <3> HIDE DEF o
      <3>5. ex.continuation.kind = "null"
        BY <3>1 DEF Typed, Phases
      <3>6. Came(o)
        BY <2>1, <3>4, <3>5 DEF Came, Asking
      <3> QED  BY <1>0, <3>1, <3>3, <3>4, <3>6, PhaseStep
    <2>2. CASE item.node \notin NodesOf(graph)
      BY <1>2, <1>5, <2>2 DEF TakeNode
    <2> QED  BY <2>1, <2>2
  <1> QED  BY <1>1, <1>3, <1>4, <1>5

\* What a node leaves behind.
LEMMA TypedNode ==
    ASSUME Typed, RunNode
    PROVE  ex' \in Execs /\ hist' \in Pasts /\ Phases'
  <1>0. /\ graph.command \in Commands /\ ex \in Execs /\ hist \in Pasts /\ aborted \in BOOLEAN
        /\ ex.events \in Seq(Events) /\ hist.ran \in Seq(Runs)
        /\ UNCHANGED <<graph, run, log, aborted>> /\ ex.pc = "node"
    <2>1. ex \in Execs /\ hist \in Pasts /\ graph.command \in Commands /\ aborted \in BOOLEAN
      BY TypeIs DEF Typed
    <2> QED  BY <2>1 DEF Execs, Pasts, RunNode
  <1>1. PICK o \in NodeOutcomes(Kind, Granted, aborted) : NodeReturns(o) \/ NodeThrows(o)
    BY DEF RunNode
  <1>2. o \in Outcomes /\ o.effect \in BOOLEAN
    BY <1>1, OutcomeFacts DEF Outcomes
  <1>3. ex.continuation.kind = "null" /\ ex.cur.node \in NodesOf(graph)
    BY <1>0 DEF Typed, Phases
  <1>n. ex.cur.node \in Names
    BY <1>3, GraphNames DEF Typed
  <1>4. ASSUME NEW how \in {"finished", "asked", "failed", "aborted"}, NEW owed \in SUBSET Names,
               Remember(how, o.effect, owed)
        PROVE  hist' \in Pasts
    <2> DEFINE r == [node |-> ex.cur.node, how |-> how, effect |-> o.effect,
                     command |-> graph.command]
    <2>1. r \in Runs
      BY <1>0, <1>2, <1>n DEF Runs
    <2>2. hist' = [hist EXCEPT !.ran = Append(@, r), !.owed = @ \cup owed]
      BY <1>4 DEF Remember
    <2> HIDE DEF r
    <2>3. Append(hist.ran, r) \in Seq(Runs)
      BY <1>0, <2>1
    <2> QED  BY <1>0, <2>2, <2>3 DEF Pasts
  <1>e. /\ \A t \in {"started", "finished", "failed", "delegated", "relayed", "requested",
                     "waiting", "approved", "rejected"} : Event(t, ex.cur.node) \in Events
    BY <1>n, NamedTyped
  <1>5. CASE NodeReturns(o)
    <2> DEFINE asks == o.until = "exec"
               added == IF asks THEN <<>> ELSE <<Event("finished", ex.cur.node)>>
               x == [ex EXCEPT !.pc = "route", !.outcome = o,
                               !.events = @ \o Delegations \o added]
               how == IF asks THEN "asked" ELSE "finished"
               owed == IF o.until \in {"control", "exec"} THEN {}
                       ELSE Targets(ex.cur.node, o.ports)
    <2>1. ex' = x /\ Remember(how, o.effect, owed)
      BY <1>5 DEF NodeReturns
    <2>2. Delegations \in Seq(Events)
      BY <1>e DEF Delegations
    <2>3. added \in Seq(Events)
      BY <1>e
    <2> HIDE DEF added
    <2>4. ex.events \o Delegations \o added \in Seq(Events)
      BY <1>0, <2>2, <2>3
    <2>5. x \in Execs /\ x.pc = "route" /\ x.continuation = ex.continuation
          /\ x.cur = ex.cur
      BY <1>0, <1>2, <2>4, NamedTyped DEF Execs
    <2>6. owed \in SUBSET Names
      BY GraphNames DEF Typed
    <2>7. how \in {"finished", "asked", "failed", "aborted"}
      OBVIOUS
    <2> HIDE DEF x, how, owed
    <2>8. hist' \in Pasts
      BY <1>4, <2>1, <2>6, <2>7
    <2>9. Came(x)
      BY <1>3, <2>5 DEF Came, Asking
    <2> QED  BY <1>0, <2>1, <2>5, <2>8, <2>9, PhaseStep
  <1>6. CASE NodeThrows(o)
    <2> DEFINE x == [ex EXCEPT !.pc = "done", !.status = "cancelled",
                               !.events = @ \o RelayEvents(o)]
               y == [ex EXCEPT !.pc = "done", !.status = "failed", !.error = "node",
                               !.events = Append(@, Event("failed", ex.cur.node))]
    <2>1. \/ ex' = x /\ Remember("aborted", o.effect, {})
          \/ ex' = y /\ Remember("failed", o.effect, {})
      BY <1>6 DEF NodeThrows
    <2>2. RelayEvents(o) \in Seq(Events)
      BY <1>e DEF RelayEvents
    <2>3. ex.events \o RelayEvents(o) \in Seq(Events)
          /\ Append(ex.events, Event("failed", ex.cur.node)) \in Seq(Events)
      BY <1>0, <1>e, <2>2
    <2>4. /\ x \in Execs /\ x.pc = "done" /\ x.status = "cancelled"
          /\ x.continuation = ex.continuation
      BY <1>0, <2>3, NamedTyped DEF Execs
    <2>5. /\ y \in Execs /\ y.pc = "done" /\ y.status = "failed"
          /\ y.continuation = ex.continuation
      BY <1>0, <2>3, NamedTyped DEF Execs
    <2> HIDE DEF x, y
    <2>6. hist' \in Pasts
      BY <1>4, <2>1
    <2>7. Came(x) /\ Came(y)
      BY <1>3, <2>4, <2>5 DEF Came, Asking
    <2>8. Phases'
      BY <1>0, <2>1, <2>7, PhaseStep
    <2> QED  BY <2>1, <2>4, <2>5, <2>6, <2>8
  <1> QED  BY <1>1, <1>5, <1>6

\* The node of an execution is one of the graph.
LEMMA CurrentNode ==
    ASSUME Typed, ex.pc \in {"node", "route"}
    PROVE  /\ ex.cur.node \in NodesOf(graph) /\ ex.cur.node \in Names /\ ex.cur \in Items
           /\ ex.continuation.kind = "null"
  <1>1. ex.cur.node \in NodesOf(graph) /\ ex.continuation.kind = "null"
    BY DEF Typed, Phases
  <1>2. ex.cur.node \in Names
    BY <1>1, GraphNames DEF Typed
  <1>3. ex.cur \in Currents
    BY TypeIs DEF Typed, Execs
  <1>4. ex.cur.path \in SUBSET Names /\ ex.cur.grant \in 0..MaxCommand
        /\ ex.cur = [node |-> ex.cur.node, path |-> ex.cur.path, grant |-> ex.cur.grant]
    BY <1>3, CommandsAssumption DEF Currents, Items, Item
  <1>5. ex.cur \in Items
    BY <1>2, <1>4 DEF Items
  <1> QED  BY <1>1, <1>2, <1>5

\* What comes after a node.
LEMMA TypedRoute ==
    ASSUME Typed, Route
    PROVE  ex' \in Execs /\ hist' \in Pasts /\ Phases'
  <1> DEFINE items == QueuedItems(ex.cur, ex.outcome.ports)
             n == ex.cur.node
  <1>0. /\ graph.command \in Commands /\ ex \in Execs /\ hist \in Pasts
        /\ ex.queue \in Seq(Items) /\ ex.events \in Seq(Events)
        /\ ex.visited \subseteq Names /\ ex.outcome \in Outcomes
        /\ UNCHANGED <<graph, run, log, aborted>> /\ ex.pc = "route"
    <2>1. ex \in Execs /\ hist \in Pasts /\ graph.command \in Commands
      BY TypeIs DEF Typed
    <2> QED  BY <2>1 DEF Execs, Queues, Route
  <1>2. ex.continuation.kind = "null" /\ n \in NodesOf(graph)
    BY <1>0, CurrentNode
  <1>c. n \in Names /\ ex.cur \in Items
    BY <1>0, CurrentNode
  <1>1. items \in Seq(Items) /\ \A ports : QueuedItems(ex.cur, ports) \in Queues
    BY <1>0, <1>c, Queued DEF Typed, Queues
  <1>q. ex.queue \o items \in Queues
    BY <1>0, <1>1 DEF Queues
  <1> HIDE DEF items
  <1>3. CASE ReEnters(ex.cur, ex.outcome.ports)
    <2>1. Stop("failed", "cycle") /\ UNCHANGED hist
      BY <1>3 DEF Route
    <2>2. /\ ex' \in Execs /\ ex'.pc = "done" /\ ex'.status = "failed"
          /\ ex'.continuation = ex.continuation
      BY <1>0, <2>1, NamedTyped DEF Stop, Execs
    <2>3. Came(ex')
      BY <1>2, <2>2 DEF Came, Asking
    <2> QED  BY <1>0, <2>1, <2>2, <2>3, PhaseStep
  <1>4. CASE GoOn(items)
    <2>1. ex' \in Execs /\ ex'.pc = "loop" /\ ex'.continuation = ex.continuation /\ hist' = hist
      BY <1>0, <1>4, <1>q, NamedTyped DEF GoOn, Execs
    <2>2. Came(ex')
      BY <1>2, <2>1 DEF Came, Asking
    <2> QED  BY <1>0, <2>1, <2>2, PhaseStep
  <1>n. n \in Names => /\ Event("waiting", n) \in Events
                       /\ Event("requested", n) \in Events
    BY NamedTyped
  <1>5. CASE WaitForTimer(items) /\ n \in Names
    <2> DEFINE c == Continuation("timer", ex.queue \o items, ex.visited, n, <<>>, <<>>)
               x == [ex EXCEPT !.pc = "done", !.status = "waiting",
                               !.events = Append(@, Event("waiting", n)), !.continuation = c]
    <2>1. ex' = x /\ UNCHANGED hist
      BY <1>5 DEF WaitForTimer
    <2>2. <<>> \in Queues
      BY DEF Queues
    <2>3. c \in Continuations /\ c.kind = "timer"
      BY <1>0, <1>5, <1>q, <2>2, NamedTyped, ContinuationTyped
    <2>7. c.node \in Names
      BY <1>5 DEF Continuation
    <2> HIDE DEF c
    <2>4. Append(ex.events, Event("waiting", n)) \in Seq(Events)
      BY <1>0, <1>5, <1>n
    <2>5. x \in Execs /\ x.pc = "done" /\ x.status = "waiting" /\ x.continuation = c
      BY <1>0, <2>3, <2>4, NamedTyped DEF Execs
    <2> HIDE DEF x
    <2>6. Came(x)
      BY <2>3, <2>5, <2>7 DEF Came, Asking
    <2> QED  BY <1>0, <2>1, <2>5, <2>6, PhaseStep
  <1>6. CASE WaitForDecision /\ n \in Names
    <2> DEFINE asks == ex.outcome.until = "exec"
               yes  == IF asks THEN <<Item(n, ex.cur.path, graph.command)>>
                               ELSE QueuedItems(ex.cur, {"approved"})
               no   == IF asks THEN <<>> ELSE QueuedItems(ex.cur, {"rejected"})
               c == Continuation(ex.outcome.until, <<>>, VisitedBefore(asks), n, yes, no)
               evs == ex.events \o <<Event("requested", n), Event("waiting", n)>>
               x == [ex EXCEPT !.pc = "done", !.status = "waiting", !.events = evs,
                               !.continuation = c]
               dropped == hist.dropped \cup {item.node : item \in ToSet(ex.queue)}
    <2>1. /\ ex' = x /\ ex.outcome.until \in {"control", "exec"}
          /\ hist' = [hist EXCEPT !.dropped = dropped]
      BY <1>6 DEF WaitForDecision
    <2>2. Item(n, ex.cur.path, graph.command) \in Items
      BY <1>0, <1>c, CommandsAssumption DEF Item, Items, Commands
    <2>3. yes \in Queues /\ no \in Queues /\ <<>> \in Queues
      BY <1>1, <2>2 DEF Queues
    <2>4. VisitedBefore(asks) \in SUBSET Names
      BY <1>0 DEF VisitedBefore
    <2>11. asks => DOMAIN yes = {1} /\ yes[1].grant \in Commands
      BY <1>0 DEF Item
    <2> HIDE DEF yes, no
    <2>12. c.node \in Names /\ c.yes = yes
      BY <1>6 DEF Continuation
    <2>5. c \in Continuations /\ c.kind = ex.outcome.until
      BY <1>6, <2>1, <2>3, <2>4, NamedTyped, ContinuationTyped
    <2> HIDE DEF c
    <2>6. evs \in Seq(Events)
      <3>1. <<Event("requested", n), Event("waiting", n)>> \in Seq(Events)
        BY <1>6, <1>n
      <3> QED  BY <1>0, <3>1
    <2> HIDE DEF evs
    <2>7. x \in Execs /\ x.pc = "done" /\ x.status = "waiting" /\ x.continuation = c
      BY <1>0, <2>5, <2>6, NamedTyped DEF Execs
    <2>8. dropped \in SUBSET Names
      <3>1. \A i \in DOMAIN ex.queue : ex.queue[i] \in Items
        BY <1>0
      <3>2. \A item \in ToSet(ex.queue) : item \in Items
        BY <3>1 DEF ToSet
      <3> QED  BY <1>0, <3>2 DEF Items, Pasts
    <2> HIDE DEF x, dropped
    <2>9. hist' \in Pasts
      BY <1>0, <2>1, <2>8 DEF Pasts
    <2>10. Came(x)
      BY <2>1, <2>5, <2>7, <2>11, <2>12 DEF Came, Asking
    <2> QED  BY <1>0, <2>1, <2>7, <2>9, <2>10, PhaseStep
  <1> QED  BY <1>3, <1>4, <1>5, <1>6, <1>c DEF Route, items

\* The types of the next state, when the graph stays.
LEMMA TypedByParts ==
    ASSUME Typed, graph' = graph, ex' \in Execs, aborted' \in BOOLEAN,
           run' \in Rows, hist' \in Pasts, log' \in Seq(Events), Phases',
           run'.status = "waiting" <=> run'.continuation.kind \in {"timer", "control", "exec"}
    PROVE  Typed'
  <1>1. Drawn' /\ graph.command \in Commands
    BY DEF Typed, Drawn, NodesOf, EdgesOf
  <1>2. Typed' <=> TypeOK' /\ Drawn' /\ Phases'
    BY DEF Typed
  <1>3. TypeOK'
    BY <1>1 DEF TypeOK, PCs, Queues, Currents, Execs, Starts, Rows, Pasts
  <1> QED  BY <1>1, <1>2, <1>3

\* A resumed run goes on with what it waited for; a refused one, or fails.
LEMMA TypedResume ==
    ASSUME Typed, run.status = "waiting", NEW q \in Queues, Resume(q)
    PROVE  /\ run' \in Rows /\ run'.status = "running" /\ run'.continuation.kind = "ready"
           /\ run'.trigger = run.trigger
  <1> DEFINE c == Ready(q, run.continuation)
  <1>1. run \in Rows
    BY TypeIs DEF Typed
  <1>2. <<>> \in Queues /\ "ready" \in Cs /\ None \in Names \cup {None}
    BY DEF Queues, Cs
  <1>3. run.continuation.visited \in SUBSET Names
    BY <1>1 DEF Rows, Continuations
  <1>4. c \in Continuations /\ c.kind = "ready"
    BY <1>2, <1>3, ContinuationTyped DEF Ready
  <1>5. run' = [run EXCEPT !.status = "running", !.error = "none", !.continuation = c]
    BY DEF Resume
  <1> HIDE DEF c
  <1> QED  BY <1>1, <1>4, <1>5, NamedTyped DEF Rows

\* What the row says after a step that leaves the execution alone.
Settled(r) ==
    \/ r.status = "running" /\ r.continuation.kind \in {"null", "ready"}
    \/ r.status \in {"failed", "cancelled"} /\ r.continuation.kind = "null"

LEMMA TypedRefuse ==
    ASSUME Typed, run.status = "waiting", Refuse
    PROVE  run' \in Rows /\ Settled(run') /\ run'.trigger = run.trigger
  <1>1. run \in Rows /\ run.continuation.no \in Queues
    BY TypeIs DEF Typed, Rows, Continuations, Queues
  <1>2. CASE run.continuation.kind = "exec"
    <2>1. run' = [run EXCEPT !.status = "failed", !.error = "rejected",
                            !.continuation = NoContinuation]
      BY <1>2 DEF Refuse
    <2> QED  BY <1>1, <2>1, NothingTyped, NamedTyped DEF Rows, Settled
  <1>3. CASE run.continuation.kind # "exec"
    <2>1. Resume(run.continuation.no)
      BY <1>3 DEF Refuse
    <2> QED  BY <1>1, <2>1, TypedResume DEF Settled
  <1> QED  BY <1>2, <1>3

\* A run that waits has no execution, and may be resumed with any of its queues.
LEMMA SettledStep ==
    ASSUME Typed, ex' = ex, graph' = graph, NEW r, run' = r, Settled(r),
           r.status = "running" => ex.pc = "idle",
           ex.pc # "idle" => r.status # "failed"
    PROVE  /\ Phases'
           /\ r.status = "waiting" <=> r.continuation.kind \in {"timer", "control", "exec"}
  <1>1. Asking(r.continuation) /\ Asking(ex.continuation)
    BY DEF Settled, Asking, Typed, Phases
  <1>2. NodesOf(graph)' = NodesOf(graph)
    BY DEF NodesOf
  <1>3. /\ r.status \in {"running", "failed", "cancelled"}
        /\ r.status = "running" => r.continuation.kind \in {"null", "ready"}
        /\ r.status = "waiting" <=> r.continuation.kind \in {"timer", "control", "exec"}
        /\ ex.pc # "idle" => r.status \in {"running", "cancelled"}
    BY DEF Settled
  <1>4. /\ ex.pc # "done" => ex.continuation.kind = "null"
        /\ ex.pc \in {"node", "route"} => ex.cur.node \in NodesOf(graph)
        /\ ex.pc = "done" =>
              /\ ex.status \in {"waiting", "succeeded", "failed", "cancelled"}
              /\ ex.status = "waiting" <=> ex.continuation.kind \in {"timer", "control", "exec"}
    BY DEF Typed, Phases
  <1> QED  BY <1>1, <1>2, <1>3, <1>4 DEF Phases

\* A decision is recorded with the node it is about.
LEMMA TypedRecord ==
    ASSUME Typed, run.status = "waiting", NEW d \in {"approved", "rejected"}, Record(d)
    PROVE  log' \in Seq(Events)
  <1>1. run.continuation.node \in Names /\ log \in Seq(Events)
    BY TypeIs DEF Typed, TypeOK, Phases, Asking
  <1>2. Event(d, run.continuation.node) \in Events
    BY <1>1, NamedTyped
  <1> QED  BY <1>1, <1>2 DEF Record

LEMMA TypedDecide ==
    ASSUME Typed, NEW d \in {"approved", "rejected"}, Decide(d)
    PROVE  Typed'
  <1>1. /\ run \in Rows /\ hist \in Pasts /\ log \in Seq(Events) /\ ex \in Execs
        /\ aborted \in BOOLEAN
    BY TypeIs DEF Typed
  <1>d. /\ run.status = "waiting" /\ run.continuation.kind \in {"control", "exec"}
        /\ UNCHANGED <<graph, ex, aborted>> /\ Record(d)
    BY DEF Decide
  <1>2. ex.pc = "idle"
    BY <1>d DEF Typed, Phases
  <1>3. run' \in Rows /\ Settled(run')
    <2>1. CASE d = "approved"
      <3>1. Resume(run.continuation.yes) /\ run.continuation.yes \in Queues
        BY <1>1, <2>1 DEF Decide, Rows, Continuations, Queues
      <3> QED  BY <1>d, <3>1, TypedResume DEF Settled
    <2>2. CASE d # "approved"
      <3>1. Refuse
        BY <2>2 DEF Decide
      <3> QED  BY <1>d, <3>1, TypedRefuse
    <2> QED  BY <2>1, <2>2
  <1>4. hist' \in Pasts
    <2>1. Decided(d) \in SUBSET Names
      BY <1>1, GraphNames DEF Decided, Typed, Pasts
    <2>2. run.continuation.kind = "exec" =>
             [node |-> run.continuation.node, command |-> run.continuation.yes[1].grant]
                \in [node : Names, command : Commands]
      BY DEF Typed, Phases, Asking
    <2>3. hist' = [hist EXCEPT
            !.owed = Decided(d),
            !.approved = IF d = "approved" /\ run.continuation.kind = "exec"
                         THEN @ \cup {[node |-> run.continuation.node,
                                       command |-> run.continuation.yes[1].grant]}
                         ELSE @]
      BY DEF Decide
    <2> QED  BY <1>1, <2>1, <2>2, <2>3 DEF Pasts
  <1>5. log' \in Seq(Events)
    BY <1>d, TypedRecord
  <1>7. /\ Phases'
        /\ run'.status = "waiting" <=> run'.continuation.kind \in {"timer", "control", "exec"}
    BY <1>d, <1>2, <1>3, SettledStep
  <1> QED  BY <1>1, <1>d, <1>3, <1>4, <1>5, <1>7, TypedByParts

LEMMA TypedResumeWaiting ==
    ASSUME Typed, ResumeWaiting
    PROVE  Typed'
  <1>1. /\ run \in Rows /\ hist \in Pasts /\ log \in Seq(Events) /\ ex \in Execs
        /\ aborted \in BOOLEAN
    BY TypeIs DEF Typed
  <1>d. run.status = "waiting" /\ UNCHANGED <<graph, ex, aborted>>
    BY DEF ResumeWaiting
  <1>2. ex.pc = "idle"
    BY <1>d DEF Typed, Phases
  <1>3. run' \in Rows /\ Settled(run')
    <2>1. CASE run.continuation.kind = "timer"
      <3>1. Resume(run.continuation.queue) /\ run.continuation.queue \in Queues
        BY <1>1, <2>1 DEF ResumeWaiting, Rows, Continuations, Queues
      <3> QED  BY <1>d, <3>1, TypedResume DEF Settled
    <2>2. CASE run.continuation.kind # "timer"
      <3>1. Refuse
        BY <2>2 DEF ResumeWaiting
      <3> QED  BY <1>d, <3>1, TypedRefuse
    <2> QED  BY <2>1, <2>2
  <1>4. hist' \in Pasts
    <2>1. Decided("rejected") \in SUBSET Names
      BY <1>1, GraphNames DEF Decided, Typed, Pasts
    <2>2. hist' = hist \/ hist' = [hist EXCEPT !.owed = Decided("rejected")]
      BY DEF ResumeWaiting
    <2> QED  BY <1>1, <2>1, <2>2 DEF Pasts
  <1>5. log' \in Seq(Events)
    BY <1>1, <1>d, TypedRecord DEF ResumeWaiting
  <1>7. /\ Phases'
        /\ run'.status = "waiting" <=> run'.continuation.kind \in {"timer", "control", "exec"}
    BY <1>d, <1>2, <1>3, SettledStep
  <1> QED  BY <1>1, <1>d, <1>3, <1>4, <1>5, <1>7, TypedByParts

LEMMA TypedFinalize ==
    ASSUME Typed, Finalize
    PROVE  Typed'
  <1>1. /\ run \in Rows /\ hist \in Pasts /\ log \in Seq(Events) /\ ex \in Execs
        /\ aborted \in BOOLEAN
    BY TypeIs DEF Typed
  <1>2. /\ ex.pc = "done" /\ ex' = Idle /\ UNCHANGED <<graph, aborted, hist>>
        /\ \/ UNCHANGED <<log, run>>
           \/ /\ log' = log \o ex.events /\ run.status = "running"
              /\ run' = [run EXCEPT !.status = ex.status, !.error = ex.error,
                                    !.continuation = ex.continuation]
    BY DEF Finalize
  <1>3. /\ ex.status \in {"waiting", "succeeded", "failed", "cancelled"}
        /\ ex.status = "waiting" <=> ex.continuation.kind \in {"timer", "control", "exec"}
        /\ Asking(ex.continuation) /\ Asking(run.continuation)
        /\ run.status = "none" => run.continuation.kind = "null"
        /\ run.status = "running" => run.continuation.kind \in {"null", "ready"}
    BY <1>2 DEF Typed, Phases
  <1>4. /\ Idle \in Execs /\ Idle.pc = "idle" /\ Idle.continuation.kind = "null"
        /\ Asking(Idle.continuation)
    BY NothingTyped DEF Asking
  <1>5. log' \in Seq(Events)
    <2>1. ex.events \in Seq(Events)
      BY <1>1 DEF Execs
    <2>2. log \o ex.events \in Seq(Events)
      BY <1>1, <2>1
    <2>3. log' = log \/ log' = log \o ex.events
      BY <1>2
    <2> QED  BY <1>1, <2>2, <2>3
  <1>6. CASE UNCHANGED <<log, run>>
    <2>1. Phases'
      BY <1>2, <1>3, <1>4, <1>6 DEF Phases
    <2>2. run.status = "waiting" <=> run.continuation.kind \in {"timer", "control", "exec"}
      BY TypeIs DEF Typed
    <2> QED  BY <1>1, <1>2, <1>4, <1>6, <2>1, <2>2, TypedByParts
  <1>7. CASE run.status = "running" /\ run' = [run EXCEPT !.status = ex.status, !.error = ex.error,
                                    !.continuation = ex.continuation]
    <2>1. /\ run' \in Rows /\ run'.status = ex.status /\ run'.continuation = ex.continuation
      BY <1>1, <1>7 DEF Rows, Execs
    <2>2. Phases'
      BY <1>2, <1>3, <1>4, <2>1 DEF Phases
    <2> QED  BY <1>1, <1>2, <1>3, <1>4, <1>5, <2>1, <2>2, TypedByParts
  <1> QED  BY <1>2, <1>6, <1>7

LEMMA TypedRest ==
    ASSUME Typed, (\E trigger \in Launches : Launch(trigger)) \/ Cancel \/ PollAbort \/ Overwrite
    PROVE  Typed'
  <1>1. /\ run \in Rows /\ hist \in Pasts /\ log \in Seq(Events) /\ ex \in Execs
        /\ aborted \in BOOLEAN
        /\ run.status = "waiting" <=> run.continuation.kind \in {"timer", "control", "exec"}
    BY TypeIs DEF Typed
  <1>2. ASSUME NEW trigger \in Launches, Launch(trigger)
        PROVE  Typed'
    <2>1. /\ run' = [run EXCEPT !.status = "running", !.trigger = trigger]
          /\ UNCHANGED <<graph, log, ex, aborted, hist>> /\ run.status = "none"
      BY <1>2 DEF Launch
    <2>2. trigger \in Starts
      BY LaunchesAssumption DEF Starts
    <2>3. /\ run' \in Rows /\ run'.status = "running" /\ run'.continuation = run.continuation
      BY <1>1, <2>1, <2>2, NamedTyped DEF Rows
    <2>4. run.continuation.kind = "null" /\ ex.pc = "idle"
      BY <2>1 DEF Typed, Phases
    <2>5. Settled(run')
      BY <2>3, <2>4 DEF Settled
    <2>6. /\ Phases'
          /\ run'.status = "waiting" <=> run'.continuation.kind \in {"timer", "control", "exec"}
      BY <2>1, <2>3, <2>4, <2>5, SettledStep
    <2> QED  BY <1>1, <2>1, <2>3, <2>6, TypedByParts
  <1>3. CASE Cancel
    <2>1. /\ run' = [run EXCEPT !.status = "cancelled", !.continuation = NoContinuation]
          /\ UNCHANGED <<graph, log, ex, aborted, hist>>
      BY <1>3 DEF Cancel
    <2>2. /\ run' \in Rows /\ run'.status = "cancelled" /\ run'.continuation.kind = "null"
      BY <1>1, <2>1, NamedTyped, NothingTyped DEF Rows
    <2>3. Settled(run')
      BY <2>2 DEF Settled
    <2>4. /\ Phases'
          /\ run'.status = "waiting" <=> run'.continuation.kind \in {"timer", "control", "exec"}
      BY <2>1, <2>2, <2>3, SettledStep
    <2> QED  BY <1>1, <2>1, <2>2, <2>4, TypedByParts
  <1>4. CASE PollAbort
    <2>1. aborted' = TRUE /\ UNCHANGED <<graph, run, log, ex, hist>>
      BY <1>4 DEF PollAbort
    <2>2. Phases'
      BY <2>1 DEF Typed, Phases, NodesOf
    <2> QED  BY <1>1, <2>1, <2>2, TypedByParts
  <1>5. CASE Overwrite
    <2>1. /\ graph.command < MaxCommand /\ UNCHANGED <<run, log, ex, aborted, hist>>
          /\ graph' = [graph EXCEPT !.command = @ + 1]
      BY <1>5 DEF Overwrite
    <2>2. /\ graph \in [kind : [NodesOf(graph) -> Kinds], edges : Seq(EdgesOf(graph)),
                        command : Commands]
      BY DEF Typed, Drawn
    <2>3. graph'.kind = graph.kind /\ graph'.edges = graph.edges
          /\ graph'.command = graph.command + 1
      BY <2>1, <2>2
    <2>4. graph'.command \in Commands
      BY <2>1, <2>2, <2>3, CommandsAssumption DEF Commands
    <2>5. NodesOf(graph)' = NodesOf(graph) /\ EdgesOf(graph)' = EdgesOf(graph)
      BY <2>3 DEF NodesOf, EdgesOf
    <2>6. Drawn'
      <3>1. graph' \in [kind : [NodesOf(graph) -> Kinds], edges : Seq(EdgesOf(graph)),
                        command : Commands]
        BY <2>1, <2>2, <2>4, <2>3
      <3>2. \E g \in Graphs : graph'.kind = g.kind /\ graph'.edges = g.edges
        BY <2>3 DEF Typed, Drawn
      <3> QED  BY <2>5, <3>1, <3>2 DEF Drawn
    <2>7. Phases'
      BY <2>1, <2>5 DEF Typed, Phases
    <2>8. TypeOK'
      BY <2>1, <2>4 DEF Typed, TypeOK
    <2> QED  BY <2>6, <2>7, <2>8 DEF Typed
  <1> QED  BY <1>2, <1>3, <1>4, <1>5

\* Every step keeps the types.
LEMMA TypedStep ==
    ASSUME Typed, [Next]_vars
    PROVE  Typed'
  <1>1. /\ run \in Rows /\ hist \in Pasts /\ log \in Seq(Events) /\ ex \in Execs
        /\ aborted \in BOOLEAN
        /\ run.status = "waiting" <=> run.continuation.kind \in {"timer", "control", "exec"}
    BY TypeIs DEF Typed
  <1>2. CASE Begin \/ StopCancelled \/ Succeed \/ TakeNode
    <2>1. ex' \in Execs /\ Phases'
      BY <1>2, TypedLoop
    <2>2. UNCHANGED <<graph, run, log, hist>> /\ aborted' \in BOOLEAN
      BY <1>1, <1>2 DEF Begin, StopCancelled, Succeed, TakeNode
    <2> QED  BY <1>1, <2>1, <2>2, TypedByParts
  <1>3. CASE RunNode
    <2>1. ex' \in Execs /\ hist' \in Pasts /\ Phases'
      BY <1>3, TypedNode
    <2>2. UNCHANGED <<graph, run, log, aborted>>
      BY <1>3 DEF RunNode
    <2> QED  BY <1>1, <2>1, <2>2, TypedByParts
  <1>4. CASE Route
    <2>1. ex' \in Execs /\ hist' \in Pasts /\ Phases'
      BY <1>4, TypedRoute
    <2>2. UNCHANGED <<graph, run, log, aborted>>
      BY <1>4 DEF Route
    <2> QED  BY <1>1, <2>1, <2>2, TypedByParts
  <1>5. CASE UNCHANGED vars
    <2>1. Phases'
      BY <1>5 DEF vars, Typed, Phases, NodesOf
    <2> QED  BY <1>1, <1>5, <2>1, TypedByParts DEF vars
  <1> QED  BY <1>2, <1>3, <1>4, <1>5, TypedFinalize, TypedRest, TypedDecide, TypedResumeWaiting
           DEF Next, Execute

\* Every run begins well typed.
LEMMA TypedInit ==
    ASSUME Init
    PROVE  Typed
  <1>1. PICK g \in Graphs : graph = g
    BY DEF Init
  <1>2. graph \in [kind : [NodesOf(graph) -> Kinds], edges : Seq(EdgesOf(graph)), command : {1}]
    BY <1>1, GraphsAssumption
  <1>3. 1 \in Commands
    BY CommandsAssumption DEF Commands
  <1>4. graph.command \in Commands
    BY <1>2, <1>3
  <1>5. Drawn
    BY <1>1, <1>2, <1>3 DEF Drawn
  <1>6. /\ run = [status |-> "none", trigger |-> [type |-> "manual", fits |-> TRUE],
                  error |-> "none", continuation |-> NoContinuation]
        /\ ex = Idle /\ log = <<>> /\ aborted = FALSE
        /\ hist = [ran |-> <<>>, owed |-> {}, dropped |-> {}, approved |-> {}]
    BY DEF Init
  <1>7. run \in Rows /\ run.status = "none" /\ run.continuation.kind = "null"
    BY <1>6, NothingTyped, NamedTyped DEF Rows, Starts
  <1>8. ex \in Execs /\ ex.pc = "idle" /\ ex.continuation.kind = "null"
    BY <1>6, NothingTyped
  <1>9. hist \in Pasts /\ log \in Seq(Events) /\ aborted \in BOOLEAN
    <2>1. <<>> \in Seq(Runs) /\ <<>> \in Seq(Events)
      OBVIOUS
    <2> QED  BY <1>6, <2>1 DEF Pasts
  <1>10. TypeOK
    BY <1>4, <1>7, <1>8, <1>9, TypeIs
  <1>11. Phases
    BY <1>7, <1>8 DEF Phases, Asking
  <1> QED  BY <1>5, <1>10, <1>11 DEF Typed

-----------------------------------------------------------------------------
(* Approvals.                                                              *)

\* What has run after one more node has.
LEMMA Appended ==
    ASSUME NEW S, NEW s \in Seq(S), NEW e \in S
    PROVE  /\ Append(s, e) \in Seq(S) /\ ToSet(Append(s, e)) = ToSet(s) \cup {e}
           /\ Len(s) \in Nat /\ DOMAIN s = 1..Len(s) /\ DOMAIN Append(s, e) = 1..(Len(s) + 1)
           /\ \A i \in DOMAIN s : Append(s, e)[i] = s[i]
           /\ Append(s, e)[Len(s) + 1] = e
  <1>1. Len(s) \in Nat /\ DOMAIN s = 1..Len(s)
    BY LenProperties
  <1>2. /\ Append(s, e) \in Seq(S) /\ Len(Append(s, e)) = Len(s) + 1
        /\ \A i \in 1..Len(s) : Append(s, e)[i] = s[i]
        /\ Append(s, e)[Len(s) + 1] = e
    BY AppendProperties
  <1>3. DOMAIN Append(s, e) = 1..(Len(s) + 1)
    BY <1>2, LenProperties
  <1>4. \A i \in 1..(Len(s) + 1) : i \in 1..Len(s) \/ i = Len(s) + 1
    BY <1>1
  <1>5. \A i \in 1..Len(s) : i \in 1..(Len(s) + 1)
    BY <1>1
  <1>6. Len(s) + 1 \in 1..(Len(s) + 1)
    BY <1>1
  <1> DEFINE a == Append(s, e)
  <1> HIDE DEF a
  <1>7. ToSet(a) = ToSet(s) \cup {e}
    <2>1. \A i \in DOMAIN a : a[i] \in ToSet(s) \cup {e}
      BY <1>1, <1>2, <1>3, <1>4 DEF a, ToSet
    <2>2. \A i \in DOMAIN s : i \in DOMAIN a /\ a[i] = s[i]
      BY <1>1, <1>2, <1>3, <1>5 DEF a
    <2>3. Len(s) + 1 \in DOMAIN a /\ a[Len(s) + 1] = e
      BY <1>2, <1>3, <1>6 DEF a
    <2>4. ToSet(s) \cup {e} \subseteq ToSet(a)
      BY <2>2, <2>3 DEF ToSet
    <2> QED  BY <2>1, <2>4 DEF ToSet
  <1> QED  BY <1>1, <1>2, <1>3, <1>7 DEF a

\* The step of a node appends it to what has run.
RanAs(how, o) == [node |-> ex.cur.node, how |-> how, effect |-> o.effect,
                  command |-> graph.command]
LEMMA Remembered ==
    ASSUME Typed, RunNode
    PROVE  \E o \in NodeOutcomes(Kind, Granted, aborted),
             how \in {"finished", "asked", "failed", "aborted"}, owed \in SUBSET Names :
             /\ o \in Outcomes /\ RanAs(how, o) \in Runs
             /\ NodeReturns(o) \/ NodeThrows(o)
             /\ how = "asked" <=> o.returns /\ o.until = "exec"
             /\ owed = IF o.returns /\ o.until \in {"none", "timer"}
                       THEN Targets(ex.cur.node, o.ports) ELSE {}
             /\ hist'.ran = Append(hist.ran, RanAs(how, o))
             /\ hist'.owed = hist.owed \cup owed
             /\ hist'.dropped = hist.dropped /\ hist'.approved = hist.approved
  <1>1. PICK o \in NodeOutcomes(Kind, Granted, aborted) : NodeReturns(o) \/ NodeThrows(o)
    BY DEF RunNode
  <1>2. o \in Outcomes
    BY <1>1, OutcomeFacts
  <1>3. /\ o.effect \in BOOLEAN /\ o.until \in {"none", "timer", "control", "exec"}
        /\ o.returns \in BOOLEAN
    BY <1>2 DEF Outcomes
  <1>4. ex.cur.node \in Names /\ graph.command \in Commands
    BY GraphNames, TypeIs DEF Typed, Phases, RunNode
  <1> DEFINE Goes(how, owed) == /\ hist'.ran = Append(hist.ran, RanAs(how, o))
                                /\ hist'.owed = hist.owed \cup owed
                                /\ hist'.dropped = hist.dropped
                                /\ hist'.approved = hist.approved
  <1>5. \A how \in {"finished", "asked", "failed", "aborted"} : RanAs(how, o) \in Runs
    BY <1>3, <1>4 DEF Runs, RanAs
  <1>g. ASSUME NEW how, NEW owed, Remember(how, o.effect, owed)
        PROVE  Goes(how, owed)
    <2>1. hist \in Pasts
      BY TypeIs DEF Typed
    <2>2. hist' = [hist EXCEPT !.ran = Append(@, RanAs(how, o)), !.owed = @ \cup owed]
      BY <1>g DEF Remember, RanAs
    <2> QED  BY <2>1, <2>2 DEF Pasts
  <1>6. CASE NodeReturns(o)
    <2> DEFINE how == IF o.until = "exec" THEN "asked" ELSE "finished"
               owed == IF o.until \in {"control", "exec"} THEN {}
                       ELSE Targets(ex.cur.node, o.ports)
    <2>1. o.returns /\ Goes(how, owed)
      BY <1>6, <1>g DEF NodeReturns
    <2>2. owed \in SUBSET Names
      BY GraphNames DEF Typed
    <2>3. owed = IF o.returns /\ o.until \in {"none", "timer"}
                 THEN Targets(ex.cur.node, o.ports) ELSE {}
      BY <1>3, <2>1
    <2>4. how \in {"finished", "asked", "failed", "aborted"}
          /\ (how = "asked" <=> o.returns /\ o.until = "exec")
      BY <2>1
    <2> HIDE DEF how, owed
    <2> QED  BY <1>1, <1>2, <1>5, <2>1, <2>2, <2>3, <2>4
  <1>7. CASE NodeThrows(o)
    <2>1. ~o.returns /\ \E how \in {"failed", "aborted"} : Goes(how, {})
      BY <1>7, <1>g DEF NodeThrows
    <2>2. PICK how \in {"failed", "aborted"} : Goes(how, {})
      BY <2>1
    <2>3. how # "asked" /\ {} \in SUBSET Names
      OBVIOUS
    <2>4. RanAs(how, o) \in Runs
      BY <1>5
    <2> QED  BY <1>1, <1>2, <2>1, <2>2, <2>3, <2>4
  <1> QED  BY <1>1, <1>6, <1>7

\* More approvals take none away; nothing needs one in an empty continuation.
LEMMA StaySound ==
    ASSUME NEW A, NEW B, A \subseteq B
    PROVE  /\ \A x : Sound(x, A) => Sound(x, B)
           /\ \A q : AllSound(q, A) => AllSound(q, B)
           /\ \A c : Grants(c, A) => Grants(c, B)
  <1>1. \A x : Sound(x, A) => Sound(x, B)
    BY DEF Sound
  <1>2. \A q : AllSound(q, A) => AllSound(q, B)
    BY <1>1 DEF AllSound
  <1> QED  BY <1>1, <1>2 DEF Grants

LEMMA NothingSound ==
    ASSUME NEW A
    PROVE  /\ AllSound(<<>>, A) /\ Grants(NoContinuation, A)
           /\ \A n, p : Sound(Item(n, p, 0), A) /\ AllSound(<<Item(n, p, 0)>>, A)
           /\ AllSound(Idle.queue, A) /\ Sound(Idle.cur, A) /\ Grants(Idle.continuation, A)
  <1>1. AllSound(<<>>, A)
    BY DEF AllSound
  <1>2. \A n, p : Sound(Item(n, p, 0), A)
    BY DEF Sound, Item
  <1>3. Grants(NoContinuation, A)
    BY <1>1 DEF Grants, NoContinuation, Continuation
  <1>4. \A n, p : AllSound(<<Item(n, p, 0)>>, A)
    BY <1>2 DEF AllSound
  <1> QED  BY <1>1, <1>2, <1>3, <1>4 DEF Idle

\* What was sound stays so while nothing runs and nobody decides.
LEMMA GrantingKept ==
    ASSUME Granting, hist.approved \subseteq hist'.approved, hist'.ran = hist.ran,
           graph'.kind = graph.kind,
           ex' = ex \/ (/\ AllSound(ex'.queue, hist'.approved) /\ Sound(ex'.cur, hist'.approved)
                        /\ Grants(ex'.continuation, hist'.approved)),
           run'.continuation = run.continuation \/ Grants(run'.continuation, hist'.approved)
    PROVE  Granting'
  <1>1. /\ AllSound(ex'.queue, hist'.approved) /\ Sound(ex'.cur, hist'.approved)
        /\ Grants(ex'.continuation, hist'.approved)
    BY StaySound DEF Granting
  <1>2. Grants(run'.continuation, hist'.approved)
    BY StaySound DEF Granting
  <1>3. ApprovedBeforeExec'
    BY DEF Granting, ApprovedBeforeExec, HasRun
  <1> QED  BY <1>1, <1>2, <1>3 DEF Granting

\* The loop takes items from a queue whose items are sound.
LEMMA GrantingLoop ==
    ASSUME Typed, Granting, Begin \/ StopCancelled \/ Succeed \/ TakeNode
    PROVE  Granting'
  <1> DEFINE A == hist.approved
             Fine(x) == AllSound(x.queue, A) /\ Sound(x.cur, A) /\ Grants(x.continuation, A)
  <1>1. UNCHANGED <<graph, run, hist>>
    BY DEF Begin, StopCancelled, Succeed, TakeNode, Stop
  <1>2. ex \in Execs /\ run \in Rows /\ ex.queue \in Seq(Items)
    BY TypeIs DEF Typed, Execs, Queues
  <1>3. Fine(ex) /\ Grants(run.continuation, A)
    BY DEF Granting
  <1>4. Fine(ex')
    <2>1. CASE Begin
      <3> DEFINE entry == Entry(graph, run.trigger)
                 next  == run.continuation
                 a == [Idle EXCEPT !.pc = "loop", !.queue = next.queue, !.visited = next.visited]
                 b == [Idle EXCEPT !.pc = "loop", !.queue = <<Item(entry, {entry}, 0)>>]
                 c == [Idle EXCEPT !.pc = "done", !.status = "failed", !.error = "entry"]
      <3>1. ex' \in {a, b, c}
        BY <2>1 DEF Begin
      <3>2. a.queue = next.queue /\ a.cur = Idle.cur /\ a.continuation = Idle.continuation
        BY NothingTyped DEF Execs
      <3>3. b.queue = <<Item(entry, {entry}, 0)>> /\ b.cur = Idle.cur
            /\ b.continuation = Idle.continuation
        BY NothingTyped DEF Execs
      <3>4. c.queue = Idle.queue /\ c.cur = Idle.cur /\ c.continuation = Idle.continuation
        BY NothingTyped DEF Execs
      <3>5. AllSound(next.queue, A)
        BY <1>3 DEF Grants
      <3> HIDE DEF a, b, c
      <3>6. Fine(a) /\ Fine(b) /\ Fine(c)
        BY <3>2, <3>3, <3>4, <3>5, NothingSound
      <3> HIDE DEF Fine
      <3> QED  BY <3>1, <3>6
    <2>2. ASSUME NEW status, NEW error, Stop(status, error)
          PROVE  Fine(ex')
      <3>1. ex'.queue = ex.queue /\ ex'.cur = ex.cur /\ ex'.continuation = ex.continuation
        BY <1>2, <2>2 DEF Stop, Execs
      <3> QED  BY <1>3, <3>1
    <2>3. CASE TakeNode
      <3> DEFINE item == Head(ex.queue)
      <3>1. CASE item.node \in NodesOf(graph)
        <4>1. ex'.queue = Tail(ex.queue) /\ ex'.cur = item /\ ex'.continuation = ex.continuation
          BY <1>2, <2>3, <3>1 DEF TakeNode, Execs
        <4>2. /\ 1 \in DOMAIN ex.queue /\ item = ex.queue[1]
              /\ \A i \in DOMAIN Tail(ex.queue) :
                    i + 1 \in DOMAIN ex.queue /\ Tail(ex.queue)[i] = ex.queue[i + 1]
          BY <1>2, <2>3, Taken DEF TakeNode
        <4>3. Sound(item, A) /\ AllSound(Tail(ex.queue), A)
          BY <1>3, <4>2 DEF AllSound
        <4> QED  BY <1>3, <4>1, <4>3
      <3>2. CASE item.node \notin NodesOf(graph)
        BY <2>2, <2>3, <3>2 DEF TakeNode
      <3> QED  BY <3>1, <3>2
    <2> QED  BY <2>1, <2>2, <2>3 DEF StopCancelled, Succeed
  <1> QED  BY <1>1, <1>4, GrantingKept

\* A command runs only with the approval its item carries.
LEMMA GrantingNode ==
    ASSUME Typed, Granting, RunNode
    PROVE  Granting'
  <1> DEFINE A == hist.approved
  <1>1. PICK o \in NodeOutcomes(Kind, Granted, aborted),
             how \in {"finished", "asked", "failed", "aborted"} :
             /\ RanAs(how, o) \in Runs
             /\ NodeReturns(o) \/ NodeThrows(o)
             /\ hist'.ran = Append(hist.ran, RanAs(how, o)) /\ hist'.approved = A
    BY Remembered
  <1> DEFINE r == RanAs(how, o)
  <1>2. /\ ex \in Execs /\ hist \in Pasts /\ UNCHANGED <<graph, run, log, aborted>>
        /\ hist.ran \in Seq(Runs)
    BY TypeIs DEF Typed, RunNode, Pasts
  <1>3. r.node = ex.cur.node /\ r.effect = o.effect /\ r.command = graph.command
    BY DEF RanAs
  <1> HIDE DEF r
  <1>4. r \in Runs /\ hist'.ran = Append(hist.ran, r) /\ hist'.approved = A
    BY <1>1 DEF r
  <1>5. ex'.queue = ex.queue /\ ex'.cur = ex.cur /\ ex'.continuation = ex.continuation
    BY <1>1, <1>2 DEF NodeReturns, NodeThrows, Execs
  <1>6. graph.kind[r.node] = "tool.exec" /\ r.effect =>
           [node |-> r.node, command |-> r.command] \in A
    <2> SUFFICES ASSUME Kind = "tool.exec", o.effect
                 PROVE  [node |-> r.node, command |-> r.command] \in A
      BY <1>3 DEF Kind
    <2>1. ex.cur.grant = graph.command
      BY <1>1, OutcomeFacts DEF Granted
    <2>2. graph.command # 0
      BY TypeIs, CommandsAssumption DEF Typed, Commands
    <2>3. Sound(ex.cur, A)
      BY DEF Granting
    <2> QED  BY <1>3, <2>1, <2>2, <2>3 DEF Sound
  <1>7. ToSet(hist'.ran) = ToSet(hist.ran) \cup {r}
    BY <1>2, <1>4, Appended
  <1>8. ApprovedBeforeExec'
    <2> SUFFICES ASSUME NEW s \in HasRun', graph.kind[s.node] = "tool.exec", s.effect
                 PROVE  [node |-> s.node, command |-> s.command] \in A
      BY <1>2, <1>4 DEF ApprovedBeforeExec
    <2>1. s \in HasRun \/ s = r
      BY <1>7 DEF HasRun
    <2>2. CASE s \in HasRun
      BY <2>2 DEF Granting, ApprovedBeforeExec
    <2> QED  BY <1>6, <2>1, <2>2
  <1> QED  BY <1>2, <1>4, <1>5, <1>8 DEF Granting

\* What joins the queue, and what a continuation holds, is sound.
LEMMA GrantingRoute ==
    ASSUME Typed, Granting, Route
    PROVE  Granting'
  <1> DEFINE A == hist.approved
             n == ex.cur.node
             items == QueuedItems(ex.cur, ex.outcome.ports)
             Fine(x) == AllSound(x.queue, A) /\ Sound(x.cur, A) /\ Grants(x.continuation, A)
  <1>1. ex \in Execs /\ hist \in Pasts /\ ex.queue \in Seq(Items) /\ ex.cur \in Items
        /\ UNCHANGED <<graph, run>>
    <2>1. ex \in Execs /\ hist \in Pasts
      BY TypeIs DEF Typed
    <2>2. ex.cur \in Items
      BY CurrentNode DEF Route
    <2> QED  BY <2>1, <2>2 DEF Execs, Queues, Route
  <1>2. Fine(ex)
    BY DEF Granting
  <1>3. \A ports : AllSound(QueuedItems(ex.cur, ports), A)
        /\ QueuedItems(ex.cur, ports) \in Seq(Items)
    BY <1>1, Queued DEF Typed, AllSound, Sound
  <1>4. AllSound(ex.queue \o items, A)
    <2> DEFINE q == ex.queue
    <2>1. items \in Seq(Items) /\ AllSound(items, A)
      BY <1>3
    <2> HIDE DEF items
    <2>2. \A i \in DOMAIN (q \o items) :
                 \/ i \in DOMAIN q /\ (q \o items)[i] = q[i]
                 \/ i - Len(q) \in DOMAIN items /\ (q \o items)[i] = items[i - Len(q)]
      BY <1>1, <2>1, Joined
    <2>3. \A i \in DOMAIN (q \o items) : Sound((q \o items)[i], A)
      BY <1>2, <2>1, <2>2 DEF AllSound
    <2> QED  BY <2>3 DEF AllSound
  <1> HIDE DEF items
  <1>5. hist'.approved = A /\ hist'.ran = hist.ran
    BY <1>1 DEF Route, GoOn, WaitForTimer, WaitForDecision, Pasts
  <1>6. Fine(ex')
    <2>1. CASE Stop("failed", "cycle")
      <3>1. ex'.queue = ex.queue /\ ex'.cur = ex.cur /\ ex'.continuation = ex.continuation
        BY <1>1, <2>1 DEF Stop, Execs
      <3> QED  BY <1>2, <3>1
    <2>2. CASE GoOn(items)
      <3>1. /\ ex'.queue = ex.queue \o items /\ ex'.cur = ex.cur
            /\ ex'.continuation = ex.continuation
        BY <1>1, <2>2 DEF GoOn, Execs
      <3> QED  BY <1>2, <1>4, <3>1
    <2>3. CASE WaitForTimer(items)
      <3> DEFINE c == Continuation("timer", ex.queue \o items, ex.visited, n, <<>>, <<>>)
      <3>1. ex'.queue = ex.queue /\ ex'.cur = ex.cur /\ ex'.continuation = c
        BY <1>1, <2>3 DEF WaitForTimer, Execs
      <3>2. c.kind = "timer" /\ c.queue = ex.queue \o items /\ c.yes = <<>> /\ c.no = <<>>
        BY DEF Continuation
      <3> HIDE DEF c
      <3>3. Grants(c, A)
        BY <1>4, <3>2, NothingSound DEF Grants
      <3> QED  BY <1>2, <3>1, <3>3
    <2>4. CASE WaitForDecision
      <3> DEFINE asks == ex.outcome.until = "exec"
                 yes  == IF asks THEN <<Item(n, ex.cur.path, graph.command)>>
                               ELSE QueuedItems(ex.cur, {"approved"})
                 no   == IF asks THEN <<>> ELSE QueuedItems(ex.cur, {"rejected"})
                 c == Continuation(ex.outcome.until, <<>>, VisitedBefore(asks), n, yes, no)
      <3>1. ex'.queue = ex.queue /\ ex'.cur = ex.cur /\ ex'.continuation = c
        BY <1>1, <2>4 DEF WaitForDecision, Execs
      <3>2. AllSound(no, A) /\ (~asks => AllSound(yes, A))
        BY <1>3, NothingSound
      <3>3. asks => DOMAIN yes = {1} /\ yes[1].node = n
        BY DEF Item
      <3> HIDE DEF yes, no
      <3>4. /\ c.kind = ex.outcome.until /\ c.queue = <<>> /\ c.yes = yes /\ c.no = no
            /\ c.node = n
        BY DEF Continuation
      <3> HIDE DEF c
      <3>5. Grants(c, A)
        BY <3>2, <3>3, <3>4, NothingSound DEF Grants
      <3> QED  BY <1>2, <3>1, <3>5
    <2> QED  BY <2>1, <2>2, <2>3, <2>4 DEF Route, items
  <1> QED  BY <1>1, <1>5, <1>6, GrantingKept

LEMMA GrantingRest ==
    ASSUME Typed, Granting,
           Finalize \/ Cancel \/ PollAbort \/ Overwrite \/ UNCHANGED vars
           \/ \E trigger \in Launches : Launch(trigger)
    PROVE  Granting'
  <1> DEFINE A == hist.approved
  <1>1. run \in Rows /\ graph.command \in Commands
    BY TypeIs DEF Typed
  <1>2. CASE Finalize
    <2>1. ex' = Idle /\ UNCHANGED <<graph, hist>>
      BY <1>2 DEF Finalize
    <2>2. run'.continuation \in {run.continuation, ex.continuation}
      BY <1>1, <1>2 DEF Finalize, Rows
    <2>3. Grants(ex.continuation, A)
      BY DEF Granting
    <2> QED  BY <2>1, <2>2, <2>3, NothingSound, GrantingKept
  <1>3. CASE Cancel
    <2>1. run'.continuation = NoContinuation /\ UNCHANGED <<graph, ex, hist>>
      BY <1>1, <1>3 DEF Cancel, Rows
    <2> QED  BY <2>1, NothingSound, GrantingKept
  <1>4. CASE PollAbort \/ UNCHANGED vars
    <2>1. UNCHANGED <<graph, run, ex, hist>>
      BY <1>4 DEF PollAbort, vars
    <2> QED  BY <2>1, GrantingKept
  <1>5. CASE Overwrite
    <2>1. graph'.kind = graph.kind /\ UNCHANGED <<run, ex, hist>>
      BY <1>5 DEF Overwrite, Typed, Drawn
    <2> QED  BY <2>1, GrantingKept
  <1>6. ASSUME NEW trigger \in Launches, Launch(trigger)
        PROVE  Granting'
    <2>1. run'.continuation = run.continuation /\ UNCHANGED <<graph, ex, hist>>
      BY <1>1, <1>6 DEF Launch, Rows
    <2> QED  BY <2>1, GrantingKept
  <1> QED  BY <1>2, <1>3, <1>4, <1>5, <1>6

\* A run goes on with items that were sound before; an approved command is
\* sound by the approval itself.
LEMMA GrantingResume ==
    ASSUME Typed, Granting, hist.approved \subseteq hist'.approved, hist'.ran = hist.ran,
           UNCHANGED <<graph, ex>>, NEW q, Resume(q), AllSound(q, hist'.approved)
    PROVE  Granting'
  <1>1. run \in Rows
    BY TypeIs DEF Typed
  <1>2. run'.continuation = Ready(q, run.continuation)
    BY <1>1 DEF Resume, Rows
  <1>3. Grants(Ready(q, run.continuation), hist'.approved)
    BY NothingSound DEF Ready, Continuation, Grants
  <1> QED  BY <1>2, <1>3, GrantingKept

LEMMA GrantingRefuse ==
    ASSUME Typed, Granting, hist'.approved = hist.approved, hist'.ran = hist.ran,
           UNCHANGED <<graph, ex>>, Refuse
    PROVE  Granting'
  <1>1. run \in Rows
    BY TypeIs DEF Typed
  <1>2. CASE run.continuation.kind = "exec"
    <2>1. run'.continuation = NoContinuation
      BY <1>1, <1>2 DEF Refuse, Rows
    <2> QED  BY <2>1, NothingSound, GrantingKept
  <1>3. CASE run.continuation.kind # "exec"
    <2>1. AllSound(run.continuation.no, hist.approved) /\ Resume(run.continuation.no)
      BY <1>3 DEF Refuse, Granting, Grants
    <2> QED  BY <2>1, GrantingResume
  <1> QED  BY <1>2, <1>3

LEMMA GrantingDecide ==
    ASSUME Typed, Granting, NEW d \in {"approved", "rejected"}, Decide(d)
    PROVE  Granting'
  <1> DEFINE c == run.continuation
             g == [node |-> c.node, command |-> c.yes[1].grant]
  <1>1. /\ hist \in Pasts /\ UNCHANGED <<graph, ex>> /\ Grants(c, hist.approved)
        /\ c.kind \in {"control", "exec"}
    BY TypeIs DEF Typed, Granting, Decide
  <1>2. /\ hist'.ran = hist.ran /\ hist.approved \subseteq hist'.approved
        /\ d = "approved" /\ c.kind = "exec" => g \in hist'.approved
        /\ d # "approved" => hist'.approved = hist.approved
    BY <1>1 DEF Decide, Pasts
  <1>3. CASE d = "approved"
    <2>1. Resume(c.yes)
      BY <1>3 DEF Decide
    <2>2. CASE c.kind = "exec"
      <3>1. DOMAIN c.yes = {1} /\ c.yes[1].node = c.node
        BY <1>1, <2>2 DEF Grants
      <3>2. AllSound(c.yes, hist'.approved)
        BY <1>2, <1>3, <2>2, <3>1 DEF AllSound, Sound
      <3> QED  BY <1>1, <1>2, <2>1, <3>2, GrantingResume
    <2>3. CASE c.kind # "exec"
      <3>1. AllSound(c.yes, hist'.approved)
        BY <1>1, <1>2, <2>3, StaySound DEF Grants
      <3> QED  BY <1>1, <1>2, <2>1, <3>1, GrantingResume
    <2> QED  BY <2>2, <2>3
  <1>4. CASE d # "approved"
    BY <1>1, <1>2, <1>4, GrantingRefuse DEF Decide
  <1> QED  BY <1>3, <1>4

LEMMA GrantingResumeWaiting ==
    ASSUME Typed, Granting, ResumeWaiting
    PROVE  Granting'
  <1>1. /\ hist \in Pasts /\ UNCHANGED <<graph, ex>> /\ Grants(run.continuation, hist.approved)
    BY TypeIs DEF Typed, Granting, ResumeWaiting
  <1>2. hist'.ran = hist.ran /\ hist.approved = hist'.approved
    BY <1>1 DEF ResumeWaiting, Pasts
  <1>3. CASE run.continuation.kind = "timer"
    <2>1. Resume(run.continuation.queue) /\ AllSound(run.continuation.queue, hist.approved)
      BY <1>1, <1>3 DEF ResumeWaiting, Grants
    <2> QED  BY <1>1, <1>2, <2>1, GrantingResume
  <1>4. CASE run.continuation.kind # "timer"
    BY <1>1, <1>2, <1>4, GrantingRefuse DEF ResumeWaiting
  <1> QED  BY <1>3, <1>4

\* Every step keeps the grants sound.
LEMMA GrantingStep ==
    ASSUME Typed, Granting, [Next]_vars
    PROVE  Granting'
  BY GrantingLoop, GrantingNode, GrantingRoute, GrantingRest, GrantingDecide,
     GrantingResumeWaiting DEF Next, Execute

\* A command that needs an approval runs only if this very command has been
\* approved for this node, whatever became of the flow in between
\* (executeDefaultExecNode): for every set of graphs and number of commands.
THEOREM Approving == Spec => [](TypeOK /\ ApprovedBeforeExec)
  <1> DEFINE J == Typed /\ Granting
  <1>1. Init => J
    <2> SUFFICES ASSUME Init
                 PROVE  Granting
      BY TypedInit
    <2>1. ex = Idle /\ run.continuation = NoContinuation /\ hist.ran = <<>>
      BY DEF Init
    <2>2. ApprovedBeforeExec
      BY <2>1 DEF ApprovedBeforeExec, HasRun, ToSet
    <2> QED  BY <2>1, <2>2, NothingSound DEF Granting
  <1>2. J /\ [Next]_vars => J'
    BY TypedStep, GrantingStep
  <1>3. J => TypeOK /\ ApprovedBeforeExec
    BY DEF Typed, Granting
  <1> HIDE DEF J
  <1> QED  BY <1>1, <1>2, <1>3, PTL DEF Spec

-----------------------------------------------------------------------------
(* Order.                                                                  *)

\* The targets of a node, read off the state or off the way.
LEMMA LedIs ==
    /\ \A n, ports : Led(Now, n, ports) = Targets(n, ports)
    /\ Now.nodes = NodesOf(graph) /\ Now.edges = graph.edges /\ Now.start = Start
    /\ Now.ran = Ran /\ Now.owed = hist.owed /\ Now.dropped = hist.dropped
  BY DEF Now, Led, Targets, Behind

\* A graph with another command is the same graph.
LEMMA SameGraph ==
    ASSUME NEW g, NEW h, g.kind = h.kind, g.edges = h.edges
    PROVE  /\ NodesOf(g) = NodesOf(h) /\ EdgesOf(g) = EdgesOf(h)
           /\ Valid(g) <=> Valid(h)
           /\ \A trigger : Entry(g, trigger) = Entry(h, trigger)
  <1>1. NodesOf(g) = NodesOf(h) /\ EdgesOf(g) = EdgesOf(h) /\ TriggerNodes(g) = TriggerNodes(h)
    BY DEF NodesOf, EdgesOf, TriggerNodes
  <1>2. \A n : Incoming(g, n) = Incoming(h, n)
    BY DEF Incoming
  <1>3. Acyclic(g) = Acyclic(h)
    BY <1>1 DEF Acyclic
  <1>4. \A trigger : Fitting(g, trigger) = Fitting(h, trigger)
    BY <1>1 DEF Fitting
  <1>5. \A trigger : Entry(g, trigger) = Entry(h, trigger)
    <2> TAKE trigger
    <2>1. Fitting(g, trigger) = Fitting(h, trigger)
      BY <1>4
    <2> QED  BY <2>1 DEF Entry
  <1>6. Valid(g) <=> Valid(h)
    BY <1>1, <1>2, <1>3, Zenon DEF Valid
  <1> QED  BY <1>1, <1>5, <1>6

\* The edges of a valid graph lead from node to node.
LEMMA EdgesHold ==
    ASSUME Drawn, Valid(graph), NEW i \in DOMAIN graph.edges
    PROVE  /\ graph.edges[i] \in EdgesOf(graph)
           /\ graph.edges[i].source \in NodesOf(graph)
           /\ graph.edges[i].target \in NodesOf(graph)
  BY DEF EdgesOf, ToSet, Valid

\* What has not run yet leads to nothing that has run or been chosen: every
\* node has one edge into it at most, and there is no way back.
LEMMA TargetsNew ==
    ASSUME Drawn, Valid(graph), Chosen(Now), NEW item, OnPath(Now, item),
           item.node \notin Ran, NEW ports
    PROVE  /\ Targets(item.node, ports) \cap
                 (hist.owed \cup {Start} \cup {item.node} \cup item.path \cup Ran) = {}
           /\ Targets(item.node, ports) \subseteq NodesOf(graph)
  <1> SUFFICES ASSUME NEW t \in Targets(item.node, ports)
               PROVE  /\ t \notin hist.owed /\ t # Start /\ t # item.node
                      /\ t \notin item.path /\ t \notin Ran /\ t \in NodesOf(graph)
    OBVIOUS
  <1>1. PICK i \in DOMAIN graph.edges : /\ graph.edges[i].source = item.node
                                        /\ graph.edges[i].target = t
    BY DEF Targets, Behind
  <1> DEFINE e == graph.edges[i]
  <1>2. e \in EdgesOf(graph) /\ e.target = t /\ e.source = item.node /\ t \in NodesOf(graph)
    BY <1>1, EdgesHold
  <1>3. t \notin hist.owed
    <2> SUFFICES ASSUME t \in hist.owed
                 PROVE  FALSE
      OBVIOUS
    <2>1. PICK j \in DOMAIN graph.edges : /\ graph.edges[j].target = t
                                          /\ graph.edges[j].source \in Ran
      BY LedIs DEF Chosen
    <2>2. i = j
      BY <1>1, <2>1, OneIncoming
    <2> QED  BY <1>1, <2>1, <2>2
  <1>4. /\ item.node \in item.path /\ Start \in item.path /\ item.path \subseteq NodesOf(graph)
        /\ item.path \ {item.node} \subseteq Ran /\ Ran \subseteq hist.owed \cup {Start}
        /\ \A n \in item.path \ {Start} :
              \E j \in DOMAIN graph.edges : /\ graph.edges[j].target = n
                                            /\ graph.edges[j].source \in item.path
    BY LedIs DEF OnPath, Chosen
  <1>5. Acyclic(graph)
    BY DEF Valid
  <1>6. t # Start
    <2> SUFFICES ASSUME t = Start
                 PROVE  FALSE
      OBVIOUS
    <2>1. PICK n \in item.path : \A f \in EdgesOf(graph) : f.target = n => f.source \notin item.path
      BY <1>4, <1>5 DEF Acyclic
    <2>2. CASE n = Start
      BY <1>2, <1>4, <2>1, <2>2
    <2>3. CASE n # Start
      <3>1. PICK j \in DOMAIN graph.edges : /\ graph.edges[j].target = n
                                            /\ graph.edges[j].source \in item.path
        BY <1>4, <2>3
      <3> QED  BY <2>1, <3>1, EdgesHold
    <2> QED  BY <2>2, <2>3
  <1>7. t # item.node
    <2>1. {item.node} \in SUBSET NodesOf(graph) /\ {item.node} # {}
      BY <1>4
    <2>2. PICK n \in {item.node} :
             \A f \in EdgesOf(graph) : f.target = n => f.source \notin {item.node}
      BY <1>5, <2>1 DEF Acyclic
    <2> QED  BY <1>2, <2>2
  <1> QED  BY <1>2, <1>3, <1>4, <1>6, <1>7

\* What stays of a queue when more has run.
LEMMA MoreRan ==
    ASSUME NEW w, NEW v, v.nodes = w.nodes, v.edges = w.edges, v.start = w.start,
           w.ran \subseteq v.ran
    PROVE  /\ \A x : OnPath(w, x) => OnPath(v, x)
           /\ \A q : Fresh(w, q) /\ NodesIn(q) \cap v.ran = {} => Fresh(v, q)
  <1>1. ASSUME NEW x, OnPath(w, x)
        PROVE  OnPath(v, x)
    BY <1>1 DEF OnPath
  <1>2. ASSUME NEW q, Fresh(w, q), NodesIn(q) \cap v.ran = {}
        PROVE  Fresh(v, q)
    <2>1. \A i \in DOMAIN q : q[i].node \in NodesIn(q)
      BY DEF NodesIn
    <2>2. \A i \in DOMAIN q : OnPath(v, q[i]) /\ q[i].node \notin v.ran
      BY <1>1, <1>2, <2>1 DEF Fresh
    <2> QED  BY <1>2, <2>2 DEF Fresh
  <1> QED  BY <1>1, <1>2

\* The first item of a queue, and the others.
LEMMA FreshTaken ==
    ASSUME NEW w, NEW q \in Seq(Items), q # <<>>, Fresh(w, q)
    PROVE  /\ OnPath(w, Head(q)) /\ Head(q).node \notin w.ran /\ Fresh(w, Tail(q))
           /\ Head(q).node \notin NodesIn(Tail(q))
           /\ NodesIn(q) = NodesIn(Tail(q)) \cup {Head(q).node}
  <1>1. /\ 1 \in DOMAIN q /\ Head(q) = q[1]
        /\ \A i \in DOMAIN Tail(q) : i + 1 \in DOMAIN q /\ i + 1 # 1 /\ Tail(q)[i] = q[i + 1]
        /\ \A i, j \in DOMAIN Tail(q) : i + 1 = j + 1 => i = j
        /\ NodesIn(q) = NodesIn(Tail(q)) \cup {Head(q).node}
    BY Taken
  <1> DEFINE t == Tail(q)
  <1> HIDE DEF t
  <1>2. OnPath(w, Head(q)) /\ Head(q).node \notin w.ran
    BY <1>1 DEF Fresh
  <1>3. \A i \in DOMAIN t : OnPath(w, t[i]) /\ t[i].node \notin w.ran /\ t[i].node # Head(q).node
    BY <1>1 DEF Fresh, t
  <1>4. \A i, j \in DOMAIN t : t[i].node = t[j].node => i = j
    BY <1>1 DEF Fresh, t
  <1>5. Fresh(w, t) /\ Head(q).node \notin NodesIn(t)
    BY <1>3, <1>4 DEF Fresh, NodesIn
  <1> QED  BY <1>1, <1>2, <1>5 DEF t

\* A queue with others behind it.
LEMMA FreshJoined ==
    ASSUME NEW w, NEW q \in Seq(Items), NEW r \in Seq(Items), Fresh(w, q), Fresh(w, r),
           NodesIn(q) \cap NodesIn(r) = {}
    PROVE  Fresh(w, q \o r) /\ NodesIn(q \o r) = NodesIn(q) \cup NodesIn(r)
  <1> DEFINE s == q \o r
  <1>1. /\ NodesIn(s) = NodesIn(q) \cup NodesIn(r)
        /\ \A i \in DOMAIN s : \/ i \in DOMAIN q /\ s[i] = q[i]
                               \/ i - Len(q) \in DOMAIN r /\ s[i] = r[i - Len(q)]
        /\ \A i, j \in DOMAIN s : i - Len(q) = j - Len(q) => i = j
    BY Joined
  <1> HIDE DEF s
  <1>2. /\ \A i \in DOMAIN q : q[i].node \in NodesIn(q)
        /\ \A i \in DOMAIN r : r[i].node \in NodesIn(r)
    BY DEF NodesIn
  <1>3. \A i \in DOMAIN s : OnPath(w, s[i]) /\ s[i].node \notin w.ran
    BY <1>1 DEF Fresh
  <1>4. ASSUME NEW i \in DOMAIN s, NEW j \in DOMAIN s, s[i].node = s[j].node
        PROVE  i = j
    <2>1. CASE i \in DOMAIN q /\ s[i] = q[i]
      <3>1. s[j].node \notin NodesIn(r)
        BY <1>2, <1>4, <2>1
      <3>2. j \in DOMAIN q /\ s[j] = q[j]
        BY <1>1, <1>2, <3>1
      <3> QED  BY <1>4, <2>1, <3>2 DEF Fresh
    <2>2. CASE i - Len(q) \in DOMAIN r /\ s[i] = r[i - Len(q)]
      <3>1. s[j].node \notin NodesIn(q)
        BY <1>2, <1>4, <2>2
      <3>2. j - Len(q) \in DOMAIN r /\ s[j] = r[j - Len(q)]
        BY <1>1, <1>2, <3>1
      <3>3. i - Len(q) = j - Len(q)
        BY <1>4, <2>2, <3>2 DEF Fresh
      <3> QED  BY <1>1, <3>3
    <2> QED  BY <1>1, <2>1, <2>2
  <1>5. Fresh(w, s)
    BY <1>3, <1>4 DEF Fresh
  <1> QED  BY <1>1, <1>5 DEF s

\* The items behind a node that has run, if none of them has.
LEMMA FreshQueued ==
    ASSUME Drawn, Valid(graph), NEW item \in Items, OnPath(Now, item), item.node \in Ran,
           NEW ports, Targets(item.node, ports) \cap Ran = {}
    PROVE  /\ Fresh(Now, QueuedItems(item, ports))
           /\ NodesIn(QueuedItems(item, ports)) = Targets(item.node, ports)
           /\ QueuedItems(item, ports) \in Seq(Items)
  <1> DEFINE q == QueuedItems(item, ports)
  <1>1. /\ q \in Seq(Items) /\ NodesIn(q) = Targets(item.node, ports)
        /\ \A k \in DOMAIN q : \E e \in EdgesOf(graph) :
                                  /\ e.source = item.node /\ e.target = q[k].node
                                  /\ q[k].path = item.path \cup {e.target}
        /\ \A i, j \in DOMAIN q : q[i].node = q[j].node => i = j
    BY Queued
  <1> HIDE DEF q
  <1>2. /\ item.node \in item.path /\ Start \in item.path /\ item.path \subseteq NodesOf(graph)
        /\ item.path \ {item.node} \subseteq Ran
        /\ \A n \in item.path \ {Start} :
              \E j \in DOMAIN graph.edges : /\ graph.edges[j].target = n
                                            /\ graph.edges[j].source \in item.path
    BY LedIs DEF OnPath
  <1>3. ASSUME NEW k \in DOMAIN q
        PROVE  OnPath(Now, q[k]) /\ q[k].node \notin Ran
    <2>1. PICK e \in EdgesOf(graph) : /\ e.source = item.node /\ e.target = q[k].node
                                      /\ q[k].path = item.path \cup {e.target}
      BY <1>1
    <2>2. PICK i \in DOMAIN graph.edges : graph.edges[i] = e
      BY DEF EdgesOf, ToSet
    <2>3. q[k].node \in NodesOf(graph)
      BY <2>1, <2>2, EdgesHold
    <2>4. q[k].node \in NodesIn(q)
      BY DEF NodesIn
    <2>5. q[k].node \notin Ran
      BY <1>1, <2>4
    <2>6. \A n \in q[k].path \ {Start} :
             \E j \in DOMAIN graph.edges : /\ graph.edges[j].target = n
                                           /\ graph.edges[j].source \in q[k].path
      BY <1>2, <2>1, <2>2
    <2>7. /\ q[k].node \in q[k].path /\ Start \in q[k].path /\ q[k].path \subseteq NodesOf(graph)
          /\ q[k].path \ {q[k].node} \subseteq Ran
      BY <1>2, <2>1, <2>3
    <2>8. OnPath(Now, q[k])
      BY <2>6, <2>7, LedIs DEF OnPath
    <2> QED  BY <2>5, <2>8
  <1>4. Fresh(Now, q)
    BY <1>1, <1>3, LedIs DEF Fresh
  <1> QED  BY <1>1, <1>4 DEF q

\* A step on which nothing runs, is chosen or dropped: what is left to show is
\* what the execution and the row come to.
LEMMA OrderKept ==
    ASSUME Typed, Order, Now' = Now, hist'.ran = hist.ran,
           graph'.kind = graph.kind, graph'.edges = graph.edges,
           run'.status = "none" => run.status = "none",
           run.status = "none" => run'.status = "none",
           run'.error \in {"none", "node", "rejected"},
           ex'.pc = "idle" /\ run'.status \in {"none", "running", "waiting"} =>
               Stored(Now, run'.continuation),
           run'.status = "succeeded" => Rest(Now, {}),
           Underway(Now, ex')
    PROVE  Order'
  <1>1. Valid(graph)' <=> Valid(graph)
    BY SameGraph
  <1>2. Start' = Start /\ Ran' = Ran /\ hist'.owed = hist.owed
    BY DEF Now
  <1>3. RunsOnce'
    BY DEF Order, RunsOnce
  <1>4. OnlyNodesFail'
    BY DEF OnlyNodesFail
  <1>5. Chosen(Now) /\ (run.status # "none" => Valid(graph) /\ Start # None)
        /\ (run.status = "none" => Ran = {} /\ hist.owed = {})
    BY DEF Order
  <1> QED  BY <1>1, <1>2, <1>3, <1>4, <1>5 DEF Order

\* The way stays while graph, trigger and history do.
LEMMA SameWay ==
    ASSUME graph'.kind = graph.kind, graph'.edges = graph.edges, hist' = hist,
           run'.trigger = run.trigger
    PROVE  Now' = Now
  <1>1. Start' = Start /\ NodesOf(graph)' = NodesOf(graph)
    BY SameGraph DEF Start
  <1>2. Ran' = Ran
    BY DEF Ran, HasRun
  <1> QED  BY <1>1, <1>2 DEF Now

\* An execution that stops, does so without an error of the executor.
LEMMA Stopped ==
    ASSUME Typed, NEW w, Underway(w, ex), NEW status, NEW error \in {"none", "node"},
           Stop(status, error), status # "waiting", status = "succeeded" => Rest(w, {})
    PROVE  Underway(w, ex') /\ ex'.pc = "done"
  <1>1. ex \in Execs
    BY TypeIs DEF Typed
  <1>2. ex'.pc = "done" /\ ex'.status = status /\ ex'.error = error
    BY <1>1 DEF Stop, Execs
  <1> QED  BY <1>2 DEF Underway

LEMMA OrderLoop ==
    ASSUME Typed, Order, Begin \/ StopCancelled \/ Succeed \/ TakeNode
    PROVE  Order'
  <1> DEFINE w == Now
  <1>1. UNCHANGED <<graph, run, hist>>
    BY DEF Begin, StopCancelled, Succeed, TakeNode, Stop
  <1>2. ex \in Execs /\ run \in Rows /\ ex.queue \in Seq(Items) /\ Now' = Now
        /\ hist.ran \in Seq(Runs)
    BY <1>1, SameWay, TypeIs DEF Typed, Execs, Queues, Pasts
  <1>3. Underway(w, ex) /\ OnlyNodesFail /\ Chosen(w)
    BY DEF Order
  <1>4. Underway(w, ex') /\ ex'.pc # "idle"
    <2>1. CASE Begin
      <3> DEFINE next  == run.continuation
                 item == Item(Start, {Start}, 0)
                 a == [Idle EXCEPT !.pc = "loop", !.queue = next.queue, !.visited = next.visited]
                 b == [Idle EXCEPT !.pc = "loop", !.queue = <<item>>]
      <3>1. ex.pc = "idle" /\ run.status = "running"
        BY <2>1 DEF Begin
      <3>2. Stored(w, next) /\ Valid(graph) /\ Start # None /\ next.kind \in {"null", "ready"}
        BY <3>1 DEF Order, Typed, Phases
      <3>3. IF next.kind # "null" THEN ex' = a ELSE ex' = b
        BY <2>1, <3>2 DEF Begin, Start
      <3>4. Idle.error = "none" /\ Idle.visited = {}
        BY DEF Idle
      <3>5. CASE next.kind = "ready"
        <4>1. ex' = a
          BY <3>3, <3>5
        <4>2. /\ a.pc = "loop" /\ a.queue = next.queue /\ a.visited = next.visited
              /\ a.error = "none"
          BY <3>4, NothingTyped DEF Execs
        <4> HIDE DEF a
        <4> QED  BY <3>2, <3>5, <4>1, <4>2 DEF Underway, AtLoop, Stored
      <3>6. CASE next.kind = "null"
        <4>1. ex' = b
          BY <3>3, <3>6
        <4>2. b.pc = "loop" /\ b.queue = <<item>> /\ b.visited = {} /\ b.error = "none"
          BY <3>4, NothingTyped DEF Execs
        <4> HIDE DEF b
        <4>3. w.ran = {} /\ w.owed = {} /\ w.start = Start /\ w.nodes = NodesOf(graph)
          BY <3>2, <3>6, LedIs DEF Stored
        <4>4. Start \in NodesOf(graph)
          BY <3>2, EntryNode DEF Start
        <4>5. item.node = Start /\ item.path = {Start}
          BY DEF Item
        <4> HIDE DEF item, w
        <4>6. OnPath(w, item)
          BY <4>3, <4>4, <4>5 DEF OnPath
        <4>7. Fresh(w, <<item>>)
          BY <4>3, <4>6 DEF Fresh
        <4>8. Owed(w, <<item>>)
          BY <4>3, <4>5 DEF Owed, NodesIn
        <4>9. AtLoop(w, b)
          BY <4>2, <4>3 DEF AtLoop, Rest
        <4> QED  BY <4>1, <4>2, <4>7, <4>8, <4>9 DEF Underway
      <3> QED  BY <3>2, <3>5, <3>6
    <2>2. CASE StopCancelled
      BY <1>3, <2>2, Stopped DEF StopCancelled
    <2>3. CASE Succeed
      <3>1. ex.pc = "loop" /\ ex.queue = <<>> /\ Stop("succeeded", "none")
        BY <2>3 DEF Succeed
      <3>2. NodesIn(<<>>) = {}
        BY DEF NodesIn
      <3>3. Rest(w, {})
        BY <1>3, <3>1, <3>2 DEF Underway, AtLoop
      <3> QED  BY <1>3, <3>1, <3>3, Stopped
    <2>4. CASE TakeNode
      <3> DEFINE item == Head(ex.queue)
                 t == Tail(ex.queue)
      <3>1. ex.pc = "loop" /\ ex.queue # <<>>
        BY <2>4 DEF TakeNode
      <3>2. Fresh(w, ex.queue) /\ Owed(w, ex.queue) /\ AtLoop(w, ex)
        BY <1>3, <3>1 DEF Underway
      <3>3. /\ OnPath(w, item) /\ item.node \notin w.ran /\ Fresh(w, t)
            /\ item.node \notin NodesIn(t)
            /\ NodesIn(ex.queue) = NodesIn(t) \cup {item.node}
        BY <1>2, <3>1, <3>2, FreshTaken
      <3>4. item.node \in NodesOf(graph)
        BY <3>3, LedIs DEF OnPath
      <3>5. /\ ex'.pc = "node" /\ ex'.queue = t /\ ex'.cur = item
            /\ ex'.visited = ex.visited \cup {item.node} /\ ex'.error = ex.error
        BY <1>2, <2>4, <3>4 DEF TakeNode, Execs
      <3> HIDE DEF item, t, w
      <3>6. Owed(w, t) /\ item.node \in w.owed \cup {w.start}
        BY <3>2, <3>3 DEF Owed
      <3>7. AtNode(w, ex')
        BY <3>2, <3>3, <3>5 DEF AtNode, AtLoop
      <3>8. ex'.visited = w.ran \cup {item.node}
        BY <3>2, <3>5 DEF AtLoop
      <3>9. ex'.error \in {"none", "node"}
        BY <1>3, <3>5 DEF Underway
      <3> QED  BY <3>3, <3>5, <3>6, <3>7, <3>8, <3>9 DEF Underway
    <2> QED  BY <2>1, <2>2, <2>3, <2>4
  <1>5. run.error \in {"none", "node", "rejected"}
    BY <1>3 DEF OnlyNodesFail
  <1>6. run.status = "succeeded" => Rest(Now, {})
    BY DEF Order
  <1> HIDE DEF w
  <1> QED  BY <1>1, <1>2, <1>4, <1>5, <1>6, OrderKept DEF w

\* The node of the execution runs: it has not before, and what it leads to
\* neither.
LEMMA OrderNode ==
    ASSUME Typed, Order, RunNode
    PROVE  Order'
  <1> DEFINE n == ex.cur.node
             w == Now
  <1>1. PICK o \in NodeOutcomes(Kind, Granted, aborted),
             how \in {"finished", "asked", "failed", "aborted"}, owed \in SUBSET Names :
             /\ o \in Outcomes /\ RanAs(how, o) \in Runs
             /\ NodeReturns(o) \/ NodeThrows(o)
             /\ how = "asked" <=> o.returns /\ o.until = "exec"
             /\ owed = IF o.returns /\ o.until \in {"none", "timer"}
                       THEN Targets(n, o.ports) ELSE {}
             /\ hist'.ran = Append(hist.ran, RanAs(how, o))
             /\ hist'.owed = hist.owed \cup owed
             /\ hist'.dropped = hist.dropped /\ hist'.approved = hist.approved
    BY Remembered
  <1> DEFINE r == RanAs(how, o)
             T == Targets(n, o.ports)
             new == IF how = "asked" THEN {} ELSE {n}
             v == Now'
  <1>2. /\ ex \in Execs /\ hist.ran \in Seq(Runs) /\ UNCHANGED <<graph, run, log, aborted>>
        /\ ex.pc = "node" /\ o.until \in {"none", "timer", "control", "exec"} /\ Drawn
        /\ o.returns \in BOOLEAN
    BY <1>1, TypeIs DEF Typed, RunNode, Pasts, Outcomes
  <1>3. run.status \in {"running", "cancelled"}
    BY <1>2 DEF Typed, Phases
  <1>4. /\ Valid(graph) /\ Start # None /\ Underway(w, ex) /\ Chosen(w) /\ RunsOnce
        /\ OnlyNodesFail
    BY <1>3 DEF Order
  <1>5. /\ OnPath(w, ex.cur) /\ n \notin NodesIn(ex.queue) /\ n \in w.owed \cup {w.start}
        /\ ex.visited = w.ran \cup {n} /\ AtNode(w, ex) /\ ex.error \in {"none", "node"}
        /\ Fresh(w, ex.queue) /\ Owed(w, ex.queue)
    BY <1>2, <1>4 DEF Underway
  <1>6. n \notin Ran /\ n \in hist.owed \cup {Start} /\ Rest(w, NodesIn(ex.queue) \cup {n})
    BY <1>5, LedIs DEF AtNode
  <1>7. /\ T \cap (hist.owed \cup {Start} \cup {n} \cup ex.cur.path \cup Ran) = {}
        /\ T \subseteq NodesOf(graph)
    BY <1>2, <1>4, <1>5, <1>6, TargetsNew
  <1>8. r.node = n /\ r.how = how
    BY DEF RanAs
  <1>9. Ran' = Ran \cup new
    <2>1. ToSet(hist'.ran) = ToSet(hist.ran) \cup {r}
      BY <1>1, <1>2, Appended
    <2> HIDE DEF r
    <2>2. HasRun' = HasRun \cup (IF how = "asked" THEN {} ELSE {r})
      BY <1>8, <2>1 DEF HasRun
    <2> QED  BY <1>8, <2>2 DEF Ran
  <1>10. Start' = Start
    BY <1>2 DEF Start
  <1>11. /\ v.nodes = w.nodes /\ v.edges = w.edges /\ v.start = w.start
         /\ v.ran = w.ran \cup new /\ v.owed = w.owed \cup owed /\ v.dropped = w.dropped
    BY <1>1, <1>2, <1>9, <1>10 DEF Now, NodesOf
  <1>12. w.ran = Ran /\ w.owed = hist.owed /\ w.start = Start /\ w.edges = graph.edges
    BY LedIs
  <1>13. \A x, P : Led(v, x, P) = Led(w, x, P)
    BY <1>11 DEF Led
  <1>14. T = Led(w, n, o.ports)
    BY LedIs
  <1>15. owed \subseteq T /\ (how = "asked" => owed = {})
    BY <1>1
  <1>16. new \subseteq {n}
    OBVIOUS
  <1>17. /\ ex'.queue = ex.queue /\ ex'.cur = ex.cur /\ ex'.visited = ex.visited
         /\ ex'.error \in {"none", "node"}
         /\ \/ ex'.pc = "route" /\ ex'.outcome = o /\ o.returns
            \/ ex'.pc = "done" /\ ex'.status \in {"cancelled", "failed"}
    BY <1>1, <1>2, <1>5 DEF NodeReturns, NodeThrows, Execs
  <1> HIDE DEF v, w, T, new, r
  <1>18. Chosen(v)
    <2>1. v.ran \subseteq v.owed \cup {v.start}
      BY <1>4, <1>5, <1>11, <1>16 DEF Chosen
    <2>2. ASSUME NEW m \in v.owed
          PROVE  \E i \in DOMAIN v.edges : v.edges[i].target = m /\ v.edges[i].source \in v.ran
      <3>1. CASE m \in w.owed
        BY <1>4, <1>11, <3>1 DEF Chosen
      <3>2. CASE m \in owed
        <4>1. n \in v.ran
          BY <1>11, <1>15, <3>2 DEF new
        <4>2. PICK i \in DOMAIN w.edges : w.edges[i].target = m /\ w.edges[i].source = n
          BY <1>14, <1>15, <3>2 DEF Led
        <4> QED  BY <1>11, <4>1, <4>2
      <3> QED  BY <1>11, <3>1, <3>2
    <2> QED  BY <2>1, <2>2 DEF Chosen
  <1>19. Fresh(v, ex.queue) /\ Owed(v, ex.queue) /\ OnPath(v, ex.cur)
    <2>1. NodesIn(ex.queue) \cap w.ran = {}
      BY <1>5 DEF Fresh, NodesIn
    <2>2. NodesIn(ex.queue) \cap v.ran = {}
      BY <1>5, <1>11, <1>16, <2>1
    <2>3. Owed(v, ex.queue)
      BY <1>5, <1>11 DEF Owed
    <2>4. w.ran \subseteq v.ran
      BY <1>11
    <2> QED  BY <1>5, <1>11, <2>2, <2>3, <2>4, MoreRan
  <1>20. Underway(v, ex')
    <2>1. CASE ex'.pc = "done" /\ ex'.status \in {"cancelled", "failed"}
      BY <1>17, <2>1 DEF Underway
    <2>2. CASE ex'.pc = "route" /\ ex'.outcome = o /\ o.returns
      <3>1. n \in v.owed \cup {v.start} /\ ex.visited = v.ran \cup {n}
        BY <1>5, <1>11, <1>16
      <3>2. Ahead(v, ex') = T
        BY <1>13, <1>14, <1>17, <2>2 DEF Ahead
      <3>3. T \cap (ex.cur.path \cup v.ran \cup NodesIn(ex.queue)) = {}
        BY <1>5, <1>7, <1>11, <1>12, <1>16 DEF Owed
      <3>4. o.until = "exec" => n \notin v.ran /\ Rest(v, NodesIn(ex.queue) \cup {n})
        BY <1>1, <1>6, <1>11, <1>12, <1>15, <2>2 DEF Rest, new
      <3>5. o.until # "exec" => n \in v.ran
        BY <1>1, <1>11 DEF new
      <3>6. o.until \in {"none", "timer"} => owed = T
        BY <1>1, <2>2 DEF T
      <3>7. o.until \in {"none", "timer"} =>
               T \subseteq v.owed /\ Rest(v, NodesIn(ex.queue) \cup T)
        BY <1>6, <1>11, <3>5, <3>6 DEF Rest
      <3>8. o.until = "control" => owed = {} /\ o.ports = {"approved", "rejected"}
        BY <1>1, OutcomeFacts
      <3>9. o.until = "control" => Rest(v, NodesIn(ex.queue))
        BY <1>6, <1>11, <3>5, <3>8 DEF Rest
      <3>10. AtRoute(v, ex')
        BY <1>17, <2>2, <3>2, <3>3, <3>4, <3>5, <3>7, <3>8, <3>9 DEF AtRoute, AtNode
      <3> QED  BY <1>5, <1>17, <1>19, <2>2, <3>1, <3>10 DEF Underway
    <2> QED  BY <1>17, <2>1, <2>2
  <1>21. RunsOnce'
    <2> DEFINE s == hist.ran
               a == Append(s, r)
    <2>1. /\ Len(s) \in Nat /\ DOMAIN s = 1..Len(s) /\ DOMAIN a = 1..(Len(s) + 1)
          /\ \A i \in DOMAIN s : a[i] = s[i]
          /\ a[Len(s) + 1] = r
      BY <1>1, <1>2, Appended DEF r
    <2>2. \A i \in DOMAIN s : s[i].how # "asked" => s[i].node # n
      BY <1>6 DEF Ran, HasRun, ToSet
    <2>3. \A i \in DOMAIN a : i \in DOMAIN s \/ i = Len(s) + 1
      BY <2>1
    <2>4. hist'.ran = a
      BY <1>1 DEF r
    <2> HIDE DEF a
    <2> SUFFICES ASSUME NEW i \in DOMAIN a, NEW j \in DOMAIN a, a[i].node = a[j].node,
                        a[i].how # "asked", a[j].how # "asked"
                 PROVE  i = j
      BY <2>4 DEF RunsOnce
    <2>5. CASE i \in DOMAIN s /\ j \in DOMAIN s
      BY <1>4, <2>1, <2>5 DEF RunsOnce
    <2>6. CASE i \in DOMAIN s /\ j = Len(s) + 1
      BY <1>8, <2>1, <2>2, <2>6
    <2>7. CASE i = Len(s) + 1 /\ j \in DOMAIN s
      BY <1>8, <2>1, <2>2, <2>7
    <2> QED  BY <2>3, <2>5, <2>6, <2>7
  <1>22. OnlyNodesFail'
    BY <1>2, <1>4 DEF OnlyNodesFail
  <1>23. ex'.pc # "idle" /\ run'.status \in {"running", "cancelled"} /\ Valid(graph)'
    BY <1>2, <1>3, <1>4, <1>17
  <1> QED  BY <1>4, <1>10, <1>18, <1>20, <1>21, <1>22, <1>23 DEF Order, v

\* The items behind the node join what is fresh, or are what a decision may
\* choose; a request keeps the node itself.
LEMMA OrderRoute ==
    ASSUME Typed, Order, Route
    PROVE  Order'
  <1> DEFINE n == ex.cur.node
             w == Now
             v == Now'
             P == ex.outcome.ports
             u == ex.outcome.until
             T == Targets(n, P)
             items == QueuedItems(ex.cur, P)
             q == ex.queue \o items
  <1>1. /\ ex \in Execs /\ hist \in Pasts /\ UNCHANGED <<graph, run, log, aborted>>
        /\ ex.pc = "route" /\ Drawn /\ ex.cur \in Items /\ ex.queue \in Seq(Items)
        /\ u \in {"none", "timer", "control", "exec"}
    <2>1. ex \in Execs /\ hist \in Pasts /\ Drawn
      BY TypeIs DEF Typed
    <2>2. ex.pc = "route" /\ UNCHANGED <<graph, run, log, aborted>>
      BY DEF Route
    <2>3. ex.cur \in Items
      BY <2>2, CurrentNode
    <2>4. ex.queue \in Seq(Items) /\ ex.outcome \in Outcomes
      BY <2>1 DEF Execs, Queues
    <2> QED  BY <2>1, <2>2, <2>3, <2>4 DEF Outcomes
  <1>2. run.status \in {"running", "cancelled"}
    BY <1>1 DEF Typed, Phases
  <1>3. /\ Valid(graph) /\ Start # None /\ Underway(w, ex) /\ Chosen(w) /\ RunsOnce
        /\ OnlyNodesFail
    BY <1>2 DEF Order
  <1>4. /\ OnPath(w, ex.cur) /\ n \notin NodesIn(ex.queue) /\ n \in w.owed \cup {w.start}
        /\ ex.visited = w.ran \cup {n} /\ AtRoute(w, ex) /\ ex.error \in {"none", "node"}
        /\ Fresh(w, ex.queue) /\ Owed(w, ex.queue)
    BY <1>1, <1>3 DEF Underway
  <1>5. Ahead(w, ex) = T
    BY LedIs DEF Ahead
  <1>6. T \cap (ex.cur.path \cup w.ran \cup NodesIn(ex.queue)) = {}
    BY <1>4, <1>5 DEF AtRoute
  <1>7. ~ReEnters(ex.cur, P)
    BY <1>6 DEF ReEnters
  <1>8. w.ran = Ran /\ w.start = Start /\ w.owed = hist.owed /\ w.dropped = hist.dropped
    BY LedIs
  <1>9. ASSUME n \in w.ran, NEW ports \in SUBSET P
        PROVE  /\ Fresh(w, QueuedItems(ex.cur, ports))
               /\ NodesIn(QueuedItems(ex.cur, ports)) = Targets(n, ports)
               /\ QueuedItems(ex.cur, ports) \in Seq(Items)
    <2>1. Targets(n, ports) \subseteq T
      BY DEF Targets, Behind
    <2>2. Targets(n, ports) \cap Ran = {}
      BY <1>6, <1>8, <2>1
    <2> QED  BY <1>1, <1>3, <1>4, <1>8, <1>9, <2>2, FreshQueued
  <1>10. u # "exec" => n \in w.ran
    BY <1>4 DEF AtRoute
  <1>11. u \in {"none", "timer"} =>
            Fresh(w, q) /\ Owed(w, q) /\ Rest(w, NodesIn(q)) /\ ex.visited = w.ran
    <2> SUFFICES ASSUME u \in {"none", "timer"}
                 PROVE  Fresh(w, q) /\ Owed(w, q) /\ Rest(w, NodesIn(q)) /\ ex.visited = w.ran
      OBVIOUS
    <2>1. n \in w.ran /\ T \subseteq w.owed /\ Rest(w, NodesIn(ex.queue) \cup T)
      BY <1>4, <1>5, <1>10 DEF AtRoute
    <2>2. Fresh(w, items) /\ NodesIn(items) = T /\ items \in Seq(Items)
      BY <1>9, <2>1
    <2> HIDE DEF items
    <2>3. Fresh(w, q) /\ NodesIn(q) = NodesIn(ex.queue) \cup T
      BY <1>1, <1>4, <1>6, <2>2, FreshJoined
    <2>4. Owed(w, q)
      BY <1>4, <2>1, <2>3 DEF Owed
    <2>5. Rest(w, NodesIn(q)) /\ ex.visited = w.ran
      BY <1>4, <2>1, <2>3
    <2> QED  BY <2>3, <2>4, <2>5
  <1>12. \/ GoOn(items) \/ WaitForTimer(items) \/ WaitForDecision
    BY <1>7 DEF Route
  <1>13. CASE GoOn(items)
    <2>1. /\ ex'.pc = "loop" /\ ex'.queue = q /\ ex'.visited = ex.visited /\ ex'.error = ex.error
          /\ u = "none" /\ hist' = hist
      BY <1>1, <1>13 DEF GoOn, Execs
    <2> HIDE DEF q, w
    <2>2. Underway(w, ex')
      BY <1>4, <1>11, <2>1 DEF Underway, AtLoop
    <2>3. Now' = Now
      BY <1>1, <2>1, SameWay
    <2> QED  BY <1>1, <1>2, <1>3, <2>1, <2>2, <2>3, OrderKept DEF w, OnlyNodesFail
  <1>14. CASE WaitForTimer(items)
    <2> DEFINE c == Continuation("timer", q, ex.visited, n, <<>>, <<>>)
    <2>1. /\ ex'.pc = "done" /\ ex'.status = "waiting" /\ ex'.continuation = c
          /\ ex'.error = ex.error /\ u = "timer" /\ hist' = hist
      BY <1>1, <1>14 DEF WaitForTimer, Execs
    <2>2. c.kind = "timer" /\ c.queue = q /\ c.visited = ex.visited
      BY DEF Continuation
    <2> HIDE DEF c, q, w
    <2>3. Stored(w, c)
      BY <1>11, <2>1, <2>2 DEF Stored
    <2>4. Underway(w, ex')
      BY <1>4, <2>1, <2>3 DEF Underway
    <2>5. Now' = Now
      BY <1>1, <2>1, SameWay
    <2> QED  BY <1>1, <1>2, <1>3, <2>1, <2>4, <2>5, OrderKept DEF w, OnlyNodesFail
  <1>15. CASE WaitForDecision
    <2> DEFINE asks == u = "exec"
               yes  == IF asks THEN <<Item(n, ex.cur.path, graph.command)>>
                               ELSE QueuedItems(ex.cur, {"approved"})
               no   == IF asks THEN <<>> ELSE QueuedItems(ex.cur, {"rejected"})
               c == Continuation(u, <<>>, VisitedBefore(asks), n, yes, no)
               gone == {item.node : item \in ToSet(ex.queue)}
    <2>1. /\ ex'.pc = "done" /\ ex'.status = "waiting" /\ ex'.continuation = c
          /\ ex'.error = ex.error /\ u \in {"control", "exec"}
          /\ hist'.dropped = hist.dropped \cup gone
          /\ hist'.ran = hist.ran /\ hist'.owed = hist.owed
      BY <1>1, <1>15 DEF WaitForDecision, Execs, Pasts
    <2>2. gone = NodesIn(ex.queue)
      BY DEF NodesIn, ToSet
    <2>3. /\ v.nodes = w.nodes /\ v.edges = w.edges /\ v.start = w.start /\ v.ran = w.ran
          /\ v.owed = w.owed /\ v.dropped = w.dropped \cup NodesIn(ex.queue)
      BY <1>1, <2>1, <2>2 DEF Now, Ran, HasRun, NodesOf, Start
    <2>4. \A x, p : Led(v, x, p) = Led(w, x, p)
      BY <2>3 DEF Led
    <2>5. \A x : OnPath(w, x) => OnPath(v, x)
      BY <2>3, MoreRan
    <2>6. \A f : Fresh(w, f) => Fresh(v, f)
      BY <2>3, <2>5 DEF Fresh
    <2>7. \A S : Rest(w, NodesIn(ex.queue) \cup S) => Rest(v, S)
      BY <2>3 DEF Rest
    <2>8. /\ c.kind = u /\ c.visited = VisitedBefore(asks) /\ c.node = n
          /\ c.yes = yes /\ c.no = no
      BY DEF Continuation
    <2>9. Stored(v, c)
      <3>1. CASE u = "control"
        <4>1. n \in w.ran /\ Rest(w, NodesIn(ex.queue)) /\ P = {"approved", "rejected"}
          BY <1>4, <1>10, <3>1 DEF AtRoute
        <4>2. yes = QueuedItems(ex.cur, {"approved"}) /\ no = QueuedItems(ex.cur, {"rejected"})
          BY <3>1
        <4>3. {"approved"} \in SUBSET P /\ {"rejected"} \in SUBSET P
          BY <4>1
        <4>4. /\ Fresh(w, yes) /\ NodesIn(yes) = Targets(n, {"approved"})
              /\ Fresh(w, no) /\ NodesIn(no) = Targets(n, {"rejected"})
          BY <1>9, <4>1, <4>2, <4>3
        <4>5. Rest(v, {})
          BY <2>7, <4>1
        <4>6. c.visited = v.ran
          BY <1>4, <2>3, <2>8, <3>1, <4>1 DEF VisitedBefore
        <4>7. \A p : Led(v, n, p) = Targets(n, p)
          BY <2>4, LedIs
        <4> HIDE DEF yes, no, c, w, v
        <4> QED  BY <2>3, <2>6, <2>8, <3>1, <4>1, <4>4, <4>5, <4>6, <4>7 DEF Stored
      <3>2. CASE u = "exec"
        <4>1. n \notin w.ran /\ Rest(w, NodesIn(ex.queue) \cup {n})
          BY <1>4, <3>2 DEF AtRoute, AtNode
        <4> DEFINE item == Item(n, ex.cur.path, graph.command)
        <4>2. yes = <<item>> /\ item.node = n /\ item.path = ex.cur.path
          BY <3>2 DEF Item
        <4>3. OnPath(v, item)
          BY <1>4, <2>5, <4>2 DEF OnPath
        <4> HIDE DEF item
        <4>4. DOMAIN yes = {1} /\ yes[1] = item
          BY <4>2
        <4>5. Fresh(v, yes) /\ NodesIn(yes) = {n}
          BY <2>3, <4>1, <4>2, <4>3, <4>4 DEF Fresh, NodesIn
        <4>6. Owed(v, yes)
          BY <1>4, <2>3, <4>5 DEF Owed
        <4>7. Rest(v, {n})
          BY <2>7, <4>1
        <4>8. c.visited = v.ran
          BY <1>4, <2>3, <2>8, <3>2, <4>1 DEF VisitedBefore
        <4> HIDE DEF yes, no, c, w, v
        <4> QED  BY <2>8, <3>2, <4>2, <4>4, <4>5, <4>6, <4>7, <4>8 DEF Stored
      <3> QED  BY <2>1, <3>1, <3>2
    <2> HIDE DEF c, v, w
    <2>10. Underway(v, ex')
      BY <1>4, <2>1, <2>9 DEF Underway
    <2>11. Chosen(v)
      BY <1>3, <2>3 DEF Chosen
    <2>12. RunsOnce' /\ OnlyNodesFail' /\ Start' = Start
      BY <1>1, <1>3, <2>1 DEF RunsOnce, OnlyNodesFail, Start
    <2>13. ex'.pc # "idle" /\ run'.status \in {"running", "cancelled"} /\ Valid(graph)'
      BY <1>1, <1>2, <1>3, <2>1
    <2> QED  BY <1>3, <2>10, <2>11, <2>12, <2>13 DEF Order, v
  <1> QED  BY <1>12, <1>13, <1>14, <1>15

LEMMA OrderRest ==
    ASSUME Typed, Order, Finalize \/ Cancel \/ PollAbort \/ Overwrite \/ UNCHANGED vars
    PROVE  Order'
  <1>1. run \in Rows /\ ex \in Execs
    BY TypeIs DEF Typed
  <1>2. /\ Underway(Now, ex) /\ run.error \in {"none", "node", "rejected"}
        /\ run.status = "succeeded" => Rest(Now, {})
        /\ ex.pc = "idle" /\ run.status \in {"none", "running", "waiting"} =>
              Stored(Now, run.continuation)
    BY DEF Order, OnlyNodesFail
  <1>3. CASE Finalize
    <2>1. /\ ex.pc = "done" /\ ex' = Idle /\ UNCHANGED <<graph, hist>>
          /\ \/ run' = run /\ run.status # "running"
             \/ /\ run'.status = ex.status /\ run'.error = ex.error /\ run.status = "running"
                /\ run'.continuation = ex.continuation /\ run'.trigger = run.trigger
      BY <1>1, <1>3 DEF Finalize, Rows
    <2>2. run.status \in {"running", "cancelled"}
          /\ ex.status \in {"waiting", "succeeded", "failed", "cancelled"}
      BY <2>1 DEF Typed, Phases
    <2>3. Underway(Now, Idle) /\ Idle.pc = "idle"
      BY NothingTyped DEF Idle, Underway
    <2>4. Now' = Now
      BY <2>1, SameWay
    <2>5. /\ ex.status = "waiting" => Stored(Now, ex.continuation)
          /\ ex.status = "succeeded" => Rest(Now, {})
          /\ ex.error \in {"none", "node"}
      BY <1>2, <2>1 DEF Underway
    <2>6. /\ run'.status # "none" /\ run.status # "none"
          /\ run'.error \in {"none", "node", "rejected"}
          /\ run'.status = "succeeded" => Rest(Now, {})
          /\ run'.status \in {"none", "running", "waiting"} => Stored(Now, run'.continuation)
      BY <1>2, <2>1, <2>2, <2>5
    <2> QED  BY <2>1, <2>3, <2>4, <2>6, OrderKept
  <1>4. CASE Cancel
    <2>1. /\ run.status \in {"running", "waiting"} /\ run'.status = "cancelled"
          /\ run'.error = run.error /\ run'.trigger = run.trigger /\ UNCHANGED <<graph, ex, hist>>
      BY <1>1, <1>4 DEF Cancel, Rows
    <2>2. Now' = Now
      BY <2>1, SameWay
    <2> QED  BY <1>2, <2>1, <2>2, OrderKept
  <1>5. CASE PollAbort \/ UNCHANGED vars
    <2>1. UNCHANGED <<graph, run, ex, hist>>
      BY <1>5 DEF PollAbort, vars
    <2>2. Now' = Now
      BY <2>1, SameWay
    <2> QED  BY <1>2, <2>1, <2>2, OrderKept
  <1>6. CASE Overwrite
    <2>1. graph'.kind = graph.kind /\ graph'.edges = graph.edges /\ UNCHANGED <<run, ex, hist>>
      BY <1>6 DEF Overwrite, Typed, Drawn
    <2>2. Now' = Now
      BY <2>1, SameWay
    <2> QED  BY <1>2, <2>1, <2>2, OrderKept
  <1> QED  BY <1>3, <1>4, <1>5, <1>6

\* A run is launched with an entry, before anything has run.
LEMMA OrderLaunch ==
    ASSUME Typed, Order, NEW trigger \in Launches, Launch(trigger)
    PROVE  Order'
  <1>1. /\ run.status = "none" /\ Valid(graph) /\ Entry(graph, trigger) # None
        /\ UNCHANGED <<graph, log, ex, aborted, hist>>
        /\ run'.status = "running" /\ run'.trigger = trigger /\ run'.error = run.error
        /\ run'.continuation = run.continuation
    <2>1. run \in Rows
      BY TypeIs DEF Typed
    <2> QED  BY <2>1 DEF Launch, Rows
  <1>2. /\ Ran = {} /\ hist.owed = {} /\ run.continuation.kind = "null" /\ ex.pc = "idle"
        /\ RunsOnce /\ OnlyNodesFail /\ Stored(Now, run.continuation) /\ Underway(Now, ex)
    BY <1>1 DEF Order, Typed, Phases
  <1>3. Ran' = {} /\ hist'.owed = {} /\ Start' = Entry(graph, trigger)
    BY <1>1, <1>2 DEF Ran, HasRun, Start
  <1> DEFINE v == Now'
  <1>4. v.ran = {} /\ v.owed = {} /\ v.start = Start'
    BY <1>3 DEF Now
  <1> HIDE DEF v
  <1>5. Chosen(v)
    BY <1>4 DEF Chosen
  <1>6. run.continuation.visited = {}
    BY <1>2, LedIs DEF Stored
  <1>7. Stored(v, run.continuation)
    BY <1>2, <1>4, <1>6 DEF Stored
  <1>8. Underway(v, ex)
    BY <1>2 DEF Underway
  <1>9. RunsOnce' /\ OnlyNodesFail'
    BY <1>1, <1>2 DEF RunsOnce, OnlyNodesFail
  <1> QED  BY <1>1, <1>3, <1>5, <1>7, <1>8, <1>9 DEF Order, v

\* A run goes on with a queue of what has not run, but has been chosen by now.
LEMMA OrderResume ==
    ASSUME Typed, Order, run.status = "waiting", UNCHANGED <<graph, ex>>, hist'.ran = hist.ran,
           NEW q, Resume(q), Stored(Now, run.continuation),
           Fresh(Now', q), Owed(Now', q), Rest(Now', NodesIn(q)), Chosen(Now')
    PROVE  Order'
  <1>1. run \in Rows
    BY TypeIs DEF Typed
  <1> DEFINE c == Ready(q, run.continuation)
             v == Now'
  <1>2. run'.status = "running" /\ run'.error = "none" /\ run'.trigger = run.trigger
        /\ run'.continuation = c
    BY <1>1 DEF Resume, Rows
  <1>3. c.kind = "ready" /\ c.queue = q /\ c.visited = run.continuation.visited
    BY DEF Ready, Continuation
  <1>4. Ran' = Ran /\ Start' = Start
    BY <1>2 DEF Ran, HasRun, Start
  <1>5. c.visited = v.ran /\ v.start = Start
    BY <1>3, <1>4, LedIs DEF Stored, Now
  <1> HIDE DEF c, v
  <1>6. Stored(v, c)
    BY <1>3, <1>5 DEF Stored, v
  <1>7. ex.pc = "idle" /\ Valid(graph) /\ Start # None /\ RunsOnce /\ ex.error \in {"none", "node"}
    BY DEF Typed, Phases, Order, Underway
  <1>8. Underway(v, ex)
    BY <1>7 DEF Underway
  <1>9. RunsOnce' /\ OnlyNodesFail'
    BY <1>2, <1>7 DEF RunsOnce, OnlyNodesFail
  <1> QED  BY <1>2, <1>4, <1>6, <1>7, <1>8, <1>9 DEF Order, v

\* What a decision chooses becomes due; that of a request is so already.
LEMMA OrderDecided ==
    ASSUME Typed, Order, run.status = "waiting", UNCHANGED <<graph, ex>>,
           NEW port \in {"approved", "rejected"}, NEW q,
           run.continuation.kind = "control",
           q = IF port = "approved" THEN run.continuation.yes ELSE run.continuation.no,
           Resume(q), hist'.ran = hist.ran, hist'.dropped = hist.dropped,
           hist'.owed = Decided(port)
    PROVE  Order'
  <1> DEFINE c == run.continuation
             w == Now
             v == Now'
             T == Targets(c.node, {port})
  <1>1. run \in Rows
    BY TypeIs DEF Typed
  <1>2. Stored(w, c) /\ Chosen(w)
    BY DEF Order, Typed, Phases
  <1>3. /\ c.node \in w.ran /\ Rest(w, {}) /\ Fresh(w, q) /\ NodesIn(q) = T
    BY <1>2, LedIs DEF Stored
  <1>4. hist'.owed = hist.owed \cup T
    BY DEF Decided
  <1>5. Start' = Start /\ Ran' = Ran /\ NodesOf(graph)' = NodesOf(graph)
    BY <1>1 DEF Resume, Rows, Start, Ran, HasRun
  <1>6. /\ v.nodes = w.nodes /\ v.edges = w.edges /\ v.start = w.start /\ v.ran = w.ran
        /\ v.owed = w.owed \cup T /\ v.dropped = w.dropped
    BY <1>4, <1>5 DEF Now
  <1>7. T = Led(w, c.node, {port})
    BY LedIs
  <1> HIDE DEF w, v, T
  <1>8. \A x : OnPath(w, x) => OnPath(v, x)
    BY <1>6, MoreRan
  <1>9. Fresh(v, q) /\ Owed(v, q) /\ Rest(v, NodesIn(q))
    BY <1>3, <1>6, <1>8 DEF Fresh, Owed, Rest
  <1>10. Chosen(v)
    <2>1. \A m \in T : \E i \in DOMAIN w.edges : w.edges[i].target = m /\ w.edges[i].source = c.node
      BY <1>7 DEF Led
    <2> QED  BY <1>2, <1>3, <1>6, <2>1 DEF Chosen
  <1> QED  BY <1>2, <1>9, <1>10, OrderResume DEF v, w

LEMMA OrderRefuse ==
    ASSUME Typed, Order, run.status = "waiting", UNCHANGED <<graph, ex>>,
           run.continuation.kind \in {"control", "exec"}, Refuse,
           hist'.ran = hist.ran, hist'.dropped = hist.dropped, hist'.owed = Decided("rejected")
    PROVE  Order'
  <1>1. run \in Rows
    BY TypeIs DEF Typed
  <1>2. CASE run.continuation.kind = "exec"
    <2>1. run'.status = "failed" /\ run'.error = "rejected" /\ run'.trigger = run.trigger
      BY <1>1, <1>2 DEF Refuse, Rows
    <2>2. Start' = Start /\ Ran' = Ran /\ hist'.owed = hist.owed /\ NodesOf(graph)' = NodesOf(graph)
      BY <1>2, <2>1 DEF Start, Ran, HasRun, Decided
    <2>3. Now' = Now
      BY <2>2 DEF Now
    <2>4. Underway(Now, ex)
      BY DEF Order
    <2> QED  BY <2>1, <2>3, <2>4, OrderKept
  <1>3. CASE run.continuation.kind = "control"
    <2>1. Resume(run.continuation.no)
      BY <1>3 DEF Refuse
    <2> QED  BY <1>3, <2>1, OrderDecided
  <1> QED  BY <1>2, <1>3

LEMMA OrderDecide ==
    ASSUME Typed, Order, NEW d \in {"approved", "rejected"}, Decide(d)
    PROVE  Order'
  <1> DEFINE c == run.continuation
  <1>1. /\ run.status = "waiting" /\ c.kind \in {"control", "exec"} /\ UNCHANGED <<graph, ex>>
        /\ hist'.ran = hist.ran /\ hist'.dropped = hist.dropped /\ hist'.owed = Decided(d)
    <2>1. hist \in Pasts
      BY TypeIs DEF Typed
    <2> QED  BY <2>1 DEF Decide, Pasts
  <1>2. Stored(Now, c) /\ Chosen(Now) /\ run \in Rows
    BY <1>1, TypeIs DEF Order, Typed, Phases
  <1>3. CASE d = "rejected"
    BY <1>1, <1>3, OrderRefuse DEF Decide
  <1>4. CASE d = "approved" /\ c.kind = "control"
    <2>1. Resume(c.yes)
      BY <1>4 DEF Decide
    <2> QED  BY <1>1, <1>4, <2>1, OrderDecided
  <1>5. CASE d = "approved" /\ c.kind = "exec"
    <2>1. Resume(c.yes)
      BY <1>5 DEF Decide
    <2>2. hist'.owed = hist.owed /\ run'.trigger = run.trigger
      BY <1>1, <1>2, <1>5, <2>1 DEF Decided, Resume, Rows
    <2>3. Now' = Now
      BY <1>1, <2>2 DEF Now, Start, Ran, HasRun
    <2>4. NodesIn(c.yes) = {c.node}
      BY <1>2, <1>5 DEF Stored, NodesIn
    <2>5. Fresh(Now, c.yes) /\ Owed(Now, c.yes) /\ Rest(Now, NodesIn(c.yes))
      BY <1>2, <1>5, <2>4 DEF Stored
    <2> QED  BY <1>1, <1>2, <2>1, <2>3, <2>5, OrderResume
  <1> QED  BY <1>1, <1>3, <1>4, <1>5

LEMMA OrderResumeWaiting ==
    ASSUME Typed, Order, ResumeWaiting
    PROVE  Order'
  <1> DEFINE c == run.continuation
  <1>1. run.status = "waiting" /\ UNCHANGED <<graph, ex>> /\ hist \in Pasts /\ run \in Rows
        /\ c.kind \in {"timer", "control", "exec"}
    BY TypeIs DEF Typed, ResumeWaiting
  <1>2. Stored(Now, c) /\ Chosen(Now)
    BY <1>1 DEF Order, Typed, Phases
  <1>3. CASE c.kind = "timer"
    <2>1. Resume(c.queue) /\ hist' = hist
      BY <1>3 DEF ResumeWaiting
    <2>2. run'.trigger = run.trigger
      BY <1>1, <2>1 DEF Resume, Rows
    <2>3. Now' = Now
      BY <1>1, <2>1, <2>2, SameWay
    <2>4. Fresh(Now, c.queue) /\ Owed(Now, c.queue) /\ Rest(Now, NodesIn(c.queue))
      BY <1>2, <1>3 DEF Stored
    <2> QED  BY <1>1, <1>2, <2>1, <2>3, <2>4, OrderResume
  <1>4. CASE c.kind # "timer"
    <2>1. Refuse /\ hist' = [hist EXCEPT !.owed = Decided("rejected")]
      BY <1>4 DEF ResumeWaiting
    <2>2. hist'.ran = hist.ran /\ hist'.dropped = hist.dropped /\ hist'.owed = Decided("rejected")
      BY <1>1, <2>1 DEF Pasts
    <2> QED  BY <1>1, <1>4, <2>1, <2>2, OrderRefuse
  <1> QED  BY <1>3, <1>4

\* Every step keeps the order.
LEMMA OrderStep ==
    ASSUME Typed, Order, [Next]_vars
    PROVE  Order'
  BY OrderLoop, OrderNode, OrderRoute, OrderRest, OrderLaunch, OrderDecide, OrderResumeWaiting
     DEF Next, Execute

LEMMA OrderInit ==
    ASSUME Init
    PROVE  Typed /\ Order
  <1>1. Typed
    BY TypedInit
  <1>2. /\ run.status = "none" /\ run.error = "none" /\ run.continuation = NoContinuation
        /\ ex = Idle /\ hist.ran = <<>> /\ hist.owed = {}
    BY DEF Init
  <1>3. Ran = {}
    BY <1>2 DEF Ran, HasRun, ToSet
  <1>4. Now.ran = {} /\ Now.owed = {}
    BY <1>2, <1>3, LedIs
  <1>5. Stored(Now, NoContinuation)
    BY <1>4 DEF Stored, NoContinuation, Continuation
  <1>6. Underway(Now, Idle)
    BY DEF Underway, Idle
  <1>7. Chosen(Now) /\ RunsOnce /\ OnlyNodesFail
    BY <1>2, <1>4 DEF Chosen, RunsOnce, OnlyNodesFail
  <1> QED  BY <1>1, <1>2, <1>3, <1>5, <1>6, <1>7 DEF Order

\* Types and order hold in every state of a run.
LEMMA OrderInvariance == Spec => [](Typed /\ Order)
  <1> DEFINE J == Typed /\ Order
  <1>1. Init => J
    BY OrderInit
  <1>2. J /\ [Next]_vars => J'
    BY TypedStep, OrderStep
  <1> HIDE DEF J
  <1>3. Spec => []J
    BY <1>1, <1>2, PTL DEF Spec
  <1> QED  BY <1>3 DEF J

\* No node runs twice, over all the waits and approvals of a run, whatever the
\* graph: the key `${runId}:${node.id}` of its requests is used once.
THEOREM RunningOnce == Spec => []RunsOnce
  <1>1. Typed /\ Order => RunsOnce
    BY DEF Order
  <1> QED  BY <1>1, OrderInvariance, PTL

\* A run goes by the paths that its ports and decisions chose, to no failure of
\* the executor's own, and a run that succeeds has run all of them.
THEOREM Drawing == Spec => []RunsAsDrawn
  <1>1. Typed /\ Order => RunsAsDrawn
    <2> SUFFICES ASSUME Typed, Order
                 PROVE  RunsAsDrawn
      OBVIOUS
    <2>1. TypeOK /\ OnlyNodesFail /\ Chosen(Now)
      BY DEF Typed, Order
    <2>2. PathsFollowed
      <3>1. Ran \subseteq hist.owed \cup {Start}
        BY <2>1, LedIs DEF Chosen
      <3>2. run.status = "succeeded" => hist.owed \ hist.dropped \subseteq Ran
        BY LedIs DEF Order, Rest
      <3> QED  BY <3>1, <3>2 DEF PathsFollowed, Ran, Start
    <2>3. VisitedAreFinished
      <3> SUFFICES ASSUME run.status = "waiting"
                   PROVE  run.continuation.visited = Ran
        BY DEF VisitedAreFinished, Ran
      <3>1. ex.pc = "idle"
        BY DEF Typed, Phases
      <3> QED  BY <3>1, LedIs DEF Order, Stored
    <2> QED  BY <2>1, <2>2, <2>3 DEF RunsAsDrawn
  <1> QED  BY <1>1, OrderInvariance, PTL

-----------------------------------------------------------------------------
(* What the log and the canvas tell.                                       *)

\* What will have been told once the execution under way is stored.
Story == log \o ex.events

\* Events that tell some of what has run, and those that tell all of it.
Telling(events, ran) ==
    /\ \A i \in DOMAIN events : events[i].type \in Ends =>
          \E k \in DOMAIN ran : Tells(events[i], ran[k])
    /\ \A i, j \in DOMAIN events, k, l \in DOMAIN ran :
          Tells(events[i], ran[k]) /\ Tells(events[j], ran[l]) => (i < j <=> k < l)
    /\ \A i \in DOMAIN events, k, l \in DOMAIN ran :
          Tells(events[i], ran[l]) /\ k < l /\ ran[k].how \in Ends =>
              \E j \in DOMAIN events : Tells(events[j], ran[k])
TellingAll(events, ran) ==
    \A k \in DOMAIN ran : ran[k].how \in Ends => \E i \in DOMAIN events : Tells(events[i], ran[k])
Truthful ==
    /\ ex.pc = "idle" => ex.events = <<>>
    /\ run.status = "none" => log = <<>> /\ hist.ran = <<>>
    /\ Telling(log, hist.ran)
    /\ run.status # "cancelled" => Telling(Story, hist.ran) /\ TellingAll(Story, hist.ran)

\* An execution is aborted by a cancellation only.
Aborting ==
    ex.pc # "idle" /\ (aborted \/ ex.status = "cancelled") => run.status = "cancelled"

\* What a run waits for is what its node is there for, and nothing behind a node
\* whose decision is open has been chosen.
Suits(kind, until) ==
    /\ until = "timer" <=> kind = "control.wait"
    /\ until = "control" <=> kind = "control.approval"
    /\ until = "exec" => kind = "tool.exec"
Suitable == [timer |-> "control.wait", control |-> "control.approval", exec |-> "tool.exec"]
Suited(kinds, c) == c.kind \in {"timer", "control", "exec"} =>
    c.node \in DOMAIN kinds /\ kinds[c.node] = Suitable[c.kind]
Shuts(w, n, port) == Led(w, n, {port}) \cap (w.owed \cup {w.start}) = {}
Open(w, n) == Shuts(w, n, "approved") /\ Shuts(w, n, "rejected")
Undecided(w, c) == c.kind = "control" => Open(w, c.node)
Seen == {r.node : r \in ToSet(hist.ran)}
Waiting ==
    /\ Suited(graph.kind, run.continuation) /\ Suited(graph.kind, ex.continuation)
    /\ Undecided(Now, run.continuation) /\ Undecided(Now, ex.continuation)
    /\ ex.pc = "route" => /\ ex.outcome.returns /\ Suits(Kind, ex.outcome.until)
                          /\ ex.cur.node \in Seen
                          /\ ex.outcome.until = "control" => Open(Now, ex.cur.node)

\* The last that events tell of a node, if anything.
LastOf(events, n) == IF Told(events, n) = {} THEN "none" ELSE LastTold(events, n)

\* What the log tells of a node last: the decisions are final.
InLog(n) ==
    LET last == LastOf(log, n)
    IN  /\ last = "rejected" => /\ Shuts(Now, n, "approved")
                                /\ n \in Ran \/ run.status = "failed"
        /\ last = "approved" /\ graph.kind[n] = "control.approval" =>
               Shuts(Now, n, "rejected") /\ n \in Ran
        /\ last = "waiting" => \/ run.status = "waiting" /\ run.continuation.node = n
                               \/ run.status = "cancelled" \/ graph.kind[n] = "control.wait"
        /\ last = "failed" => run.status = "failed" /\ run.error = "node"
        /\ last = "finished" => graph.kind[n] # "control.approval"
        /\ last # "requested"

\* What it will have told once the execution is stored.
Next1(n) ==
    LET alone(q) == DOMAIN q = {1} /\ q[1].node = n
    IN  \/ /\ ex.pc = "idle" /\ run.status = "running"
           /\ run.continuation.kind = "ready" /\ alone(run.continuation.queue)
        \/ ex.pc = "loop" /\ alone(ex.queue)
At(n) == ex.cur.node = n /\ (ex.pc = "node" \/ (ex.pc = "route" /\ ex.outcome.until = "exec"))
Stands(n) == ex.pc = "done" /\ ex.status = "waiting" /\ ex.continuation.node = n
InStory(n) ==
    LET last == LastOf(Story, n)
    IN  /\ last # "none" <=> n \in Seen \/ (ex.pc = "node" /\ ex.cur.node = n)
        /\ last = "started" => At(n)
        /\ last = "finished" =>
               /\ n \in Ran
               /\ graph.kind[n] = "control.approval" => ex.pc = "route" /\ ex.cur.node = n
        /\ last = "approved" => n \in Ran \/ Next1(n)
        /\ last \in {"approved", "rejected"} => LastOf(log, n) = last
        /\ Stands(n) \/ (run.status = "waiting" /\ run.continuation.node = n) => last = "waiting"
        /\ last = "waiting" /\ ex.pc # "idle" => Stands(n) \/ graph.kind[n] = "control.wait"
        /\ last = "failed" /\ ex.pc # "idle" =>
               ex.pc = "done" /\ ex.status = "failed" /\ ex.error = "node"
        /\ last # "requested"
Shown ==
    /\ \A n \in NodesOf(graph) : InLog(n)
    /\ run.status # "cancelled" => \A n \in NodesOf(graph) : InStory(n)

Honest == Truthful /\ Aborting /\ Waiting /\ Shown

\* A set of numbers that has one has a least; and one up to n a greatest.
LEMMA Least ==
    ASSUME NEW S \in SUBSET Nat, S # {}
    PROVE  \E m \in S : \A i \in S : m <= i
  <1>1. PICK m \in S : \A i \in S : ~ (<<i, m>> \in OpToRel(<, Nat))
    BY WFMin, NatLessThanWellFounded
  <1>2. \A i \in S : <<i, m>> \in OpToRel(<, Nat) <=> i < m
    BY DEF OpToRel
  <1>3. \A i \in S : ~(i < m)
    BY <1>1, <1>2
  <1> QED  BY <1>3

LEMMA Greatest ==
    ASSUME NEW n \in Nat, NEW S \in SUBSET (1..n), S # {}
    PROVE  Max(S) \in S /\ \A i \in S : i <= Max(S)
  <1> DEFINE T == {n - i : i \in S}
             Top(m) == m \in S /\ \A i \in S : m >= i
  <1>1. T \in SUBSET Nat /\ T # {}
    <2>1. \A i \in S : i \in 1..n
      OBVIOUS
    <2>2. \A i \in 1..n : n - i \in Nat
      OBVIOUS
    <2> QED  BY <2>1, <2>2
  <1>2. PICK x \in T : \A y \in T : x <= y
    <2> HIDE DEF T
    <2> QED  BY <1>1, Least
  <1>3. PICK m \in S : x = n - m
    BY <1>2
  <1>4. ASSUME NEW i \in S
        PROVE  m >= i
    <2>1. n - m <= n - i
      BY <1>2, <1>3
    <2>2. m \in 1..n /\ i \in 1..n
      OBVIOUS
    <2> QED  BY <2>1, <2>2
  <1>5. Max(S) = CHOOSE m_1 : Top(m_1)
    BY DEF Max
  <1>6. Top(m)
    BY <1>4
  <1>7. Top(Max(S))
    BY <1>5, <1>6, Zenon
  <1>8. Max(S) \in 1..n /\ \A i \in S : i \in 1..n
    BY <1>7
  <1> QED  BY <1>7, <1>8

\* The events that say something of a node, and the last of them.
LEMMA LastIs ==
    ASSUME NEW L \in Seq(Events), NEW n
    PROVE  /\ LastOf(L, n) = "none" \/ LastOf(L, n) \in DOMAIN BadgeOf
           /\ LastOf(L, n) = "none" <=> Told(L, n) = {}
  <1>1. DOMAIN L = 1..Len(L) /\ Len(L) \in Nat
    BY LenProperties
  <1>2. Told(L, n) \in SUBSET (1..Len(L))
    BY <1>1 DEF Told
  <1>3. Told(L, n) # {} => Max(Told(L, n)) \in Told(L, n)
    BY <1>1, <1>2, Greatest
  <1>4. Told(L, n) # {} => LastTold(L, n) \in DOMAIN BadgeOf
    BY <1>3 DEF Told, LastTold
  <1>5. "none" \notin DOMAIN BadgeOf
    BY DEF BadgeOf
  <1> QED  BY <1>4, <1>5 DEF LastOf

LEMMA LastAppended ==
    ASSUME NEW L \in Seq(Events), NEW e \in Events
    PROVE  \A n : LastOf(Append(L, e), n) =
                IF e.node = n /\ e.type \in DOMAIN BadgeOf THEN e.type ELSE LastOf(L, n)
  <1> TAKE n
  <1> DEFINE M == Append(L, e)
             k == Len(L) + 1
             new == e.node = n /\ e.type \in DOMAIN BadgeOf
  <1>1. /\ DOMAIN L = 1..Len(L) /\ Len(L) \in Nat /\ DOMAIN M = 1..k /\ M[k] = e
        /\ \A i \in DOMAIN L : M[i] = L[i]
    BY Appended
  <1>2. /\ \A i \in 1..k : i \in 1..Len(L) \/ i = k
        /\ \A i \in 1..Len(L) : i \in 1..k /\ i < k
        /\ k \in 1..k /\ k \in Nat
    BY <1>1
  <1> HIDE DEF M, k
  <1>3. Told(M, n) = Told(L, n) \cup (IF new THEN {k} ELSE {})
    BY <1>1, <1>2 DEF Told
  <1>4. Told(L, n) \in SUBSET (1..Len(L)) /\ Told(M, n) \in SUBSET (1..k)
    BY <1>1 DEF Told
  <1>5. CASE new
    <2>1. k \in Told(M, n) /\ Told(M, n) # {}
      BY <1>3, <1>5
    <2>2. Max(Told(M, n)) \in 1..k /\ k <= Max(Told(M, n))
      BY <1>2, <1>4, <2>1, Greatest
    <2>3. Max(Told(M, n)) = k
      BY <1>1, <2>2 DEF k
    <2>4. LastOf(M, n) = e.type
      BY <1>1, <2>1, <2>3 DEF LastOf, LastTold
    <2> QED  BY <1>5, <2>4 DEF M
  <1>6. CASE ~new
    <2>1. Told(M, n) = Told(L, n)
      BY <1>3, <1>6
    <2>2. ASSUME Told(L, n) # {}
          PROVE  M[Max(Told(L, n))] = L[Max(Told(L, n))]
      <3>1. Max(Told(L, n)) \in Told(L, n)
        BY <1>1, <1>4, <2>2, Greatest
      <3> QED  BY <1>1, <1>4, <3>1
    <2>3. LastOf(M, n) = LastOf(L, n)
      BY <2>1, <2>2 DEF LastOf, LastTold
    <2> QED  BY <1>6, <2>3 DEF M
  <1> QED  BY <1>5, <1>6

LEMMA LastOfNone == \A n : LastOf(<<>>, n) = "none"
  BY DEF LastOf, Told

\* An event more that ends nothing; a node more of which no event tells; and
\* both together.
LEMMA EventTold ==
    ASSUME NEW L \in Seq(Events), NEW ran \in Seq(Runs), NEW e \in Events, e.type \notin Ends
    PROVE  /\ Telling(L, ran) => Telling(Append(L, e), ran)
           /\ TellingAll(L, ran) => TellingAll(Append(L, e), ran)
  <1> DEFINE M == Append(L, e)
             k == Len(L) + 1
  <1>1. /\ DOMAIN L = 1..Len(L) /\ Len(L) \in Nat /\ DOMAIN M = 1..k /\ M[k] = e
        /\ \A i \in DOMAIN L : M[i] = L[i]
    BY Appended
  <1>2. /\ \A i \in 1..k : i \in 1..Len(L) \/ i = k
        /\ \A i \in 1..Len(L) : i \in 1..k
    BY <1>1
  <1> HIDE DEF M, k
  <1>3. \A r : ~Tells(e, r)
    BY DEF Tells
  <1>4. \A i \in DOMAIN M : M[i].type \in Ends \/ (\E r : Tells(M[i], r)) => i \in DOMAIN L
    BY <1>1, <1>2, <1>3
  <1>5. \A i \in DOMAIN L : i \in DOMAIN M /\ M[i] = L[i]
    BY <1>1, <1>2
  <1>6. ASSUME Telling(L, ran)
        PROVE  Telling(M, ran)
    <2>1. \A i \in DOMAIN M : M[i].type \in Ends => \E m \in DOMAIN ran : Tells(M[i], ran[m])
      BY <1>4, <1>5, <1>6 DEF Telling
    <2>2. \A i, j \in DOMAIN M, m, l \in DOMAIN ran :
              Tells(M[i], ran[m]) /\ Tells(M[j], ran[l]) => (i < j <=> m < l)
      BY <1>4, <1>5, <1>6 DEF Telling
    <2>3. \A i \in DOMAIN M, m, l \in DOMAIN ran :
              Tells(M[i], ran[l]) /\ m < l /\ ran[m].how \in Ends =>
                  \E j \in DOMAIN M : Tells(M[j], ran[m])
      BY <1>4, <1>5, <1>6 DEF Telling
    <2> QED  BY <2>1, <2>2, <2>3 DEF Telling
  <1>7. TellingAll(L, ran) => TellingAll(M, ran)
    BY <1>5 DEF TellingAll
  <1> QED  BY <1>6, <1>7 DEF M

\* No node of which the events tell that it has ended is that of the run `r`.
Untold(ran, r) == \A k \in DOMAIN ran : ran[k].how \in Ends => ran[k].node # r.node

LEMMA RunTold ==
    ASSUME NEW L \in Seq(Events), NEW ran \in Seq(Runs), NEW r \in Runs,
           r.how \notin Ends \/ Untold(ran, r), Telling(L, ran)
    PROVE  /\ Telling(L, Append(ran, r))
           /\ TellingAll(L, ran) /\ r.how \notin Ends => TellingAll(L, Append(ran, r))
  <1> DEFINE s == Append(ran, r)
             k == Len(ran) + 1
  <1>1. /\ DOMAIN ran = 1..Len(ran) /\ Len(ran) \in Nat /\ DOMAIN s = 1..k /\ s[k] = r
        /\ \A i \in DOMAIN ran : s[i] = ran[i]
    BY Appended
  <1>2. /\ \A i \in 1..k : i \in 1..Len(ran) \/ i = k
        /\ \A i \in 1..Len(ran) : i \in 1..k
        /\ \A i \in 1..Len(ran), j \in 1..k : j < i => j \in 1..Len(ran)
    BY <1>1
  <1> HIDE DEF s, k
  <1>3. \A i \in DOMAIN L : ~Tells(L[i], r)
    <2> TAKE i \in DOMAIN L
    <2>1. L[i].type \in Ends => \E m \in DOMAIN ran : Tells(L[i], ran[m])
      BY DEF Telling
    <2> QED  BY <2>1 DEF Tells, Untold
  <1>4. \A i \in DOMAIN L, m \in DOMAIN s : Tells(L[i], s[m]) => m \in DOMAIN ran
    BY <1>1, <1>2, <1>3
  <1>5. \A m \in DOMAIN ran : m \in DOMAIN s /\ s[m] = ran[m]
    BY <1>1, <1>2
  <1>6. Telling(L, s)
    <2>1. \A i \in DOMAIN L : L[i].type \in Ends => \E m \in DOMAIN s : Tells(L[i], s[m])
      BY <1>5 DEF Telling
    <2>2. \A i, j \in DOMAIN L, m, l \in DOMAIN s :
              Tells(L[i], s[m]) /\ Tells(L[j], s[l]) => (i < j <=> m < l)
      BY <1>4, <1>5 DEF Telling
    <2>3. \A i \in DOMAIN L, m, l \in DOMAIN s :
              Tells(L[i], s[l]) /\ m < l /\ s[m].how \in Ends =>
                  \E j \in DOMAIN L : Tells(L[j], s[m])
      <3> TAKE i \in DOMAIN L, m \in DOMAIN s, l \in DOMAIN s
      <3> HAVE Tells(L[i], s[l]) /\ m < l /\ s[m].how \in Ends
      <3>1. l \in DOMAIN ran /\ m \in DOMAIN ran
        BY <1>1, <1>2, <1>4
      <3> QED  BY <1>5, <3>1 DEF Telling
    <2> QED  BY <2>1, <2>2, <2>3 DEF Telling
  <1>7. ASSUME TellingAll(L, ran), r.how \notin Ends
        PROVE  TellingAll(L, s)
    <2>1. \A m \in DOMAIN s : s[m].how \in Ends => m \in DOMAIN ran
      BY <1>1, <1>2, <1>7
    <2> QED  BY <1>5, <1>7, <2>1 DEF TellingAll
  <1> QED  BY <1>6, <1>7 DEF s

LEMMA BothTold ==
    ASSUME NEW L \in Seq(Events), NEW ran \in Seq(Runs), NEW e \in Events, NEW r \in Runs,
           Tells(e, r), Untold(ran, r), Telling(L, ran), TellingAll(L, ran)
    PROVE  Telling(Append(L, e), Append(ran, r)) /\ TellingAll(Append(L, e), Append(ran, r))
  <1> DEFINE M == Append(L, e)
             a == Len(L) + 1
             s == Append(ran, r)
             b == Len(ran) + 1
  <1>1. /\ DOMAIN L = 1..Len(L) /\ Len(L) \in Nat /\ DOMAIN M = 1..a /\ M[a] = e
        /\ \A i \in DOMAIN L : M[i] = L[i]
    BY Appended
  <1>2. /\ DOMAIN ran = 1..Len(ran) /\ Len(ran) \in Nat /\ DOMAIN s = 1..b /\ s[b] = r
        /\ \A i \in DOMAIN ran : s[i] = ran[i]
    BY Appended
  <1>3. /\ \A i \in DOMAIN M : i \in DOMAIN L \/ i = a
        /\ \A i \in DOMAIN L : i \in DOMAIN M /\ i < a /\ ~(a < i)
        /\ a \in DOMAIN M /\ ~(a < a)
    BY <1>1
  <1>4. /\ \A m \in DOMAIN s : m \in DOMAIN ran \/ m = b
        /\ \A m \in DOMAIN ran : m \in DOMAIN s /\ m < b /\ ~(b < m)
        /\ b \in DOMAIN s /\ ~(b < b)
    BY <1>2
  <1> HIDE DEF M, a, s, b
  <1>5. \A i \in DOMAIN L : ~Tells(L[i], r)
    <2> TAKE i \in DOMAIN L
    <2>1. L[i].type \in Ends => \E m \in DOMAIN ran : Tells(L[i], ran[m])
      BY DEF Telling
    <2> QED  BY <2>1 DEF Tells, Untold
  <1>6. \A m \in DOMAIN ran : ~Tells(e, ran[m])
    BY DEF Tells, Untold
  <1>7. \A i \in DOMAIN M, m \in DOMAIN s : Tells(M[i], s[m]) =>
            \/ i = a /\ m = b
            \/ i \in DOMAIN L /\ m \in DOMAIN ran /\ Tells(L[i], ran[m])
    BY <1>1, <1>2, <1>3, <1>4, <1>5, <1>6
  <1>8. \A i \in DOMAIN L, m \in DOMAIN ran : Tells(L[i], ran[m]) => Tells(M[i], s[m])
    BY <1>1, <1>2
  <1>9. Tells(M[a], s[b])
    BY <1>1, <1>2
  <1>10. TellingAll(M, s)
    <2> SUFFICES ASSUME NEW m \in DOMAIN s, s[m].how \in Ends
                 PROVE  \E i \in DOMAIN M : Tells(M[i], s[m])
      BY DEF TellingAll
    <2>1. CASE m = b
      BY <1>3, <1>9, <2>1
    <2>2. CASE m \in DOMAIN ran
      <3>1. PICK i \in DOMAIN L : Tells(L[i], ran[m])
        BY <1>2, <2>2 DEF TellingAll
      <3> QED  BY <1>3, <1>8, <2>2, <3>1
    <2> QED  BY <1>4, <2>1, <2>2
  <1>11. \A i \in DOMAIN M : M[i].type \in Ends => \E m \in DOMAIN s : Tells(M[i], s[m])
    <2> SUFFICES ASSUME NEW i \in DOMAIN M, M[i].type \in Ends
                 PROVE  \E m \in DOMAIN s : Tells(M[i], s[m])
      OBVIOUS
    <2>1. CASE i = a
      BY <1>4, <1>9, <2>1
    <2>2. CASE i \in DOMAIN L
      <3>1. PICK m \in DOMAIN ran : Tells(L[i], ran[m])
        BY <1>1, <2>2 DEF Telling
      <3> QED  BY <1>4, <1>8, <2>2, <3>1
    <2> QED  BY <1>3, <2>1, <2>2
  <1>12. ASSUME NEW i \in DOMAIN M, NEW j \in DOMAIN M, NEW m \in DOMAIN s, NEW l \in DOMAIN s,
                Tells(M[i], s[m]), Tells(M[j], s[l])
         PROVE  i < j <=> m < l
    <2>1. CASE i = a /\ m = b /\ j = a /\ l = b
      BY <1>3, <1>4, <2>1
    <2>2. CASE i = a /\ m = b /\ j \in DOMAIN L /\ l \in DOMAIN ran
      BY <1>3, <1>4, <2>2
    <2>3. CASE j = a /\ l = b /\ i \in DOMAIN L /\ m \in DOMAIN ran
      BY <1>3, <1>4, <2>3
    <2>4. CASE /\ i \in DOMAIN L /\ m \in DOMAIN ran /\ Tells(L[i], ran[m])
               /\ j \in DOMAIN L /\ l \in DOMAIN ran /\ Tells(L[j], ran[l])
      BY <2>4 DEF Telling
    <2> QED  BY <1>7, <1>12, <2>1, <2>2, <2>3, <2>4
  <1>13. \A i \in DOMAIN M, m, l \in DOMAIN s :
              Tells(M[i], s[l]) /\ m < l /\ s[m].how \in Ends =>
                  \E j \in DOMAIN M : Tells(M[j], s[m])
    BY <1>10 DEF TellingAll
  <1>14. Telling(M, s)
    BY <1>11, <1>12, <1>13 DEF Telling
  <1> QED  BY <1>10, <1>14 DEF M, s

\* The handlers that ask for nothing.
Instant(S) == \A o \in S : o.until = "none"

LEMMA CallsInstant ==
    /\ Instant({}) /\ Instant(Pure) /\ Instant(Answers) /\ Instant(Called)
    /\ \A b : Instant({RelayedAbort(b)}) /\ Instant({Fails(b)})
    /\ \A b, P : Instant({Returns(P, b)})
    /\ \A S : Instant(S) => Instant(WithFallback(S))
  <1>1. /\ \A b, P : Returns(P, b).until = "none"
        /\ \A b : Fails(b).until = "none" /\ RelayedAbort(b).until = "none"
        /\ \A b : [Fails(b) EXCEPT !.offline = TRUE].until = "none"
        /\ \A b : [Returns({"out"}, b) EXCEPT !.offline = TRUE].until = "none"
    BY DEF Returns, Fails, RelayedAbort
  <1>2. Instant(Pure) /\ Instant(Answers)
    BY <1>1 DEF Instant, Pure, Answers
  <1>3. Instant(Called)
    BY <1>1, <1>2 DEF Instant, Called, Cut
  <1>4. \A S : Instant(S) => Instant(WithFallback(S))
    BY <1>1 DEF Instant, WithFallback
  <1> QED  BY <1>1, <1>2, <1>3, <1>4 DEF Instant

\* What an outcome waits for is what its node is there for.
LEMMA Suiting ==
    ASSUME NEW k, NEW granted, NEW abort, NEW o \in NodeOutcomes(k, granted, abort), o.returns
    PROVE  Suits(k, o.until)
  <1>1. Instant(LogicSteps(k))
    BY CallsInstant DEF LogicSteps, Trigger, Branch, Instant
  <1>2. /\ Instant(RunOpenClawAgent(abort)) /\ Instant(RunOpenClawSkill(abort))
        /\ Instant(SendOpenClawChannelReply)
    BY CallsInstant DEF RunOpenClawAgent, RunOpenClawSkill, SendOpenClawChannelReply, Instant
  <1>3. Instant(AgentSteps(k, abort))
    BY <1>2, CallsInstant DEF AgentSteps, Agent, AgentSend, Skill, Instant
  <1>4. Instant(FetchSteps(k))
    BY CallsInstant DEF FetchSteps, Http, Browser, WebSearch
  <1>5. Instant(MessageSteps(k))
    BY <1>2, CallsInstant DEF MessageSteps, Shape, ChannelReply, ChannelRoute, Instant
  <1>6. Instant(ReportSteps(k))
    BY CallsInstant DEF ReportSteps, Log, Usage
  <1>7. Instant(ContextSteps(k))
    BY CallsInstant DEF ContextSteps, ThreadBind, MemoryWrite, MemoryQuery, Instant
  <1>8. /\ Fails(FALSE).returns = FALSE /\ Waits({"out"}, "timer").until = "timer"
        /\ Waits({"out"}, "exec").until = "exec"
        /\ Waits({"approved", "rejected"}, "control").until = "control"
    BY DEF Fails, Waits, Returns
  <1>9. \A x \in WaitingSteps(k) : x.returns =>
            \/ k = "control.wait" /\ x.until = "timer"
            \/ k = "control.approval" /\ x.until = "control"
            \/ k = "control.approval-off" /\ x.until = "none"
    BY <1>8, CallsInstant DEF WaitingSteps, Wait, Approval, Instant
  <1>10. \A x \in ToolSteps(k, granted) : x.returns =>
            /\ k \in {"tool.youtube-transcript", "tool.transcriptapi", "tool.exec",
                      "tool.exec-trusted"}
            /\ x.until = "none" \/ (k = "tool.exec" /\ x.until = "exec")
    <2>1. Instant(YouTubeTranscript) /\ Instant(TranscriptApi)
      BY CallsInstant DEF YouTubeTranscript, TranscriptApi, Instant
    <2>2. \A g : Instant(Exec(TRUE, g))
      BY CallsInstant DEF Exec
    <2>3. \A x \in Exec(FALSE, granted) : x.returns => x.until \in {"none", "exec"}
      BY <1>8, CallsInstant DEF Exec, Instant
    <2> QED  BY <2>1, <2>2, <2>3 DEF ToolSteps, Instant
  <1>11. k \notin {"control.wait", "control.approval"} \/ o \in WaitingSteps(k)
    BY DEF NodeOutcomes, LogicSteps, Triggers, AgentSteps, FetchSteps, ToolSteps, MessageSteps,
           ReportSteps, ContextSteps
  <1>12. \/ o.until = "none" \/ o \in WaitingSteps(k) \/ o \in ToolSteps(k, granted)
    BY <1>1, <1>3, <1>4, <1>5, <1>6, <1>7, <1>8 DEF NodeOutcomes, Instant
  <1> QED  BY <1>9, <1>10, <1>11, <1>12 DEF Suits

\* Different nodes, and different ports of a node, lead to different nodes.
LEMMA TargetsApart ==
    ASSUME Drawn, Valid(graph), NEW m, NEW n, NEW P, NEW Q, m # n \/ P \cap Q = {}
    PROVE  Targets(m, P) \cap Targets(n, Q) = {}
  <1> SUFFICES ASSUME NEW i \in Behind(m, P), NEW j \in Behind(n, Q),
                      graph.edges[i].target = graph.edges[j].target
               PROVE  FALSE
    BY DEF Targets
  <1>1. i = j
    BY OneIncoming DEF Behind
  <1> QED  BY <1>1 DEF Behind

\* The types of what is told, and how the story grows.
LEMMA StoryTyped ==
    ASSUME Typed
    PROVE  /\ log \in Seq(Events) /\ ex.events \in Seq(Events) /\ Story \in Seq(Events)
           /\ hist.ran \in Seq(Runs) /\ ex \in Execs /\ run \in Rows /\ hist \in Pasts
  <1>1. log \in Seq(Events) /\ ex \in Execs /\ run \in Rows /\ hist \in Pasts
    BY TypeIs DEF Typed
  <1>2. ex.events \in Seq(Events) /\ hist.ran \in Seq(Runs)
    BY <1>1 DEF Execs, Pasts
  <1> QED  BY <1>1, <1>2 DEF Story

LEMMA StoryGrows ==
    ASSUME NEW L \in Seq(Events), NEW E \in Seq(Events)
    PROVE  /\ L \o <<>> = L
           /\ \A e \in Events : L \o Append(E, e) = Append(L \o E, e)
           /\ \A e \in Events : E \o <<e>> = Append(E, e)
  <1>1. L \o <<>> = L
    BY ConcatEmptySeq
  <1>2. \A e \in Events : E \o <<e>> = Append(E, e)
    BY AppendIsConcat
  <1>3. ASSUME NEW e \in Events
        PROVE  L \o Append(E, e) = Append(L \o E, e)
    <2>1. <<e>> \in Seq(Events) /\ L \o E \in Seq(Events)
      BY <1>3
    <2>2. Append(E, e) = E \o <<e>> /\ Append(L \o E, e) = (L \o E) \o <<e>>
      BY <2>1, AppendIsConcat
    <2>3. (L \o E) \o <<e>> = L \o (E \o <<e>>)
      BY <2>1, ConcatAssociative
    <2> QED  BY <2>2, <2>3
  <1> QED  BY <1>1, <1>2, <1>3

\* What the steps do, as far as it is told: a node runs,
LEMMA NodeDoes ==
    ASSUME Typed, RunNode
    PROVE  \E o \in NodeOutcomes(Kind, Granted, aborted),
             how \in {"finished", "asked", "failed", "aborted"}, E \in Seq(Events) :
             LET n == ex.cur.node
                 r == RanAs(how, o)
             IN  /\ r \in Runs /\ r.node = n /\ r.how = how /\ hist'.ran = Append(hist.ran, r)
                 /\ E = ex.events \/ E = Append(ex.events, Event("delegated", n))
                 /\ \/ /\ how = "asked" /\ o.returns /\ o.until = "exec"
                       /\ ex'.events = E /\ hist'.owed = hist.owed
                    \/ /\ how = "finished" /\ o.returns /\ o.until # "exec"
                       /\ ex'.events = Append(E, Event("finished", n))
                       /\ \/ o.until = "control" /\ hist'.owed = hist.owed
                          \/ o.until # "control" /\ hist'.owed = hist.owed \cup Targets(n, o.ports)
                    \/ how = "aborted" /\ ~o.returns /\ aborted /\ hist'.owed = hist.owed
                    \/ /\ how = "failed" /\ ~o.returns /\ ~aborted /\ hist'.owed = hist.owed
                       /\ ex'.events = Append(ex.events, Event("failed", n))
                       /\ ex'.status = "failed" /\ ex'.error = "node"
                 /\ IF o.returns THEN ex'.pc = "route" /\ ex'.outcome = o /\ ex'.status = ex.status
                    ELSE ex'.pc = "done" /\ ex'.status \in {"cancelled", "failed"}
                 /\ ex'.cur = ex.cur /\ ex'.queue = ex.queue /\ ex'.continuation = ex.continuation
  <1> DEFINE n == ex.cur.node
  <1>1. PICK o \in NodeOutcomes(Kind, Granted, aborted) : NodeReturns(o) \/ NodeThrows(o)
    BY DEF RunNode
  <1>2. /\ o \in Outcomes /\ o.effect \in BOOLEAN
        /\ o.until \in {"none", "timer", "control", "exec"}
    BY <1>1, OutcomeFacts DEF Outcomes
  <1>3. ex \in Execs /\ hist \in Pasts /\ ex.events \in Seq(Events)
    BY StoryTyped
  <1>4. n \in Names /\ graph.command \in Commands
    BY GraphNames, TypeIs DEF Typed, Phases, RunNode
  <1>5. \A how \in {"finished", "asked", "failed", "aborted"} :
            RanAs(how, o) \in Runs /\ RanAs(how, o).node = n /\ RanAs(how, o).how = how
    BY <1>2, <1>4 DEF Runs, RanAs
  <1>6. ASSUME NEW how, NEW owed, Remember(how, o.effect, owed)
        PROVE  hist'.ran = Append(hist.ran, RanAs(how, o)) /\ hist'.owed = hist.owed \cup owed
    <2>1. hist' = [hist EXCEPT !.ran = Append(@, RanAs(how, o)), !.owed = @ \cup owed]
      BY <1>6 DEF Remember, RanAs
    <2> QED  BY <1>3, <2>1 DEF Pasts
  <1>7. \A t \in {"finished", "failed", "delegated"} : Event(t, n) \in Events
    BY <1>4, NamedTyped
  <1>8. CASE NodeReturns(o)
    <2> DEFINE E == ex.events \o Delegations
               added == IF o.until = "exec" THEN <<>> ELSE <<Event("finished", n)>>
               how == IF o.until = "exec" THEN "asked" ELSE "finished"
               owed == IF o.until \in {"control", "exec"} THEN {} ELSE Targets(n, o.ports)
    <2>1. o.returns /\ Remember(how, o.effect, owed)
          /\ ex' = [ex EXCEPT !.pc = "route", !.outcome = o, !.events = E \o added]
      BY <1>8 DEF NodeReturns
    <2> DEFINE evs == E \o added
    <2>2. /\ ex'.pc = "route" /\ ex'.outcome = o /\ ex'.events = evs /\ ex'.cur = ex.cur
          /\ ex'.queue = ex.queue /\ ex'.continuation = ex.continuation /\ ex'.status = ex.status
      <3>1. ex' = [ex EXCEPT !.pc = "route", !.outcome = o, !.events = evs]
        BY <2>1
      <3> HIDE DEF evs
      <3> QED  BY <1>3, <3>1 DEF Execs
    <2>3. E \in Seq(Events) /\ (E = ex.events \/ E = Append(ex.events, Event("delegated", n)))
      <3>1. CASE Kind = "action.agent-send"
        <4>1. E = ex.events \o <<Event("delegated", n)>>
          BY <3>1 DEF Delegations
        <4>2. Append(ex.events, Event("delegated", n)) \in Seq(Events)
          BY <1>3, <1>7, Appended
        <4> QED  BY <1>3, <1>7, <4>1, <4>2, StoryGrows
      <3>2. CASE Kind # "action.agent-send"
        <4>1. E = ex.events \o <<>>
          BY <3>2 DEF Delegations
        <4> QED  BY <1>3, <4>1, StoryGrows
      <3> QED  BY <3>1, <3>2
    <2> HIDE DEF E
    <2>4. E \o added = IF o.until = "exec" THEN E ELSE Append(E, Event("finished", n))
      BY <1>7, <2>3, StoryGrows
    <2>5. hist'.ran = Append(hist.ran, RanAs(how, o)) /\ hist'.owed = hist.owed \cup owed
      BY <1>6, <2>1
    <2>6. CASE o.until = "exec"
      BY <1>5, <2>1, <2>2, <2>3, <2>4, <2>5, <2>6
    <2>7. CASE o.until # "exec"
      BY <1>5, <2>1, <2>2, <2>3, <2>4, <2>5, <2>7
    <2> QED  BY <2>6, <2>7
  <1>9. CASE NodeThrows(o) /\ aborted
    <2>1. ~o.returns /\ Remember("aborted", o.effect, {})
          /\ ex' = [ex EXCEPT !.pc = "done", !.status = "cancelled",
                              !.events = @ \o RelayEvents(o)]
      BY <1>9 DEF NodeThrows
    <2> DEFINE evs == ex.events \o RelayEvents(o)
    <2>2. /\ ex'.pc = "done" /\ ex'.status = "cancelled" /\ ex'.cur = ex.cur
          /\ ex'.queue = ex.queue /\ ex'.continuation = ex.continuation
      <3>1. ex' = [ex EXCEPT !.pc = "done", !.status = "cancelled", !.events = evs]
        BY <2>1
      <3> HIDE DEF evs
      <3> QED  BY <1>3, <3>1 DEF Execs
    <2>3. hist'.ran = Append(hist.ran, RanAs("aborted", o)) /\ hist'.owed = hist.owed \cup {}
      <3> HIDE DEF evs
      <3> QED  BY <1>6, <2>1
    <2> QED  BY <1>3, <1>5, <1>9, <2>1, <2>2, <2>3
  <1>10. CASE NodeThrows(o) /\ ~aborted
    <2>1. ~o.returns /\ Remember("failed", o.effect, {})
          /\ ex' = [ex EXCEPT !.pc = "done", !.status = "failed", !.error = "node",
                              !.events = Append(@, Event("failed", n))]
      BY <1>10 DEF NodeThrows
    <2> DEFINE evs == Append(ex.events, Event("failed", n))
    <2>2. /\ ex'.pc = "done" /\ ex'.status = "failed" /\ ex'.error = "node" /\ ex'.cur = ex.cur
          /\ ex'.queue = ex.queue /\ ex'.continuation = ex.continuation /\ ex'.events = evs
      <3>1. ex' = [ex EXCEPT !.pc = "done", !.status = "failed", !.error = "node",
                             !.events = evs]
        BY <2>1
      <3> HIDE DEF evs
      <3> QED  BY <1>3, <3>1 DEF Execs
    <2>3. hist'.ran = Append(hist.ran, RanAs("failed", o)) /\ hist'.owed = hist.owed \cup {}
      <3> HIDE DEF evs
      <3> QED  BY <1>6, <2>1
    <2> QED  BY <1>3, <1>5, <1>10, <2>1, <2>2, <2>3
  <1> QED  BY <1>1, <1>8, <1>9, <1>10

\* the execution goes on behind it or begins to wait,
LEMMA RouteDoes ==
    ASSUME Typed, Order, Route
    PROVE  LET n == ex.cur.node
               until == ex.outcome.until
           IN  /\ ex.pc = "route" /\ ~aborted /\ UNCHANGED <<graph, run, log, aborted>>
               /\ hist'.ran = hist.ran /\ hist'.owed = hist.owed
               /\ \/ /\ until = "none" /\ ex'.pc = "loop" /\ ex'.events = ex.events
                     /\ ex'.continuation = ex.continuation /\ ex'.status = ex.status
                  \/ /\ ex'.pc = "done" /\ ex'.status = "waiting"
                     /\ ex'.continuation.kind = until /\ ex'.continuation.node = n
                     /\ \/ until = "timer" /\ ex'.events = Append(ex.events, Event("waiting", n))
                        \/ /\ until \in {"control", "exec"}
                           /\ ex'.events = Append(Append(ex.events, Event("requested", n)),
                                                  Event("waiting", n))
  <1> DEFINE n == ex.cur.node
             items == QueuedItems(ex.cur, ex.outcome.ports)
  <1>1. /\ ex.pc = "route" /\ ~aborted /\ UNCHANGED <<graph, run, log, aborted>>
        /\ ex \in Execs /\ hist \in Pasts /\ ex.events \in Seq(Events)
    BY StoryTyped DEF Route
  <1>2. ~ReEnters(ex.cur, ex.outcome.ports)
    <2>1. AtRoute(Now, ex)
      BY <1>1 DEF Order, Underway
    <2> QED  BY <2>1, LedIs DEF AtRoute, Ahead, ReEnters
  <1>3. GoOn(items) \/ WaitForTimer(items) \/ WaitForDecision
    BY <1>2 DEF Route
  <1>4. \A t \in {"waiting", "requested"} : Event(t, n) \in Events
    BY <1>1, CurrentNode, NamedTyped
  <1>5. CASE GoOn(items)
    BY <1>1, <1>5 DEF GoOn, Execs
  <1>6. CASE WaitForTimer(items)
    BY <1>1, <1>6 DEF WaitForTimer, Execs, Continuation
  <1>7. CASE WaitForDecision
    <2> DEFINE a == Event("requested", n)
               b == Event("waiting", n)
    <2>1. ex.events \o <<a, b>> = Append(Append(ex.events, a), b)
      <3>1. <<a, b>> = Append(<<a>>, b) /\ <<a>> \in Seq(Events)
        BY <1>4
      <3>2. ex.events \o Append(<<a>>, b) = Append(ex.events \o <<a>>, b)
        BY <1>1, <1>4, <3>1, StoryGrows
      <3>3. ex.events \o <<a>> = Append(ex.events, a)
        BY <1>1, <1>4, StoryGrows
      <3> QED  BY <3>1, <3>2, <3>3
    <2>2. hist'.ran = hist.ran /\ hist'.owed = hist.owed
      BY <1>1, <1>7 DEF WaitForDecision, Pasts
    <2>3. ex.outcome.until \in {"control", "exec"} /\ ex'.pc = "done" /\ ex'.status = "waiting"
          /\ ex'.events = ex.events \o <<a, b>>
      BY <1>1, <1>7 DEF WaitForDecision, Execs
    <2>4. ex'.continuation.kind = ex.outcome.until /\ ex'.continuation.node = n
      BY <1>1, <1>7 DEF WaitForDecision, Execs, Continuation
    <2> QED  BY <1>1, <2>1, <2>2, <2>3, <2>4
  <1> QED  BY <1>3, <1>5, <1>6, <1>7

\* what the execution came to is stored,
LEMMA FinalizeDoes ==
    ASSUME Typed, Finalize
    PROVE  /\ ex.pc = "done" /\ ex' = Idle /\ ex'.pc = "idle" /\ ex'.events = <<>>
           /\ ex'.status = "running" /\ ex'.continuation.kind = "null"
           /\ UNCHANGED <<graph, aborted, hist>>
           /\ \/ run.status = "cancelled" /\ UNCHANGED <<log, run>>
              \/ /\ run.status = "running" /\ log' = Story
                 /\ run'.status = ex.status /\ run'.error = ex.error
                 /\ run'.continuation = ex.continuation /\ run'.trigger = run.trigger
                 /\ ex.status \in {"waiting", "succeeded", "failed", "cancelled"}
  <1>1. /\ run \in Rows /\ run.status \in {"running", "cancelled"} /\ ex.pc = "done"
        /\ ex.status \in {"waiting", "succeeded", "failed", "cancelled"}
    BY StoryTyped DEF Typed, Phases, Finalize
  <1> QED  BY <1>1, NothingTyped DEF Finalize, Rows, Story, Idle

\* a decision is recorded or a timer is over,
Closes(d) ==
    LET c == run.continuation
    IN  /\ c.kind \in {"control", "exec"} /\ log' = Append(log, Event(d, c.node))
        /\ hist'.owed = Decided(d)
        /\ \/ /\ d = "approved" \/ c.kind = "control"
              /\ run'.status = "running" /\ run'.continuation.kind = "ready"
              /\ run'.continuation.queue = IF d = "approved" THEN c.yes ELSE c.no
           \/ /\ d = "rejected" /\ c.kind = "exec" /\ run'.status = "failed"
              /\ run'.error = "rejected" /\ run'.continuation.kind = "null"

LEMMA DecisionDoes ==
    ASSUME Typed, ResumeWaiting \/ \E d \in {"approved", "rejected"} : Decide(d)
    PROVE  /\ run.status = "waiting" /\ ex.pc = "idle" /\ UNCHANGED <<graph, ex, aborted>>
           /\ run'.trigger = run.trigger /\ hist'.ran = hist.ran
           /\ \/ /\ run.continuation.kind = "timer" /\ log' = log /\ hist' = hist
                 /\ run'.status = "running" /\ run'.continuation.kind = "ready"
              \/ \E d \in {"approved", "rejected"} : Closes(d)
  <1> DEFINE c == run.continuation
  <1>1. /\ run.status = "waiting" /\ UNCHANGED <<graph, ex, aborted>> /\ run \in Rows
        /\ hist \in Pasts
    BY StoryTyped DEF ResumeWaiting, Decide
  <1>2. ex.pc = "idle" /\ c.kind \in {"timer", "control", "exec"}
    BY <1>1 DEF Typed, Phases, TypeOK
  <1>3. ASSUME NEW q, Resume(q)
        PROVE  /\ run'.status = "running" /\ run'.trigger = run.trigger
               /\ run'.continuation.kind = "ready" /\ run'.continuation.queue = q
    BY <1>1, <1>3 DEF Resume, Rows, Ready, Continuation
  <1>4. ASSUME NEW d \in {"approved", "rejected"}, c.kind \in {"control", "exec"},
               IF d = "approved" THEN Resume(c.yes) ELSE Refuse, Record(d), hist'.ran = hist.ran,
               hist'.owed = Decided(d)
        PROVE  Closes(d) /\ run'.trigger = run.trigger
    <2>1. CASE d = "approved"
      BY <1>3, <1>4, <2>1 DEF Closes, Record
    <2>2. CASE d = "rejected" /\ c.kind = "control"
      <3>1. Resume(c.no)
        BY <1>4, <2>2 DEF Refuse
      <3> QED  BY <1>3, <1>4, <2>2, <3>1 DEF Closes, Record
    <2>3. CASE d = "rejected" /\ c.kind = "exec"
      <3>1. run' = [run EXCEPT !.status = "failed", !.error = "rejected",
                               !.continuation = NoContinuation]
        BY <1>4, <2>3 DEF Refuse
      <3>2. /\ run'.status = "failed" /\ run'.error = "rejected" /\ run'.trigger = run.trigger
            /\ run'.continuation.kind = "null"
        BY <1>1, <3>1, NothingTyped DEF Rows
      <3> QED  BY <1>4, <2>3, <3>2 DEF Closes, Record
    <2> QED  BY <1>4, <2>1, <2>2, <2>3
  <1>5. CASE ResumeWaiting /\ c.kind = "timer"
    BY <1>1, <1>2, <1>3, <1>5 DEF ResumeWaiting
  <1>6. CASE ResumeWaiting /\ c.kind # "timer"
    <2>1. Refuse /\ Record("rejected") /\ hist' = [hist EXCEPT !.owed = Decided("rejected")]
      BY <1>6 DEF ResumeWaiting
    <2>2. hist'.ran = hist.ran /\ hist'.owed = Decided("rejected")
      BY <1>1, <2>1 DEF Pasts
    <2> QED  BY <1>1, <1>2, <1>4, <1>6, <2>1, <2>2
  <1>7. ASSUME NEW d \in {"approved", "rejected"}, Decide(d)
        PROVE  Closes(d) /\ run'.trigger = run.trigger /\ hist'.ran = hist.ran
    <2>1. /\ c.kind \in {"control", "exec"} /\ Record(d)
          /\ IF d = "approved" THEN Resume(c.yes) ELSE Refuse
      BY <1>7 DEF Decide
    <2>2. hist'.ran = hist.ran /\ hist'.owed = Decided(d)
      BY <1>1, <1>7 DEF Decide, Pasts
    <2> QED  BY <1>4, <2>1, <2>2
  <1> QED  BY <1>1, <1>2, <1>5, <1>6, <1>7

\* and of what is told nothing in all the other steps.
Silent == Begin \/ StopCancelled \/ Succeed \/ Cancel \/ PollAbort \/ Overwrite
          \/ (\E trigger \in Launches : Launch(trigger)) \/ UNCHANGED vars

LEMMA StepKinds ==
    ASSUME [Next]_vars
    PROVE  \/ Silent \/ TakeNode \/ RunNode \/ Route \/ Finalize
           \/ ResumeWaiting \/ \E d \in {"approved", "rejected"} : Decide(d)
  BY DEF Next, Execute, Silent

\* An execution is aborted by a cancellation only.
LEMMA AbortingStep ==
    ASSUME Typed, Order, Aborting, [Next]_vars
    PROVE  Aborting'
  <1>1. ex \in Execs /\ run \in Rows /\ (ex.pc # "idle" => run.status \in {"running", "cancelled"})
    BY StoryTyped DEF Typed, Phases
  <1>2. CASE Begin
    <2>1. run' = run /\ aborted' = FALSE /\ ex'.status # "cancelled"
      BY <1>2 DEF Begin, Idle
    <2> QED  BY <2>1 DEF Aborting
  <1>3. CASE StopCancelled
    BY <1>1, <1>3 DEF StopCancelled, Aborting
  <1>4. CASE Succeed
    BY <1>1, <1>4 DEF Succeed, Stop, Execs, Aborting
  <1>5. CASE TakeNode
    <2>1. /\ ex.pc = "loop" /\ UNCHANGED <<run, aborted>> /\ ~aborted
          /\ ex'.status = ex.status \/ ex'.status = "failed"
      BY <1>1, <1>5 DEF TakeNode, Stop, Execs
    <2> QED  BY <2>1 DEF Aborting
  <1>6. CASE Cancel
    BY <1>1, <1>6 DEF Cancel, Rows, Aborting
  <1>7. CASE PollAbort
    BY <1>7 DEF PollAbort, Aborting
  <1>8. CASE Overwrite \/ UNCHANGED vars
    BY <1>8 DEF Overwrite, vars, Aborting
  <1>9. CASE \E trigger \in Launches : Launch(trigger)
    BY <1>1, <1>9 DEF Launch, Rows, Aborting
  <1>10. CASE RunNode
    <2>1. ex.pc = "node" /\ UNCHANGED <<run, aborted>>
      BY <1>10 DEF RunNode
    <2>2. ex'.status = ex.status \/ (aborted /\ run.status = "cancelled") \/ ex'.status = "failed"
      BY <1>10, <2>1, NodeDoes DEF Aborting
    <2> QED  BY <2>1, <2>2 DEF Aborting
  <1>11. CASE Route
    BY <1>11, RouteDoes DEF Aborting
  <1>12. CASE Finalize
    BY <1>12, FinalizeDoes DEF Aborting
  <1>13. CASE ResumeWaiting \/ \E d \in {"approved", "rejected"} : Decide(d)
    BY <1>13, DecisionDoes DEF Aborting
  <1> QED  BY <1>2, <1>3, <1>4, <1>5, <1>6, <1>7, <1>8, <1>9, <1>10, <1>11, <1>12, <1>13,
              StepKinds DEF Silent

\* A silent step changes nothing of what is told.
LEMMA SilentDoes ==
    ASSUME Typed, Silent
    PROVE  /\ log' = log /\ hist' = hist /\ graph'.kind = graph.kind /\ graph'.edges = graph.edges
           /\ ex'.events = ex.events \/ (ex.pc = "idle" /\ ex'.events = <<>>)
           /\ ex'.pc = "idle" => ex.pc = "idle" /\ ex' = ex
           /\ run'.status = run.status \/ (run.status = "none" /\ run'.status = "running")
              \/ (run.status \in {"running", "waiting"} /\ run'.status = "cancelled")
           /\ ex'.pc \notin {"node", "route"} \/ ex' = ex
           /\ ex'.continuation = ex.continuation \/ ex'.continuation.kind = "null"
           /\ run'.continuation = run.continuation \/ run'.continuation.kind = "null"
           /\ run'.trigger = run.trigger \/ run.status = "none"
           /\ run'.error = run.error
  <1>1. /\ ex \in Execs /\ run \in Rows
    BY StoryTyped
  <1>2. CASE Begin
    <2>1. /\ UNCHANGED <<graph, run, log, hist>> /\ ex.pc = "idle" /\ ex'.pc \in {"loop", "done"}
          /\ ex'.events = <<>> /\ ex'.continuation = NoContinuation
      BY <1>2 DEF Begin, Idle
    <2> QED  BY <2>1, NothingTyped
  <1>3. CASE StopCancelled \/ Succeed
    BY <1>1, <1>3 DEF StopCancelled, Succeed, Stop, Execs
  <1>4. CASE Cancel
    BY <1>1, <1>4, NothingTyped DEF Cancel, Rows
  <1>5. CASE PollAbort \/ UNCHANGED vars
    BY <1>5 DEF PollAbort, vars
  <1>6. CASE Overwrite
    BY <1>6 DEF Overwrite, Typed, Drawn
  <1>7. CASE \E trigger \in Launches : Launch(trigger)
    BY <1>1, <1>7 DEF Launch, Rows
  <1> QED  BY <1>2, <1>3, <1>4, <1>5, <1>6, <1>7 DEF Silent

\* The node that runs has not ended before.
LEMMA CurrentUntold ==
    ASSUME Typed, Order, ex.pc = "node", NEW r, r.node = ex.cur.node
    PROVE  ex.cur.node \notin Ran /\ Untold(hist.ran, r)
  <1>1. ex.cur.node \notin Ran
    BY LedIs DEF Order, Underway, AtNode
  <1>2. \A k \in DOMAIN hist.ran : hist.ran[k].how \in Ends => hist.ran[k].node \in Ran
    BY DEF Ran, HasRun, ToSet, Ends
  <1> QED  BY <1>1, <1>2 DEF Untold

\* The log tells what has run.
LEMMA TruthfulTold ==
    ASSUME Truthful, NEW L, log' = log, hist'.ran = hist.ran, Story' = L,
           ex'.pc = "idle" => ex'.events = <<>>,
           run'.status = "none" => run.status = "none",
           run'.status # "cancelled" => run.status # "cancelled",
           Telling(Story, hist.ran) => Telling(L, hist.ran),
           TellingAll(Story, hist.ran) => TellingAll(L, hist.ran)
    PROVE  Truthful'
  BY DEF Truthful

LEMMA TruthfulNode ==
    ASSUME Typed, Order, Truthful, Aborting, RunNode
    PROVE  Truthful'
  <1> DEFINE n == ex.cur.node
  <1>1. PICK o \in NodeOutcomes(Kind, Granted, aborted),
             how \in {"finished", "asked", "failed", "aborted"}, E \in Seq(Events) :
             /\ RanAs(how, o) \in Runs /\ RanAs(how, o).node = n /\ RanAs(how, o).how = how
             /\ hist'.ran = Append(hist.ran, RanAs(how, o))
             /\ E = ex.events \/ E = Append(ex.events, Event("delegated", n))
             /\ \/ how = "asked" /\ ex'.events = E
                \/ how = "finished" /\ ex'.events = Append(E, Event("finished", n))
                \/ how = "aborted" /\ aborted
                \/ how = "failed" /\ ex'.events = Append(ex.events, Event("failed", n))
             /\ ex'.pc # "idle"
    BY NodeDoes
  <1> DEFINE r == RanAs(how, o)
             S == log \o E
  <1>2. /\ log \in Seq(Events) /\ ex.events \in Seq(Events) /\ Story \in Seq(Events)
        /\ hist.ran \in Seq(Runs) /\ ex.pc = "node" /\ UNCHANGED <<run, log>>
        /\ run.status \in {"running", "cancelled"}
    BY StoryTyped DEF RunNode, Typed, Phases
  <1>3. Untold(hist.ran, r)
    BY <1>1, <1>2, CurrentUntold
  <1>4. \A t \in {"finished", "failed", "delegated"} : Event(t, n) \in Events
    BY <1>2, CurrentNode, NamedTyped
  <1>5. \A t : Event(t, n).type = t /\ Event(t, n).node = n
    BY DEF Event
  <1>g. ASSUME NEW F \in Seq(Events)
        PROVE  log \o F \in Seq(Events) /\ \A e \in Events : log \o Append(F, e) = Append(log \o F, e)
    BY <1>2, StoryGrows
  <1>s. \A e \in Events : log \o Append(ex.events, e) = Append(Story, e)
    BY <1>2, <1>g DEF Story
  <1>6. S \in Seq(Events) /\ (S = Story \/ S = Append(Story, Event("delegated", n)))
    <2>1. CASE E = ex.events
      BY <1>2, <2>1 DEF Story
    <2>2. CASE E = Append(ex.events, Event("delegated", n))
      BY <1>4, <1>g, <1>s, <2>2
    <2> QED  BY <1>1, <2>1, <2>2
  <1>f. log \o Append(E, Event("finished", n)) = Append(S, Event("finished", n))
    BY <1>4, <1>g
  <1> HIDE DEF r, S
  <1>7. Telling(log, Append(hist.ran, r))
    BY <1>1, <1>2, <1>3, RunTold DEF Truthful, r
  <1>8. ASSUME run.status # "cancelled"
        PROVE  Telling(Story', Append(hist.ran, r)) /\ TellingAll(Story', Append(hist.ran, r))
    <2>1. Telling(Story, hist.ran) /\ TellingAll(Story, hist.ran) /\ ~aborted
      BY <1>2, <1>8 DEF Truthful, Aborting
    <2>2. "delegated" \notin Ends /\ "asked" \notin Ends
      BY DEF Ends
    <2>3. Telling(S, hist.ran) /\ TellingAll(S, hist.ran)
      <3>1. Event("delegated", n) \in Events /\ Event("delegated", n).type \notin Ends
        BY <1>4, <1>5, <2>2
      <3>2. /\ Telling(Append(Story, Event("delegated", n)), hist.ran)
            /\ TellingAll(Append(Story, Event("delegated", n)), hist.ran)
        BY <1>2, <2>1, <3>1, EventTold
      <3> QED  BY <1>6, <2>1, <3>2
    <2>4. CASE how = "asked"
      <3>1. Story' = S
        BY <1>1, <1>2, <2>1, <2>4 DEF Story, S
      <3> QED  BY <1>1, <1>2, <1>6, <2>2, <2>3, <2>4, <3>1, RunTold DEF r
    <2>5. ASSUME NEW t \in {"finished", "failed"}, how = t, NEW L \in Seq(Events),
                 Telling(L, hist.ran), TellingAll(L, hist.ran), Story' = Append(L, Event(t, n))
          PROVE  Telling(Story', Append(hist.ran, r)) /\ TellingAll(Story', Append(hist.ran, r))
      <3>1. Tells(Event(t, n), r) /\ r \in Runs
        BY <1>1, <1>5, <2>5 DEF Tells, r, Ends
      <3> QED  BY <1>2, <1>3, <1>4, <2>5, <3>1, BothTold
    <2>6. CASE how = "finished"
      <3>1. Story' = Append(S, Event("finished", n))
        BY <1>1, <1>2, <1>f, <2>6 DEF Story
      <3> QED  BY <1>6, <2>3, <2>5, <2>6, <3>1
    <2>7. CASE how = "failed"
      <3>1. Story' = Append(Story, Event("failed", n))
        <4>1. ex'.events = Append(ex.events, Event("failed", n)) /\ log' = log
          BY <1>1, <1>2, <2>7
        <4>2. Story' = log \o Append(ex.events, Event("failed", n))
          BY <4>1 DEF Story
        <4> QED  BY <1>4, <1>s, <4>2
      <3> QED  BY <1>2, <2>1, <2>5, <2>7, <3>1
    <2> QED  BY <1>1, <2>1, <2>4, <2>6, <2>7
  <1> QED  BY <1>1, <1>2, <1>7, <1>8 DEF Truthful, r

LEMMA TruthfulStep ==
    ASSUME Typed, Order, Truthful, Aborting, [Next]_vars
    PROVE  Truthful'
  <1>1. /\ log \in Seq(Events) /\ ex.events \in Seq(Events) /\ Story \in Seq(Events)
        /\ hist.ran \in Seq(Runs) /\ ex \in Execs
    BY StoryTyped
  <1>g. ASSUME NEW F \in Seq(Events)
        PROVE  log \o F \in Seq(Events) /\ \A e \in Events : log \o Append(F, e) = Append(log \o F, e)
    BY <1>1, StoryGrows
  <1>s. \A e \in Events : log \o Append(ex.events, e) = Append(Story, e)
    BY <1>1, <1>g DEF Story
  <1>2. \A t : Event(t, ex.cur.node).type = t
    BY DEF Event
  <1>3. {"started", "requested", "waiting", "approved", "rejected"} \cap Ends = {}
    BY DEF Ends
  <1>4. CASE Silent
    <2>1. Story' = Story
      BY <1>4, SilentDoes DEF Story, Truthful
    <2> QED  BY <1>4, <2>1, SilentDoes, TruthfulTold DEF Truthful
  <1>5. CASE TakeNode
    <2> DEFINE m == Head(ex.queue).node
               e == Event("started", m)
    <2>1. /\ UNCHANGED <<run, log, hist>> /\ ex'.pc # "idle"
          /\ ex'.events = ex.events \/ (m \in NodesOf(graph) /\ ex'.events = Append(ex.events, e))
      BY <1>1, <1>5 DEF TakeNode, Stop, Execs
    <2>2. m \in NodesOf(graph) => e \in Events
      BY GraphNames, NamedTyped DEF Typed
    <2>3. e.type \notin Ends
      BY <1>3 DEF Event
    <2> HIDE DEF e
    <2>4. Story' = Story \/ (e \in Events /\ Story' = Append(Story, e))
      BY <1>s, <2>1, <2>2 DEF Story
    <2> QED  BY <1>1, <2>1, <2>3, <2>4, EventTold, TruthfulTold
  <1>6. CASE RunNode
    BY <1>6, TruthfulNode
  <1>7. CASE Route
    <2> DEFINE n == ex.cur.node
               a == Event("requested", n)
               b == Event("waiting", n)
    <2>1. a \in Events /\ b \in Events /\ a.type \notin Ends /\ b.type \notin Ends
      BY <1>2, <1>3, <1>7, RouteDoes, CurrentNode, NamedTyped
    <2>2. /\ UNCHANGED <<run, log>> /\ hist'.ran = hist.ran /\ ex'.pc # "idle"
          /\ \/ ex'.events = ex.events \/ ex'.events = Append(ex.events, b)
             \/ ex'.events = Append(Append(ex.events, a), b)
      BY <1>7, RouteDoes
    <2> HIDE DEF a, b
    <2>3. Append(ex.events, a) \in Seq(Events) /\ Append(Story, a) \in Seq(Events)
      BY <1>1, <2>1, Appended
    <2>4. \/ Story' = Story \/ Story' = Append(Story, b)
          \/ Story' = Append(Append(Story, a), b)
      <3>1. log \o Append(ex.events, b) = Append(Story, b)
        BY <1>s, <2>1
      <3>2. log \o Append(Append(ex.events, a), b) = Append(Append(Story, a), b)
        <4>1. log \o Append(Append(ex.events, a), b) = Append(log \o Append(ex.events, a), b)
          BY <1>g, <2>1, <2>3
        <4>2. log \o Append(ex.events, a) = Append(Story, a)
          BY <1>s, <2>1
        <4> QED  BY <4>1, <4>2
      <3> QED  BY <2>2, <3>1, <3>2 DEF Story
    <2>5. /\ Telling(Story, hist.ran) => Telling(Story', hist.ran)
          /\ TellingAll(Story, hist.ran) => TellingAll(Story', hist.ran)
      BY <1>1, <2>1, <2>3, <2>4, EventTold
    <2> QED  BY <2>2, <2>5, TruthfulTold
  <1>8. CASE Finalize
    <2>1. CASE run.status = "cancelled" /\ UNCHANGED <<log, run>>
      BY <1>8, <2>1, FinalizeDoes DEF Truthful
    <2>2. CASE run.status = "running" /\ log' = Story
      <3>1. Story' = Story
        BY <1>1, <1>8, <2>2, FinalizeDoes, StoryGrows DEF Story
      <3>2. run'.status # "none"
        BY <1>8, <2>2, FinalizeDoes
      <3> QED  BY <1>8, <2>2, <3>1, <3>2, FinalizeDoes DEF Truthful
    <2> QED  BY <1>8, <2>1, <2>2, FinalizeDoes
  <1>9. CASE ResumeWaiting \/ \E d \in {"approved", "rejected"} : Decide(d)
    <2>1. /\ run.status = "waiting" /\ ex' = ex /\ ex.events = <<>> /\ ex.pc = "idle"
          /\ hist'.ran = hist.ran
      BY <1>9, DecisionDoes DEF Truthful
    <2>2. Story = log /\ Story' = log'
      BY <1>1, <2>1, StoryGrows, TypedStep, StoryTyped DEF Story
    <2>3. CASE log' = log /\ run'.status = "running"
      BY <2>1, <2>2, <2>3 DEF Truthful
    <2>4. ASSUME NEW d \in {"approved", "rejected"}, Closes(d)
          PROVE  Truthful'
      <3> DEFINE e == Event(d, run.continuation.node)
      <3>1. log' = Append(log, e) /\ run'.status \in {"running", "failed"}
        BY <2>4 DEF Closes
      <3>2. e \in Events
        BY <2>4, NamedTyped DEF Closes, Typed, Phases, Asking
      <3>3. e.type \notin Ends
        BY <1>3 DEF Event
      <3> HIDE DEF e
      <3>4. Telling(log', hist.ran) /\ TellingAll(log', hist.ran)
        BY <1>1, <2>1, <2>2, <3>1, <3>2, <3>3, EventTold DEF Truthful
      <3> QED  BY <2>1, <2>2, <3>1, <3>4 DEF Truthful
    <2> QED  BY <1>9, <2>3, <2>4, DecisionDoes
  <1> QED  BY <1>4, <1>5, <1>6, <1>7, <1>8, <1>9, StepKinds

\* A node waits for what it is there for, and nothing behind it is chosen.
LEMMA NothingSuited ==
    \A kinds, w, c : c.kind \notin {"timer", "control", "exec"} =>
                         Suited(kinds, c) /\ Undecided(w, c)
  BY DEF Suited, Undecided

\* The ports stay shut while nothing behind them is chosen.
LEMMA ShutStays ==
    ASSUME NEW w, NEW v, v.edges = w.edges, v.start = w.start, v.owed = w.owed
    PROVE  /\ \A n, port : Shuts(v, n, port) <=> Shuts(w, n, port)
           /\ \A n : Open(v, n) <=> Open(w, n)
           /\ \A c : Undecided(v, c) <=> Undecided(w, c)
  BY DEF Shuts, Led, Open, Undecided

LEMMA WaitingNode ==
    ASSUME Typed, Order, Waiting, RunNode
    PROVE  Waiting'
  <1> DEFINE n == ex.cur.node
  <1>1. /\ ex \in Execs /\ hist.ran \in Seq(Runs)
        /\ ex.pc = "node" /\ UNCHANGED <<graph, run>>
        /\ run.continuation.kind \notin {"timer", "control", "exec"}
        /\ ex.continuation.kind = "null"
    BY StoryTyped DEF RunNode, Typed, TypeOK, Phases
  <1>2. PICK o \in NodeOutcomes(Kind, Granted, aborted),
             how \in {"finished", "asked", "failed", "aborted"} :
             /\ RanAs(how, o) \in Runs /\ RanAs(how, o).node = n
             /\ hist'.ran = Append(hist.ran, RanAs(how, o))
             /\ ex'.pc = "route" => o.returns /\ ex'.outcome = o
             /\ o.returns /\ o.until = "control" => hist'.owed = hist.owed
             /\ ex'.cur = ex.cur /\ ex'.continuation = ex.continuation
    BY NodeDoes
  <1>3. ASSUME ex'.pc = "route"
        PROVE  /\ ex'.outcome.returns /\ Suits(Kind', ex'.outcome.until)
               /\ ex'.cur.node \in Seen'
               /\ ex'.outcome.until = "control" => Open(Now', ex'.cur.node)
    <2>1. o.returns /\ ex'.outcome = o /\ Kind' = Kind
      BY <1>1, <1>2, <1>3 DEF Kind
    <2>2. Suits(Kind, o.until)
      BY <2>1, Suiting
    <2>3. RanAs(how, o) \in ToSet(hist'.ran)
      BY <1>1, <1>2, Appended
    <2>4. n \in Seen'
      BY <1>2, <2>3 DEF Seen
    <2>5. ASSUME o.until = "control"
          PROVE  Open(Now', n)
      <3>1. hist'.owed = hist.owed /\ Start' = Start /\ graph'.edges = graph.edges
        BY <1>1, <1>2, <2>1, <2>5 DEF Start
      <3>2. Underway(Now, ex) /\ Drawn /\ Valid(graph) /\ Chosen(Now)
        BY <1>1 DEF Order, Typed, Phases
      <3>3. n \notin Ran /\ OnPath(Now, ex.cur)
        BY <1>1, <3>2, LedIs DEF Underway, AtNode
      <3>4. Open(Now, n)
        BY <3>2, <3>3, TargetsNew, LedIs DEF Open, Shuts
      <3>5. Now'.edges = Now.edges /\ Now'.start = Now.start /\ Now'.owed = Now.owed
        BY <3>1 DEF Now
      <3> QED  BY <3>4, <3>5, ShutStays
    <2> QED  BY <1>2, <2>1, <2>2, <2>4, <2>5
  <1> QED  BY <1>1, <1>2, <1>3, NothingSuited DEF Waiting

LEMMA WaitingRoute ==
    ASSUME Typed, Order, Waiting, Route
    PROVE  Waiting'
  <1> DEFINE n == ex.cur.node
             until == ex.outcome.until
  <1>1. /\ ex.pc = "route" /\ UNCHANGED <<graph, run>> /\ hist'.owed = hist.owed
        /\ ex'.pc # "route"
        /\ \/ ex'.pc = "loop" /\ ex'.continuation = ex.continuation
           \/ /\ ex'.pc = "done" /\ ex'.continuation.kind = until
              /\ ex'.continuation.node = n /\ until \in {"timer", "control", "exec"}
    BY RouteDoes
  <1>2. /\ n \in NodesOf(graph) /\ ex.continuation.kind = "null"
        /\ run.continuation.kind \notin {"timer", "control", "exec"}
    BY <1>1, CurrentNode DEF Typed, TypeOK, Phases
  <1>3. Now'.edges = Now.edges /\ Now'.start = Now.start /\ Now'.owed = Now.owed
    BY <1>1 DEF Now, Start
  <1>4. Suits(graph.kind[n], until) /\ (until = "control" => Open(Now, n))
    BY <1>1 DEF Waiting, Kind
  <1>5. until \in {"timer", "control", "exec"} => graph.kind[n] = Suitable[until]
    BY <1>4 DEF Suits, Suitable
  <1>6. Suited(graph.kind, ex'.continuation) /\ Undecided(Now, ex'.continuation)
    <2>1. CASE ex'.continuation = ex.continuation
      BY <1>2, <2>1, NothingSuited
    <2>2. CASE ex'.continuation.kind = until /\ ex'.continuation.node = n
      BY <1>2, <1>4, <1>5, <2>2 DEF Suited, Undecided, NodesOf
    <2> QED  BY <1>1, <2>1, <2>2
  <1>7. Undecided(Now', ex'.continuation)
    BY <1>3, <1>6, ShutStays
  <1> QED  BY <1>1, <1>2, <1>6, <1>7, NothingSuited DEF Waiting

LEMMA WaitingStep ==
    ASSUME Typed, Order, Waiting, [Next]_vars
    PROVE  Waiting'
  <1>1. /\ ex \in Execs /\ run \in Rows
        /\ run.status # "waiting" => run.continuation.kind \notin {"timer", "control", "exec"}
        /\ ex.pc # "done" => ex.continuation.kind = "null"
        /\ ex.pc # "idle" => run.status # "waiting"
    BY StoryTyped DEF Typed, TypeOK, Phases
  <1>4. CASE Silent
    <2>1. /\ hist' = hist /\ graph'.kind = graph.kind /\ graph'.edges = graph.edges
          /\ ex'.pc \notin {"node", "route"} \/ ex' = ex
          /\ ex'.continuation = ex.continuation \/ ex'.continuation.kind = "null"
          /\ run'.continuation = run.continuation \/ run'.continuation.kind = "null"
          /\ run'.trigger = run.trigger \/ run.status = "none"
      BY <1>4, SilentDoes
    <2>2. CASE run.status = "none"
      <3>1. run.continuation.kind = "null" /\ ex.pc = "idle" /\ ex.continuation.kind = "null"
        BY <2>2 DEF Typed, Phases
      <3>2. ex'.pc # "route" /\ ex'.continuation.kind = "null" /\ run'.continuation.kind = "null"
        BY <2>1, <3>1
      <3> QED  BY <3>2, NothingSuited DEF Waiting
    <2>3. CASE run.status # "none"
      <3>1. Now' = Now /\ Seen' = Seen
        BY <2>1, <2>3, SameWay DEF Seen
      <3>2. ex'.pc = "route" => ex' = ex /\ Kind' = Kind
        BY <2>1 DEF Kind
      <3> QED  BY <2>1, <3>1, <3>2, NothingSuited DEF Waiting
    <2> QED  BY <2>2, <2>3
  <1>5. CASE TakeNode
    <2>1. /\ UNCHANGED <<graph, run, hist>> /\ ex.pc = "loop" /\ ex'.pc \in {"node", "done"}
          /\ ex'.continuation = ex.continuation
      BY <1>1, <1>5 DEF TakeNode, Stop, Execs
    <2> QED  BY <1>1, <2>1, NothingSuited DEF Waiting
  <1>8. CASE Finalize
    <2>1. /\ UNCHANGED <<graph, hist>> /\ ex'.pc = "idle" /\ ex'.continuation.kind = "null"
          /\ run'.continuation = run.continuation \/ run'.continuation = ex.continuation
          /\ run'.trigger = run.trigger
      BY <1>8, FinalizeDoes
    <2>2. Now' = Now
      BY <2>1, SameWay
    <2> QED  BY <2>1, <2>2, NothingSuited DEF Waiting
  <1>9. CASE ResumeWaiting \/ \E d \in {"approved", "rejected"} : Decide(d)
    <2>1. /\ ex.pc = "idle" /\ ex' = ex /\ run'.continuation.kind \in {"ready", "null"}
      BY <1>9, DecisionDoes DEF Closes
    <2> QED  BY <1>1, <2>1, NothingSuited DEF Waiting
  <1> QED  BY <1>4, <1>5, <1>8, <1>9, WaitingNode, WaitingRoute, StepKinds

\* The decisions in the log are final, and nothing else in it is taken back.
LEMMA InLogKept ==
    ASSUME NEW n, InLog(n), log' = log, graph'.kind = graph.kind, Ran \subseteq Ran',
           run' = run \/ (run.status \in {"running", "waiting"} /\ run'.status = "cancelled"),
           \A port : Shuts(Now, n, port) /\ (n \in Ran \/ run.status = "failed") =>
                         Shuts(Now', n, port)
    PROVE  InLog(n)'
  <1> DEFINE last == LastOf(log, n)
  <1>1. LastOf(log', n) = last
    OBVIOUS
  <1> HIDE DEF last
  <1>2. last = LastOf(log, n)
    BY DEF last
  <1>3. last = "failed" => run.status = "failed"
    BY <1>2 DEF InLog
  <1> QED  BY <1>1, <1>2, <1>3 DEF InLog

\* What is chosen behind one node leaves the ports of another shut.
LEMMA OthersShut ==
    ASSUME Drawn, Valid(graph), NEW m, NEW n, NEW P, NEW port, m # n \/ port \notin P,
           Now'.edges = Now.edges, Now'.start = Now.start,
           hist'.owed = hist.owed \/ hist'.owed = hist.owed \cup Targets(m, P),
           Shuts(Now, n, port)
    PROVE  Shuts(Now', n, port)
  <1>1. Led(Now', n, {port}) = Targets(n, {port}) /\ Led(Now, n, {port}) = Targets(n, {port})
    BY LedIs DEF Led
  <1>2. Now'.owed = hist'.owed /\ Now.owed = hist.owed
    BY DEF Now
  <1>3. Targets(m, P) \cap Targets(n, {port}) = {}
    BY TargetsApart
  <1> QED  BY <1>1, <1>2, <1>3 DEF Shuts

\* The way of a run with one node more.
LEMMA RanMore ==
    ASSUME NEW r \in Runs, hist.ran \in Seq(Runs), hist'.ran = Append(hist.ran, r)
    PROVE  /\ Seen' = Seen \cup {r.node}
           /\ Ran' = Ran \cup (IF r.how = "asked" THEN {} ELSE {r.node})
  <1>1. ToSet(hist'.ran) = ToSet(hist.ran) \cup {r}
    BY Appended
  <1>2. HasRun' = HasRun \cup (IF r.how = "asked" THEN {} ELSE {r})
    BY <1>1 DEF HasRun
  <1> QED  BY <1>1, <1>2 DEF Seen, Ran

LEMMA RanSame ==
    ASSUME hist'.ran = hist.ran
    PROVE  Seen' = Seen /\ Ran' = Ran
  BY DEF Seen, Ran, HasRun

LEMMA ShownSilent ==
    ASSUME Typed, Order, Honest, Silent
    PROVE  Shown'
  <1>1. /\ ex \in Execs /\ run \in Rows /\ log \in Seq(Events)
        /\ Truthful /\ Aborting /\ Waiting /\ Shown
    BY StoryTyped DEF Honest
  <1>2. /\ log' = log /\ hist' = hist /\ graph'.kind = graph.kind /\ graph'.edges = graph.edges
        /\ Seen' = Seen /\ Ran' = Ran /\ NodesOf(graph)' = NodesOf(graph)
        /\ run.status # "cancelled" => Story' = Story
    <2>1. /\ log' = log /\ hist' = hist /\ graph'.kind = graph.kind /\ graph'.edges = graph.edges
          /\ ex'.events = ex.events \/ (ex.pc = "idle" /\ ex'.events = <<>>)
      BY SilentDoes
    <2>2. Story' = Story
      BY <1>1, <2>1 DEF Story, Truthful
    <2> QED  BY <2>1, <2>2, RanSame DEF NodesOf
  <1>3. ASSUME run'.trigger = run.trigger,
               run' = run \/ (run.status \in {"running", "waiting"} /\ run'.status = "cancelled"),
               NEW n \in NodesOf(graph)
        PROVE  InLog(n)'
    <2>1. Now' = Now
      BY <1>2, <1>3, SameWay
    <2>2. InLog(n)
      BY <1>1, <1>3 DEF Shown
    <2> QED  BY <1>2, <1>3, <2>1, <2>2, InLogKept
  <1>4. CASE \E trigger \in Launches : Launch(trigger)
    <2>1. run.status = "none" /\ run'.status = "running" /\ ex' = ex
      BY <1>1, <1>4 DEF Launch, Rows
    <2>2. log = <<>> /\ hist.ran = <<>> /\ ex.pc = "idle" /\ ex.events = <<>>
      BY <1>1, <2>1 DEF Truthful, Typed, Phases
    <2>3. \A n : LastOf(log', n) = "none" /\ LastOf(Story', n) = "none"
      <3>1. log' = <<>> /\ Story' = <<>> \o <<>>
        BY <1>2, <2>1, <2>2 DEF Story
      <3>2. Story' = <<>>
        BY <1>1, <2>2, <3>1, StoryGrows
      <3> QED  BY <3>1, <3>2, LastOfNone
    <2>4. Seen' = {}
      BY <1>2, <2>2 DEF Seen, ToSet
    <2>5. \A n : InLog(n)'
      BY <2>3 DEF InLog
    <2>6. \A n : InStory(n)'
      BY <2>1, <2>2, <2>3, <2>4 DEF InStory, Stands
    <2> QED  BY <2>5, <2>6 DEF Shown
  <1>5. CASE Begin
    <2>1. /\ UNCHANGED <<graph, run>> /\ ex.pc = "idle" /\ run.status = "running"
          /\ run.continuation.kind \in {"null", "ready"}
      BY <1>5 DEF Begin, Typed, Phases
    <2>2. Start # None
      BY <2>1 DEF Order
    <2>3. /\ ex'.pc = "loop" /\ ex'.status = "running"
          /\ run.continuation.kind = "ready" => ex'.queue = run.continuation.queue
      BY <1>5, <2>1, <2>2 DEF Begin, Start, Idle
    <2>4. \A n : Next1(n) => Next1(n)'
      BY <2>1, <2>3 DEF Next1
    <2>5. Story = log
      BY <1>1, <2>1, StoryGrows DEF Truthful, Story
    <2>6. ASSUME NEW n \in NodesOf(graph)
          PROVE  InStory(n)'
      <3>1. InLog(n) /\ InStory(n)
        BY <1>1, <2>1 DEF Shown
      <3> DEFINE last == LastOf(Story, n)
      <3>2. LastOf(Story', n) = last /\ LastOf(log', n) = LastOf(log, n) /\ LastOf(log, n) = last
        BY <1>2, <2>1, <2>5
      <3> HIDE DEF last
      <3>3. /\ last = "waiting" => graph.kind[n] = "control.wait"
            /\ last # "failed"
            /\ last = "finished" => graph.kind[n] # "control.approval"
        BY <2>1, <3>1, <3>2 DEF InLog
      <3>4. /\ last # "none" <=> n \in Seen /\ last # "started" /\ last # "requested"
            /\ last = "finished" => n \in Ran
            /\ last = "approved" => n \in Ran \/ Next1(n)
        BY <2>1, <3>1, <3>2 DEF InStory, At, last
      <3> QED  BY <1>2, <2>1, <2>3, <2>4, <3>2, <3>3, <3>4 DEF InStory, Stands
    <2> QED  BY <1>2, <1>3, <2>1, <2>6 DEF Shown
  <1>6. CASE StopCancelled \/ Cancel \/ PollAbort
    <2>1. run'.status = "cancelled" /\ run'.trigger = run.trigger
          /\ (run' = run \/ run.status \in {"running", "waiting"})
      BY <1>1, <1>6 DEF StopCancelled, Cancel, PollAbort, Rows, Aborting
    <2> QED  BY <1>2, <1>3, <2>1 DEF Shown
  <1>7. CASE Succeed
    <2>1. /\ UNCHANGED <<graph, run>> /\ ex.pc = "loop" /\ ex.queue = <<>>
          /\ ex'.pc = "done" /\ ex'.status = "succeeded" /\ ex'.cur = ex.cur
          /\ run.status \in {"running", "cancelled"}
      BY <1>1, <1>7 DEF Succeed, Stop, Execs, Typed, Phases
    <2>2. \A n : ~Next1(n)
      BY <2>1 DEF Next1
    <2>3. ASSUME NEW n \in NodesOf(graph), run.status # "cancelled"
          PROVE  InStory(n)'
      <3>1. InStory(n)
        BY <1>1, <2>3 DEF Shown
      <3> DEFINE last == LastOf(Story, n)
      <3>2. LastOf(Story', n) = last /\ LastOf(log', n) = LastOf(log, n)
        BY <1>2, <2>3
      <3> HIDE DEF last
      <3>3. /\ last # "none" <=> n \in Seen /\ last # "started" /\ last # "requested"
            /\ last = "finished" => n \in Ran /\ graph.kind[n] # "control.approval"
            /\ last = "approved" => n \in Ran
            /\ last \in {"approved", "rejected"} => LastOf(log, n) = last
            /\ last = "waiting" => graph.kind[n] = "control.wait"
            /\ last # "failed"
        BY <2>1, <2>2, <3>1 DEF InStory, At, Stands, last
      <3> QED  BY <1>2, <2>1, <3>2, <3>3 DEF InStory, Stands
    <2> QED  BY <1>2, <1>3, <2>1, <2>3 DEF Shown
  <1>8. CASE Overwrite \/ UNCHANGED vars
    <2>1. UNCHANGED <<run, log, ex, aborted, hist>>
      BY <1>8 DEF Overwrite, vars
    <2>2. \A n : Next1(n)' <=> Next1(n)
      BY <2>1 DEF Next1
    <2>3. ASSUME NEW n \in NodesOf(graph), run.status # "cancelled"
          PROVE  InStory(n)'
      <3>1. InStory(n) /\ Story' = Story
        BY <1>1, <1>2, <2>3 DEF Shown
      <3>2. LastOf(Story', n) = LastOf(Story, n) /\ LastOf(log', n) = LastOf(log, n)
        BY <1>2, <3>1
      <3> QED  BY <1>2, <2>1, <2>2, <3>1, <3>2 DEF InStory, At, Stands
    <2> QED  BY <1>2, <1>3, <2>1, <2>3 DEF Shown
  <1> QED  BY <1>4, <1>5, <1>6, <1>7, <1>8 DEF Silent

LEMMA ShownTake ==
    ASSUME Typed, Order, Honest, TakeNode
    PROVE  Shown'
  <1> DEFINE item == Head(ex.queue)
             m == item.node
             e == Event("started", m)
  <1>1. /\ ex \in Execs /\ ex.queue \in Seq(Items) /\ log \in Seq(Events)
        /\ ex.events \in Seq(Events) /\ Story \in Seq(Events)
        /\ Truthful /\ Aborting /\ Waiting /\ Shown
        /\ UNCHANGED <<graph, run, log, hist>> /\ ex.pc = "loop" /\ ex.queue # <<>>
        /\ run.status \in {"running", "cancelled"}
    BY StoryTyped DEF Honest, TakeNode, Stop, Execs, Queues, Typed, Phases
  <1>2. Now' = Now /\ Ran' = Ran /\ Seen' = Seen
    BY <1>1, SameWay, RanSame
  <1>3. m \in NodesOf(graph)
    <2>1. OnPath(Now, item)
      BY <1>1, FreshTaken DEF Order, Underway
    <2> QED  BY <2>1, LedIs DEF OnPath
  <1>4. /\ ex'.pc = "node" /\ ex'.cur = item /\ ex'.events = Append(ex.events, e)
    BY <1>1, <1>3, StoryTyped DEF TakeNode, Execs
  <1>5. e \in Events /\ e.node = m /\ e.type = "started" /\ "started" \in DOMAIN BadgeOf
    BY <1>3, GraphNames, NamedTyped DEF Typed, Event, BadgeOf
  <1>6. Story' = Append(Story, e)
    <2>1. log \o Append(ex.events, e) = Append(Story, e)
      BY <1>1, <1>5, StoryGrows DEF Story
    <2> QED  BY <1>1, <1>4, <2>1 DEF Story
  <1>7. \A n : LastOf(Story', n) = IF n = m THEN "started" ELSE LastOf(Story, n)
    BY <1>1, <1>5, <1>6, LastAppended
  <1>8. \A n : Next1(n) => n = m
    <2>1. item = ex.queue[1]
      BY <1>1, Taken
    <2> QED  BY <1>1, <2>1 DEF Next1
  <1> HIDE DEF item, e
  <1>9. ASSUME NEW n \in NodesOf(graph), run.status # "cancelled"
        PROVE  InStory(n)'
    <2>1. InStory(n)
      BY <1>1, <1>9 DEF Shown
    <2> DEFINE last == LastOf(Story, n)
    <2>2. /\ last # "none" <=> n \in Seen /\ last # "started" /\ last # "requested"
          /\ last = "finished" => n \in Ran /\ graph.kind[n] # "control.approval"
          /\ last = "approved" => n \in Ran \/ Next1(n)
          /\ last \in {"approved", "rejected"} => LastOf(log, n) = last
          /\ last = "waiting" => graph.kind[n] = "control.wait"
          /\ last # "failed"
      BY <1>1, <2>1 DEF InStory, At, Stands
    <2> HIDE DEF last
    <2>3. LastOf(Story', n) = IF n = m THEN "started" ELSE last
      BY <1>7 DEF last
    <2>4. LastOf(log', n) = LastOf(log, n) /\ run' = run
      BY <1>1
    <2>5. CASE n = m
      BY <1>1, <1>4, <1>9, <2>3, <2>5 DEF InStory, At, Stands
    <2>6. CASE n # m
      BY <1>1, <1>2, <1>4, <1>8, <1>9, <2>2, <2>3, <2>4, <2>6 DEF InStory, Stands
    <2> QED  BY <2>5, <2>6
  <1>10. ASSUME NEW n \in NodesOf(graph)
         PROVE  InLog(n)'
    BY <1>1, <1>2, <1>10, InLogKept DEF Shown
  <1> QED  BY <1>1, <1>9, <1>10 DEF Shown

\* What is told of the nodes when one has run.
LEMMA NodeStory ==
    ASSUME Typed, RunNode
    PROVE  \E o \in NodeOutcomes(Kind, Granted, aborted),
             how \in {"finished", "asked", "failed", "aborted"} :
             LET n == ex.cur.node
                 r == RanAs(how, o)
             IN  /\ r \in Runs /\ r.node = n /\ r.how = how /\ hist'.ran = Append(hist.ran, r)
                 /\ how # "aborted" => \A m : LastOf(Story', m) =
                       IF m = n /\ how # "asked" THEN how ELSE LastOf(Story, m)
                 /\ hist'.owed = hist.owed \/ hist'.owed = hist.owed \cup Targets(n, o.ports)
                 /\ how = "aborted" => aborted
                 /\ how = "asked" => ex'.pc = "route" /\ ex'.outcome.until = "exec"
                 /\ how = "finished" => ex'.pc = "route" /\ ex'.outcome.until # "exec"
                 /\ how = "failed" => ex'.pc = "done" /\ ex'.status = "failed" /\ ex'.error = "node"
                 /\ ex'.cur = ex.cur
  <1> DEFINE n == ex.cur.node
  <1>1. PICK o \in NodeOutcomes(Kind, Granted, aborted),
             how \in {"finished", "asked", "failed", "aborted"}, E \in Seq(Events) :
             /\ RanAs(how, o) \in Runs /\ RanAs(how, o).node = n /\ RanAs(how, o).how = how
             /\ hist'.ran = Append(hist.ran, RanAs(how, o))
             /\ E = ex.events \/ E = Append(ex.events, Event("delegated", n))
             /\ \/ /\ how = "asked" /\ ex'.events = E
                   /\ ex'.pc = "route" /\ ex'.outcome.until = "exec"
                \/ /\ how = "finished" /\ ex'.events = Append(E, Event("finished", n))
                   /\ ex'.pc = "route" /\ ex'.outcome.until # "exec"
                \/ how = "aborted" /\ aborted
                \/ /\ how = "failed" /\ ex'.events = Append(ex.events, Event("failed", n))
                   /\ ex'.pc = "done" /\ ex'.status = "failed" /\ ex'.error = "node"
             /\ hist'.owed = hist.owed \/ hist'.owed = hist.owed \cup Targets(n, o.ports)
             /\ ex'.cur = ex.cur
    BY NodeDoes
  <1>2. /\ log \in Seq(Events) /\ ex.events \in Seq(Events) /\ Story \in Seq(Events)
        /\ ex.pc = "node" /\ log' = log
    BY StoryTyped DEF RunNode
  <1>3. /\ \A t \in {"finished", "failed", "delegated"} : Event(t, n) \in Events
        /\ \A t : Event(t, n).type = t /\ Event(t, n).node = n
        /\ "finished" \in DOMAIN BadgeOf /\ "failed" \in DOMAIN BadgeOf
        /\ "delegated" \notin DOMAIN BadgeOf
    BY <1>2, CurrentNode, NamedTyped DEF Event, BadgeOf
  <1>4. ASSUME NEW F \in Seq(Events)
        PROVE  log \o F \in Seq(Events) /\ \A e \in Events : log \o Append(F, e) = Append(log \o F, e)
    BY <1>2, StoryGrows
  <1> DEFINE S == log \o E
  <1>5. S \in Seq(Events) /\ \A m : LastOf(S, m) = LastOf(Story, m)
    <2>1. CASE E = ex.events
      BY <1>2, <2>1 DEF Story
    <2>2. CASE E = Append(ex.events, Event("delegated", n))
      <3>1. S = Append(Story, Event("delegated", n))
        BY <1>2, <1>3, <1>4, <2>2 DEF Story
      <3> QED  BY <1>2, <1>3, <1>4, <3>1, LastAppended
    <2> QED  BY <1>1, <2>1, <2>2
  <1>6. /\ log \o Append(E, Event("finished", n)) = Append(S, Event("finished", n))
        /\ log \o Append(ex.events, Event("failed", n)) = Append(Story, Event("failed", n))
    BY <1>2, <1>3, <1>4 DEF Story
  <1> HIDE DEF S
  <1>7. ASSUME how # "aborted"
        PROVE  \A m : LastOf(Story', m) = IF m = n /\ how # "asked" THEN how ELSE LastOf(Story, m)
    <2>1. CASE how = "asked"
      <3>1. Story' = S
        BY <1>1, <1>2, <2>1 DEF Story, S
      <3> QED  BY <1>5, <2>1, <3>1
    <2>2. CASE how = "finished"
      <3>1. Story' = Append(S, Event("finished", n))
        BY <1>1, <1>2, <1>6, <2>2 DEF Story
      <3>2. \A m : LastOf(Append(S, Event("finished", n)), m) =
                       IF m = n THEN "finished" ELSE LastOf(S, m)
        BY <1>3, <1>5, LastAppended
      <3> QED  BY <1>5, <2>2, <3>1, <3>2
    <2>3. CASE how = "failed"
      <3>1. Story' = Append(Story, Event("failed", n))
        <4>1. ex'.events = Append(ex.events, Event("failed", n))
          BY <1>1, <2>3
        <4> QED  BY <1>2, <1>6, <4>1 DEF Story
      <3>2. \A m : LastOf(Append(Story, Event("failed", n)), m) =
                       IF m = n THEN "failed" ELSE LastOf(Story, m)
        BY <1>2, <1>3, LastAppended
      <3> QED  BY <2>3, <3>1, <3>2
    <2> QED  BY <1>7, <2>1, <2>2, <2>3
  <1> QED  BY <1>1, <1>7

LEMMA ShownNode ==
    ASSUME Typed, Order, Honest, RunNode
    PROVE  Shown'
  <1> DEFINE m == ex.cur.node
  <1>1. /\ hist.ran \in Seq(Runs) /\ Truthful /\ Aborting /\ Waiting /\ Shown
        /\ UNCHANGED <<graph, run, log>> /\ ex.pc = "node"
        /\ run.status \in {"running", "cancelled"} /\ Drawn /\ Valid(graph)
    BY StoryTyped DEF Honest, RunNode, Typed, Phases, Order
  <1>2. PICK o \in NodeOutcomes(Kind, Granted, aborted),
             how \in {"finished", "asked", "failed", "aborted"} :
             /\ RanAs(how, o) \in Runs /\ RanAs(how, o).node = m /\ RanAs(how, o).how = how
             /\ hist'.ran = Append(hist.ran, RanAs(how, o))
             /\ how # "aborted" => \A n : LastOf(Story', n) =
                   IF n = m /\ how # "asked" THEN how ELSE LastOf(Story, n)
             /\ hist'.owed = hist.owed \/ hist'.owed = hist.owed \cup Targets(m, o.ports)
             /\ how = "aborted" => aborted
             /\ how = "asked" => ex'.pc = "route" /\ ex'.outcome.until = "exec"
             /\ how = "finished" => ex'.pc = "route" /\ ex'.outcome.until # "exec"
             /\ how = "failed" => ex'.pc = "done" /\ ex'.status = "failed" /\ ex'.error = "node"
             /\ ex'.cur = ex.cur
    BY NodeStory
  <1>3. Seen' = Seen \cup {m} /\ Ran' = Ran \cup (IF how = "asked" THEN {} ELSE {m})
    BY <1>1, <1>2, RanMore
  <1>4. Now'.edges = Now.edges /\ Now'.start = Now.start /\ NodesOf(graph)' = NodesOf(graph)
    BY <1>1 DEF Now, Start
  <1>5. m \notin Ran
    BY <1>1, CurrentUntold DEF RanAs
  <1>6. ASSUME NEW n \in NodesOf(graph)
        PROVE  InLog(n)'
    <2>1. \A port : Shuts(Now, n, port) /\ (n \in Ran \/ run.status = "failed") =>
                        Shuts(Now', n, port)
      BY <1>1, <1>2, <1>4, <1>5, OthersShut
    <2>2. InLog(n)
      BY <1>1, <1>6 DEF Shown
    <2> QED  BY <1>1, <1>3, <2>1, <2>2, InLogKept
  <1>7. ASSUME NEW n \in NodesOf(graph), run.status # "cancelled"
        PROVE  InStory(n)'
    <2>1. InStory(n) /\ ~aborted /\ run.status = "running"
      BY <1>1, <1>7 DEF Shown, Aborting
    <2> DEFINE last == LastOf(Story, n)
    <2>2. /\ last # "none" <=> n \in Seen \/ n = m
          /\ last = "started" => n = m
          /\ last # "requested"
          /\ last = "finished" => n \in Ran /\ graph.kind[n] # "control.approval"
          /\ last = "approved" => n \in Ran
          /\ last \in {"approved", "rejected"} => LastOf(log, n) = last
          /\ last = "waiting" => graph.kind[n] = "control.wait"
          /\ last # "failed"
      BY <1>1, <2>1 DEF InStory, At, Stands, Next1
    <2> HIDE DEF last
    <2>3. how # "aborted"
          /\ LastOf(Story', n) = IF n = m /\ how # "asked" THEN how ELSE last
      BY <1>2, <2>1 DEF last
    <2>4. LastOf(log', n) = LastOf(log, n) /\ run' = run /\ graph' = graph /\ ex'.cur.node = m
      BY <1>1, <1>2
    <2>5. CASE how = "asked"
      BY <1>2, <1>3, <2>1, <2>2, <2>3, <2>4, <2>5 DEF InStory, At, Stands
    <2>6. CASE how = "finished"
      BY <1>2, <1>3, <2>1, <2>2, <2>3, <2>4, <2>6 DEF InStory, At, Stands
    <2>7. CASE how = "failed"
      BY <1>2, <1>3, <2>1, <2>2, <2>3, <2>4, <2>7 DEF InStory, At, Stands
    <2> QED  BY <2>3, <2>5, <2>6, <2>7
  <1> QED  BY <1>1, <1>4, <1>6, <1>7 DEF Shown

LEMMA ShownRoute ==
    ASSUME Typed, Order, Honest, Route
    PROVE  Shown'
  <1> DEFINE m == ex.cur.node
             until == ex.outcome.until
             a == Event("requested", m)
             b == Event("waiting", m)
  <1>1. /\ log \in Seq(Events) /\ ex.events \in Seq(Events) /\ Story \in Seq(Events)
        /\ Truthful /\ Aborting /\ Waiting /\ Shown
    BY StoryTyped DEF Honest
  <1>2. /\ ex.pc = "route" /\ UNCHANGED <<graph, run, log>>
        /\ hist'.ran = hist.ran /\ hist'.owed = hist.owed
        /\ \/ until = "none" /\ ex'.pc = "loop" /\ ex'.events = ex.events
           \/ /\ ex'.pc = "done" /\ ex'.status = "waiting" /\ ex'.continuation.node = m
              /\ until \in {"timer", "control", "exec"}
              /\ \/ ex'.events = Append(ex.events, b)
                 \/ ex'.events = Append(Append(ex.events, a), b)
    BY RouteDoes
  <1>3. run.status \in {"running", "cancelled"}
    BY <1>2 DEF Typed, Phases
  <1>4. /\ Now'.edges = Now.edges /\ Now'.start = Now.start /\ Now'.owed = Now.owed
        /\ Ran' = Ran /\ Seen' = Seen /\ NodesOf(graph)' = NodesOf(graph)
    BY <1>2, RanSame DEF Now, Start
  <1>5. /\ a \in Events /\ b \in Events
        /\ a.node = m /\ a.type = "requested" /\ b.node = m /\ b.type = "waiting"
        /\ "requested" \in DOMAIN BadgeOf /\ "waiting" \in DOMAIN BadgeOf
    BY <1>2, CurrentNode, NamedTyped DEF Event, BadgeOf
  <1>6. ASSUME NEW F \in Seq(Events)
        PROVE  log \o F \in Seq(Events) /\ \A e \in Events : log \o Append(F, e) = Append(log \o F, e)
    BY <1>1, StoryGrows
  <1> HIDE DEF a, b
  <1>7. \A n : LastOf(Story', n) = IF n = m /\ ex'.pc = "done" THEN "waiting" ELSE LastOf(Story, n)
    <2>1. CASE ex'.pc = "loop" /\ ex'.events = ex.events
      <3>1. Story' = Story
        BY <1>2, <2>1 DEF Story
      <3> QED  BY <2>1, <3>1
    <2>2. CASE ex'.pc = "done" /\ ex'.events = Append(ex.events, b)
      <3>1. Story' = Append(Story, b)
        BY <1>1, <1>2, <1>5, <1>6, <2>2 DEF Story
      <3> QED  BY <1>1, <1>5, <2>2, <3>1, LastAppended
    <2>3. CASE ex'.pc = "done" /\ ex'.events = Append(Append(ex.events, a), b)
      <3>1. Append(ex.events, a) \in Seq(Events) /\ Append(Story, a) \in Seq(Events)
        BY <1>1, <1>5, Appended
      <3>2. log \o Append(ex.events, a) = Append(Story, a)
        BY <1>1, <1>5, <1>6 DEF Story
      <3>3. log \o Append(Append(ex.events, a), b) = Append(log \o Append(ex.events, a), b)
        BY <1>5, <1>6, <3>1
      <3>4. Story' = Append(Append(Story, a), b)
        BY <1>2, <2>3, <3>2, <3>3 DEF Story
      <3>5. \A n : LastOf(Append(Story, a), n) = IF n = m THEN "requested" ELSE LastOf(Story, n)
        BY <1>1, <1>5, LastAppended
      <3>6. \A n : LastOf(Append(Append(Story, a), b), n) =
                       IF n = m THEN "waiting" ELSE LastOf(Append(Story, a), n)
        BY <1>5, <3>1, LastAppended
      <3> QED  BY <2>3, <3>4, <3>5, <3>6
    <2> QED  BY <1>2, <2>1, <2>2, <2>3
  <1>8. Suits(graph.kind[m], until) /\ m \in Seen
    BY <1>1, <1>2 DEF Waiting, Kind
  <1>9. ASSUME NEW n \in NodesOf(graph)
        PROVE  InLog(n)'
    <2>1. InLog(n)
      BY <1>1, <1>9 DEF Shown
    <2> QED  BY <1>2, <1>4, <2>1, ShutStays, InLogKept
  <1>10. ASSUME NEW n \in NodesOf(graph), run.status # "cancelled"
         PROVE  InStory(n)'
    <2>1. InStory(n)
      BY <1>1, <1>10 DEF Shown
    <2> DEFINE last == LastOf(Story, n)
    <2>2. /\ last # "none" <=> n \in Seen
          /\ last = "started" => n = m /\ until = "exec"
          /\ last # "requested"
          /\ last = "finished" => n \in Ran /\ (graph.kind[n] = "control.approval" => n = m)
          /\ last = "approved" => n \in Ran
          /\ last \in {"approved", "rejected"} => LastOf(log, n) = last
          /\ last = "waiting" => graph.kind[n] = "control.wait"
          /\ last # "failed"
      BY <1>2, <2>1 DEF InStory, At, Stands, Next1
    <2> HIDE DEF last
    <2>3. LastOf(Story', n) = IF n = m /\ ex'.pc = "done" THEN "waiting" ELSE last
      BY <1>7 DEF last
    <2>4. LastOf(log', n) = LastOf(log, n) /\ run' = run /\ graph' = graph /\ run.status = "running"
      BY <1>2, <1>3, <1>10
    <2>5. CASE ex'.pc = "loop" /\ until = "none"
      <3>1. last # "started" /\ (last = "finished" => graph.kind[n] # "control.approval")
        BY <1>8, <2>2, <2>5 DEF Suits
      <3> QED  BY <1>4, <2>2, <2>3, <2>4, <2>5, <3>1 DEF InStory, Stands
    <2>6. CASE ex'.pc = "done" /\ n = m
      BY <1>2, <1>4, <1>8, <2>3, <2>4, <2>6 DEF InStory, Stands
    <2>7. CASE ex'.pc = "done" /\ n # m
      BY <1>2, <1>4, <2>2, <2>3, <2>4, <2>7 DEF InStory, Stands
    <2> QED  BY <1>2, <2>5, <2>6, <2>7
  <1> QED  BY <1>2, <1>4, <1>9, <1>10 DEF Shown

LEMMA ShownFinalize ==
    ASSUME Typed, Order, Honest, Finalize
    PROVE  Shown'
  <1>1. /\ log \in Seq(Events) /\ Story \in Seq(Events)
        /\ Truthful /\ Aborting /\ Waiting /\ Shown
    BY StoryTyped DEF Honest
  <1>2. /\ ex.pc = "done" /\ ex'.pc = "idle" /\ ex'.events = <<>>
        /\ UNCHANGED <<graph, hist>>
        /\ \/ run.status = "cancelled" /\ UNCHANGED <<log, run>>
           \/ /\ run.status = "running" /\ log' = Story
              /\ run'.status = ex.status /\ run'.error = ex.error
              /\ run'.continuation = ex.continuation /\ run'.trigger = run.trigger
              /\ ex.status \in {"waiting", "succeeded", "failed", "cancelled"}
    BY FinalizeDoes
  <1>3. run'.trigger = run.trigger
    BY <1>2
  <1>4. Now' = Now /\ Ran' = Ran /\ Seen' = Seen /\ NodesOf(graph)' = NodesOf(graph)
    BY <1>2, <1>3, SameWay, RanSame
  <1>5. CASE run.status = "cancelled" /\ UNCHANGED <<log, run>>
    <2>1. ASSUME NEW n \in NodesOf(graph)
          PROVE  InLog(n)'
      BY <1>1, <1>2, <1>4, <1>5, <2>1, InLogKept DEF Shown
    <2> QED  BY <1>4, <1>5, <2>1 DEF Shown
  <1>6. CASE run.status = "running" /\ log' = Story
    <2>1. /\ run'.status = ex.status /\ run'.error = ex.error /\ run'.continuation = ex.continuation
          /\ ex.status \in {"waiting", "succeeded", "failed"}
      BY <1>1, <1>2, <1>6 DEF Aborting
    <2>2. Story' = Story
      BY <1>1, <1>2, <1>6, StoryGrows DEF Story
    <2>3. ASSUME NEW n \in NodesOf(graph)
          PROVE  InLog(n)' /\ InStory(n)'
      <3>1. InStory(n) /\ InLog(n)
        BY <1>1, <1>6, <2>3 DEF Shown
      <3> DEFINE last == LastOf(Story, n)
      <3>2. /\ last # "none" <=> n \in Seen
            /\ last # "started" /\ last # "requested"
            /\ last = "finished" => n \in Ran /\ graph.kind[n] # "control.approval"
            /\ last = "approved" => n \in Ran
            /\ last \in {"approved", "rejected"} => LastOf(log, n) = last
            /\ Stands(n) => last = "waiting"
            /\ last = "waiting" => Stands(n) \/ graph.kind[n] = "control.wait"
            /\ last = "failed" => ex.status = "failed" /\ ex.error = "node"
        BY <1>2, <3>1 DEF InStory, At, Next1
      <3>3. /\ LastOf(log, n) = "rejected" => Shuts(Now, n, "approved") /\ n \in Ran
            /\ LastOf(log, n) = "approved" /\ graph.kind[n] = "control.approval" =>
                  Shuts(Now, n, "rejected") /\ n \in Ran
        BY <1>6, <3>1 DEF InLog
      <3>4. LastOf(Story', n) = last /\ LastOf(log', n) = last
        BY <1>6, <2>2
      <3> HIDE DEF last
      <3>5. /\ last = "rejected" => Shuts(Now, n, "approved") /\ n \in Ran
            /\ last = "approved" /\ graph.kind[n] = "control.approval" =>
                  Shuts(Now, n, "rejected")
        BY <3>2, <3>3
      <3>6. Stands(n) <=> run'.status = "waiting" /\ run'.continuation.node = n
        BY <1>2, <2>1 DEF Stands
      <3>7. InLog(n)'
        BY <1>2, <1>4, <2>1, <3>2, <3>4, <3>5, <3>6 DEF InLog
      <3>8. InStory(n)'
        BY <1>2, <1>4, <2>1, <3>2, <3>4, <3>6 DEF InStory, Stands
      <3> QED  BY <3>7, <3>8
    <2> QED  BY <1>4, <2>3 DEF Shown
  <1> QED  BY <1>2, <1>5, <1>6

LEMMA ShownDecision ==
    ASSUME Typed, Order, Honest, ResumeWaiting \/ \E d \in {"approved", "rejected"} : Decide(d)
    PROVE  Shown'
  <1> DEFINE c == run.continuation
  <1>m. PICK m : m = c.node
    OBVIOUS
  <1>1. /\ log \in Seq(Events) /\ Truthful /\ Waiting /\ Shown /\ Drawn /\ Chosen(Now)
    BY StoryTyped DEF Honest, Typed, Order
  <1>2. /\ run.status = "waiting" /\ ex.pc = "idle" /\ UNCHANGED <<graph, ex, aborted>>
        /\ run'.trigger = run.trigger /\ hist'.ran = hist.ran
        /\ \/ /\ c.kind = "timer" /\ log' = log /\ hist' = hist
              /\ run'.status = "running" /\ run'.continuation.kind = "ready"
           \/ \E d \in {"approved", "rejected"} : Closes(d)
    BY DecisionDoes
  <1>3. Story = log /\ Story' = log'
    <2>1. ex.events = <<>> /\ ex'.events = <<>>
      BY <1>1, <1>2 DEF Truthful
    <2>2. log' \in Seq(Events)
      <3>1. [Next]_vars
        BY DEF Next
      <3>2. TypeOK'
        BY <3>1, TypedStep DEF Typed
      <3> QED  BY <3>2 DEF TypeOK
    <2> QED  BY <1>1, <2>1, <2>2, StoryGrows DEF Story
  <1>4. /\ Now'.edges = Now.edges /\ Now'.start = Now.start
        /\ Ran' = Ran /\ Seen' = Seen /\ NodesOf(graph)' = NodesOf(graph)
        /\ Valid(graph) /\ Stored(Now, c)
    BY <1>2, RanSame DEF Now, Start, Order
  <1>5. \A n : ~Next1(n)
    BY <1>2 DEF Next1
  <1>6. c.kind \in {"timer", "control", "exec"} /\ m \in NodesOf(graph)
        /\ graph.kind[m] = Suitable[c.kind]
    BY <1>1, <1>2, <1>m DEF Waiting, Suited, NodesOf, Typed, TypeOK
  <1>7. ASSUME NEW n \in NodesOf(graph)
        PROVE  LET last == LastOf(log, n)
               IN  /\ last # "none" <=> n \in Seen
                   /\ last # "started" /\ last # "requested" /\ last # "failed"
                   /\ last = "finished" => n \in Ran /\ graph.kind[n] # "control.approval"
                   /\ last = "approved" => n \in Ran
                   /\ last = "rejected" => Shuts(Now, n, "approved") /\ n \in Ran
                   /\ last = "approved" /\ graph.kind[n] = "control.approval" =>
                         Shuts(Now, n, "rejected")
                   /\ n = m => last = "waiting"
                   /\ last = "waiting" => n = m \/ graph.kind[n] = "control.wait"
    <2>1. InLog(n) /\ InStory(n)
      BY <1>1, <1>2, <1>7 DEF Shown
    <2> DEFINE last == LastOf(log, n)
    <2>2. LastOf(Story, n) = last
      BY <1>3
    <2> HIDE DEF last
    <2>3. /\ last = "rejected" => Shuts(Now, n, "approved") /\ n \in Ran
          /\ last = "approved" /\ graph.kind[n] = "control.approval" => Shuts(Now, n, "rejected")
          /\ last = "waiting" => n = m \/ graph.kind[n] = "control.wait"
          /\ last = "finished" => graph.kind[n] # "control.approval"
          /\ last # "failed" /\ last # "requested"
      BY <1>2, <1>m, <2>1 DEF InLog, last
    <2>4. /\ last # "none" <=> n \in Seen
          /\ last # "started" /\ (last = "finished" => n \in Ran) /\ (last = "approved" => n \in Ran)
          /\ n = m => last = "waiting"
      BY <1>2, <1>5, <1>m, <2>1, <2>2 DEF InStory, At
    <2> QED  BY <2>3, <2>4 DEF last
  <1>8. CASE /\ c.kind = "timer" /\ log' = log /\ hist' = hist
             /\ run'.status = "running" /\ run'.continuation.kind = "ready"
    <2>1. Now' = Now
      BY <1>2, <1>8, SameWay
    <2>2. graph.kind[m] = "control.wait"
      BY <1>6, <1>8 DEF Suitable
    <2>3. ASSUME NEW n \in NodesOf(graph)
          PROVE  InLog(n)' /\ InStory(n)'
      <3> DEFINE last == LastOf(log, n)
      <3>1. LastOf(log', n) = last /\ LastOf(Story', n) = last
        BY <1>3, <1>8
      <3>2. /\ last # "none" <=> n \in Seen
            /\ last # "started" /\ last # "requested" /\ last # "failed"
            /\ last = "finished" => n \in Ran /\ graph.kind[n] # "control.approval"
            /\ last = "approved" => n \in Ran
            /\ last = "rejected" => Shuts(Now, n, "approved") /\ n \in Ran
            /\ last = "approved" /\ graph.kind[n] = "control.approval" => Shuts(Now, n, "rejected")
            /\ last = "waiting" => graph.kind[n] = "control.wait"
        BY <1>7, <2>2, <2>3
      <3> HIDE DEF last
      <3>3. InLog(n)'
        BY <1>2, <1>4, <1>8, <2>1, <3>1, <3>2 DEF InLog
      <3>4. InStory(n)'
        BY <1>2, <1>4, <1>8, <3>1, <3>2 DEF InStory, Stands
      <3> QED  BY <3>3, <3>4
    <2> QED  BY <1>4, <2>3 DEF Shown
  <1>9. ASSUME NEW d \in {"approved", "rejected"}, Closes(d)
        PROVE  Shown'
    <2> DEFINE e == Event(d, m)
    <2>1. /\ c.kind \in {"control", "exec"} /\ log' = Append(log, e) /\ hist'.owed = Decided(d)
          /\ \/ /\ d = "approved" \/ c.kind = "control"
                /\ run'.status = "running" /\ run'.continuation.kind = "ready"
                /\ run'.continuation.queue = IF d = "approved" THEN c.yes ELSE c.no
             \/ /\ d = "rejected" /\ c.kind = "exec" /\ run'.status = "failed"
                /\ run'.error = "rejected"
      BY <1>9, <1>m DEF Closes
    <2>2. e \in Events /\ e.node = m /\ e.type = d /\ d \in DOMAIN BadgeOf
      BY <1>6, GraphNames, NamedTyped DEF Typed, Event, BadgeOf
    <2> HIDE DEF e
    <2>3. \A n : LastOf(log', n) = IF n = m THEN d ELSE LastOf(log, n)
      BY <1>1, <2>1, <2>2, LastAppended
    <2>4. /\ c.kind = "control" => m \in Ran /\ Open(Now, m)
          /\ c.kind = "exec" => /\ DOMAIN c.yes = {1} /\ c.yes[1].node = m
                                /\ Shuts(Now, m, "approved") /\ graph.kind[m] = "tool.exec"
      <3>1. c.kind = "control" => m \in Ran /\ Open(Now, m)
        BY <1>1, <1>4, <1>m, LedIs DEF Stored, Waiting, Undecided
      <3>2. ASSUME c.kind = "exec"
            PROVE  /\ DOMAIN c.yes = {1} /\ c.yes[1].node = m
                   /\ Shuts(Now, m, "approved") /\ graph.kind[m] = "tool.exec"
        <4>1. DOMAIN c.yes = {1} /\ c.yes[1].node = m /\ Fresh(Now, c.yes)
          BY <1>4, <1>m, <3>2 DEF Stored
        <4>2. OnPath(Now, c.yes[1]) /\ m \notin Ran
          BY <4>1, LedIs DEF Fresh
        <4>3. Targets(m, {"approved"}) \cap (hist.owed \cup {Start}) = {}
          BY <1>1, <1>4, <4>1, <4>2, TargetsNew
        <4>4. Shuts(Now, m, "approved")
          BY <4>3, LedIs DEF Shuts
        <4> QED  BY <1>6, <3>2, <4>1, <4>4 DEF Suitable
      <3> QED  BY <3>1, <3>2
    <2>5. hist'.owed = hist.owed \/ hist'.owed = hist.owed \cup Targets(m, {d})
      BY <1>m, <2>1 DEF Decided
    <2>6. \A n, port : (n # m \/ port # d) /\ Shuts(Now, n, port) => Shuts(Now', n, port)
      <3> TAKE n, port
      <3> HAVE (n # m \/ port # d) /\ Shuts(Now, n, port)
      <3> DEFINE P == {d}
      <3>1. (m # n \/ port \notin P) /\ Shuts(Now, n, port)
        OBVIOUS
      <3>2. hist'.owed = hist.owed \/ hist'.owed = hist.owed \cup Targets(m, P)
        BY <2>5
      <3> HIDE DEF P
      <3> QED  BY <1>1, <1>4, <3>1, <3>2, OthersShut
    <2>7. /\ d = "rejected" => Shuts(Now', m, "approved") /\ (m \in Ran \/ run'.status = "failed")
          /\ d = "approved" /\ graph.kind[m] = "control.approval" =>
                Shuts(Now', m, "rejected") /\ m \in Ran
      BY <2>1, <2>4, <2>6 DEF Open
    <2>8. d = "approved" => m \in Ran \/ Next1(m)'
      BY <1>2, <2>1, <2>4 DEF Next1
    <2>9. run'.status \in {"running", "failed"}
      BY <2>1
    <2>10. InLog(m)' /\ InStory(m)'
      <3>1. LastOf(log', m) = d /\ LastOf(Story', m) = d
        BY <1>3, <2>3
      <3>2. m \in Seen
        BY <1>6, <1>7
      <3>3. InLog(m)'
        BY <1>2, <1>4, <2>7, <3>1 DEF InLog
      <3>4. InStory(m)'
        BY <1>2, <1>4, <2>8, <2>9, <3>1, <3>2 DEF InStory, Stands
      <3> QED  BY <3>3, <3>4
    <2>11. ASSUME NEW n \in NodesOf(graph), n # m
           PROVE  InLog(n)' /\ InStory(n)'
      <3> DEFINE last == LastOf(log, n)
      <3>1. LastOf(log', n) = last /\ LastOf(Story', n) = last
        BY <1>3, <2>3, <2>11
      <3>2. /\ last # "none" <=> n \in Seen
            /\ last # "started" /\ last # "requested" /\ last # "failed"
            /\ last = "finished" => n \in Ran /\ graph.kind[n] # "control.approval"
            /\ last = "approved" => n \in Ran
            /\ last = "rejected" => Shuts(Now', n, "approved") /\ n \in Ran
            /\ last = "approved" /\ graph.kind[n] = "control.approval" => Shuts(Now', n, "rejected")
            /\ last = "waiting" => graph.kind[n] = "control.wait"
        BY <1>7, <2>6, <2>11
      <3> HIDE DEF last
      <3>3. InLog(n)'
        BY <1>2, <1>4, <3>1, <3>2 DEF InLog
      <3>4. InStory(n)'
        BY <1>2, <1>4, <2>9, <3>1, <3>2 DEF InStory, Stands
      <3> QED  BY <3>3, <3>4
    <2> QED  BY <1>4, <2>10, <2>11 DEF Shown
  <1> QED  BY <1>2, <1>8, <1>9
\* What is honest stays so.
LEMMA HonestInit ==
    ASSUME Init
    PROVE  Honest
  <1>1. /\ run.status = "none" /\ run.continuation = NoContinuation /\ log = <<>> /\ ~aborted
        /\ ex = Idle /\ hist.ran = <<>> /\ hist.owed = {}
    BY DEF Init
  <1>2. /\ ex.pc = "idle" /\ ex.events = <<>> /\ ex.continuation = NoContinuation
        /\ ex.cur.node = None
    BY <1>1 DEF Idle, Item
  <1>3. NoContinuation.kind = "null"
    BY DEF NoContinuation, Continuation
  <1>4. Story = <<>>
    <2>1. <<>> \in Seq(Events)
      OBVIOUS
    <2> QED  BY <1>1, <1>2, <2>1, StoryGrows DEF Story
  <1>5. Truthful
    BY <1>1, <1>2, <1>4 DEF Truthful, Telling, TellingAll
  <1>6. Aborting
    BY <1>2 DEF Aborting
  <1>7. Waiting
    BY <1>1, <1>2, <1>3 DEF Waiting, Suited, Undecided
  <1>8. Seen = {}
    BY <1>1 DEF Seen, ToSet
  <1>9. Shown
    <2>1. \A n : LastOf(log, n) = "none" /\ LastOf(Story, n) = "none"
      BY <1>1, <1>4, LastOfNone
    <2>2. \A n : InLog(n)
      BY <2>1 DEF InLog
    <2>3. \A n : InStory(n)
      BY <1>1, <1>2, <1>8, <2>1 DEF InStory, Stands
    <2> QED  BY <2>2, <2>3 DEF Shown
  <1> QED  BY <1>5, <1>6, <1>7, <1>9 DEF Honest

LEMMA HonestStep ==
    ASSUME Typed, Order, Honest, [Next]_vars
    PROVE  Honest'
  <1>1. Truthful' /\ Aborting' /\ Waiting'
    BY TruthfulStep, AbortingStep, WaitingStep DEF Honest
  <1>2. Shown'
    BY StepKinds, ShownSilent, ShownTake, ShownNode, ShownRoute, ShownFinalize, ShownDecision
  <1> QED  BY <1>1, <1>2 DEF Honest

\* A badge is what the last event of the node makes of it.
LEMMA BadgeIs ==
    ASSUME NEW n \in NodesOf(graph), log \in Seq(Events)
    PROVE  LET last == LastOf(log, n)
           IN  /\ last # "none" => last \in DOMAIN BadgeOf /\ Badge(n) = BadgeOf[last]
               /\ last = "none" => Badge(n) = "none" \/ (Badge(n) = "running" /\ run.status = "running")
  <1>1. CASE Told(log, n) # {}
    <2>1. LastOf(log, n) # "none" /\ LastOf(log, n) \in DOMAIN BadgeOf
      BY <1>1, LastIs
    <2>2. Badge(n) = BadgeOf[LastOf(log, n)]
      <3>1. ~(/\ run.status = "running" /\ Incoming(graph, n) = {}
              /\ \A m \in NodesOf(graph) : Told(log, m) = {})
        BY <1>1
      <3>2. Badge(n) = BadgeOf[LastTold(log, n)]
        BY <1>1, <3>1 DEF Badge
      <3> QED  BY <1>1, <3>2 DEF LastOf
    <2> QED  BY <2>1, <2>2
  <1>2. CASE Told(log, n) = {}
    <2>1. LastOf(log, n) = "none"
      BY <1>2 DEF LastOf
    <2>2. CASE run.status = "running" /\ Incoming(graph, n) = {}
               /\ \A m \in NodesOf(graph) : Told(log, m) = {}
      BY <1>2, <2>1, <2>2 DEF Badge
    <2>3. CASE ~(run.status = "running" /\ Incoming(graph, n) = {}
                 /\ \A m \in NodesOf(graph) : Told(log, m) = {})
      BY <1>2, <2>1, <2>3 DEF Badge
    <2> QED  BY <2>2, <2>3
  <1> QED  BY <1>1, <1>2

\* The log tells what has run, and the badges what became of it.
LEMMA HonestTells ==
    ASSUME Typed, Order, Honest
    PROVE  LogIsTruthful
  <1> DEFINE rests == run.status \in {"waiting", "succeeded", "failed"}
  <1>1. /\ log \in Seq(Events) /\ Truthful /\ Shown /\ Chosen(Now) /\ Phases
    BY StoryTyped DEF Honest, Typed, Order
  <1>2. rests => ex.pc = "idle" /\ Story = log
    <2>1. rests => ex.pc = "idle"
      BY <1>1 DEF Phases
    <2> QED  BY <1>1, <2>1, StoryGrows DEF Truthful, Story
  <1>3. LogTellsRuns
    <2>1. Telling(log, hist.ran) /\ (rests => TellingAll(log, hist.ran))
      BY <1>1, <1>2 DEF Truthful
    <2> QED  BY <2>1 DEF LogTellsRuns, Telling, TellingAll
  <1>4. ASSUME NEW n \in NodesOf(graph)
        PROVE  LET waits == run.status = "waiting" /\ run.continuation.node = n
               IN  /\ rests => /\ Badge(n) # "running"
                               /\ Badge(n) # "none" <=> n \in Seen
                               /\ Badge(n) = "succeeded" => n \in Ran
                   /\ waits => Badge(n) = "waiting"
                   /\ Badge(n) = "waiting" =>
                          waits \/ run.status = "cancelled" \/ graph.kind[n] = "control.wait"
                   /\ Badge(n) = "failed" => run.status = "failed" /\ run.error = "node"
                   /\ Badge(n) = "rejected" => Shuts(Now, n, "approved")
                   /\ Badge(n) = "succeeded" /\ graph.kind[n] = "control.approval" =>
                          Shuts(Now, n, "rejected")
    <2> DEFINE last  == LastOf(log, n)
               waits == run.status = "waiting" /\ run.continuation.node = n
    <2>1. /\ last # "none" => last \in DOMAIN BadgeOf /\ Badge(n) = BadgeOf[last]
          /\ last = "none" => Badge(n) = "none" \/ (Badge(n) = "running" /\ run.status = "running")
      BY <1>1, BadgeIs
    <2>2. /\ DOMAIN BadgeOf = {"started", "finished", "failed", "requested", "waiting",
                               "approved", "rejected"}
          /\ BadgeOf["started"] = "running" /\ BadgeOf["finished"] = "succeeded"
          /\ BadgeOf["failed"] = "failed" /\ BadgeOf["requested"] = "waiting"
          /\ BadgeOf["waiting"] = "waiting" /\ BadgeOf["approved"] = "succeeded"
          /\ BadgeOf["rejected"] = "rejected"
      BY DEF BadgeOf
    <2>3. /\ last = "rejected" => Shuts(Now, n, "approved")
          /\ last = "approved" /\ graph.kind[n] = "control.approval" => Shuts(Now, n, "rejected")
          /\ last = "waiting" => waits \/ run.status = "cancelled" \/ graph.kind[n] = "control.wait"
          /\ last = "failed" => run.status = "failed" /\ run.error = "node"
          /\ last = "finished" => graph.kind[n] # "control.approval"
          /\ last # "requested"
      BY <1>1 DEF Shown, InLog
    <2>4. rests => /\ last # "none" <=> n \in Seen
                   /\ last # "started"
                   /\ last \in {"finished", "approved"} => n \in Ran
                   /\ waits => last = "waiting"
      <3> SUFFICES ASSUME rests
                   PROVE  /\ last # "none" <=> n \in Seen
                          /\ last # "started"
                          /\ last \in {"finished", "approved"} => n \in Ran
                          /\ waits => last = "waiting"
        OBVIOUS
      <3>1. InStory(n) /\ LastOf(Story, n) = last /\ ex.pc = "idle" /\ run.status # "running"
        BY <1>1, <1>2 DEF Shown
      <3> HIDE DEF last
      <3> QED  BY <3>1 DEF InStory, At, Next1
    <2> HIDE DEF last
    <2>5. CASE last = "none"
      BY <2>1, <2>4, <2>5
    <2>6. CASE last # "none"
      BY <2>1, <2>2, <2>3, <2>4, <2>6
    <2> QED  BY <2>5, <2>6
  <1>5. \A n, port : Shuts(Now, n, port) => Ran \cap Targets(n, {port}) = {}
    BY <1>1, LedIs DEF Shuts, Chosen
  <1>6. Ran = {r.node : r \in HasRun}
        /\ \A n : n \in Seen <=> \E r \in ToSet(hist.ran) : r.node = n
    BY DEF Ran, Seen
  <1>7. BadgesTell
    BY <1>4, <1>5, <1>6 DEF BadgesTell
  <1> QED  BY <1>3, <1>7 DEF LogIsTruthful

\* The committed log of a run tells, in order and without a gap, what has run; and
\* what the canvas makes of it (RunInspector.tsx) is what became of the nodes,
\* whatever the graph, the waits, the decisions and the cancellation.
THEOREM TruthTold == Spec => []LogIsTruthful
  <1> DEFINE J == Typed /\ Order /\ Honest
  <1>1. Init => J
    BY OrderInit, HonestInit
  <1>2. J /\ [Next]_vars => J'
    BY TypedStep, OrderStep, HonestStep
  <1>3. J => LogIsTruthful
    BY HonestTells
  <1> HIDE DEF J
  <1> QED  BY <1>1, <1>2, <1>3, PTL DEF Spec

=============================================================================
