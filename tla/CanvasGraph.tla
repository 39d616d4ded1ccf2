----------------------------- MODULE CanvasGraph ------------------------------
(***************************************************************************)
(* The flow canvas of the web client: the graph a user edits, its undo and *)
(* redo history, the clipboard, and the draft the graph was loaded from and*)
(* is saved to (apps/web/src/canvas/store.ts, serialize.ts, Canvas.tsx).   *)
(*                                                                         *)
(* A handler of the store is one step: it reads and sets the state with    *)
(* nothing in between.  Of a node, its type, whether the field the catalog *)
(* has a default for is blank, one other datum and the column it stands in *)
(* are kept; a size or a lock is data like any other.                      *)
(***************************************************************************)
EXTENDS Integers, Sequences, FiniteSets, SequencesExt

CONSTANTS
    Inputs,      \* [node type -> [input port -> data type]]
    Outputs,     \* [node type -> [output port -> data type]]
    Planned,     \* the types the catalog announces and nobody can add yet
    Recipes,     \* graphs a user can insert
    Drafts,      \* graphs the adapter may hold when the canvas opens
    NodeIds, EdgeIds,   \* bound: the nodes and edges known at one time
    MAX_HISTORY,
    MaxSteps     \* bound: what a user does, apart from undo and redo

Types   == DOMAIN Inputs
Note    == "canvas.note"
Columns == 0..1        \* bound: the columns a user drops a node in
NoDraft == [nodes |-> <<>>, edges |-> <<>>]

ASSUME TypesAssumption == DOMAIN Outputs = Types /\ Planned \subseteq Types /\ Note \notin Types
ASSUME BoundsAssumption == MAX_HISTORY \in Nat \ {0} /\ MaxSteps \in Nat
ASSUME IdsAssumption ==
    /\ NodeIds \subseteq Nat /\ IsFiniteSet(NodeIds)
    /\ EdgeIds \subseteq Nat /\ IsFiniteSet(EdgeIds)

VARIABLES
    graph,      \* nodes and edges by id
    past, future, canUndo, canRedo,
    clipboard,  \* a graph, empty before anything is copied
    dirty,
    draft,      \* what the adapter stores for the flow the canvas is of
    sent,       \* {the graph of the save under way}, or NoSave
    missed,     \* the last answer called saved what it had not been sent
    steps       \* what the user has done, apart from undo and redo

canvasVars == <<graph, past, future, canUndo, canRedo, clipboard, dirty, draft, sent, missed, steps>>

Nodes(g) == DOMAIN g.nodes
Edges(g) == DOMAIN g.edges
IsNote(node) == node.type = Note
NoSave == {}

\* Ids are never given twice: a new one is unknown to the graph, to the
\* history and to the clipboard.
Known     == {graph, clipboard} \cup ToSet(past) \cup ToSet(future)
FreeNodes == NodeIds \ UNION {Nodes(g) : g \in Known}
FreeEdges == EdgeIds \ UNION {Edges(g) : g \in Known}

\* The next id, and as many as a graph has, in their order.
NextId(free) == CHOOSE x \in free : \A y \in free : x <= y
Rank(S, x)   == Cardinality({y \in S : y <= x})
NewIds(S, free) == [x \in S |-> CHOOSE y \in free : Rank(free, y) = Rank(S, x)]

Node(type, column) ==
    [type |-> type, blank |-> FALSE, data |-> 0, column |-> column, selected |-> FALSE]
Edge(c) == [source |-> c.source, sourceHandle |-> c.sourceHandle,
            target |-> c.target, targetHandle |-> c.targetHandle, selected |-> FALSE]

WithNode(g, id, node) == [g EXCEPT !.nodes = [n \in Nodes(g) \cup {id} |->
                                                IF n = id THEN node ELSE g.nodes[n]]]
WithEdge(g, id, edge) == [g EXCEPT !.edges = [e \in Edges(g) \cup {id} |->
                                                IF e = id THEN edge ELSE g.edges[e]]]
OnlyNodes(g, keep) == [g EXCEPT !.nodes = [n \in Nodes(g) \cap keep |-> g.nodes[n]]]
OnlyEdges(g, keep) == [g EXCEPT !.edges = [e \in Edges(g) \cap keep |-> g.edges[e]]]

MapNodes(g, Op(_, _)) == [g EXCEPT !.nodes = [n \in Nodes(g) |-> Op(n, g.nodes[n])]]
Select(g, nodes, edges) ==
    [nodes |-> [n \in Nodes(g) |-> [g.nodes[n] EXCEPT !.selected = n \in nodes]],
     edges |-> [e \in Edges(g) |-> [g.edges[e] EXCEPT !.selected = e \in edges]]]
SelectedNodes(g) == {n \in Nodes(g) : g.nodes[n].selected}
SelectedEdges(g) == {e \in Edges(g) : g.edges[e].selected}

\* nodesToGraph and edgesToGraph: a selection is not stored.
Content(g) == Select(g, {}, {})

\* mergeNodeDataWithDefaults: blank fields take the defaults of the catalog, which
\* knows no defaults for a note.
Filled(node)  == IF IsNote(node) THEN node ELSE [node EXCEPT !.blank = FALSE]
Completed(g) == MapNodes(g, LAMBDA n, node : Filled(node))

\* How a stored graph is shown: graphToNodes completes it, and so does a catalog
\* that arrives later.
Readings(g) == {g, Completed(g)}

-----------------------------------------------------------------------------
(* Connections.                                                            *)

Compatible(from, to) == from = "any" \/ to = "any" \/ from = to

\* Sets of nodes that no edge leaves: the search from a node finds those that are
\* in all of them with it.
Closed(g, S) == \A e \in Edges(g) : g.edges[e].source \in S => g.edges[e].target \in S

\* Mutant: the target's direct successors only.
CycleOfTwo(g, source, target) ==
    \E e \in Edges(g) : g.edges[e].source = target /\ g.edges[e].target = source
WouldCreateCycle(g, source, target) ==
    \A S \in SUBSET Nodes(g) : target \in S /\ Closed(g, S) => source \in S

\* Mutant: an input takes as many edges as are drawn to it.
FreePort(g, c) == TRUE
InputFree(g, c) ==
    \A e \in Edges(g) : ~(g.edges[e].target = c.target /\ g.edges[e].targetHandle = c.targetHandle)

\* validateConnection; `replacing` is the edge that is to be moved.
ValidConnection(g, c, replacing) ==
    LET others == OnlyEdges(g, Edges(g) \ replacing)
    IN  /\ c.source # c.target
        /\ {c.source, c.target} \subseteq Nodes(g)
        /\ LET from == g.nodes[c.source].type
               to   == g.nodes[c.target].type
           IN  /\ {from, to} \subseteq Types
               /\ c.sourceHandle \in DOMAIN Outputs[from]
               /\ c.targetHandle \in DOMAIN Inputs[to]
               /\ Compatible(Outputs[from][c.sourceHandle], Inputs[to][c.targetHandle])
        /\ InputFree(others, c)
        /\ ~WouldCreateCycle(others, c.source, c.target)

-----------------------------------------------------------------------------
(* The layers of autoLayout.                                               *)

Indegree(g, n) == Cardinality({e \in Edges(g) : g.edges[e].target = n})

\* The layer of a target, as far as its sources have been seen.
RightOfSource(layer, source, to) ==
    IF layer[to] > layer[source] THEN layer[to] ELSE layer[source] + 1

\* Kahn's algorithm: the nodes without edges to them make the first queue; a
\* node taken from it pushes its targets one layer to the right, and queues
\* those that have no other edge left.  What is never queued gets layers of
\* its own at the end.
Layers(g) ==
    LET flow  == {n \in Nodes(g) : ~IsNote(g.nodes[n])}
        roots == SetToSortSeq({n \in flow : Indegree(g, n) = 0}, <)
        start == [queue |-> roots, layer |-> [n \in flow |-> 0],
                  left |-> [n \in flow |-> Indegree(g, n)]]
        Push(source, s, e) ==
            LET to == g.edges[e].target
            IN  [queue |-> IF s.left[to] = 1 THEN Append(s.queue, to) ELSE s.queue,
                 layer |-> [s.layer EXCEPT ![to] = RightOfSource(s.layer, source, to)],
                 left  |-> [s.left EXCEPT ![to] = @ - 1]]
        Take(s, i) ==
            IF i > Len(s.queue) THEN s
            ELSE LET source == s.queue[i]
                     out    == SetToSortSeq({e \in Edges(g) : g.edges[e].source = source}, <)
                 IN  FoldLeft(LAMBDA t, e : Push(source, t, e), s, out)
        done == FoldLeft(Take, start, [i \in 1..Cardinality(flow) |-> i])
    IN  done.layer

Arranged(g, layer) == MapNodes(g, LAMBDA n, node :
    IF IsNote(node) THEN node ELSE [node EXCEPT !.column = layer[n]])

-----------------------------------------------------------------------------
(* History.                                                                *)

PushHistory(snapshots, g) ==
    LET next == Append(snapshots, g)
    IN  IF Len(next) > MAX_HISTORY THEN Tail(next) ELSE next

UserStep == steps < MaxSteps /\ steps' = steps + 1

\* Every change a user makes.
Change(g) ==
    /\ UserStep
    /\ graph'   = g
    /\ past'    = PushHistory(past, graph)
    /\ future'  = <<>>
    /\ canUndo' = TRUE
    /\ canRedo' = FALSE
    /\ dirty'   = TRUE

NothingElse == UNCHANGED <<clipboard, draft, sent, missed>>
Edit(g) == Change(g) /\ NothingElse

\* Mutant: the graph that is left goes behind those further on.
GoLast(snapshots) == snapshots \o <<graph>>
\* The snapshots there are to go forward to, after a step back.
GoForward(snapshots) == SubSeq(<<graph>> \o snapshots, 1,
                           IF Len(snapshots) < MAX_HISTORY THEN Len(snapshots) + 1 ELSE MAX_HISTORY)

\* Mutant: the last step back is offered twice.
SomeToUndo == past # <<>>
MoreToUndo == Len(past) > 1

\* Mutant: the draft is taken for unchanged.
StaysClean == dirty' = dirty
TurnsDirty == dirty' = TRUE

Undo ==
    /\ past # <<>>
    /\ graph'   = Last(past)
    /\ past'    = Front(past)
    /\ future'  = GoForward(future)
    /\ canUndo' = MoreToUndo
    /\ canRedo' = TRUE
    /\ TurnsDirty
    /\ NothingElse /\ UNCHANGED steps

Redo ==
    /\ future # <<>>
    /\ graph'   = Head(future)
    /\ future'  = Tail(future)
    /\ past'    = PushHistory(past, graph)
    /\ canUndo' = TRUE
    /\ canRedo' = (Len(future) > 1)
    /\ dirty'   = TRUE
    /\ NothingElse /\ UNCHANGED steps

-----------------------------------------------------------------------------
(* The handlers of the canvas.                                             *)

AddNode(type, column) ==
    /\ type \notin Planned
    /\ FreeNodes # {}
    /\ Edit(WithNode(graph, NextId(FreeNodes), Node(type, column)))

AddNote ==
    /\ FreeNodes # {}
    /\ LET id == NextId(FreeNodes)
       IN  Edit(WithNode(Select(graph, {}, SelectedEdges(graph)), id,
                         [Node(Note, 0) EXCEPT !.selected = TRUE]))

\* An edge between the same nodes under their new ids.
Rejoined(c, node) ==
    [c EXCEPT !.source = node[c.source], !.target = node[c.target], !.selected = FALSE]

\* A graph under new ids, its nodes selected, next to what is on the canvas.
Inserted(g, other) ==
    LET node  == NewIds(Nodes(other), FreeNodes)
        edge  == NewIds(Edges(other), FreeEdges)
        plain == Content(g)
        OldNode(n) == other.nodes[CHOOSE x \in Nodes(other) : node[x] = n]
        OldEdge(e) == other.edges[CHOOSE x \in Edges(other) : edge[x] = e]
    IN  [nodes |-> [n \in Nodes(g) \cup Range(node) |->
                       IF n \in Nodes(g) THEN plain.nodes[n]
                       ELSE [OldNode(n) EXCEPT !.selected = TRUE]],
         edges |-> [e \in Edges(g) \cup Range(edge) |->
                       IF e \in Edges(g) THEN plain.edges[e]
                       ELSE Rejoined(OldEdge(e), node)]]
RoomFor(other) ==
    Cardinality(FreeNodes) >= Cardinality(Nodes(other))
    /\ Cardinality(FreeEdges) >= Cardinality(Edges(other))

\* A recipe with a node nobody can add yet is not inserted.
ApplyRecipe(recipe) ==
    /\ \A n \in Nodes(recipe) : recipe.nodes[n].type \in Types \ Planned
    /\ RoomFor(recipe)
    /\ Edit(Inserted(graph, Completed(recipe)))

CopyNode(n) ==
    /\ FreeNodes # {}
    /\ LET id == NextId(FreeNodes)
       IN  Edit(WithNode(Select(graph, {}, SelectedEdges(graph)), id,
                         [Filled(graph.nodes[n]) EXCEPT !.selected = TRUE]))

\* updateNodeData: a field is cleared, or filled in.  Nothing completes it here.
UpdateField(n) == Edit([graph EXCEPT !.nodes[n].blank = ~@])

\* Other data: updateNodeData, updateNodeSize.
UpdateNode(n) == Edit([graph EXCEPT !.nodes[n].data = 1 - @])

\* A drag, as React Flow reports it.
MoveNode(n, column) ==
    /\ graph.nodes[n].column # column
    /\ Edit([graph EXCEPT !.nodes[n].column = column])

SetSelectedNodesLocked ==
    /\ SelectedNodes(graph) # {}
    /\ Edit(MapNodes(graph, LAMBDA n, node :
                IF node.selected THEN [node EXCEPT !.data = 1 - @] ELSE node))

AutoLayout ==
    LET arranged == Arranged(graph, Layers(graph))
    IN  /\ Cardinality({n \in Nodes(graph) : ~IsNote(graph.nodes[n])}) >= 2
        /\ arranged # graph
        /\ Edit(arranged)

Connect(c) ==
    /\ ValidConnection(graph, c, {})
    /\ FreeEdges # {}
    /\ Edit(WithEdge(graph, NextId(FreeEdges), Edge(c)))

\* The end of an edge is dropped on another port: React Flow asks
\* isConnectionValid, which counts the edge itself as taking its port; then
\* reconnectEdge asks again.  An edge that is dropped anywhere else is deleted
\* (onReconnectEnd).
Reconnect(e, c) ==
    /\ ValidConnection(graph, c, {})
    /\ ValidConnection(graph, c, {e})
    /\ Edit([graph EXCEPT !.edges[e] = [Edge(c) EXCEPT !.selected = graph.edges[e].selected]])

DeleteEdge(e) == Edit(OnlyEdges(graph, Edges(graph) \ {e}))

\* Mutant: the edges of a removed node stay.
RemoveNodes(g, ids) == OnlyNodes(g, Nodes(g) \ ids)
RemoveNodesAndConnectedEdges(g, ids) ==
    OnlyEdges(OnlyNodes(g, Nodes(g) \ ids),
              {e \in Edges(g) : {g.edges[e].source, g.edges[e].target} \cap ids = {}})

DeleteNode(n) == Edit(RemoveNodesAndConnectedEdges(graph, {n}))

DeleteSelectedElements ==
    /\ SelectedNodes(graph) \cup SelectedEdges(graph) # {}
    /\ Edit(RemoveNodesAndConnectedEdges(
                OnlyEdges(graph, Edges(graph) \ SelectedEdges(graph)), SelectedNodes(graph)))

\* A selection is no change: it is neither stored nor undone by itself.
SelectOnly(nodes, edges) ==
    /\ UserStep
    /\ graph' = Select(graph, nodes, edges)
    /\ graph' # graph
    /\ UNCHANGED <<past, future, canUndo, canRedo, clipboard, dirty, draft, sent, missed>>

\* The selected nodes with the edges among them.
Selection(g) ==
    LET nodes == SelectedNodes(g)
    IN  Content(OnlyEdges(OnlyNodes(g, nodes),
            {e \in Edges(g) : {g.edges[e].source, g.edges[e].target} \subseteq nodes}))

CopySelection ==
    /\ UserStep
    /\ SelectedNodes(graph) # {}
    /\ clipboard' = Selection(graph)
    /\ clipboard' # clipboard
    /\ UNCHANGED <<graph, past, future, canUndo, canRedo, dirty, draft, sent, missed>>

PasteSelection ==
    /\ clipboard # NoDraft
    /\ RoomFor(clipboard)
    /\ Edit(Inserted(graph, clipboard))

DuplicateSelection ==
    /\ SelectedNodes(graph) # {}
    /\ RoomFor(Selection(graph))
    /\ Edit(Inserted(graph, Selection(graph)))

-----------------------------------------------------------------------------
(* The draft.                                                              *)

ForgetHistory ==
    past' = <<>> /\ future' = <<>> /\ canUndo' = FALSE /\ canRedo' = FALSE

\* setNodeCatalog, whenever the palette is shown or has a new catalog: what is on
\* the canvas is completed, without a mark and without a step to undo.
SetNodeCatalog ==
    /\ graph' = Completed(graph)
    /\ UNCHANGED <<past, future, canUndo, canRedo, clipboard, dirty, draft, sent, missed, steps>>

\* loadFlow, and resetFlow with the empty graph: the canvas is clean, with its blank
\* fields completed.  Nothing asks whether a save is under way.
LoadFlow(g) ==
    /\ UserStep
    /\ graph' = Completed(g)
    /\ draft' = g
    /\ dirty' = FALSE
    /\ clipboard' = NoDraft
    /\ ForgetHistory
    /\ missed' = FALSE
    /\ UNCHANGED sent

\* setFlowName: the name is saved with the graph; it has no history.
SetFlowName ==
    /\ UserStep
    /\ ~dirty
    /\ dirty' = TRUE
    /\ UNCHANGED <<graph, past, future, canUndo, canRedo, clipboard, draft, sent, missed>>

\* doSave: one save at a time.
Save ==
    /\ UserStep
    /\ sent = NoSave
    /\ sent' = {Content(graph)}
    /\ UNCHANGED <<graph, past, future, canUndo, canRedo, clipboard, dirty, draft, missed>>

\* markSaved: whatever is on the screen counts as saved, and as a graph of the
\* flow the answer is about.
MarkSaved ==
    /\ \E g \in sent : draft' = g
    /\ missed' = (Content(graph) \notin Readings(draft'))
    /\ sent'   = NoSave
    /\ dirty'  = FALSE
    /\ UNCHANGED <<graph, past, future, canUndo, canRedo, clipboard, steps>>

\* The save fails; the user is told.
SaveFails ==
    /\ sent # NoSave
    /\ sent' = NoSave
    /\ UNCHANGED <<graph, past, future, canUndo, canRedo, clipboard, dirty, draft, missed, steps>>

-----------------------------------------------------------------------------
\* React Flow names the ports of a connection.
Connections ==
    [source : Nodes(graph), sourceHandle : UNION {DOMAIN Outputs[t] : t \in Types},
     target : Nodes(graph), targetHandle : UNION {DOMAIN Inputs[t] : t \in Types}]

CanvasInit ==
    /\ draft \in Drafts /\ graph = Completed(draft)
    /\ past = <<>> /\ future = <<>> /\ canUndo = FALSE /\ canRedo = FALSE
    /\ clipboard = NoDraft
    /\ dirty = FALSE /\ sent = NoSave /\ missed = FALSE
    /\ steps = 0

AddStep ==
    \/ \E t \in Types, x \in Columns : AddNode(t, x)
    \/ AddNote
    \/ \E r \in Recipes : ApplyRecipe(r)
    \/ \E n \in Nodes(graph) : CopyNode(n)
    \/ CopySelection
    \/ PasteSelection
    \/ DuplicateSelection

ChangeStep ==
    \/ \E n \in Nodes(graph) : UpdateField(n)
    \/ \E n \in Nodes(graph) : UpdateNode(n)
    \/ \E n \in Nodes(graph), x \in Columns : MoveNode(n, x)
    \/ SetSelectedNodesLocked
    \/ AutoLayout
    \/ \E c \in Connections : Connect(c)
    \/ \E e \in Edges(graph), c \in Connections : Reconnect(e, c)

RemoveStep ==
    \/ \E e \in Edges(graph) : DeleteEdge(e)
    \/ \E n \in Nodes(graph) : DeleteNode(n)
    \/ DeleteSelectedElements

SelectStep ==
    \/ SelectOnly({}, {})
    \/ \E n \in Nodes(graph) : SelectOnly({n}, {})
    \/ \E n \in Nodes(graph) : SelectOnly(SelectedNodes(graph) \cup {n}, SelectedEdges(graph))
    \/ \E e \in Edges(graph) : SelectOnly({}, {e})

DraftStep ==
    \/ SetNodeCatalog
    \/ \E g \in Drafts \cup {draft} : LoadFlow(g)
    \/ SetFlowName
    \/ Save
    \/ MarkSaved
    \/ SaveFails

CanvasNext == AddStep \/ ChangeStep \/ RemoveStep \/ SelectStep \/ Undo \/ Redo \/ DraftStep

CanvasSpec == CanvasInit /\ [][CanvasNext]_canvasVars

-----------------------------------------------------------------------------
\* Nodes with a type and edges with two ends.
IsGraph(g) ==
    /\ DOMAIN g = {"nodes", "edges"}
    /\ Nodes(g) \cup Edges(g) \subseteq Nat
    /\ IsFiniteSet(Nodes(g)) /\ IsFiniteSet(Edges(g))
    /\ \A n \in Nodes(g) : /\ DOMAIN g.nodes[n] = {"type", "blank", "data", "column", "selected"}
                           /\ g.nodes[n].type \in Types \cup {Note}
    /\ \A e \in Edges(g) : DOMAIN g.edges[e] = {"source", "sourceHandle", "target",
                                              "targetHandle", "selected"}
HasRoom(g) == Nodes(g) \subseteq NodeIds /\ Edges(g) \subseteq EdgeIds

\* Every variable stays in its domain, and the buttons tell whether there is a
\* step to undo or to redo.
CanvasTypeOK ==
    /\ \A g \in Known \cup {draft} : IsGraph(g) /\ HasRoom(g)
    /\ canUndo = (past # <<>>) /\ canRedo = (future # <<>>)
    /\ Len(past) + Len(future) <= MAX_HISTORY
    /\ {dirty, missed} \subseteq BOOLEAN /\ steps \in 0..MaxSteps

\* A graph the executor can follow: edges join compatible ports of nodes that
\* are there, and no node is reached from itself.
Joins(g) ==
    \A e \in Edges(g) : LET c == g.edges[e] IN
        /\ {c.source, c.target} \subseteq Nodes(g)
        /\ c.sourceHandle \in DOMAIN Outputs[g.nodes[c.source].type]
        /\ c.targetHandle \in DOMAIN Inputs[g.nodes[c.target].type]
Acyclic(g) ==
    \A S \in SUBSET Nodes(g) : S # {} =>
        \E n \in S : \A e \in Edges(g) : g.edges[e].target = n => g.edges[e].source \notin S
Executable(g) == Joins(g) /\ Acyclic(g)

\* Whatever is added, pasted, moved, deleted, undone and redone, in whatever
\* order, the canvas shows and brings back executable graphs only.
AlwaysExecutable == Executable(graph)

\* An input has one edge at most: the value a node works on comes from one node.
OneEdgeEach(g) ==
    \A e, f \in Edges(g) :
        /\ g.edges[e].target = g.edges[f].target
        /\ g.edges[e].targetHandle = g.edges[f].targetHandle
        => e = f
OneEdgePerInput == OneEdgeEach(graph)

\* What the adapter stores was drawn on a canvas, and what the catalog offers as a
\* recipe could have been.
ASSUME GivenAssumption ==
    /\ \A g \in Drafts \cup Recipes : IsGraph(g) /\ Executable(g) /\ OneEdgeEach(g)
    /\ \A g \in Drafts : HasRoom(g)

\* The canvas holds a graph that can be published as far as its edges go.
CanvasSound == CanvasTypeOK /\ AlwaysExecutable /\ OneEdgePerInput

\* What one can go through with undo and redo, in order.
Timeline == past \o <<graph>> \o future

\* A step back or forward loses nothing: it moves along the history and never
\* changes it, so every undo can be redone.
TimelineStays ==
    [][(Undo \/ Redo) => Timeline' = Timeline]_canvasVars

\* A canvas that says it has nothing to save shows what the adapter stores, as it
\* is or with all of its blank fields completed, except for edits made while a save
\* was under way.
CleanIsStored == dirty \/ missed \/ Content(graph) \in Readings(Content(draft))
=============================================================================
