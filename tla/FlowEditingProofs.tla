------------------------- MODULE FlowEditingProofs --------------------------
(***************************************************************************)
(* Safety of the two ends of an edit.                                      *)
(*                                                                         *)
(* FlowVersions, for any number of requests, graphs and versions: what is  *)
(* live is right however the transactions interleave (IInv); that snapshots*)
(* stay, whatever saves overlap, but for the numbers of an overtaken save, *)
(* needs an invariant of its own (IInv /\ Numbered).                       *)
(*                                                                         *)
(* CanvasGraph, for any catalog, any drafts and recipes the executor can   *)
(* follow, any number of ids and a history of any length: everything the   *)
(* canvas shows or can bring back is such a graph (CanvasInv).             *)
(***************************************************************************)
EXTENDS FlowVersions, CanvasGraph, FiniteSetTheorems, SequenceTheorems, WellFoundedInduction, TLAPS


TxOK(a) ==
    /\ tx[a].pc \in {"saving", "restoring", "restored"} =>
         tx[a].version \in Versions /\ tx[a].version < MaxVersion
    /\ tx[a].pc = "publishing" => tx[a].version \in Versions /\ tx[a].graph \in Graphs
    /\ tx[a].pc \in {"restoring", "rolling", "rolled"} => tx[a].target \in Versions
    /\ tx[a].pc \in {"saving", "restored"} => tx[a].graph \in Graphs
    /\ tx[a].pc = "rolled" /\ Exists => snapshots[tx[a].target] # NoGraph

IInv == TypeOK /\ LiveIsValid /\ JobsFollowLive /\ \A a \in Actors : TxOK(a)

\* The names of the steps, each for one actor.
Step(a) ==
    \/ \E g \in Graphs : SaveRead(a, g)
    \/ SaveWrite(a)
    \/ \E v \in Versions : RestoreRead(a, v)
    \/ RestoreFind(a)
    \/ RestoreWrite(a)
    \/ PublishRead(a)
    \/ PublishWrite(a)
    \/ \E v \in Versions : RollbackRead(a, v)
    \/ RollbackFind(a)
    \/ RollbackWrite(a)
    \/ Delete(a)

-----------------------------------------------------------------------------
\* A step is one of an actor's, and of the actor it can be.
LEMMA Steps ==
    Next => \E a \in Actors : Step(a)
  BY DEF Next, SaveStep, PublishStep, Step, Actors

\* A deleted flow is told from any other by its version.
LEMMA FlowShape ==
    ASSUME flow \in Flows \cup {Deleted}
    PROVE  /\ Exists <=> flow \in Flows
           /\ ~Exists => flow = Deleted
           /\ Deleted \notin Flows
           /\ 0 \notin Versions
  BY BoundAssumption DEF Exists, Flows, Deleted, Versions

LEMMA Initially == Init => IInv
  <1> SUFFICES ASSUME Init PROVE IInv
    OBVIOUS
  <1>1. PICK g \in Graphs : flow = [version |-> 1, published |-> 0, graph |-> g]
    BY DEF Init
  <1>2. TypeOK
    BY <1>1, BoundAssumption
       DEF Init, TypeOK, Flows, Versions, NoJobs, Idle, Tx, Deleted
  <1>3. LiveIsValid /\ JobsFollowLive
    BY <1>1 DEF Init, LiveIsValid, JobsFollowLive
  <1>4. \A a \in Actors : TxOK(a)
    BY DEF Init, TxOK, Idle, Tx
  <1> QED  BY <1>2, <1>3, <1>4 DEF IInv

-----------------------------------------------------------------------------
(* Steps that leave the flow alone, and steps that write it.               *)

\* Opening, advancing and closing a transaction.
LEMMA TxMoves ==
    ASSUME IInv, NEW a \in Actors, UNCHANGED <<flow, snapshots, crons, overtaken>>,
           NEW t, tx' = [tx EXCEPT ![a] = t],
           t \in [pc : {"idle", "saving", "restoring", "restored",
                        "publishing", "rolling", "rolled"},
                  version : 0..MaxVersion, target : 0..MaxVersion,
                  graph : Graphs \cup {NoGraph}],
           t.pc \in {"saving", "restoring", "restored"} =>
               t.version \in Versions /\ t.version < MaxVersion,
           t.pc = "publishing" => t.version \in Versions /\ t.graph \in Graphs,
           t.pc \in {"restoring", "rolling", "rolled"} => t.target \in Versions,
           t.pc \in {"saving", "restored"} => t.graph \in Graphs,
           t.pc = "rolled" => snapshots[t.target] # NoGraph
    PROVE  IInv'
  <1>1. TypeOK'
    BY DEF IInv, TypeOK
  <1>2. LiveIsValid' /\ JobsFollowLive'
    BY DEF IInv, LiveIsValid, JobsFollowLive
  <1>3. ASSUME NEW b \in Actors PROVE TxOK(b)'
    <2>1. CASE b = a
      <3>1. tx'[b] = t
        BY <2>1 DEF IInv, TypeOK
      <3> QED  BY <3>1 DEF TxOK
    <2>2. CASE b # a
      <3>1. tx'[b] = tx[b] /\ TxOK(b)
        BY <2>2 DEF IInv, TypeOK
      <3> QED  BY <3>1 DEF TxOK, Exists
    <2> QED  BY <2>1, <2>2
  <1> QED  BY <1>1, <1>2, <1>3 DEF IInv

LEMMA ReadKeeps ==
    ASSUME IInv, NEW a \in Actors, NEW given \in Graphs \cup {NoGraph},
           NEW version \in 0..MaxVersion, NEW target \in 0..MaxVersion,
           NEW pc \in {"saving", "restoring", "publishing", "rolling"},
           ReadFlow(a, pc, version, target, given),
           pc \in {"saving", "restoring"} => version \in Versions /\ version < MaxVersion,
           pc \in {"restoring", "rolling"} => target \in Versions,
           pc \in {"saving", "publishing"} => given \in Graphs,
           pc = "publishing" => version \in Versions
    PROVE  IInv'
  BY TxMoves DEF ReadFlow, Tx

\* A transaction that is closed leaves no trace in tx.
LEMMA TxCloses ==
    ASSUME IInv, NEW a \in Actors, Close(a)
    PROVE  /\ tx'[a].pc = "idle"
           /\ \A b \in Actors : b # a => tx'[b] = tx[b]
           /\ tx' \in [Actors -> [pc : {"idle", "saving", "restoring", "restored",
                                "publishing", "rolling", "rolled"},
                          version : 0..MaxVersion, target : 0..MaxVersion,
                          graph : Graphs \cup {NoGraph}]]
  <1>1. 0 \in 0..MaxVersion
    BY BoundAssumption
  <1> QED  BY <1>1 DEF Close, Idle, Tx, IInv, TypeOK

\* The draft is replaced; what is live is not.
LEMMA StoreKeeps ==
    ASSUME IInv, NEW s \in Actors, tx[s].pc \in {"saving", "restored"},
           StoreDraft(s, tx[s].graph)
    PROVE  IInv'
  <1>1. tx[s].graph \in Graphs /\ tx[s].version + 1 \in Versions
    BY BoundAssumption DEF IInv, TxOK, Versions
  <1>2. flow' \in Flows \cup {Deleted} /\ flow'.published = flow.published
        /\ (Exists' <=> Exists)
    BY <1>1, FlowShape DEF StoreDraft, NextVersion, IInv, TypeOK, Flows, Exists, Deleted
  <1>3. TypeOK'
    <2>1. overtaken' \in 1..(MaxVersion + 1)
      BY <1>1, BoundAssumption DEF StoreDraft, Lower, NextVersion, IInv, TypeOK, Versions
    <2> QED  BY <1>2, <2>1, TxCloses DEF StoreDraft, IInv, TypeOK
  <1>4. LiveIsValid' /\ JobsFollowLive'
    BY <1>2 DEF StoreDraft, IInv, LiveIsValid, JobsFollowLive
  <1>5. \A b \in Actors : TxOK(b)'
    BY <1>2, TxCloses DEF StoreDraft, IInv, TxOK
  <1> QED  BY <1>3, <1>4, <1>5 DEF IInv

\* What becomes live is the validated draft, with its snapshot and its jobs.
LEMMA PublishKeeps ==
    ASSUME IInv, NEW p \in Actors, PublishWrite(p)
    PROVE  IInv'
  <1> DEFINE read == tx[p]
  <1>1. Close(p) /\ read.version \in Versions /\ overtaken' = overtaken
    BY DEF PublishWrite, IInv, TxOK
  <1>2. CASE Exists /\ read.graph \in Valid
    <2>1. /\ snapshots' = [snapshots EXCEPT ![read.version] = read.graph]
          /\ flow' = [flow EXCEPT !.published = read.version]
          /\ crons' = [version |-> read.version, graph |-> read.graph]
      BY <1>2 DEF PublishWrite, DraftRead, Sync
    <2>2. flow \in Flows /\ flow' \in Flows /\ flow'.published = read.version
      BY <1>1, <1>2, <2>1, FlowShape DEF IInv, TypeOK, Flows, Versions
    <2>3. /\ snapshots'[read.version] = read.graph
          /\ snapshots' \in [Versions -> Valid \cup {NoGraph}]
      BY <1>1, <1>2, <2>1 DEF IInv, TypeOK
    <2>4. TypeOK'
      <3>1. overtaken' \in 1..(MaxVersion + 1)
        BY <1>1 DEF IInv, TypeOK
      <3>2. crons' \in [version : Versions, graph : Valid]
        BY <1>1, <1>2, <2>1
      <3> QED  BY <1>1, <2>2, <2>3, <3>1, <3>2, TxCloses DEF TypeOK
    <2>5. LiveIsValid' /\ JobsFollowLive'
      BY <1>1, <1>2, <2>1, <2>2, <2>3, FlowShape
         DEF LiveIsValid, JobsFollowLive, IInv, TypeOK
    <2>6. read.graph # NoGraph
      BY <1>2, GraphsAssumption
    <2>7. \A b \in Actors : TxOK(b)'
      BY <1>1, <1>2, <2>1, <2>3, <2>6, TxCloses DEF IInv, TypeOK, TxOK
    <2> QED  BY <2>4, <2>5, <2>7 DEF IInv
  <1>3. CASE ~(Exists /\ read.graph \in Valid)
    <2>1. UNCHANGED <<flow, snapshots, crons>>
      BY <1>3 DEF PublishWrite
    <2>2. TypeOK' /\ LiveIsValid' /\ JobsFollowLive'
      BY <1>1, <2>1, TxCloses DEF IInv, TypeOK, LiveIsValid, JobsFollowLive
    <2>3. \A b \in Actors : TxOK(b)'
      BY <1>1, <2>1, TxCloses DEF IInv, TxOK, Exists
    <2> QED  BY <2>2, <2>3 DEF IInv
  <1> QED  BY <1>2, <1>3

\* What becomes live is a snapshot that is there, and its jobs.
LEMMA RollbackKeeps ==
    ASSUME IInv, NEW p \in Actors, RollbackWrite(p)
    PROVE  IInv'
  <1> DEFINE version == tx[p].target
  <1>1. Close(p) /\ version \in Versions /\ snapshots' = snapshots /\ overtaken' = overtaken
    BY DEF RollbackWrite, IInv, TxOK
  <1>2. CASE Exists
    <2>1. /\ flow' = [flow EXCEPT !.published = version]
          /\ crons' = [version |-> version, graph |-> snapshots[version]]
      BY <1>2 DEF RollbackWrite, Sync
    <2>2. snapshots[version] \in Valid
      BY <1>1, <1>2 DEF RollbackWrite, IInv, TypeOK, TxOK
    <2>3. flow' \in Flows /\ flow'.published = version
      BY <1>1, <1>2, <2>1, FlowShape DEF IInv, TypeOK, Flows, Versions
    <2>4. TypeOK'
      BY <1>1, <2>1, <2>2, <2>3, TxCloses DEF IInv, TypeOK
    <2>5. LiveIsValid' /\ JobsFollowLive'
      BY <1>1, <2>1, <2>2, <2>3, FlowShape DEF LiveIsValid, JobsFollowLive, IInv, TypeOK
    <2>6. \A b \in Actors : TxOK(b)'
      BY <1>1, <1>2, TxCloses DEF IInv, TxOK
    <2> QED  BY <2>4, <2>5, <2>6 DEF IInv
  <1>3. CASE ~Exists
    <2>1. UNCHANGED <<flow, snapshots, crons>>
      BY <1>1, <1>3 DEF RollbackWrite
    <2>2. TypeOK' /\ LiveIsValid' /\ JobsFollowLive'
      BY <1>1, <2>1, TxCloses DEF IInv, TypeOK, LiveIsValid, JobsFollowLive
    <2>3. \A b \in Actors : TxOK(b)'
      BY <1>1, <2>1, TxCloses DEF IInv, TxOK, Exists
    <2> QED  BY <2>2, <2>3 DEF IInv
  <1> QED  BY <1>2, <1>3

\* Every step keeps the invariant.
LEMMA Inductive == IInv /\ [Next]_vars => IInv'
  <1> SUFFICES ASSUME IInv, [Next]_vars PROVE IInv'
    OBVIOUS
  <1>1. CASE UNCHANGED vars
    BY <1>1 DEF vars, IInv, TypeOK, LiveIsValid, JobsFollowLive, TxOK, Exists
  <1>2. ASSUME NEW a \in Actors, Step(a) PROVE IInv'
    <2>1. CASE \E g \in Graphs : SaveRead(a, g)
      <3>1. flow.version \in Versions /\ flow.version \in 0..MaxVersion /\ 0 \in 0..MaxVersion
        BY <2>1, FlowShape, BoundAssumption DEF SaveRead, ReadFlow, IInv, TypeOK, Flows, Versions
      <3> QED  BY <2>1, <3>1, ReadKeeps DEF SaveRead
    <2>2. CASE SaveWrite(a)
      BY <2>2, StoreKeeps DEF SaveWrite
    <2>3. CASE \E v \in Versions : RestoreRead(a, v)
      <3>1. flow.version \in Versions /\ flow.version \in 0..MaxVersion
            /\ \A v \in Versions : v \in 0..MaxVersion
        BY <2>3, FlowShape, BoundAssumption DEF RestoreRead, ReadFlow, IInv, TypeOK, Flows, Versions
      <3> QED  BY <2>3, <3>1, ReadKeeps DEF RestoreRead
    <2>4. CASE RestoreFind(a)
      <3>1. Idle \in [pc : {"idle"}, version : 0..MaxVersion, target : 0..MaxVersion,
                      graph : {NoGraph}] /\ Idle.pc = "idle"
        BY BoundAssumption DEF Idle, Tx
      <3>2. CASE Found(tx[a].target)
        <4> DEFINE t == Tx("restored", tx[a].version, 0, snapshots[tx[a].target])
        <4>1. tx' = [tx EXCEPT ![a] = t] /\ UNCHANGED <<flow, snapshots, crons, overtaken>>
          BY <2>4, <3>2 DEF RestoreFind
        <4>2. snapshots[tx[a].target] \in Graphs
          BY <2>4, <3>2, GraphsAssumption DEF RestoreFind, Found, IInv, TxOK, TypeOK
        <4>3. /\ tx[a].version \in Versions /\ tx[a].version < MaxVersion
              /\ tx[a].version \in 0..MaxVersion /\ 0 \in 0..MaxVersion
          BY <2>4, BoundAssumption DEF RestoreFind, IInv, TxOK, Versions
        <4> QED  BY <4>1, <4>2, <4>3, TxMoves DEF Tx
      <3>3. CASE ~Found(tx[a].target)
        BY <2>4, <3>1, <3>3, TxMoves DEF RestoreFind, Close
      <3> QED  BY <3>2, <3>3
    <2>5. CASE RestoreWrite(a)
      BY <2>5, StoreKeeps DEF RestoreWrite
    <2>6. CASE PublishRead(a)
      <3>1. flow.version \in Versions /\ flow.version \in 0..MaxVersion /\ 0 \in 0..MaxVersion
            /\ flow.graph \in Graphs
        BY <2>6, FlowShape, BoundAssumption DEF PublishRead, ReadFlow, IInv, TypeOK, Flows, Versions
      <3> QED  BY <2>6, <3>1, ReadKeeps DEF PublishRead
    <2>7. CASE PublishWrite(a)
      BY <2>7, PublishKeeps
    <2>8. CASE \E v \in Versions : RollbackRead(a, v)
      <3>1. 0 \in 0..MaxVersion /\ \A v \in Versions : v \in 0..MaxVersion
        BY BoundAssumption DEF Versions
      <3> QED  BY <2>8, <3>1, ReadKeeps DEF RollbackRead
    <2>9. CASE RollbackFind(a)
      <3>1. Idle \in [pc : {"idle"}, version : 0..MaxVersion, target : 0..MaxVersion,
                      graph : {NoGraph}] /\ Idle.pc = "idle"
        BY BoundAssumption DEF Idle, Tx
      <3>2. CASE Found(tx[a].target)
        <4> DEFINE t == [tx[a] EXCEPT !.pc = "rolled"]
        <4>1. tx' = [tx EXCEPT ![a] = t] /\ UNCHANGED <<flow, snapshots, crons, overtaken>>
          BY <2>9, <3>2 DEF RollbackFind, IInv, TypeOK
        <4> QED  BY <2>9, <3>2, <4>1, TxMoves DEF RollbackFind, Found, IInv, TypeOK, TxOK
      <3>3. CASE ~Found(tx[a].target)
        BY <2>9, <3>1, <3>3, TxMoves DEF RollbackFind, Close
      <3> QED  BY <3>2, <3>3
    <2>10. CASE RollbackWrite(a)
      BY <2>10, RollbackKeeps
    <2>11. CASE Delete(a)
      BY <2>11 DEF Delete, IInv, TypeOK, LiveIsValid, JobsFollowLive, TxOK,
                   Deleted, NoJobs, Exists
    <2> QED  BY <1>2, <2>1, <2>2, <2>3, <2>4, <2>5, <2>6, <2>7, <2>8, <2>9,
                <2>10, <2>11 DEF Step
  <1> QED  BY <1>1, <1>2, Steps

LEMMA Invariance == Spec => []IInv
  BY Initially, Inductive, PTL DEF Spec

-----------------------------------------------------------------------------
\* Every variable keeps its type; snapshots and cron jobs hold valid graphs.
THEOREM TypeCorrect == Spec => []TypeOK
  BY Invariance, PTL DEF IInv

\* However saves, publications, rollbacks and a deletion interleave, the live
\* version has a snapshot, and a valid one.
THEOREM LiveValid == Spec => []LiveIsValid
  BY Invariance, PTL DEF IInv

\* However publications and rollbacks overtake one another, the cron jobs are
\* those of the live version.
THEOREM JobsAreLive == Spec => []JobsFollowLive
  BY Invariance, PTL DEF IInv

-----------------------------------------------------------------------------
(* Snapshots stay, below the numbers of overtaken saves.                   *)

\* Graph g goes by the number v: as the draft, as a draft that is about to be
\* published, or as a snapshot.
Named(v, g) ==
    \/ v = flow.version /\ g = flow.graph
    \/ \E p \in Actors : /\ tx[p].pc = "publishing"
                         /\ v = tx[p].version /\ g = tx[p].graph
    \/ v \in Versions /\ g = snapshots[v] /\ g # NoGraph

\* A number that no overtaken save has reached stands for one graph and is not
\* above that of the draft; an overtaken save leaves a draft above all of them.
Numbered ==
    Exists =>
      /\ \A v \in Versions : v < overtaken =>
           \A g, h \in Graphs : Named(v, g) /\ Named(v, h) => g = h
      /\ \A v \in Versions, g \in Graphs : v < overtaken /\ Named(v, g) => v <= flow.version
      /\ overtaken <= flow.version \/ overtaken = MaxVersion + 1

\* Nothing brings a deleted flow back.
LEMMA StaysDeleted == IInv /\ [Next]_vars => (Exists' => Exists)
  BY Steps DEF vars, Exists, Step, SaveRead, SaveWrite, RestoreRead, RestoreFind,
       RestoreWrite, PublishRead, PublishWrite, RollbackRead, RollbackFind,
       RollbackWrite, Delete, ReadFlow, StoreDraft

\* A step that brings no new name and leaves number and graph of the draft.
LEMMA NoNewNames ==
    ASSUME Numbered, Exists' => Exists, overtaken' = overtaken,
           flow'.version = flow.version, flow'.graph = flow.graph,
           \A v \in Versions, g \in Graphs : Exists /\ Named(v, g)' => Named(v, g)
    PROVE  Numbered'
  BY DEF Numbered

\* Reading keeps what the draft goes by, or nothing.
LEMMA ReadNames ==
    ASSUME IInv, Numbered, NEW a \in Actors, NEW pc, NEW version, NEW target, NEW given,
           ReadFlow(a, pc, version, target, given),
           pc = "publishing" => version = flow.version /\ given = flow.graph
    PROVE  Numbered'
  <1>1. tx'[a] = Tx(pc, version, target, given) /\ \A b \in Actors : b # a => tx'[b] = tx[b]
    BY DEF ReadFlow, IInv, TypeOK
  <1>2. UNCHANGED <<flow, snapshots, overtaken>>
    BY DEF ReadFlow
  <1>3. \A v \in Versions, g \in Graphs : Named(v, g)' => Named(v, g)
    BY <1>1, <1>2 DEF Named, Tx
  <1> QED  BY <1>2, <1>3, NoNewNames DEF Exists

\* A transaction that moves on, or closes, without a write to the flow.
LEMMA FindNames ==
    ASSUME IInv, Numbered, NEW a \in Actors, UNCHANGED <<flow, snapshots, overtaken>>,
           NEW t, tx' = [tx EXCEPT ![a] = t], t.pc # "publishing"
    PROVE  Numbered'
  <1>1. tx'[a] = t /\ \A b \in Actors : b # a => tx'[b] = tx[b]
    BY DEF IInv, TypeOK
  <1>2. \A v \in Versions, g \in Graphs : Named(v, g)' => Named(v, g)
    BY <1>1 DEF Named
  <1> QED  BY <1>2, NoNewNames DEF Exists

\* A save that replaces the draft it has read takes the number after the last;
\* any other takes a number none below which it disturbs.
LEMMA StoreNames ==
    ASSUME IInv, Numbered, NEW s \in Actors, tx[s].pc \in {"saving", "restored"},
           StoreDraft(s, tx[s].graph)
    PROVE  Numbered'
  <1>1. /\ tx'[s].pc = "idle"
        /\ \A b \in Actors : b # s => tx'[b] = tx[b]
        /\ snapshots' = snapshots
    BY TxCloses DEF StoreDraft
  <1>2. CASE Exists
    <2> DEFINE number == tx[s].version + 1
    <2>1. /\ flow \in Flows /\ flow.version \in Nat /\ tx[s].version \in Nat
          /\ MaxVersion \in Nat /\ overtaken \in Nat /\ number \in Nat /\ number <= MaxVersion
          /\ \A v \in Versions : v \in Nat /\ v <= MaxVersion
      BY <1>2, FlowShape, BoundAssumption DEF IInv, TypeOK, TxOK, Flows, Versions
    <2>2. flow'.version = number /\ flow'.graph = tx[s].graph
      BY <1>2, <2>1 DEF StoreDraft, NextVersion, Flows
    <2>3. \A v \in Versions, g \in Graphs :
            Named(v, g)' => (v = number /\ g = tx[s].graph) \/ Named(v, g)
      BY <1>1, <2>2 DEF Named
    <2>4. \A v \in Versions, g \in Graphs : v < overtaken /\ Named(v, g) => v <= flow.version
      BY <1>2 DEF Numbered
    <2>5. \A v \in Versions : v < overtaken =>
            \A g, h \in Graphs : Named(v, g) /\ Named(v, h) => g = h
      BY <1>2 DEF Numbered
    <2>6. overtaken <= flow.version \/ overtaken = MaxVersion + 1
      BY <1>2 DEF Numbered
    <2>7. CASE tx[s].version = flow.version
      <3>1. overtaken' = overtaken
        BY <1>2, <2>7 DEF StoreDraft
      <3>2. ASSUME NEW v \in Versions, NEW g \in Graphs, v < overtaken, Named(v, g)'
            PROVE  /\ v <= number
                   /\ v = number => g = tx[s].graph
                   /\ v # number => Named(v, g)
        <4>1. (v = number /\ g = tx[s].graph) \/ Named(v, g)
          BY <2>3, <3>2
        <4>2. Named(v, g) => v <= flow.version
          BY <2>4, <3>2
        <4> QED  BY <2>1, <2>7, <4>1, <4>2
      <3>3. \A v \in Versions : v < overtaken =>
              \A g, h \in Graphs : Named(v, g)' /\ Named(v, h)' => g = h
        BY <2>5, <3>2
      <3>4. overtaken <= number \/ overtaken = MaxVersion + 1
        BY <2>1, <2>6, <2>7
      <3> QED  BY <2>2, <3>1, <3>2, <3>3, <3>4 DEF Numbered
    <2>8. CASE tx[s].version # flow.version
      <3>1. overtaken' = IF overtaken < number THEN overtaken ELSE number
        BY <1>2, <2>8 DEF StoreDraft, NextVersion, Lower
      <3>2. overtaken' <= number /\ overtaken' <= overtaken
        BY <2>1, <3>1
      <3>3. ASSUME NEW v \in Versions, v < overtaken'
            PROVE  v < overtaken /\ v <= number /\ v # number
        BY <2>1, <3>1, <3>3
      <3>4. \A v \in Versions, g \in Graphs : v < overtaken' /\ Named(v, g)' => Named(v, g)
        BY <2>3, <3>3
      <3> QED  BY <2>2, <2>5, <3>2, <3>3, <3>4 DEF Numbered
    <2> QED  BY <2>7, <2>8
  <1>3. CASE ~Exists
    BY <1>3 DEF StoreDraft, Numbered, Exists
  <1> QED  BY <1>2, <1>3

\* A publication names nothing anew: the graph had its number as the draft.
LEMMA PublishNames ==
    ASSUME IInv, Numbered, NEW p \in Actors, PublishWrite(p)
    PROVE  /\ Numbered'
           /\ \A v \in Versions : Exists /\ snapshots[v] # NoGraph /\ v < overtaken =>
                snapshots'[v] = snapshots[v]
  <1> DEFINE read == tx[p]
  <1>1. /\ tx'[p].pc = "idle"
        /\ \A b \in Actors : b # p => tx'[b] = tx[b]
        /\ overtaken' = overtaken
    BY TxCloses DEF PublishWrite
  <1>2. CASE Exists /\ read.graph \in Valid
    <2>1. /\ snapshots' = [snapshots EXCEPT ![read.version] = read.graph]
          /\ flow' = [flow EXCEPT !.published = read.version]
      BY <1>2 DEF PublishWrite, DraftRead
    <2>2. /\ flow'.version = flow.version /\ flow'.graph = flow.graph
          /\ read.version \in Versions /\ read.graph \in Graphs
      BY <1>2, <2>1, FlowShape DEF PublishWrite, IInv, TypeOK, TxOK, Flows
    <2>3. Named(read.version, read.graph)
      BY DEF PublishWrite, Named
    <2>4. \A v \in Versions : snapshots'[v] = IF v = read.version THEN read.graph
                                              ELSE snapshots[v]
      BY <2>1, <2>2 DEF IInv, TypeOK
    <2>5. \A v \in Versions, g \in Graphs : Named(v, g)' => Named(v, g)
      BY <1>1, <2>2, <2>3, <2>4 DEF Named
    <2>6. \A v \in Versions : snapshots[v] # NoGraph /\ v < overtaken =>
            snapshots'[v] = snapshots[v]
      <3>1. SUFFICES ASSUME snapshots[read.version] # NoGraph, read.version < overtaken
                     PROVE  snapshots[read.version] = read.graph
        BY <2>4
      <3>2. Named(read.version, snapshots[read.version])
        BY <2>2, <3>1 DEF Named
      <3>3. snapshots[read.version] \in Graphs
        BY <2>2, <3>1, GraphsAssumption DEF IInv, TypeOK
      <3> QED  BY <1>2, <2>2, <2>3, <3>1, <3>2, <3>3 DEF Numbered
    <2> QED  BY <1>1, <1>2, <2>2, <2>5, <2>6, NoNewNames
  <1>3. CASE ~(Exists /\ read.graph \in Valid)
    <2>1. UNCHANGED <<flow, snapshots>>
      BY <1>3 DEF PublishWrite
    <2>2. \A v \in Versions, g \in Graphs : Named(v, g)' => Named(v, g)
      BY <1>1, <2>1 DEF Named
    <2> QED  BY <1>1, <2>1, <2>2, NoNewNames DEF Exists
  <1> QED  BY <1>2, <1>3

LEMMA RollbackNames ==
    ASSUME IInv, Numbered, NEW p \in Actors, RollbackWrite(p)
    PROVE  Numbered'
  <1>1. /\ tx'[p].pc = "idle"
        /\ \A b \in Actors : b # p => tx'[b] = tx[b]
        /\ snapshots' = snapshots /\ overtaken' = overtaken
    BY TxCloses DEF RollbackWrite
  <1>2. /\ flow'.version = flow.version /\ flow'.graph = flow.graph
        /\ Exists' => Exists
    BY FlowShape DEF RollbackWrite, IInv, TypeOK, Flows, Exists
  <1>3. \A v \in Versions, g \in Graphs : Named(v, g)' => Named(v, g)
    BY <1>1, <1>2 DEF Named
  <1> QED  BY <1>1, <1>2, <1>3, NoNewNames

\* What a step does to the names, and to the snapshots.
LEMMA NamesInductive ==
    ASSUME IInv, Numbered, [Next]_vars
    PROVE  /\ Numbered'
           /\ \A v \in Versions : snapshots[v] # NoGraph /\ Exists' /\ v < overtaken =>
                snapshots'[v] = snapshots[v]
  <1>1. CASE UNCHANGED vars
    BY <1>1 DEF vars, Numbered, Named, Exists
  <1>2. ASSUME NEW s \in Savers, SaveStep(s)
        PROVE  Numbered' /\ UNCHANGED snapshots
    <2>0. s \in Actors
      BY DEF Actors
    <2>1. CASE \E g \in Graphs : SaveRead(s, g)
      <3>1. PICK g \in Graphs : ReadFlow(s, "saving", flow.version, 0, g)
        BY <2>1 DEF SaveRead
      <3>2. Numbered'
        BY <2>0, <3>1, ReadNames
      <3> QED  BY <3>1, <3>2 DEF ReadFlow
    <2>2. CASE SaveWrite(s)
      BY <2>0, <2>2, StoreNames DEF SaveWrite, StoreDraft
    <2>3. CASE \E v \in Versions : RestoreRead(s, v)
      <3>1. PICK v \in Versions : ReadFlow(s, "restoring", flow.version, v, NoGraph)
        BY <2>3 DEF RestoreRead
      <3>2. Numbered'
        BY <2>0, <3>1, ReadNames
      <3> QED  BY <3>1, <3>2 DEF ReadFlow
    <2>4. CASE RestoreFind(s)
      <3>1. PICK t : tx' = [tx EXCEPT ![s] = t] /\ t.pc \in {"idle", "restored"}
        <4>1. CASE Found(tx[s].target)
          <5>1. tx' = [tx EXCEPT ![s] = Tx("restored", tx[s].version, 0, snapshots[tx[s].target])]
            BY <2>4, <4>1 DEF RestoreFind
          <5>2. Tx("restored", tx[s].version, 0, snapshots[tx[s].target]).pc = "restored"
            BY DEF Tx
          <5> QED  BY <5>1, <5>2
        <4>2. CASE ~Found(tx[s].target)
          <5>1. tx' = [tx EXCEPT ![s] = Idle] /\ Idle.pc = "idle"
            BY <2>4, <4>2 DEF RestoreFind, Close, Idle, Tx
          <5> QED  BY <5>1
        <4> QED  BY <4>1, <4>2
      <3> QED  BY <2>0, <2>4, <3>1, FindNames DEF RestoreFind
    <2>5. CASE RestoreWrite(s)
      BY <2>0, <2>5, StoreNames DEF RestoreWrite, StoreDraft
    <2> QED  BY <1>2, <2>1, <2>2, <2>3, <2>4, <2>5 DEF SaveStep
  <1>3. ASSUME NEW p \in Publishers, PublishStep(p)
        PROVE  /\ Numbered'
               /\ \A v \in Versions : snapshots[v] # NoGraph /\ Exists /\ v < overtaken =>
                    snapshots'[v] = snapshots[v]
    <2>0. p \in Actors
      BY DEF Actors
    <2>1. CASE PublishRead(p)
      BY <2>0, <2>1, ReadNames DEF PublishRead, ReadFlow
    <2>2. CASE PublishWrite(p)
      BY <2>0, <2>2, PublishNames
    <2>3. CASE \E v \in Versions : RollbackRead(p, v)
      <3>1. PICK v \in Versions : ReadFlow(p, "rolling", 0, v, NoGraph)
        BY <2>3 DEF RollbackRead
      <3>2. Numbered'
        BY <2>0, <3>1, ReadNames
      <3> QED  BY <3>1, <3>2 DEF ReadFlow
    <2>4. CASE RollbackFind(p)
      <3>1. PICK t : tx' = [tx EXCEPT ![p] = t] /\ t.pc \in {"idle", "rolled"}
        <4>1. CASE Found(tx[p].target)
          <5>1. /\ tx' = [tx EXCEPT ![p] = [tx[p] EXCEPT !.pc = "rolled"]]
                /\ [tx[p] EXCEPT !.pc = "rolled"].pc = "rolled"
            BY <2>0, <2>4, <4>1 DEF RollbackFind, IInv, TypeOK
          <5> QED  BY <5>1
        <4>2. CASE ~Found(tx[p].target)
          <5>1. tx' = [tx EXCEPT ![p] = Idle]
            BY <2>4, <4>2 DEF RollbackFind, Close
          <5>2. Idle.pc = "idle"
            BY DEF Idle, Tx
          <5> QED  BY <5>1, <5>2
        <4> QED  BY <4>1, <4>2
      <3> QED  BY <2>0, <2>4, <3>1, FindNames DEF RollbackFind
    <2>5. CASE RollbackWrite(p)
      BY <2>0, <2>5, RollbackNames DEF RollbackWrite
    <2> QED  BY <1>3, <2>1, <2>2, <2>3, <2>4, <2>5 DEF PublishStep
  <1>4. ASSUME NEW d \in Deleters, Delete(d)
        PROVE  Numbered' /\ ~Exists'
    BY <1>4 DEF Delete, Exists, Numbered
  <1> QED  BY <1>1, <1>2, <1>3, <1>4, StaysDeleted DEF Next, vars

\* However saves, restorations, publications and rollbacks of a flow overlap, a
\* published snapshot stays as it is until the flow is deleted, unless its number
\* is at or above one that an overtaken save has stored.
THEOREM SnapshotsSettled == Spec => SnapshotsStay
  <1>1. Init => Numbered
    <2> SUFFICES ASSUME Init PROVE Numbered
      OBVIOUS
    <2>1. PICK g \in Graphs : flow = [version |-> 1, published |-> 0, graph |-> g]
      BY DEF Init
    <2>2. \A a \in Actors : tx[a].pc = "idle"
      BY DEF Init, Idle, Tx
    <2>3. \A v \in Versions, h \in Graphs : Named(v, h) => v = 1 /\ h = g
      BY <2>1, <2>2 DEF Init, Named
    <2> QED  BY <2>1, <2>3 DEF Numbered, Init
  <1>2. IInv /\ Numbered /\ [Next]_vars => Numbered'
    BY NamesInductive
  <1>3. IInv /\ Numbered /\ [Next]_vars =>
          [\A v \in Versions : snapshots[v] # NoGraph /\ Exists' /\ v < overtaken =>
             snapshots'[v] = snapshots[v]]_vars
    BY NamesInductive
  <1> QED  BY <1>1, <1>2, <1>3, Invariance, PTL DEF Spec, SnapshotsStay

-----------------------------------------------------------------------------
(* CanvasGraph: what its invariant is made of.                             *)

\* A graph that can be published as far as its edges go, and the ends of an edge.
Sound(g) == IsGraph(g) /\ Executable(g) /\ OneEdgeEach(g)
Fine(g)  == Sound(g) /\ HasRoom(g)
NodeFields == {"type", "blank", "data", "column", "selected"}
EdgeFields == {"source", "sourceHandle", "target", "targetHandle", "selected"}
SameEnds(c, d) ==
    /\ c.source = d.source /\ c.sourceHandle = d.sourceHandle
    /\ c.target = d.target /\ c.targetHandle = d.targetHandle

\* Whatever the canvas shows or can bring back is one of a set of such graphs; a
\* save that is under way has stored no selection.
Kept(G) ==
    /\ {graph, clipboard, draft} \cup sent \subseteq G
    /\ past \in Seq(G) /\ future \in Seq(G)
    /\ \A g \in G : Fine(g)
AllKept == \E G : Kept(G)
Counted ==
    /\ canUndo = (past # <<>>) /\ canRedo = (future # <<>>)
    /\ Len(past) + Len(future) <= MAX_HISTORY
    /\ dirty \in BOOLEAN /\ missed \in BOOLEAN /\ steps \in 0..MaxSteps
PlainSent == \A g \in sent : Content(g) = g
CanvasInv == AllKept /\ Counted /\ PlainSent /\ CleanIsStored

-----------------------------------------------------------------------------
(* CanvasGraph: ids.                                                       *)

LEMMA LeastId ==
    ASSUME NEW S \in SUBSET Nat, S # {}
    PROVE  NextId(S) \in S
  <1>1. PICK m \in S : \A i \in S : ~ (<<i, m>> \in OpToRel(<, Nat))
    BY WFMin, NatLessThanWellFounded
  <1>2. \A i \in S : <<i, m>> \in OpToRel(<, Nat) <=> i < m
    BY DEF OpToRel
  <1>3. \A i \in S : ~(i < m)
    BY <1>1, <1>2
  <1>4. \A i \in S : m <= i
    BY <1>3
  <1> QED  BY <1>4 DEF NextId

\* The ranks of the elements of a set count it.
LEMMA Ranks ==
    ASSUME NEW S \in SUBSET Nat, IsFiniteSet(S)
    PROVE  /\ Cardinality(S) \in Nat
           /\ \A x \in S : Rank(S, x) \in 1..Cardinality(S)
           /\ \A x, y \in S : Rank(S, x) = Rank(S, y) => x = y
           /\ \A k \in 1..Cardinality(S) : \E x \in S : Rank(S, x) = k
  <1> DEFINE n == Cardinality(S)
             Upto(x) == {y \in S : y <= x}
             rank == [x \in S |-> Rank(S, x)]
  <1>0. n \in Nat
    BY FS_CardinalityType
  <1>1. ASSUME NEW x \in S
        PROVE  /\ Upto(x) \in SUBSET S /\ IsFiniteSet(Upto(x)) /\ Rank(S, x) = Cardinality(Upto(x))
               /\ Rank(S, x) \in 1..n
    <2>1. Upto(x) \in SUBSET S /\ x \in Upto(x)
      OBVIOUS
    <2>2. IsFiniteSet(Upto(x)) /\ Cardinality(Upto(x)) <= n
      BY <2>1, FS_Subset
    <2>3. Cardinality(Upto(x)) \in Nat /\ Cardinality(Upto(x)) # 0
      BY <2>1, <2>2, FS_CardinalityType, FS_EmptySet
    <2>4. Rank(S, x) = Cardinality(Upto(x))
      BY DEF Rank
    <2> QED  BY <1>0, <2>1, <2>2, <2>3, <2>4
  <1>2. ASSUME NEW x \in S, NEW y \in S, x < y
        PROVE  Rank(S, x) # Rank(S, y)
    <2>1. Upto(x) \in SUBSET Upto(y) /\ y \in Upto(y) /\ y \notin Upto(x)
      <3>1. \A m \in S : m <= x => m <= y
        BY <1>2
      <3>2. y <= y /\ ~(y <= x)
        BY <1>2
      <3> QED  BY <3>1, <3>2
    <2> QED  BY <1>1, <2>1, FS_Subset
  <1>3. ASSUME NEW x \in S, NEW y \in S, x # y
        PROVE  Rank(S, x) # Rank(S, y)
    <2>1. x < y \/ y < x
      BY <1>3
    <2> QED  BY <1>2, <2>1
  <1>4. rank \in [S -> 1..n] /\ \A x, y \in S : rank[x] = rank[y] => x = y
    BY <1>1, <1>3
  <1>5. rank \in Injection(S, 1..n)
    BY <1>4 DEF Injection, IsInjective
  <1>6. IsFiniteSet(1..n) /\ Cardinality(1..n) = n
    BY <1>0, FS_Interval
  <1>7. rank \in Surjection(S, 1..n)
    BY <1>5, <1>6, FS_Injection
  <1>8. \A k \in 1..n : \E x \in S : Rank(S, x) = k
    BY <1>7 DEF Surjection
  <1> QED  BY <1>0, <1>1, <1>3, <1>8

\* New ids are free, and two of them differ.
LEMMA Renewed ==
    ASSUME NEW S \in SUBSET Nat, IsFiniteSet(S), NEW free \in SUBSET Nat, IsFiniteSet(free),
           Cardinality(S) <= Cardinality(free)
    PROVE  /\ DOMAIN NewIds(S, free) = S
           /\ \A x \in S : NewIds(S, free)[x] \in free
           /\ \A x, y \in S : NewIds(S, free)[x] = NewIds(S, free)[y] => x = y
  <1>1. /\ Cardinality(S) \in Nat /\ Cardinality(free) \in Nat
        /\ \A x \in S : Rank(S, x) \in 1..Cardinality(S)
        /\ \A x, y \in S : Rank(S, x) = Rank(S, y) => x = y
        /\ \A k \in 1..Cardinality(free) : \E x \in free : Rank(free, x) = k
    BY Ranks
  <1>2. \A x \in S : Rank(S, x) \in 1..Cardinality(free)
    BY <1>1
  <1>3. \A x \in S : \E y \in free : Rank(free, y) = Rank(S, x)
    BY <1>1, <1>2
  <1>4. DOMAIN NewIds(S, free) = S
    BY DEF NewIds
  <1>5. \A x \in S : /\ NewIds(S, free)[x] \in free
                     /\ Rank(free, NewIds(S, free)[x]) = Rank(S, x)
    BY <1>3 DEF NewIds
  <1> QED  BY <1>1, <1>4, <1>5

\* What is free is not on the canvas.
LEMMA Free ==
    /\ FreeNodes \in SUBSET Nat /\ IsFiniteSet(FreeNodes) /\ FreeNodes \subseteq NodeIds
    /\ FreeEdges \in SUBSET Nat /\ IsFiniteSet(FreeEdges) /\ FreeEdges \subseteq EdgeIds
    /\ FreeNodes \cap Nodes(graph) = {} /\ FreeEdges \cap Edges(graph) = {}
  <1>1. FreeNodes \subseteq NodeIds /\ FreeEdges \subseteq EdgeIds
    BY DEF FreeNodes, FreeEdges
  <1>2. graph \in Known
    BY DEF Known
  <1>3. FreeNodes \cap Nodes(graph) = {} /\ FreeEdges \cap Edges(graph) = {}
    BY <1>2 DEF FreeNodes, FreeEdges
  <1>4. IsFiniteSet(FreeNodes) /\ IsFiniteSet(FreeEdges)
    BY <1>1, IdsAssumption, FS_Subset
  <1> QED  BY <1>1, <1>3, <1>4, IdsAssumption

-----------------------------------------------------------------------------
(* CanvasGraph: graphs.                                                    *)

\* A part of a graph, with other data and another selection.
LEMMA PartSound ==
    ASSUME NEW g, NEW h, Sound(g), DOMAIN h = {"nodes", "edges"},
           Nodes(h) \subseteq Nodes(g), Edges(h) \subseteq Edges(g),
           \A n \in Nodes(h) : DOMAIN h.nodes[n] = NodeFields /\ h.nodes[n].type = g.nodes[n].type,
           \A e \in Edges(h) : DOMAIN h.edges[e] = EdgeFields /\ SameEnds(h.edges[e], g.edges[e]),
           \A e \in Edges(h) : {h.edges[e].source, h.edges[e].target} \subseteq Nodes(h)
    PROVE  Sound(h) /\ (HasRoom(g) => HasRoom(h))
  <1>1. IsGraph(h)
    <2>1. IsFiniteSet(Nodes(h)) /\ IsFiniteSet(Edges(h))
      BY FS_Subset DEF Sound, IsGraph
    <2> QED  BY <2>1 DEF Sound, IsGraph, NodeFields, EdgeFields
  <1>2. Joins(h)
    <2> SUFFICES ASSUME NEW e \in Edges(h)
                 PROVE  LET c == h.edges[e]
                        IN  /\ {c.source, c.target} \subseteq Nodes(h)
                            /\ c.sourceHandle \in DOMAIN Outputs[h.nodes[c.source].type]
                            /\ c.targetHandle \in DOMAIN Inputs[h.nodes[c.target].type]
      BY DEF Joins
    <2>1. /\ g.edges[e].sourceHandle \in DOMAIN Outputs[g.nodes[g.edges[e].source].type]
          /\ g.edges[e].targetHandle \in DOMAIN Inputs[g.nodes[g.edges[e].target].type]
      BY DEF Sound, Executable, Joins
    <2> QED  BY <2>1 DEF SameEnds
  <1>3. Acyclic(h)
    <2> SUFFICES ASSUME NEW S \in SUBSET Nodes(h), S # {}
                 PROVE  \E n \in S : \A e \in Edges(h) :
                            h.edges[e].target = n => h.edges[e].source \notin S
      BY DEF Acyclic
    <2>1. S \in SUBSET Nodes(g) /\ S # {}
      OBVIOUS
    <2>2. PICK n \in S : \A e \in Edges(g) : g.edges[e].target = n => g.edges[e].source \notin S
      BY <2>1 DEF Sound, Executable, Acyclic
    <2> QED  BY <2>2 DEF SameEnds
  <1>4. OneEdgeEach(h)
    BY DEF Sound, OneEdgeEach, SameEnds
  <1>5. HasRoom(g) => HasRoom(h)
    BY DEF HasRoom
  <1> QED  BY <1>1, <1>2, <1>3, <1>4, <1>5 DEF Sound, Executable

\* A node more, which no edge enters.
LEMMA NodeSound ==
    ASSUME NEW g, NEW id \in Nat, NEW node, Sound(g), id \notin Nodes(g),
           DOMAIN node = NodeFields, node.type \in Types \cup {Note}
    PROVE  LET h == WithNode(g, id, node)
           IN  Sound(h) /\ Nodes(h) = Nodes(g) \cup {id} /\ Edges(h) = Edges(g)
  <1> DEFINE h == WithNode(g, id, node)
  <1>1. /\ DOMAIN h = {"nodes", "edges"} /\ Nodes(h) = Nodes(g) \cup {id} /\ h.edges = g.edges
        /\ h.nodes[id] = node /\ \A n \in Nodes(g) : h.nodes[n] = g.nodes[n]
    BY DEF WithNode, Nodes, Sound, IsGraph
  <1> HIDE DEF h
  <1>2. Edges(h) = Edges(g)
    BY <1>1 DEF Edges
  <1>3. \A e \in Edges(g) : {g.edges[e].source, g.edges[e].target} \subseteq Nodes(g)
    BY DEF Sound, Executable, Joins
  <1>4. IsGraph(h)
    <2>1. IsFiniteSet(Nodes(h))
      BY <1>1, FS_AddElement DEF Sound, IsGraph
    <2>2. \A n \in Nodes(h) : DOMAIN h.nodes[n] = NodeFields /\ h.nodes[n].type \in Types \cup {Note}
      BY <1>1 DEF Sound, IsGraph, NodeFields
    <2> QED  BY <1>1, <1>2, <2>1, <2>2 DEF Sound, IsGraph, NodeFields
  <1>5. Joins(h)
    BY <1>1, <1>2, <1>3 DEF Sound, Executable, Joins
  <1>6. Acyclic(h)
    <2> SUFFICES ASSUME NEW S \in SUBSET Nodes(h), S # {}
                 PROVE  \E n \in S : \A e \in Edges(h) :
                            h.edges[e].target = n => h.edges[e].source \notin S
      BY DEF Acyclic
    <2>1. CASE id \in S
      BY <1>1, <1>2, <1>3, <2>1
    <2>2. CASE id \notin S
      <3>1. S \in SUBSET Nodes(g) /\ S # {}
        BY <1>1, <2>2
      <3> QED  BY <1>1, <1>2, <3>1 DEF Sound, Executable, Acyclic
    <2> QED  BY <2>1, <2>2
  <1>7. OneEdgeEach(h)
    BY <1>1, <1>2 DEF Sound, OneEdgeEach
  <1> QED  BY <1>1, <1>2, <1>4, <1>5, <1>6, <1>7 DEF Sound, Executable, h

\* An edge more, in the place of others, if the connection is valid.
LEMMA EdgeSound ==
    ASSUME NEW g, NEW h, NEW id \in Nat, NEW c, NEW R, Sound(g), id \notin Edges(g) \ R,
           ValidConnection(g, c, R), DOMAIN h = {"nodes", "edges"}, h.nodes = g.nodes,
           Edges(h) = (Edges(g) \ R) \cup {id},
           \A e \in Edges(g) \ R : h.edges[e] = g.edges[e] \/ e = id,
           DOMAIN h.edges[id] = EdgeFields, SameEnds(h.edges[id], c)
    PROVE  Sound(h)
  <1> DEFINE o == OnlyEdges(g, Edges(g) \ R)
  <1>1. /\ DOMAIN o = {"nodes", "edges"} /\ Nodes(o) = Nodes(g) /\ o.nodes = g.nodes
        /\ Edges(o) = Edges(g) \ R /\ \A e \in Edges(o) : o.edges[e] = g.edges[e]
    BY DEF OnlyEdges, Edges, Nodes, Sound, IsGraph
  <1>2. /\ {c.source, c.target} \subseteq Nodes(g) /\ c.source # c.target
        /\ {g.nodes[c.source].type, g.nodes[c.target].type} \subseteq Types
        /\ c.sourceHandle \in DOMAIN Outputs[g.nodes[c.source].type]
        /\ c.targetHandle \in DOMAIN Inputs[g.nodes[c.target].type]
        /\ InputFree(o, c) /\ ~WouldCreateCycle(o, c.source, c.target)
    BY DEF ValidConnection
  <1> HIDE DEF o
  <1>o. Sound(o)
    <2>1. \A n \in Nodes(o) : DOMAIN o.nodes[n] = NodeFields
      BY <1>1 DEF Sound, IsGraph, NodeFields
    <2>2. \A e \in Edges(o) : DOMAIN o.edges[e] = EdgeFields /\ SameEnds(o.edges[e], g.edges[e])
      BY <1>1 DEF Sound, IsGraph, EdgeFields, SameEnds
    <2>3. \A e \in Edges(o) : {o.edges[e].source, o.edges[e].target} \subseteq Nodes(o)
      BY <1>1 DEF Sound, Executable, Joins
    <2> QED  BY <1>1, <2>1, <2>2, <2>3, PartSound
  <1>3. /\ Nodes(h) = Nodes(o) /\ h.nodes = o.nodes /\ Edges(h) = Edges(o) \cup {id}
        /\ id \notin Edges(o) /\ \A e \in Edges(o) : h.edges[e] = o.edges[e]
    BY <1>1 DEF Nodes
  <1>4. IsGraph(h)
    <2>1. IsFiniteSet(Edges(h))
      BY <1>3, <1>o, FS_AddElement DEF Sound, IsGraph
    <2>2. \A e \in Edges(h) : DOMAIN h.edges[e] = EdgeFields
      BY <1>3, <1>o DEF Sound, IsGraph, EdgeFields
    <2> QED  BY <1>3, <1>o, <2>1, <2>2 DEF Sound, IsGraph, EdgeFields
  <1>5. Joins(h)
    BY <1>1, <1>2, <1>3, <1>o DEF Sound, Executable, Joins, SameEnds
  <1>6. Acyclic(h)
    <2>1. PICK T \in SUBSET Nodes(o) : c.target \in T /\ Closed(o, T) /\ c.source \notin T
      BY <1>2 DEF WouldCreateCycle
    <2> SUFFICES ASSUME NEW S \in SUBSET Nodes(h), S # {}
                 PROVE  \E n \in S : \A e \in Edges(h) :
                            h.edges[e].target = n => h.edges[e].source \notin S
      BY DEF Acyclic
    <2>2. CASE S \subseteq T
      <3>1. PICK n \in S : \A e \in Edges(o) : o.edges[e].target = n => o.edges[e].source \notin S
        BY <1>3, <1>o DEF Sound, Executable, Acyclic
      <3> QED  BY <1>3, <2>1, <2>2, <3>1 DEF SameEnds
    <2>3. CASE ~(S \subseteq T)
      <3> DEFINE U == S \ T
      <3>1. U \in SUBSET Nodes(o) /\ U # {}
        BY <1>3, <2>3
      <3>2. PICK n \in U : \A e \in Edges(o) : o.edges[e].target = n => o.edges[e].source \notin U
        BY <1>o, <3>1 DEF Sound, Executable, Acyclic
      <3>3. \A e \in Edges(o) : o.edges[e].target = n => o.edges[e].source \notin T
        BY <2>1, <3>2 DEF Closed
      <3> QED  BY <1>3, <2>1, <3>2, <3>3 DEF SameEnds
    <2> QED  BY <2>2, <2>3
  <1>7. OneEdgeEach(h)
    BY <1>2, <1>3, <1>o DEF Sound, OneEdgeEach, InputFree, SameEnds
  <1> QED  BY <1>4, <1>5, <1>6, <1>7 DEF Sound, Executable

\* A graph next to another, under ids that are new.
Renames(new, old, taken) ==
    /\ \A x \in old : new[x] \in Nat /\ new[x] \notin taken
    /\ \A x, y \in old : new[x] = new[y] => x = y

LEMMA UnionSound ==
    ASSUME NEW g, NEW k, NEW h, NEW node, NEW edge, Sound(g), Sound(k),
           Renames(node, Nodes(k), Nodes(g)), Renames(edge, Edges(k), Edges(g)),
           DOMAIN h = {"nodes", "edges"},
           Nodes(h) = Nodes(g) \cup {node[x] : x \in Nodes(k)},
           Edges(h) = Edges(g) \cup {edge[x] : x \in Edges(k)},
           \A n \in Nodes(g) : DOMAIN h.nodes[n] = NodeFields /\ h.nodes[n].type = g.nodes[n].type,
           \A x \in Nodes(k) : /\ DOMAIN h.nodes[node[x]] = NodeFields
                               /\ h.nodes[node[x]].type = k.nodes[x].type,
           \A e \in Edges(g) : DOMAIN h.edges[e] = EdgeFields /\ SameEnds(h.edges[e], g.edges[e]),
           \A x \in Edges(k) :
               LET c == h.edges[edge[x]]
               IN  /\ DOMAIN c = EdgeFields
                   /\ c.source = node[k.edges[x].source] /\ c.target = node[k.edges[x].target]
                   /\ c.sourceHandle = k.edges[x].sourceHandle
                   /\ c.targetHandle = k.edges[x].targetHandle
    PROVE  Sound(h)
  <1>1. /\ \A e \in Edges(g) : {g.edges[e].source, g.edges[e].target} \subseteq Nodes(g)
        /\ \A x \in Edges(k) : {k.edges[x].source, k.edges[x].target} \subseteq Nodes(k)
    BY DEF Sound, Executable, Joins
  <1>2. IsGraph(h)
    <2> DEFINE N == {node[x] : x \in Nodes(k)}
               E == {edge[x] : x \in Edges(k)}
    <2>0. /\ IsFiniteSet(Nodes(g)) /\ IsFiniteSet(Edges(g))
          /\ IsFiniteSet(Nodes(k)) /\ IsFiniteSet(Edges(k))
      BY DEF Sound, IsGraph
    <2>a. IsFiniteSet(N)
      <3>1. [x \in Nodes(k) |-> node[x]] \in Surjection(Nodes(k), N)
        BY DEF Surjection
      <3> QED  BY <2>0, <3>1, FS_Surjection
    <2>b. IsFiniteSet(E)
      <3>1. [x \in Edges(k) |-> edge[x]] \in Surjection(Edges(k), E)
        BY DEF Surjection
      <3> QED  BY <2>0, <3>1, FS_Surjection
    <2>2. IsFiniteSet(Nodes(h)) /\ IsFiniteSet(Edges(h))
      <3> HIDE DEF N, E
      <3>1. IsFiniteSet(Nodes(g) \cup N)
        BY <2>0, <2>a, FS_Union
      <3>2. IsFiniteSet(Edges(g) \cup E)
        BY <2>0, <2>b, FS_Union
      <3> QED  BY <3>1, <3>2 DEF N, E
    <2>3. Nodes(h) \cup Edges(h) \subseteq Nat
      BY DEF Sound, IsGraph, Renames
    <2>4. \A n \in Nodes(h) : DOMAIN h.nodes[n] = NodeFields /\ h.nodes[n].type \in Types \cup {Note}
      BY DEF Sound, IsGraph
    <2>5. \A e \in Edges(h) : DOMAIN h.edges[e] = EdgeFields
      OBVIOUS
    <2> QED  BY <2>2, <2>3, <2>4, <2>5 DEF IsGraph, NodeFields, EdgeFields
  <1>3. Joins(h)
    <2>1. ASSUME NEW e \in Edges(g)
          PROVE  LET c == h.edges[e]
                 IN  /\ {c.source, c.target} \subseteq Nodes(h)
                     /\ c.sourceHandle \in DOMAIN Outputs[h.nodes[c.source].type]
                     /\ c.targetHandle \in DOMAIN Inputs[h.nodes[c.target].type]
      <3>1. /\ g.edges[e].sourceHandle \in DOMAIN Outputs[g.nodes[g.edges[e].source].type]
            /\ g.edges[e].targetHandle \in DOMAIN Inputs[g.nodes[g.edges[e].target].type]
        BY DEF Sound, Executable, Joins
      <3> QED  BY <1>1, <3>1 DEF SameEnds
    <2>2. ASSUME NEW x \in Edges(k)
          PROVE  LET c == h.edges[edge[x]]
                 IN  /\ {c.source, c.target} \subseteq Nodes(h)
                     /\ c.sourceHandle \in DOMAIN Outputs[h.nodes[c.source].type]
                     /\ c.targetHandle \in DOMAIN Inputs[h.nodes[c.target].type]
      <3>1. /\ k.edges[x].sourceHandle \in DOMAIN Outputs[k.nodes[k.edges[x].source].type]
            /\ k.edges[x].targetHandle \in DOMAIN Inputs[k.nodes[k.edges[x].target].type]
        BY DEF Sound, Executable, Joins
      <3> QED  BY <1>1, <3>1
    <2> QED  BY <2>1, <2>2 DEF Joins
  <1>4. Acyclic(h)
    <2> SUFFICES ASSUME NEW S \in SUBSET Nodes(h), S # {}
                 PROVE  \E n \in S : \A e \in Edges(h) :
                            h.edges[e].target = n => h.edges[e].source \notin S
      BY DEF Acyclic
    <2> DEFINE T == S \cap Nodes(g)
               U == {x \in Nodes(k) : node[x] \in S}
    <2>1. CASE T # {}
      <3>1. T \in SUBSET Nodes(g) /\ T # {}
        BY <2>1
      <3>2. PICK n \in T : \A e \in Edges(g) : g.edges[e].target = n => g.edges[e].source \notin T
        BY <3>1 DEF Sound, Executable, Acyclic
      <3>3. ASSUME NEW e \in Edges(h), h.edges[e].target = n
            PROVE  h.edges[e].source \notin S
        <4>1. CASE e \in Edges(g)
          BY <1>1, <3>2, <3>3, <4>1 DEF SameEnds
        <4>2. CASE e \notin Edges(g)
          <5>1. PICK x \in Edges(k) : e = edge[x]
            BY <4>2
          <5>2. h.edges[e].target \notin Nodes(g)
            BY <1>1, <5>1 DEF Renames
          <5> QED  BY <3>3, <5>2
        <4> QED  BY <4>1, <4>2
      <3> QED  BY <3>3
    <2>2. CASE T = {}
      <3>1. U \in SUBSET Nodes(k) /\ U # {}
        BY <2>2
      <3>2. PICK n \in U : \A x \in Edges(k) : k.edges[x].target = n => k.edges[x].source \notin U
        BY <3>1 DEF Sound, Executable, Acyclic
      <3>3. ASSUME NEW e \in Edges(h), h.edges[e].target = node[n]
            PROVE  h.edges[e].source \notin S
        <4>1. CASE e \in Edges(g)
          BY <1>1, <2>2, <4>1 DEF SameEnds
        <4>2. CASE e \notin Edges(g)
          <5>1. PICK x \in Edges(k) : e = edge[x]
            BY <4>2
          <5>2. k.edges[x].target = n
            BY <1>1, <3>3, <5>1 DEF Renames
          <5>3. k.edges[x].source \notin U
            BY <3>2, <5>2
          <5> QED  BY <1>1, <5>1, <5>3
        <4> QED  BY <4>1, <4>2
      <3> QED  BY <3>3
    <2> QED  BY <2>1, <2>2
  <1>5. OneEdgeEach(h)
    <2> SUFFICES ASSUME NEW e \in Edges(h), NEW f \in Edges(h),
                        h.edges[e].target = h.edges[f].target,
                        h.edges[e].targetHandle = h.edges[f].targetHandle
                 PROVE  e = f
      BY DEF OneEdgeEach
    <2>1. CASE e \in Edges(g) /\ f \in Edges(g)
      BY <2>1 DEF Sound, OneEdgeEach, SameEnds
    <2>2. ASSUME NEW x \in Edges(k), NEW d \in Edges(g)
          PROVE  h.edges[edge[x]].target # h.edges[d].target
      BY <1>1 DEF SameEnds, Renames
    <2>3. ASSUME NEW x \in Edges(k), NEW y \in Edges(k),
                 h.edges[edge[x]].target = h.edges[edge[y]].target,
                 h.edges[edge[x]].targetHandle = h.edges[edge[y]].targetHandle
          PROVE  x = y
      <3>1. k.edges[x].target = k.edges[y].target
        BY <1>1, <2>3 DEF Renames
      <3>2. k.edges[x].targetHandle = k.edges[y].targetHandle
        BY <2>3
      <3> QED  BY <3>1, <3>2 DEF Sound, OneEdgeEach
    <2>4. (e \in Edges(g) \/ \E x \in Edges(k) : e = edge[x])
          /\ (f \in Edges(g) \/ \E x \in Edges(k) : f = edge[x])
      OBVIOUS
    <2> QED  BY <2>1, <2>2, <2>3, <2>4
  <1> QED  BY <1>2, <1>3, <1>4, <1>5 DEF Sound, Executable

-----------------------------------------------------------------------------
(* CanvasGraph: what the handlers make of a graph.                         *)

\* A selection, other data, other columns.
LEMMA SelectFine ==
    ASSUME NEW g, NEW a, NEW b, Fine(g)
    PROVE  /\ Fine(Select(g, a, b)) /\ Nodes(Select(g, a, b)) = Nodes(g)
           /\ Edges(Select(g, a, b)) = Edges(g)
           /\ \A n \in Nodes(g) : Select(g, a, b).nodes[n].type = g.nodes[n].type
           /\ \A e \in Edges(g) : SameEnds(Select(g, a, b).edges[e], g.edges[e])
  <1> DEFINE h == Select(g, a, b)
  <1>1. /\ DOMAIN h = {"nodes", "edges"} /\ Nodes(h) = Nodes(g) /\ Edges(h) = Edges(g)
        /\ \A n \in Nodes(g) : h.nodes[n] = [g.nodes[n] EXCEPT !.selected = n \in a]
        /\ \A e \in Edges(g) : h.edges[e] = [g.edges[e] EXCEPT !.selected = e \in b]
    BY DEF Select, Nodes, Edges
  <1> HIDE DEF h
  <1>2. \A n \in Nodes(h) : DOMAIN h.nodes[n] = NodeFields /\ h.nodes[n].type = g.nodes[n].type
    BY <1>1 DEF Fine, Sound, IsGraph, NodeFields
  <1>3. \A e \in Edges(h) : DOMAIN h.edges[e] = EdgeFields /\ SameEnds(h.edges[e], g.edges[e])
    <2>1. \A e \in Edges(g) : DOMAIN g.edges[e] = EdgeFields
      BY DEF Fine, Sound, IsGraph, EdgeFields
    <2> QED  BY <1>1, <2>1 DEF EdgeFields, SameEnds
  <1>4. \A e \in Edges(h) : {h.edges[e].source, h.edges[e].target} \subseteq Nodes(h)
    BY <1>1, <1>3 DEF Fine, Sound, Executable, Joins, SameEnds
  <1>5. Fine(h)
    BY <1>1, <1>2, <1>3, <1>4, PartSound DEF Fine
  <1> QED  BY <1>1, <1>2, <1>3, <1>5 DEF h

LEMMA ContentIsPlain ==
    ASSUME NEW g, NEW a, NEW b
    PROVE  Content(Select(g, a, b)) = Content(g)
  <1> DEFINE h == Select(g, a, b)
  <1>1. /\ Nodes(h) = Nodes(g) /\ Edges(h) = Edges(g)
        /\ \A n \in Nodes(g) : h.nodes[n] = [g.nodes[n] EXCEPT !.selected = n \in a]
        /\ \A e \in Edges(g) : h.edges[e] = [g.edges[e] EXCEPT !.selected = e \in b]
    BY DEF Select, Nodes, Edges
  <1>2. \A n \in Nodes(g) : [h.nodes[n] EXCEPT !.selected = n \in {}]
                                = [g.nodes[n] EXCEPT !.selected = n \in {}]
    BY <1>1
  <1>3. \A e \in Edges(g) : [h.edges[e] EXCEPT !.selected = e \in {}]
                                = [g.edges[e] EXCEPT !.selected = e \in {}]
    BY <1>1
  <1> HIDE DEF h
  <1>4. Content(h) = Content(g)
    BY <1>1, <1>2, <1>3 DEF Content, Select
  <1> QED  BY <1>4 DEF h

\* The canvas nothing was drawn on.
LEMMA EmptyFine == Fine(NoDraft)
  <1> DEFINE g == NoDraft
  <1>1. DOMAIN g = {"nodes", "edges"} /\ Nodes(g) = {} /\ Edges(g) = {}
    BY DEF NoDraft, Nodes, Edges
  <1> HIDE DEF g
  <1>2. IsFiniteSet({})
    BY FS_EmptySet
  <1>3. Fine(g)
    BY <1>1, <1>2 DEF Fine, Sound, IsGraph, HasRoom, Executable, Joins, Acyclic, OneEdgeEach
  <1> QED  BY <1>3 DEF g

\* Nodes whose type stays.
LEMMA NodesFine ==
    ASSUME NEW g, NEW h, Fine(g), DOMAIN h = {"nodes", "edges"}, h.edges = g.edges,
           Nodes(h) = Nodes(g),
           \A n \in Nodes(g) : DOMAIN h.nodes[n] = NodeFields /\ h.nodes[n].type = g.nodes[n].type
    PROVE  Fine(h)
  <1>1. Edges(h) = Edges(g)
    BY DEF Edges
  <1>2. \A e \in Edges(h) : DOMAIN h.edges[e] = EdgeFields /\ SameEnds(h.edges[e], g.edges[e])
    BY <1>1 DEF Fine, Sound, IsGraph, EdgeFields, SameEnds
  <1>3. \A e \in Edges(h) : {h.edges[e].source, h.edges[e].target} \subseteq Nodes(h)
    BY <1>1 DEF Fine, Sound, Executable, Joins
  <1> QED  BY <1>1, <1>2, <1>3, PartSound DEF Fine

\* A completed graph is such a graph again; whether a selection is dropped before
\* or after is the same, and so is completing it twice.
LEMMA CompletedFine ==
    ASSUME NEW g, Sound(g)
    PROVE  /\ Sound(Completed(g)) /\ (HasRoom(g) => HasRoom(Completed(g)))
           /\ Nodes(Completed(g)) = Nodes(g) /\ Edges(Completed(g)) = Edges(g)
           /\ Content(Completed(g)) = Completed(Content(g))
           /\ Completed(Completed(g)) = Completed(g)
  <1>1. /\ DOMAIN g = {"nodes", "edges"}
        /\ \A n \in Nodes(g) : DOMAIN g.nodes[n] = NodeFields
        /\ \A e \in Edges(g) : DOMAIN g.edges[e] = EdgeFields
    BY DEF Sound, IsGraph, NodeFields, EdgeFields
  <1>2. ASSUME NEW x, DOMAIN x = NodeFields, NEW sel
        PROVE  /\ DOMAIN Filled(x) = NodeFields /\ Filled(x).type = x.type
               /\ Filled(Filled(x)) = Filled(x)
               /\ Filled([x EXCEPT !.selected = sel]) = [Filled(x) EXCEPT !.selected = sel]
    <2>1. CASE IsNote(x)
      <3>1. [x EXCEPT !.selected = sel].type = x.type
        BY <1>2 DEF NodeFields
      <3> QED  BY <1>2, <2>1, <3>1 DEF Filled, IsNote
    <2>2. CASE ~IsNote(x)
      <3> DEFINE y == [x EXCEPT !.blank = FALSE]
                 z == [x EXCEPT !.selected = sel]
      <3>1. /\ DOMAIN y = NodeFields /\ y.type = x.type /\ y.blank = FALSE
            /\ z.type = x.type
        BY <1>2 DEF NodeFields
      <3>2. Filled(x) = y /\ Filled(z) = [z EXCEPT !.blank = FALSE]
            /\ Filled(y) = [y EXCEPT !.blank = FALSE]
        BY <2>2, <3>1 DEF Filled, IsNote
      <3>3. [y EXCEPT !.blank = FALSE] = y
        BY <3>1
      <3>4. [z EXCEPT !.blank = FALSE] = [y EXCEPT !.selected = sel]
        BY <1>2 DEF NodeFields
      <3> QED  BY <3>1, <3>2, <3>3, <3>4
    <2> QED  BY <2>1, <2>2
  <1> DEFINE c == Completed(g)
             d == Completed(c)
             p == Content(g)
  <1>3. /\ DOMAIN c = {"nodes", "edges"} /\ c.edges = g.edges /\ Nodes(c) = Nodes(g)
        /\ Edges(c) = Edges(g)
        /\ c.nodes = [n \in Nodes(g) |-> Filled(g.nodes[n])]
        /\ c = [nodes |-> c.nodes, edges |-> c.edges]
    BY <1>1 DEF Completed, MapNodes, Nodes, Edges
  <1>4. /\ DOMAIN p = {"nodes", "edges"} /\ Nodes(p) = Nodes(g)
        /\ p.nodes = [n \in Nodes(g) |-> [g.nodes[n] EXCEPT !.selected = n \in {}]]
        /\ p.edges = [e \in Edges(g) |-> [g.edges[e] EXCEPT !.selected = e \in {}]]
    BY DEF Content, Select, Nodes, Edges
  <1>5. d = [c EXCEPT !.nodes = [n \in Nodes(c) |-> Filled(c.nodes[n])]]
    BY DEF Completed, MapNodes
  <1>6. Completed(p) = [p EXCEPT !.nodes = [n \in Nodes(p) |-> Filled(p.nodes[n])]]
    BY DEF Completed, MapNodes
  <1>7. Content(c) = [nodes |-> [n \in Nodes(c) |-> [c.nodes[n] EXCEPT !.selected = n \in {}]],
                      edges |-> [e \in Edges(c) |-> [c.edges[e] EXCEPT !.selected = e \in {}]]]
    BY DEF Content, Select
  <1> HIDE DEF c, d, p
  <1>8. \A n \in Nodes(g) : /\ DOMAIN c.nodes[n] = NodeFields /\ c.nodes[n].type = g.nodes[n].type
                            /\ Filled(c.nodes[n]) = c.nodes[n]
                            /\ Filled(p.nodes[n]) = [c.nodes[n] EXCEPT !.selected = n \in {}]
    <2> SUFFICES ASSUME NEW n \in Nodes(g)
                 PROVE  /\ DOMAIN c.nodes[n] = NodeFields /\ c.nodes[n].type = g.nodes[n].type
                        /\ Filled(c.nodes[n]) = c.nodes[n]
                        /\ Filled(p.nodes[n]) = [c.nodes[n] EXCEPT !.selected = n \in {}]
      OBVIOUS
    <2>1. c.nodes[n] = Filled(g.nodes[n]) /\ p.nodes[n] = [g.nodes[n] EXCEPT !.selected = n \in {}]
      BY <1>3, <1>4
    <2>2. DOMAIN g.nodes[n] = NodeFields
      BY <1>1
    <2> QED  BY <1>2, <2>1, <2>2
  <1>9. d = c
    <2>1. [n \in Nodes(c) |-> Filled(c.nodes[n])] = c.nodes
      BY <1>3, <1>8
    <2>2. d = [c EXCEPT !.nodes = c.nodes]
      BY <1>5, <2>1
    <2> QED  BY <1>3, <2>2
  <1>10. Content(c) = Completed(p)
    <2>1. [n \in Nodes(c) |-> [c.nodes[n] EXCEPT !.selected = n \in {}]]
            = [n \in Nodes(p) |-> Filled(p.nodes[n])]
      BY <1>3, <1>4, <1>8
    <2>2. [e \in Edges(c) |-> [c.edges[e] EXCEPT !.selected = e \in {}]] = p.edges
      BY <1>3, <1>4
    <2> QED  BY <1>4, <1>6, <1>7, <2>1, <2>2
  <1>11. Sound(c) /\ (HasRoom(g) => HasRoom(c))
    <2>1. \A e \in Edges(c) : DOMAIN c.edges[e] = EdgeFields /\ SameEnds(c.edges[e], g.edges[e])
      BY <1>1, <1>3 DEF SameEnds
    <2>2. \A e \in Edges(c) : {c.edges[e].source, c.edges[e].target} \subseteq Nodes(c)
      BY <1>3 DEF Sound, Executable, Joins
    <2> QED  BY <1>3, <1>8, <2>1, <2>2, PartSound
  <1> QED  BY <1>3, <1>9, <1>10, <1>11 DEF c, d, p

\* Some of the edges; some of the nodes, with edges among them.
LEMMA SomeFine ==
    ASSUME NEW g, NEW N, NEW E, Fine(g),
           \A e \in Edges(g) \cap E : {g.edges[e].source, g.edges[e].target} \subseteq N
    PROVE  Fine(OnlyEdges(OnlyNodes(g, N), E))
  <1> DEFINE o == OnlyNodes(g, N)
             h == OnlyEdges(o, E)
  <1>1. /\ DOMAIN o = {"nodes", "edges"} /\ Nodes(o) = Nodes(g) \cap N /\ Edges(o) = Edges(g)
        /\ \A n \in Nodes(o) : o.nodes[n] = g.nodes[n]
        /\ \A e \in Edges(o) : o.edges[e] = g.edges[e]
    BY DEF OnlyNodes, Nodes, Edges, Fine, Sound, IsGraph
  <1> HIDE DEF o
  <1>2. /\ DOMAIN h = {"nodes", "edges"} /\ h.nodes = o.nodes /\ Edges(h) = Edges(o) \cap E
        /\ \A e \in Edges(h) : h.edges[e] = o.edges[e]
    BY <1>1 DEF OnlyEdges, Edges
  <1> HIDE DEF h
  <1>3. Nodes(h) = Nodes(g) \cap N
    BY <1>1, <1>2 DEF Nodes
  <1>4. \A n \in Nodes(h) : DOMAIN h.nodes[n] = NodeFields /\ h.nodes[n].type = g.nodes[n].type
    BY <1>1, <1>2, <1>3 DEF Fine, Sound, IsGraph, NodeFields
  <1>5. \A e \in Edges(h) : DOMAIN h.edges[e] = EdgeFields /\ SameEnds(h.edges[e], g.edges[e])
    BY <1>1, <1>2 DEF Fine, Sound, IsGraph, EdgeFields, SameEnds
  <1>6. \A e \in Edges(h) : {h.edges[e].source, h.edges[e].target} \subseteq Nodes(h)
    BY <1>1, <1>2, <1>3 DEF Fine, Sound, Executable, Joins
  <1>7. Fine(h)
    BY <1>1, <1>2, <1>3, <1>4, <1>5, <1>6, PartSound DEF Fine
  <1> QED  BY <1>7 DEF h, o

LEMMA EdgesFine ==
    ASSUME NEW g, NEW E, Fine(g)
    PROVE  Fine(OnlyEdges(g, E))
  <1> DEFINE h == OnlyEdges(g, E)
  <1>2. /\ DOMAIN h = {"nodes", "edges"} /\ h.nodes = g.nodes /\ Edges(h) = Edges(g) \cap E
        /\ \A e \in Edges(h) : h.edges[e] = g.edges[e]
    BY DEF OnlyEdges, Edges, Fine, Sound, IsGraph
  <1> HIDE DEF h
  <1>3. Nodes(h) = Nodes(g)
    BY <1>2 DEF Nodes
  <1>4. \A n \in Nodes(h) : DOMAIN h.nodes[n] = NodeFields /\ h.nodes[n].type = g.nodes[n].type
    BY <1>2, <1>3 DEF Fine, Sound, IsGraph, NodeFields
  <1>5. \A e \in Edges(h) : DOMAIN h.edges[e] = EdgeFields /\ SameEnds(h.edges[e], g.edges[e])
    BY <1>2 DEF Fine, Sound, IsGraph, EdgeFields, SameEnds
  <1>6. \A e \in Edges(h) : {h.edges[e].source, h.edges[e].target} \subseteq Nodes(h)
    BY <1>2, <1>3 DEF Fine, Sound, Executable, Joins
  <1>7. Fine(h)
    BY <1>2, <1>3, <1>4, <1>5, <1>6, PartSound DEF Fine
  <1> QED  BY <1>7 DEF h

LEMMA RemovedFine ==
    ASSUME NEW g, NEW ids, Fine(g)
    PROVE  Fine(RemoveNodesAndConnectedEdges(g, ids))
  <1> DEFINE N == Nodes(g) \ ids
             E == {e \in Edges(g) : {g.edges[e].source, g.edges[e].target} \cap ids = {}}
  <1>1. \A e \in Edges(g) \cap E : {g.edges[e].source, g.edges[e].target} \subseteq N
    BY DEF Fine, Sound, Executable, Joins
  <1>2. Fine(OnlyEdges(OnlyNodes(g, N), E))
    <2> HIDE DEF N, E
    <2> QED  BY <1>1, SomeFine
  <1> QED  BY <1>2 DEF RemoveNodesAndConnectedEdges

LEMMA SelectionFine ==
    ASSUME NEW g, Fine(g)
    PROVE  Fine(Selection(g))
  <1> DEFINE N == SelectedNodes(g)
             E == {e \in Edges(g) : {g.edges[e].source, g.edges[e].target} \subseteq N}
  <1>1. Fine(OnlyEdges(OnlyNodes(g, N), E))
    <2>1. \A e \in Edges(g) \cap E : {g.edges[e].source, g.edges[e].target} \subseteq N
      OBVIOUS
    <2> HIDE DEF N, E
    <2> QED  BY <2>1, SomeFine
  <1>2. Selection(g) = Content(OnlyEdges(OnlyNodes(g, N), E))
    BY DEF Selection
  <1> HIDE DEF N, E
  <1> QED  BY <1>1, <1>2, SelectFine DEF Content

\* A graph that is inserted, under new ids.
LEMMA InsertedFine ==
    ASSUME Fine(graph), NEW other, Sound(other), RoomFor(other)
    PROVE  Fine(Inserted(graph, other))
  <1> DEFINE g     == graph
             node  == NewIds(Nodes(other), FreeNodes)
             edge  == NewIds(Edges(other), FreeEdges)
             plain == Content(g)
             h     == Inserted(g, other)
             OldNode(n) == CHOOSE x \in Nodes(other) : node[x] = n
             OldEdge(e) == CHOOSE x \in Edges(other) : edge[x] = e
  <1>1. /\ Nodes(other) \in SUBSET Nat /\ IsFiniteSet(Nodes(other))
        /\ Edges(other) \in SUBSET Nat /\ IsFiniteSet(Edges(other))
    BY DEF Sound, IsGraph
  <1>2. /\ DOMAIN node = Nodes(other) /\ \A x \in Nodes(other) : node[x] \in FreeNodes
        /\ \A x, y \in Nodes(other) : node[x] = node[y] => x = y
    BY <1>1, Free, Renewed DEF RoomFor
  <1>3. /\ DOMAIN edge = Edges(other) /\ \A x \in Edges(other) : edge[x] \in FreeEdges
        /\ \A x, y \in Edges(other) : edge[x] = edge[y] => x = y
    BY <1>1, Free, Renewed DEF RoomFor
  <1>4. Range(node) = {node[x] : x \in Nodes(other)} /\ Range(edge) = {edge[x] : x \in Edges(other)}
    BY <1>2, <1>3 DEF Range
  <1>5. Renames(node, Nodes(other), Nodes(g)) /\ Renames(edge, Edges(other), Edges(g))
    BY <1>2, <1>3, Free DEF Renames
  <1>6. /\ Fine(plain) /\ Nodes(plain) = Nodes(g) /\ Edges(plain) = Edges(g)
        /\ \A n \in Nodes(g) : plain.nodes[n].type = g.nodes[n].type
        /\ \A e \in Edges(g) : SameEnds(plain.edges[e], g.edges[e])
    BY SelectFine DEF Content
  <1>7. /\ DOMAIN h = {"nodes", "edges"}
        /\ h.nodes = [n \in Nodes(g) \cup Range(node) |->
                         IF n \in Nodes(g) THEN plain.nodes[n]
                         ELSE [other.nodes[OldNode(n)] EXCEPT !.selected = TRUE]]
        /\ h.edges = [e \in Edges(g) \cup Range(edge) |->
                         IF e \in Edges(g) THEN plain.edges[e]
                         ELSE Rejoined(other.edges[OldEdge(e)], node)]
    BY DEF Inserted
  <1> HIDE DEF node, edge, plain, h
  <1>8. /\ Nodes(h) = Nodes(g) \cup {node[x] : x \in Nodes(other)}
        /\ Edges(h) = Edges(g) \cup {edge[x] : x \in Edges(other)}
    BY <1>4, <1>7 DEF Nodes, Edges
  <1>9. \A n \in Nodes(g) : DOMAIN h.nodes[n] = NodeFields /\ h.nodes[n].type = g.nodes[n].type
    <2>1. \A n \in Nodes(g) : h.nodes[n] = plain.nodes[n]
      BY <1>7
    <2> QED  BY <1>6, <2>1 DEF Fine, Sound, IsGraph, NodeFields
  <1>10. \A e \in Edges(g) : DOMAIN h.edges[e] = EdgeFields /\ SameEnds(h.edges[e], g.edges[e])
    <2>1. \A e \in Edges(g) : h.edges[e] = plain.edges[e]
      BY <1>7
    <2> QED  BY <1>6, <2>1 DEF Fine, Sound, IsGraph, EdgeFields
  <1>11. ASSUME NEW x \in Nodes(other)
         PROVE  /\ DOMAIN h.nodes[node[x]] = NodeFields
                /\ h.nodes[node[x]].type = other.nodes[x].type
    <2>1. node[x] \notin Nodes(g) /\ node[x] \in Range(node)
      BY <1>4, <1>5 DEF Renames
    <2>2. OldNode(node[x]) = x
      BY <1>2
    <2>3. h.nodes[node[x]] = [other.nodes[x] EXCEPT !.selected = TRUE]
      <3> HIDE DEF OldNode, OldEdge
      <3> QED  BY <1>7, <2>1, <2>2
    <2>4. DOMAIN other.nodes[x] = NodeFields
      BY DEF Sound, IsGraph, NodeFields
    <2> QED  BY <2>3, <2>4 DEF NodeFields
  <1>12. ASSUME NEW x \in Edges(other)
         PROVE  LET c == h.edges[edge[x]]
                IN  /\ DOMAIN c = EdgeFields
                    /\ c.source = node[other.edges[x].source]
                    /\ c.target = node[other.edges[x].target]
                    /\ c.sourceHandle = other.edges[x].sourceHandle
                    /\ c.targetHandle = other.edges[x].targetHandle
    <2>1. edge[x] \notin Edges(g) /\ edge[x] \in Range(edge)
      BY <1>4, <1>5 DEF Renames
    <2>2. OldEdge(edge[x]) = x
      BY <1>3
    <2>3. h.edges[edge[x]] = Rejoined(other.edges[x], node)
      <3> HIDE DEF OldEdge, OldNode
      <3> QED  BY <1>7, <2>1, <2>2
    <2>4. DOMAIN other.edges[x] = EdgeFields
      BY DEF Sound, IsGraph, EdgeFields
    <2> QED  BY <2>3, <2>4 DEF EdgeFields, Rejoined
  <1>13. Sound(h)
    <2>1. Sound(g)
      BY DEF Fine
    <2>2. DOMAIN h = {"nodes", "edges"}
      BY <1>7
    <2> HIDE DEF g
    <2> QED  BY <1>5, <1>8, <1>9, <1>10, <1>11, <1>12, <2>1, <2>2, UnionSound
  <1>14. HasRoom(h)
    <2>1. Nodes(g) \subseteq NodeIds /\ Edges(g) \subseteq EdgeIds
      BY DEF Fine, HasRoom
    <2> HIDE DEF g
    <2>2. {node[x] : x \in Nodes(other)} \subseteq NodeIds
      BY <1>2, Free
    <2>3. {edge[x] : x \in Edges(other)} \subseteq EdgeIds
      BY <1>3, Free
    <2> QED  BY <1>8, <2>1, <2>2, <2>3 DEF HasRoom
  <1> QED  BY <1>13, <1>14 DEF Fine, h

\* A node or a note that is added, and the copy of a node.
LEMMA AddedFine ==
    ASSUME Fine(graph), FreeNodes # {}, NEW g, Fine(g), Nodes(g) = Nodes(graph), NEW node,
           DOMAIN node = NodeFields, node.type \in Types \cup {Note}
    PROVE  Fine(WithNode(g, NextId(FreeNodes), node))
  <1> DEFINE id == NextId(FreeNodes)
  <1>1. id \in FreeNodes
    BY Free, LeastId
  <1>2. id \in Nat /\ id \in NodeIds /\ id \notin Nodes(g)
    BY <1>1, Free
  <1> HIDE DEF id
  <1>3. /\ Sound(WithNode(g, id, node)) /\ Edges(WithNode(g, id, node)) = Edges(g)
        /\ Nodes(WithNode(g, id, node)) = Nodes(g) \cup {id}
    BY <1>2, NodeSound DEF Fine
  <1> QED  BY <1>2, <1>3 DEF Fine, HasRoom, id

\* An edge that is drawn, and one that is moved.
LEMMA ConnectedFine ==
    ASSUME Fine(graph), FreeEdges # {}, NEW c, ValidConnection(graph, c, {})
    PROVE  Fine(WithEdge(graph, NextId(FreeEdges), Edge(c)))
  <1> DEFINE id == NextId(FreeEdges)
             h  == WithEdge(graph, id, Edge(c))
  <1>1. id \in FreeEdges
    BY Free, LeastId
  <1>2. id \in Nat /\ id \in EdgeIds /\ id \notin Edges(graph)
    BY <1>1, Free
  <1> HIDE DEF id
  <1>3. /\ DOMAIN h = {"nodes", "edges"} /\ h.nodes = graph.nodes
        /\ Edges(h) = (Edges(graph) \ {}) \cup {id}
        /\ \A e \in Edges(graph) \ {} : h.edges[e] = graph.edges[e] \/ e = id
        /\ h.edges[id] = Edge(c)
    BY DEF WithEdge, Edges, Fine, Sound, IsGraph
  <1>4. DOMAIN Edge(c) = EdgeFields /\ SameEnds(Edge(c), c)
    BY DEF Edge, EdgeFields, SameEnds
  <1> HIDE DEF h
  <1>5. Sound(h)
    BY <1>2, <1>3, <1>4, EdgeSound DEF Fine
  <1>6. HasRoom(h)
    BY <1>2, <1>3 DEF Fine, HasRoom, Nodes
  <1> QED  BY <1>5, <1>6 DEF Fine, h, id

LEMMA MovedFine ==
    ASSUME Fine(graph), NEW e \in Edges(graph), NEW c, ValidConnection(graph, c, {e})
    PROVE  Fine([graph EXCEPT !.edges[e] = [Edge(c) EXCEPT !.selected = graph.edges[e].selected]])
  <1> DEFINE d == [Edge(c) EXCEPT !.selected = graph.edges[e].selected]
             h == [graph EXCEPT !.edges[e] = d]
  <1>1. DOMAIN d = EdgeFields /\ SameEnds(d, c)
    BY DEF Edge, EdgeFields, SameEnds
  <1> HIDE DEF d
  <1>2. /\ DOMAIN h = {"nodes", "edges"} /\ h.nodes = graph.nodes
        /\ Edges(h) = Edges(graph) /\ h.edges[e] = d
        /\ \A f \in Edges(graph) \ {e} : h.edges[f] = graph.edges[f] \/ f = e
    BY DEF Edges, Fine, Sound, IsGraph
  <1> HIDE DEF h
  <1>3. Edges(h) = (Edges(graph) \ {e}) \cup {e} /\ e \in Nat /\ e \notin Edges(graph) \ {e}
    BY <1>2 DEF Fine, Sound, IsGraph
  <1>4. Sound(h)
    BY <1>1, <1>2, <1>3, EdgeSound DEF Fine
  <1>5. HasRoom(h)
    BY <1>2 DEF Fine, HasRoom, Nodes
  <1> QED  BY <1>4, <1>5 DEF Fine, h, d

\* Data of one node, of the selected ones, and columns.
LEMMA DataFine ==
    ASSUME Fine(graph), NEW n \in Nodes(graph), NEW x
    PROVE  /\ Fine([graph EXCEPT !.nodes[n].data = x])
           /\ Fine([graph EXCEPT !.nodes[n].column = x])
           /\ Fine([graph EXCEPT !.nodes[n].blank = x])
  <1>0. /\ DOMAIN graph = {"nodes", "edges"} /\ \A m \in Nodes(graph) : DOMAIN graph.nodes[m] = NodeFields
    BY DEF Fine, Sound, IsGraph, NodeFields
  <1>1. Fine([graph EXCEPT !.nodes[n].data = x])
    <2> DEFINE h == [graph EXCEPT !.nodes[n].data = x]
    <2>1. /\ DOMAIN h = {"nodes", "edges"} /\ h.edges = graph.edges /\ Nodes(h) = Nodes(graph)
          /\ \A m \in Nodes(graph) : /\ DOMAIN h.nodes[m] = NodeFields
                                     /\ h.nodes[m].type = graph.nodes[m].type
      BY <1>0 DEF Nodes, NodeFields
    <2> HIDE DEF h
    <2>2. Fine(h)
      BY <2>1, NodesFine
    <2> QED  BY <2>2 DEF h
  <1>2. Fine([graph EXCEPT !.nodes[n].column = x])
    <2> DEFINE h == [graph EXCEPT !.nodes[n].column = x]
    <2>1. /\ DOMAIN h = {"nodes", "edges"} /\ h.edges = graph.edges /\ Nodes(h) = Nodes(graph)
          /\ \A m \in Nodes(graph) : /\ DOMAIN h.nodes[m] = NodeFields
                                     /\ h.nodes[m].type = graph.nodes[m].type
      BY <1>0 DEF Nodes, NodeFields
    <2> HIDE DEF h
    <2>2. Fine(h)
      BY <2>1, NodesFine
    <2> QED  BY <2>2 DEF h
  <1>3. Fine([graph EXCEPT !.nodes[n].blank = x])
    <2> DEFINE h == [graph EXCEPT !.nodes[n].blank = x]
    <2>1. /\ DOMAIN h = {"nodes", "edges"} /\ h.edges = graph.edges /\ Nodes(h) = Nodes(graph)
          /\ \A m \in Nodes(graph) : /\ DOMAIN h.nodes[m] = NodeFields
                                     /\ h.nodes[m].type = graph.nodes[m].type
      BY <1>0 DEF Nodes, NodeFields
    <2> HIDE DEF h
    <2>2. Fine(h)
      BY <2>1, NodesFine
    <2> QED  BY <2>2 DEF h
  <1> QED  BY <1>1, <1>2, <1>3

LEMMA LockedFine ==
    ASSUME Fine(graph)
    PROVE  Fine(MapNodes(graph, LAMBDA n, node :
                   IF node.selected THEN [node EXCEPT !.data = 1 - @] ELSE node))
  <1> DEFINE h == MapNodes(graph, LAMBDA n, node :
                      IF node.selected THEN [node EXCEPT !.data = 1 - @] ELSE node)
  <1>0. /\ DOMAIN graph = {"nodes", "edges"} /\ \A m \in Nodes(graph) : DOMAIN graph.nodes[m] = NodeFields
    BY DEF Fine, Sound, IsGraph, NodeFields
  <1>1. /\ DOMAIN h = {"nodes", "edges"} /\ h.edges = graph.edges /\ Nodes(h) = Nodes(graph)
        /\ \A m \in Nodes(graph) : /\ DOMAIN h.nodes[m] = NodeFields
                                   /\ h.nodes[m].type = graph.nodes[m].type
    BY <1>0 DEF MapNodes, Nodes, NodeFields
  <1> HIDE DEF h
  <1>2. Fine(h)
    BY <1>1, NodesFine
  <1> QED  BY <1>2 DEF h

LEMMA ArrangedFine ==
    ASSUME Fine(graph), NEW layer
    PROVE  Fine(Arranged(graph, layer))
  <1> DEFINE h == Arranged(graph, layer)
  <1>0. /\ DOMAIN graph = {"nodes", "edges"} /\ \A m \in Nodes(graph) : DOMAIN graph.nodes[m] = NodeFields
    BY DEF Fine, Sound, IsGraph, NodeFields
  <1>1. /\ DOMAIN h = {"nodes", "edges"} /\ h.edges = graph.edges /\ Nodes(h) = Nodes(graph)
        /\ \A m \in Nodes(graph) : /\ DOMAIN h.nodes[m] = NodeFields
                                   /\ h.nodes[m].type = graph.nodes[m].type
    BY <1>0 DEF Arranged, MapNodes, Nodes, NodeFields
  <1> HIDE DEF h
  <1>2. Fine(h)
    BY <1>1, NodesFine
  <1> QED  BY <1>2 DEF h
-----------------------------------------------------------------------------
(* CanvasGraph: the invariant.                                             *)

\* The history is as long as it may be at most, and its newest graph is the last.
LEMMA Pushed ==
    ASSUME NEW G, NEW s \in Seq(G), NEW g \in G, Len(s) <= MAX_HISTORY
    PROVE  /\ PushHistory(s, g) \in Seq(G) /\ PushHistory(s, g) # <<>>
           /\ Len(PushHistory(s, g)) <= MAX_HISTORY
           /\ Len(PushHistory(s, g)) <= Len(s) + 1
           /\ Len(s) < MAX_HISTORY => PushHistory(s, g) = Append(s, g)
  <1> DEFINE n == Append(s, g)
  <1>1. n \in Seq(G) /\ Len(n) = Len(s) + 1 /\ n # <<>> /\ Len(s) \in Nat
    OBVIOUS
  <1>2. Tail(n) \in Seq(G) /\ Len(Tail(n)) = Len(s)
    <2> HIDE DEF n
    <2> QED  BY <1>1
  <1>3. MAX_HISTORY \in Nat /\ MAX_HISTORY > 0
    BY BoundsAssumption
  <1>4. PushHistory(s, g) = IF Len(n) > MAX_HISTORY THEN Tail(n) ELSE n
    BY DEF PushHistory
  <1> HIDE DEF n
  <1>5. CASE Len(n) > MAX_HISTORY
    <2>1. PushHistory(s, g) = Tail(n) /\ Len(s) = MAX_HISTORY
      BY <1>1, <1>3, <1>4, <1>5
    <2>2. Tail(n) # <<>>
      BY <1>2, <1>3, <2>1
    <2> QED  BY <1>1, <1>2, <1>3, <2>1, <2>2
  <1>6. CASE ~(Len(n) > MAX_HISTORY)
    BY <1>1, <1>3, <1>4, <1>6 DEF n
  <1> QED  BY <1>5, <1>6

\* A step back, and the way forward again.
LEMMA WentBack ==
    ASSUME NEW G, NEW s \in Seq(G), NEW t \in Seq(G), graph \in G, s # <<>>,
           Len(s) + Len(t) <= MAX_HISTORY
    PROVE  /\ Front(s) \in Seq(G) /\ Last(s) \in G /\ Len(Front(s)) = Len(s) - 1
           /\ Front(s) \o <<Last(s)>> = s
           /\ (Front(s) # <<>>) = (Len(s) > 1)
           /\ GoForward(t) = <<graph>> \o t /\ GoForward(t) \in Seq(G)
           /\ GoForward(t) # <<>> /\ Len(GoForward(t)) = Len(t) + 1
  <1>1. Len(s) \in Nat /\ Len(s) > 0 /\ Len(t) \in Nat /\ MAX_HISTORY \in Nat
    BY BoundsAssumption
  <1>2. Front(s) \in Seq(G) /\ Last(s) \in G /\ Len(Front(s)) = Len(s) - 1
    <2>1. \A i \in 1..Len(s) : s[i] \in G
      BY ElementOfSeq
    <2>2. \A i \in 1..(Len(s) - 1) : s[i] \in G
      BY <1>1, <2>1
    <2>3. /\ SubSeq(s, 1, Len(s) - 1) \in Seq(G)
          /\ Len(SubSeq(s, 1, Len(s) - 1)) = IF 1 <= Len(s) - 1 THEN (Len(s) - 1) - 1 + 1 ELSE 0
      BY <1>1, <2>2, SubSeqProperties
    <2>4. Len(SubSeq(s, 1, Len(s) - 1)) = Len(s) - 1
      <3> DEFINE k == Len(s)
                 f == SubSeq(s, 1, k - 1)
      <3>1. k \in Nat /\ k > 0 /\ Len(f) = IF 1 <= k - 1 THEN (k - 1) - 1 + 1 ELSE 0
        BY <1>1, <2>3
      <3> HIDE DEF k, f
      <3>2. Len(f) = k - 1
        BY <3>1
      <3> QED  BY <3>2 DEF k, f
    <2>5. s[Len(s)] \in G
      BY <1>1, <2>1
    <2> QED  BY <2>3, <2>4, <2>5 DEF Front, Last
  <1>3. Front(s) \o <<Last(s)>> = s
    <2>1. SubSeq(s, 1, Len(s)) = SubSeq(s, 1, Len(s) - 1) \o <<s[Len(s)]>>
      BY <1>1, SubSeqRecursiveSecond
    <2>2. SubSeq(s, 1, Len(s)) = s
      BY SubSeqFull
    <2> QED  BY <2>1, <2>2 DEF Front, Last
  <1>4. (Front(s) # <<>>) = (Len(s) > 1)
    BY <1>1, <1>2, EmptySeq
  <1>5. <<graph>> \in Seq(G) /\ Len(<<graph>>) = 1
    OBVIOUS
  <1>6. <<graph>> \o t \in Seq(G) /\ Len(<<graph>> \o t) = Len(t) + 1
    BY <1>5, ConcatProperties
  <1>7. GoForward(t) = SubSeq(<<graph>> \o t, 1, Len(t) + 1)
    <2>1. Len(t) < MAX_HISTORY
      BY <1>1
    <2> QED  BY <2>1 DEF GoForward
  <1>8. GoForward(t) = <<graph>> \o t
    BY <1>6, <1>7, SubSeqFull
  <1>9. GoForward(t) # <<>>
    BY <1>1, <1>6, <1>8, EmptySeq
  <1> QED  BY <1>2, <1>3, <1>4, <1>6, <1>8, <1>9

\* A step forward.
LEMMA WentForward ==
    ASSUME NEW G, NEW t \in Seq(G), t # <<>>
    PROVE  /\ Head(t) \in G /\ Tail(t) \in Seq(G) /\ Len(Tail(t)) = Len(t) - 1
           /\ <<Head(t)>> \o Tail(t) = t
           /\ (Tail(t) # <<>>) = (Len(t) > 1)
  <1>1. Len(t) \in Nat /\ Len(t) > 0
    OBVIOUS
  <1>2. Head(t) \in G /\ Tail(t) \in Seq(G) /\ Len(Tail(t)) = Len(t) - 1
    BY <1>1
  <1>3. <<Head(t)>> \o Tail(t) = t
    <2>1. SubSeq(t, 1, Len(t)) = <<t[1]>> \o SubSeq(t, 2, Len(t))
      BY <1>1, SubSeqRecursiveFirst
    <2>2. SubSeq(t, 1, Len(t)) = t
      BY SubSeqFull
    <2>3. Tail(t) = SubSeq(t, 2, Len(t)) /\ Head(t) = t[1]
      BY TailIsSubSeq, HeadTailProperties
    <2> QED  BY <2>1, <2>2, <2>3
  <1>4. (Tail(t) # <<>>) = (Len(t) > 1)
    <2>1. (Tail(t) # <<>>) <=> (Len(t) > 1)
      <3>1. Tail(t) = <<>> => Len(Tail(t)) = 0
        BY EmptySeq
      <3>2. Tail(t) # <<>> => Len(Tail(t)) # 0
        BY <1>2, EmptySeq
      <3> QED  BY <1>1, <1>2, <3>1, <3>2
    <2> QED  BY <2>1
  <1> QED  BY <1>2, <1>3, <1>4

LEMMA Longer ==
    ASSUME NEW G, NEW s \in Seq(G), NEW g
    PROVE  s \in Seq(G \cup {g})
  BY SeqMonotonic

\* Every edit keeps the invariant if it leaves such a graph.
LEMMA EditKeeps ==
    ASSUME CanvasInv, NEW g, Fine(g), Edit(g)
    PROVE  CanvasInv'
  <1>1. PICK G : Kept(G)
    BY DEF CanvasInv, AllKept
  <1>2. /\ graph' = g /\ past' = PushHistory(past, graph) /\ future' = <<>>
        /\ canUndo' = TRUE /\ canRedo' = FALSE /\ dirty' = TRUE
        /\ steps < MaxSteps /\ steps' = steps + 1
        /\ UNCHANGED <<clipboard, draft, sent, missed>>
    BY DEF Edit, Change, UserStep, NothingElse
  <1>3. /\ Len(past) + Len(future) <= MAX_HISTORY /\ Len(past) \in Nat /\ Len(future) \in Nat
        /\ graph \in G /\ past \in Seq(G) /\ MAX_HISTORY \in Nat /\ MaxSteps \in Nat
        /\ steps \in 0..MaxSteps /\ missed \in BOOLEAN
    BY <1>1, BoundsAssumption DEF Kept, CanvasInv, Counted
  <1>4. /\ PushHistory(past, graph) \in Seq(G) /\ PushHistory(past, graph) # <<>>
        /\ Len(PushHistory(past, graph)) <= MAX_HISTORY
    BY <1>3, Pushed
  <1>5. AllKept'
    <2>1. past' \in Seq(G \cup {g}) /\ future' \in Seq(G \cup {g})
      BY <1>2, <1>4, Longer
    <2>2. {graph', clipboard', draft'} \cup sent' \subseteq G \cup {g}
      BY <1>1, <1>2 DEF Kept
    <2>3. Kept(G \cup {g})'
      BY <1>1, <2>1, <2>2 DEF Kept
    <2> QED  BY <2>3 DEF AllKept
  <1>6. Counted'
    <2>1. Len(past') \in Nat /\ Len(past') <= MAX_HISTORY /\ past' # <<>>
      BY <1>2, <1>4
    <2>2. Len(past') + Len(future') <= MAX_HISTORY /\ steps' \in 0..MaxSteps
      <3>1. Len(future') = 0
        BY <1>2
      <3> QED  BY <1>2, <1>3, <2>1, <3>1
    <2>3. canUndo' = (past' # <<>>) /\ canRedo' = (future' # <<>>)
      BY <1>2, <2>1
    <2>4. dirty' \in BOOLEAN /\ missed' \in BOOLEAN
      BY <1>2, <1>3
    <2> QED  BY <2>2, <2>3, <2>4 DEF Counted
  <1>7. PlainSent' /\ CleanIsStored'
    BY <1>2 DEF CanvasInv, PlainSent, CleanIsStored
  <1> QED  BY <1>5, <1>6, <1>7 DEF CanvasInv

LEMMA UndoKeeps ==
    ASSUME CanvasInv, Undo
    PROVE  CanvasInv' /\ Timeline' = Timeline
  <1>1. PICK G : Kept(G)
    BY DEF CanvasInv, AllKept
  <1>2. /\ past # <<>> /\ graph' = Last(past) /\ past' = Front(past)
        /\ future' = GoForward(future) /\ canUndo' = (Len(past) > 1) /\ canRedo' = TRUE
        /\ dirty' = TRUE /\ UNCHANGED <<clipboard, draft, sent, missed, steps>>
    BY DEF Undo, TurnsDirty, NothingElse, MoreToUndo
  <1>3. /\ graph \in G /\ past \in Seq(G) /\ future \in Seq(G)
        /\ Len(past) + Len(future) <= MAX_HISTORY
        /\ Len(past) \in Nat /\ Len(future) \in Nat
    BY <1>1 DEF Kept, CanvasInv, Counted
  <1>4. /\ past' \in Seq(G) /\ graph' \in G /\ Len(past') = Len(past) - 1
        /\ past' \o <<graph'>> = past /\ (past' # <<>>) = (Len(past) > 1)
        /\ future' = <<graph>> \o future /\ future' \in Seq(G) /\ future' # <<>>
        /\ Len(future') = Len(future) + 1
    BY <1>2, <1>3, WentBack
  <1>5. AllKept'
    <2>1. Kept(G)'
      BY <1>1, <1>2, <1>4 DEF Kept
    <2> QED  BY <2>1 DEF AllKept
  <1>6. Counted'
    <2>1. dirty' \in BOOLEAN /\ missed' \in BOOLEAN /\ steps' \in 0..MaxSteps
      BY <1>2 DEF CanvasInv, Counted
    <2>2. Len(past') + Len(future') <= MAX_HISTORY
      BY <1>3, <1>4
    <2>3. canUndo' = (past' # <<>>) /\ canRedo' = (future' # <<>>)
      <3>1. canUndo' = (past' # <<>>)
        BY <1>2, <1>4, Zenon
      <3>2. canRedo' = (future' # <<>>)
        BY <1>2, <1>4, Zenon
      <3> QED  BY <3>1, <3>2
    <2> QED  BY <2>1, <2>2, <2>3 DEF Counted
  <1>7. PlainSent' /\ CleanIsStored'
    BY <1>2 DEF CanvasInv, PlainSent, CleanIsStored
  <1>8. Timeline' = Timeline
    <2>1. /\ (past' \o <<graph'>>) \in Seq(G) /\ <<graph>> \in Seq(G) /\ future \in Seq(G)
          /\ past' \o <<graph'>> = past
      <3>1. <<graph>> \in Seq(G)
        BY <1>3
      <3>2. past' \o <<graph'>> = past
        BY <1>4, Zenon
      <3> QED  BY <1>3, <3>1, <3>2, Zenon
    <2>2. past \o (<<graph>> \o future) = (past \o <<graph>>) \o future
      BY <1>3, <2>1, ConcatAssociative
    <2>3. Timeline = (past \o <<graph>>) \o future
      BY DEF Timeline
    <2>4. Timeline' = (past' \o <<graph'>>) \o future'
      BY DEF Timeline
    <2> QED  BY <1>4, <2>1, <2>2, <2>3, <2>4, Zenon
  <1> QED  BY <1>5, <1>6, <1>7, <1>8 DEF CanvasInv

LEMMA RedoKeeps ==
    ASSUME CanvasInv, Redo
    PROVE  CanvasInv' /\ Timeline' = Timeline
  <1>1. PICK G : Kept(G)
    BY DEF CanvasInv, AllKept
  <1>2. /\ future # <<>> /\ graph' = Head(future) /\ future' = Tail(future)
        /\ past' = PushHistory(past, graph) /\ canUndo' = TRUE /\ canRedo' = (Len(future) > 1)
        /\ dirty' = TRUE /\ UNCHANGED <<clipboard, draft, sent, missed, steps>>
    BY DEF Redo, NothingElse
  <1>3. /\ graph \in G /\ past \in Seq(G) /\ future \in Seq(G) /\ MAX_HISTORY \in Nat
        /\ Len(past) + Len(future) <= MAX_HISTORY
        /\ Len(past) \in Nat /\ Len(future) \in Nat /\ Len(future) > 0
    BY <1>1, <1>2, BoundsAssumption DEF Kept, CanvasInv, Counted
  <1>4. /\ graph' \in G /\ future' \in Seq(G) /\ Len(future') = Len(future) - 1
        /\ <<graph'>> \o future' = future /\ (future' # <<>>) = (Len(future) > 1)
    BY <1>2, <1>3, WentForward
  <1>5. /\ past' = Append(past, graph) /\ past' \in Seq(G) /\ past' # <<>>
        /\ Len(past') <= Len(past) + 1 /\ Len(past') \in Nat
    <2>1. Len(past) < MAX_HISTORY
      BY <1>3
    <2>2. /\ PushHistory(past, graph) = Append(past, graph)
          /\ PushHistory(past, graph) \in Seq(G) /\ PushHistory(past, graph) # <<>>
          /\ Len(PushHistory(past, graph)) <= Len(past) + 1
      BY <1>3, <2>1, Pushed
    <2> QED  BY <1>2, <2>2
  <1>6. AllKept'
    <2>1. Kept(G)'
      BY <1>1, <1>2, <1>4, <1>5 DEF Kept
    <2> QED  BY <2>1 DEF AllKept
  <1>7. Counted'
    <2>1. dirty' \in BOOLEAN /\ missed' \in BOOLEAN /\ steps' \in 0..MaxSteps
      BY <1>2 DEF CanvasInv, Counted
    <2>2. Len(past') + Len(future') <= MAX_HISTORY
      BY <1>3, <1>4, <1>5
    <2>3. canUndo' = (past' # <<>>) /\ canRedo' = (future' # <<>>)
      <3>1. canUndo' = (past' # <<>>)
        BY <1>2, <1>5, Zenon
      <3>2. canRedo' = (future' # <<>>)
        BY <1>2, <1>4, Zenon
      <3> QED  BY <3>1, <3>2
    <2> QED  BY <2>1, <2>2, <2>3 DEF Counted
  <1>8. PlainSent' /\ CleanIsStored'
    BY <1>2 DEF CanvasInv, PlainSent, CleanIsStored
  <1>9. Timeline' = Timeline
    <2>1. <<graph'>> \in Seq(G) /\ <<graph>> \in Seq(G)
      BY <1>3, <1>4
    <2>2. past' = past \o <<graph>>
      BY <1>3, <1>5, AppendIsConcat
    <2>3. (past' \o <<graph'>>) \o future' = past' \o (<<graph'>> \o future')
      BY <1>4, <1>5, <2>1, ConcatAssociative
    <2>4. Timeline = (past \o <<graph>>) \o future
      BY DEF Timeline
    <2>5. Timeline' = (past' \o <<graph'>>) \o future'
      BY DEF Timeline
    <2>6. <<graph'>> \o future' = future
      BY <1>4, Zenon
    <2> QED  BY <2>2, <2>3, <2>4, <2>5, <2>6, Zenon
  <1> QED  BY <1>6, <1>7, <1>8, <1>9 DEF CanvasInv

\* Steps that change no graph the canvas can bring back.
LEMMA DraftKeeps ==
    ASSUME CanvasInv, DraftStep
    PROVE  CanvasInv'
  <1>1. PICK G : Kept(G)
    BY DEF CanvasInv, AllKept
  <1>2. Counted /\ PlainSent /\ CleanIsStored /\ Fine(graph) /\ Len(past) \in Nat
    BY <1>1 DEF CanvasInv, Kept
  <1>s. UserStep => steps' \in 0..MaxSteps
    BY <1>2, BoundsAssumption DEF UserStep, Counted
  <1>3. CASE \E g \in Drafts \cup {draft} : LoadFlow(g)
    <2>1. PICK g \in Drafts \cup {draft} : LoadFlow(g)
      BY <1>3
    <2>2. /\ graph' = Completed(g) /\ draft' = g /\ dirty' = FALSE /\ clipboard' = NoDraft
          /\ past' = <<>> /\ future' = <<>> /\ canUndo' = FALSE /\ canRedo' = FALSE
          /\ missed' = FALSE /\ sent' = sent /\ UserStep
      BY <2>1 DEF LoadFlow, ForgetHistory
    <2>3. Fine(g) /\ Fine(Completed(g)) /\ Fine(NoDraft)
      <3>1. Fine(draft) /\ \A f \in Drafts : Fine(f)
        BY <1>1, GivenAssumption DEF Kept, Fine, Sound
      <3> QED  BY <3>1, CompletedFine, EmptyFine DEF Fine
    <2>4. Kept(G \cup {g, Completed(g), NoDraft})'
      BY <1>1, <2>2, <2>3 DEF Kept
    <2>5. AllKept'
      BY <2>4 DEF AllKept
    <2>6. Counted'
      <3>1. Len(past') + Len(future') <= MAX_HISTORY
        <4>1. Len(past') = 0 /\ Len(future') = 0
          BY <2>2
        <4> QED  BY <4>1, BoundsAssumption
      <3>2. canUndo' = (past' # <<>>) /\ canRedo' = (future' # <<>>)
        BY <2>2, Zenon
      <3> QED  BY <1>s, <2>2, <3>1, <3>2 DEF Counted
    <2>7. PlainSent'
      BY <1>2, <2>2 DEF PlainSent
    <2>8. CleanIsStored'
      <3>1. Content(graph') = Completed(Content(draft'))
        BY <2>2, <2>3, CompletedFine DEF Fine
      <3> QED  BY <3>1 DEF CleanIsStored, Readings
    <2> QED  BY <2>5, <2>6, <2>7, <2>8 DEF CanvasInv
  <1>8. CASE SetNodeCatalog
    <2>1. /\ graph' = Completed(graph)
          /\ UNCHANGED <<past, future, canUndo, canRedo, clipboard, dirty, draft, sent, missed, steps>>
      BY <1>8 DEF SetNodeCatalog
    <2>2. Fine(graph') /\ Content(graph') = Completed(Content(graph))
      BY <1>2, <2>1, CompletedFine DEF Fine
    <2>3. past' \in Seq(G \cup {graph'}) /\ future' \in Seq(G \cup {graph'})
      BY <1>1, <2>1, Longer DEF Kept
    <2>4. PICK g : g = graph'
      OBVIOUS
    <2>5. Kept(G \cup {g})'
      BY <1>1, <2>1, <2>2, <2>3, <2>4 DEF Kept
    <2>6. AllKept'
      BY <2>5 DEF AllKept
    <2>7. Counted' /\ PlainSent'
      BY <1>2, <2>1 DEF Counted, PlainSent
    <2>8. CleanIsStored'
      <3>1. Completed(Completed(Content(draft))) = Completed(Content(draft))
        <4>1. Sound(Content(draft))
          BY <1>1, SelectFine DEF Kept, Content, Fine
        <4> QED  BY <4>1, CompletedFine
      <3>2. dirty' = dirty /\ missed' = missed /\ draft' = draft
        BY <2>1
      <3> QED  BY <1>2, <2>2, <3>1, <3>2 DEF CleanIsStored, Readings
    <2> QED  BY <2>6, <2>7, <2>8 DEF CanvasInv
  <1>4. CASE SetFlowName
    <2>1. /\ UserStep /\ dirty' = TRUE
          /\ UNCHANGED <<graph, past, future, canUndo, canRedo, clipboard, draft, sent, missed>>
      BY <1>4 DEF SetFlowName
    <2>2. Kept(G)'
      BY <1>1, <2>1 DEF Kept
    <2>3. AllKept'
      BY <2>2 DEF AllKept
    <2>4. Counted'
      BY <1>2, <1>s, <2>1 DEF Counted
    <2>5. PlainSent' /\ CleanIsStored'
      BY <1>2, <2>1 DEF PlainSent, CleanIsStored
    <2> QED  BY <2>3, <2>4, <2>5 DEF CanvasInv
  <1>5. CASE Save
    <2>1. /\ UserStep /\ sent' = {Content(graph)}
          /\ UNCHANGED <<graph, past, future, canUndo, canRedo, clipboard, dirty, draft, missed>>
      BY <1>5 DEF Save
    <2>2. Fine(Content(graph)) /\ Content(Content(graph)) = Content(graph)
      BY <1>2, SelectFine, ContentIsPlain DEF Content
    <2>3. past' \in Seq(G \cup {Content(graph)}) /\ future' \in Seq(G \cup {Content(graph)})
      BY <1>1, <2>1, Longer DEF Kept
    <2>4. Kept(G \cup {Content(graph)})'
      BY <1>1, <2>1, <2>2, <2>3 DEF Kept
    <2>5. AllKept'
      BY <2>4 DEF AllKept
    <2>6. Counted'
      BY <1>2, <1>s, <2>1 DEF Counted
    <2>7. PlainSent' /\ CleanIsStored'
      BY <1>2, <2>1, <2>2 DEF PlainSent, CleanIsStored
    <2> QED  BY <2>5, <2>6, <2>7 DEF CanvasInv
  <1>6. CASE MarkSaved
    <2>1. PICK g \in sent : draft' = g
      BY <1>6 DEF MarkSaved
    <2>2. /\ missed' = (Content(graph) \notin Readings(draft')) /\ sent' = NoSave /\ dirty' = FALSE
          /\ UNCHANGED <<graph, past, future, canUndo, canRedo, clipboard, steps>>
      BY <1>6 DEF MarkSaved
    <2>3. Kept(G)'
      BY <1>1, <2>1, <2>2 DEF Kept, NoSave
    <2>4. AllKept'
      BY <2>3 DEF AllKept
    <2>5. Counted'
      BY <1>2, <2>2 DEF Counted
    <2>6. PlainSent'
      BY <2>2 DEF PlainSent, NoSave
    <2>7. CleanIsStored'
      <3>1. Content(draft') = draft'
        BY <1>2, <2>1 DEF PlainSent
      <3> QED  BY <2>2, <3>1 DEF CleanIsStored
    <2> QED  BY <2>4, <2>5, <2>6, <2>7 DEF CanvasInv
  <1>7. CASE SaveFails
    <2>1. /\ sent' = NoSave
          /\ UNCHANGED <<graph, past, future, canUndo, canRedo, clipboard, dirty, draft, missed, steps>>
      BY <1>7 DEF SaveFails
    <2>2. Kept(G)'
      BY <1>1, <2>1 DEF Kept, NoSave
    <2>3. AllKept'
      BY <2>2 DEF AllKept
    <2>4. Counted'
      BY <1>2, <2>1 DEF Counted
    <2>5. PlainSent' /\ CleanIsStored'
      BY <1>2, <2>1 DEF PlainSent, CleanIsStored, NoSave
    <2> QED  BY <2>3, <2>4, <2>5 DEF CanvasInv
  <1> QED  BY <1>3, <1>4, <1>5, <1>6, <1>7, <1>8 DEF DraftStep

LEMMA SelectKeeps ==
    ASSUME CanvasInv, NEW a, NEW b, SelectOnly(a, b)
    PROVE  CanvasInv'
  <1>1. PICK G : Kept(G)
    BY DEF CanvasInv, AllKept
  <1>2. Counted /\ PlainSent /\ CleanIsStored /\ Fine(graph)
    BY <1>1 DEF CanvasInv, Kept
  <1>3. /\ UserStep /\ graph' = Select(graph, a, b)
        /\ UNCHANGED <<past, future, canUndo, canRedo, clipboard, dirty, draft, sent, missed>>
    BY DEF SelectOnly
  <1>4. Fine(graph') /\ Content(graph') = Content(graph)
    BY <1>2, <1>3, SelectFine, ContentIsPlain
  <1>5. past' \in Seq(G \cup {graph'}) /\ future' \in Seq(G \cup {graph'})
    BY <1>1, <1>3, Longer DEF Kept
  <1>6. PICK g : g = graph'
    OBVIOUS
  <1>7. Kept(G \cup {g})'
    BY <1>1, <1>3, <1>4, <1>5, <1>6 DEF Kept
  <1>8. AllKept'
    BY <1>7 DEF AllKept
  <1>9. Counted'
    <2>1. steps' \in 0..MaxSteps
      BY <1>2, <1>3, BoundsAssumption DEF UserStep, Counted
    <2> QED  BY <1>2, <1>3, <2>1 DEF Counted
  <1>10. PlainSent' /\ CleanIsStored'
    BY <1>2, <1>3, <1>4 DEF PlainSent, CleanIsStored
  <1> QED  BY <1>8, <1>9, <1>10 DEF CanvasInv

LEMMA CopyKeeps ==
    ASSUME CanvasInv, CopySelection
    PROVE  CanvasInv'
  <1>1. PICK G : Kept(G)
    BY DEF CanvasInv, AllKept
  <1>2. Counted /\ PlainSent /\ CleanIsStored /\ Fine(graph)
    BY <1>1 DEF CanvasInv, Kept
  <1>3. /\ UserStep /\ clipboard' = Selection(graph)
        /\ UNCHANGED <<graph, past, future, canUndo, canRedo, dirty, draft, sent, missed>>
    BY DEF CopySelection
  <1>4. PICK g : g = Selection(graph)
    OBVIOUS
  <1>5. Fine(g)
    BY <1>2, <1>4, SelectionFine
  <1>6. past' \in Seq(G \cup {g}) /\ future' \in Seq(G \cup {g})
    BY <1>1, <1>3, Longer DEF Kept
  <1>7. Kept(G \cup {g})'
    BY <1>1, <1>3, <1>4, <1>5, <1>6 DEF Kept
  <1>8. AllKept'
    BY <1>7 DEF AllKept
  <1>9. Counted'
    <2>1. steps' \in 0..MaxSteps
      BY <1>2, <1>3, BoundsAssumption DEF UserStep, Counted
    <2> QED  BY <1>2, <1>3, <2>1 DEF Counted
  <1>10. PlainSent' /\ CleanIsStored'
    BY <1>2, <1>3 DEF PlainSent, CleanIsStored
  <1> QED  BY <1>8, <1>9, <1>10 DEF CanvasInv

LEMMA AddKeeps ==
    ASSUME CanvasInv, AddStep
    PROVE  CanvasInv'
  <1>1. PICK G : Kept(G)
    BY DEF CanvasInv, AllKept
  <1>2. Fine(graph) /\ Fine(clipboard)
    BY <1>1 DEF Kept
  <1>3. \A t, x : DOMAIN Node(t, x) = NodeFields /\ Node(t, x).type = t
    BY DEF Node, NodeFields
  <1>4. CASE \E t \in Types, x \in Columns : AddNode(t, x)
    <2>1. PICK t \in Types, x \in Columns : AddNode(t, x)
      BY <1>4
    <2>2. Fine(WithNode(graph, NextId(FreeNodes), Node(t, x)))
      <3>1. FreeNodes # {}
        BY <2>1 DEF AddNode
      <3>2. DOMAIN Node(t, x) = NodeFields /\ Node(t, x).type \in Types \cup {Note}
        BY <1>3
      <3> QED  BY <1>2, <3>1, <3>2, AddedFine
    <2> QED  BY <2>1, <2>2, EditKeeps DEF AddNode
  <1>5. CASE AddNote
    <2> DEFINE plain == Select(graph, {}, SelectedEdges(graph))
               note  == [Node(Note, 0) EXCEPT !.selected = TRUE]
    <2>1. Fine(plain) /\ Nodes(plain) = Nodes(graph)
      BY <1>2, SelectFine
    <2>2. DOMAIN note = NodeFields /\ note.type \in Types \cup {Note}
      BY DEF Node, NodeFields
    <2>3. FreeNodes # {} /\ Edit(WithNode(plain, NextId(FreeNodes), note))
      BY <1>5 DEF AddNote
    <2> HIDE DEF plain, note
    <2>4. Fine(WithNode(plain, NextId(FreeNodes), note))
      BY <1>2, <2>1, <2>2, <2>3, AddedFine
    <2> QED  BY <2>3, <2>4, EditKeeps
  <1>6. CASE \E r \in Recipes : ApplyRecipe(r)
    <2>1. PICK r \in Recipes : ApplyRecipe(r)
      BY <1>6
    <2>2. Sound(r)
      BY GivenAssumption DEF Sound
    <2>3. Fine(Inserted(graph, Completed(r)))
      <3>1. RoomFor(Completed(r))
        BY <2>1, <2>2, CompletedFine DEF ApplyRecipe, RoomFor
      <3>2. Sound(Completed(r))
        BY <2>2, CompletedFine
      <3> QED  BY <1>2, <3>1, <3>2, InsertedFine
    <2> QED  BY <2>1, <2>3, EditKeeps DEF ApplyRecipe
  <1>7. CASE \E n \in Nodes(graph) : CopyNode(n)
    <2>0. PICK n \in Nodes(graph) : CopyNode(n)
      BY <1>7
    <2> DEFINE plain == Select(graph, {}, SelectedEdges(graph))
               copy  == [Filled(graph.nodes[n]) EXCEPT !.selected = TRUE]
    <2>1. Fine(plain) /\ Nodes(plain) = Nodes(graph)
      BY <1>2, SelectFine
    <2>2. DOMAIN copy = NodeFields /\ copy.type \in Types \cup {Note}
      <3>1. DOMAIN graph.nodes[n] = NodeFields /\ graph.nodes[n].type \in Types \cup {Note}
        BY <1>2 DEF Fine, Sound, IsGraph, NodeFields
      <3> QED  BY <3>1 DEF Filled, NodeFields
    <2>3. FreeNodes # {} /\ Edit(WithNode(plain, NextId(FreeNodes), copy))
      BY <2>0 DEF CopyNode
    <2> HIDE DEF plain, copy
    <2>4. Fine(WithNode(plain, NextId(FreeNodes), copy))
      BY <1>2, <2>1, <2>2, <2>3, AddedFine
    <2> QED  BY <2>3, <2>4, EditKeeps
  <1>8. CASE CopySelection
    BY <1>8, CopyKeeps
  <1>9. CASE PasteSelection
    <2>1. Fine(Inserted(graph, clipboard))
      BY <1>2, <1>9, InsertedFine DEF PasteSelection, Fine
    <2> QED  BY <1>9, <2>1, EditKeeps DEF PasteSelection
  <1>10. CASE DuplicateSelection
    <2>1. Sound(Selection(graph)) /\ RoomFor(Selection(graph))
      BY <1>2, <1>10, SelectionFine DEF DuplicateSelection, Fine
    <2>2. Fine(Inserted(graph, Selection(graph)))
      BY <1>2, <2>1, InsertedFine
    <2> QED  BY <1>10, <2>2, EditKeeps DEF DuplicateSelection
  <1> QED  BY <1>4, <1>5, <1>6, <1>7, <1>8, <1>9, <1>10 DEF AddStep

LEMMA ChangeKeeps ==
    ASSUME CanvasInv, ChangeStep
    PROVE  CanvasInv'
  <1>2. Fine(graph)
    BY DEF CanvasInv, AllKept, Kept
  <1>3. CASE \E n \in Nodes(graph) : UpdateNode(n)
    <2>1. PICK n \in Nodes(graph) : UpdateNode(n)
      BY <1>3
    <2>2. Edit([graph EXCEPT !.nodes[n].data = 1 - graph.nodes[n].data])
      BY <2>1 DEF UpdateNode
    <2>3. Fine([graph EXCEPT !.nodes[n].data = 1 - graph.nodes[n].data])
      BY <1>2, DataFine
    <2> QED  BY <2>2, <2>3, EditKeeps
  <1>9. CASE \E n \in Nodes(graph) : UpdateField(n)
    <2>1. PICK n \in Nodes(graph) : UpdateField(n)
      BY <1>9
    <2>2. Edit([graph EXCEPT !.nodes[n].blank = ~graph.nodes[n].blank])
      BY <2>1 DEF UpdateField
    <2>3. Fine([graph EXCEPT !.nodes[n].blank = ~graph.nodes[n].blank])
      BY <1>2, DataFine
    <2> QED  BY <2>2, <2>3, EditKeeps
  <1>4. CASE \E n \in Nodes(graph), x \in Columns : MoveNode(n, x)
    <2>1. PICK n \in Nodes(graph), x \in Columns : MoveNode(n, x)
      BY <1>4
    <2>2. Edit([graph EXCEPT !.nodes[n].column = x])
      BY <2>1 DEF MoveNode
    <2>3. Fine([graph EXCEPT !.nodes[n].column = x])
      BY <1>2, DataFine
    <2> QED  BY <2>2, <2>3, EditKeeps
  <1>5. CASE SetSelectedNodesLocked
    BY <1>2, <1>5, LockedFine, EditKeeps DEF SetSelectedNodesLocked
  <1>6. CASE AutoLayout
    <2>1. Edit(Arranged(graph, Layers(graph)))
      BY <1>6 DEF AutoLayout
    <2>2. Fine(Arranged(graph, Layers(graph)))
      BY <1>2, ArrangedFine
    <2> QED  BY <2>1, <2>2, EditKeeps
  <1>7. CASE \E c \in Connections : Connect(c)
    <2>1. PICK c \in Connections : Connect(c)
      BY <1>7
    <2>2. Fine(WithEdge(graph, NextId(FreeEdges), Edge(c)))
      BY <1>2, <2>1, ConnectedFine DEF Connect
    <2> QED  BY <2>1, <2>2, EditKeeps DEF Connect
  <1>8. CASE \E e \in Edges(graph), c \in Connections : Reconnect(e, c)
    <2>1. PICK e \in Edges(graph), c \in Connections : Reconnect(e, c)
      BY <1>8
    <2>2. Fine([graph EXCEPT !.edges[e] = [Edge(c) EXCEPT !.selected = graph.edges[e].selected]])
      BY <1>2, <2>1, MovedFine DEF Reconnect
    <2> QED  BY <2>1, <2>2, EditKeeps DEF Reconnect
  <1> QED  BY <1>3, <1>4, <1>5, <1>6, <1>7, <1>8, <1>9 DEF ChangeStep

LEMMA RemoveKeeps ==
    ASSUME CanvasInv, RemoveStep
    PROVE  CanvasInv'
  <1>2. Fine(graph)
    BY DEF CanvasInv, AllKept, Kept
  <1>3. CASE \E e \in Edges(graph) : DeleteEdge(e)
    BY <1>2, <1>3, EdgesFine, EditKeeps DEF DeleteEdge
  <1>4. CASE \E n \in Nodes(graph) : DeleteNode(n)
    BY <1>2, <1>4, RemovedFine, EditKeeps DEF DeleteNode
  <1>5. CASE DeleteSelectedElements
    BY <1>2, <1>5, EdgesFine, RemovedFine, EditKeeps DEF DeleteSelectedElements
  <1> QED  BY <1>3, <1>4, <1>5 DEF RemoveStep

LEMMA CanvasKeeps ==
    ASSUME CanvasInv, [CanvasNext]_canvasVars
    PROVE  CanvasInv'
  <1>1. CASE SelectStep
    BY <1>1, SelectKeeps DEF SelectStep
  <1>2. CASE UNCHANGED canvasVars
    BY <1>2 DEF canvasVars, CanvasInv, AllKept, Kept, Counted, PlainSent, CleanIsStored
  <1> QED
    BY <1>1, <1>2, AddKeeps, ChangeKeeps, RemoveKeeps, UndoKeeps, RedoKeeps, DraftKeeps
    DEF CanvasNext

LEMMA CanvasStarts ==
    ASSUME CanvasInit
    PROVE  CanvasInv
  <1>1. /\ draft \in Drafts /\ graph = Completed(draft) /\ past = <<>> /\ future = <<>>
        /\ canUndo = FALSE /\ canRedo = FALSE /\ clipboard = NoDraft
        /\ dirty = FALSE /\ sent = NoSave /\ missed = FALSE /\ steps = 0
    BY DEF CanvasInit
  <1>2. Fine(draft) /\ Fine(graph) /\ Fine(NoDraft)
    <2>1. Fine(draft)
      BY <1>1, GivenAssumption DEF Fine, Sound
    <2> QED  BY <1>1, <2>1, CompletedFine, EmptyFine DEF Fine
  <1>3. Kept({graph, draft, NoDraft})
    BY <1>1, <1>2 DEF Kept, NoSave
  <1>4. AllKept
    BY <1>3 DEF AllKept
  <1>5. Counted
    <2>1. Len(past) + Len(future) <= MAX_HISTORY /\ steps \in 0..MaxSteps
      <3>1. Len(past) = 0 /\ Len(future) = 0
        BY <1>1
      <3> QED  BY <1>1, <3>1, BoundsAssumption
    <2>2. canUndo = (past # <<>>) /\ canRedo = (future # <<>>)
      BY <1>1, Zenon
    <2> QED  BY <1>1, <2>1, <2>2 DEF Counted
  <1>6. PlainSent /\ CleanIsStored
    <2>1. Content(graph) = Completed(Content(draft))
      BY <1>1, <1>2, CompletedFine DEF Fine
    <2> QED  BY <1>1, <2>1 DEF PlainSent, CleanIsStored, Readings, NoSave
  <1> QED  BY <1>4, <1>5, <1>6 DEF CanvasInv

\* The invariant says of the canvas what the run checks.
LEMMA CanvasHolds ==
    ASSUME CanvasInv
    PROVE  CanvasSound /\ CleanIsStored
  <1>1. PICK G : Kept(G)
    BY DEF CanvasInv, AllKept
  <1>2. ToSet(past) \subseteq G /\ ToSet(future) \subseteq G
    BY <1>1, ElementOfSeq, LenProperties DEF Kept, ToSet
  <1>3. Known \cup {draft} \subseteq G
    BY <1>1, <1>2 DEF Kept, Known
  <1>4. \A g \in Known \cup {draft} : Fine(g)
    BY <1>1, <1>3 DEF Kept
  <1>5. CanvasTypeOK
    <2>1. \A g \in Known \cup {draft} : IsGraph(g) /\ HasRoom(g)
      BY <1>4 DEF Fine, Sound
    <2> QED  BY <2>1 DEF CanvasTypeOK, CanvasInv, Counted
  <1>6. AlwaysExecutable /\ OneEdgePerInput
    BY <1>1 DEF Kept, Fine, Sound, AlwaysExecutable, OneEdgePerInput
  <1> QED  BY <1>5, <1>6 DEF CanvasSound, CanvasInv

\* Whatever a user adds, inserts, copies, pastes, connects, moves, deletes, undoes,
\* redoes, loads and saves, on any catalog and from any executable draft, the
\* canvas shows a graph the executor can follow, with one edge per input.
THEOREM Drawing == CanvasSpec => []CanvasSound
  <1>1. CanvasSpec => []CanvasInv
    BY CanvasStarts, CanvasKeeps, PTL DEF CanvasSpec
  <1> QED  BY <1>1, CanvasHolds, PTL

\* A canvas with nothing to save shows what is stored, except for edits made
\* while a save was under way.
THEOREM Saving == CanvasSpec => []CleanIsStored
  <1>1. CanvasSpec => []CanvasInv
    BY CanvasStarts, CanvasKeeps, PTL DEF CanvasSpec
  <1> QED  BY <1>1, CanvasHolds, PTL

\* Undo and redo move along the history and lose nothing of it, however long it
\* may get.
THEOREM GoingBack == CanvasSpec => TimelineStays
  <1>1. CanvasSpec => []CanvasInv
    BY CanvasStarts, CanvasKeeps, PTL DEF CanvasSpec
  <1>2. ASSUME CanvasInv, [CanvasNext]_canvasVars
        PROVE  [(Undo \/ Redo) => Timeline' = Timeline]_canvasVars
    BY <1>2, UndoKeeps, RedoKeeps
  <1> QED  BY <1>1, <1>2, PTL DEF CanvasSpec, TimelineStays
=============================================================================
