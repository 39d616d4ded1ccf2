----------------------------- MODULE FlowVersions -----------------------------
(***************************************************************************)
(* One flow: its draft in `flows`, its published snapshots in              *)
(* `flow_versions`, and the cron jobs derived from the published one, under*)
(* concurrent saves, restorations, publications, rollbacks and a deletion  *)
(* (apps/adapter/src/routers/flows.ts).                                    *)
(*                                                                         *)
(* Every operation is a Postgres transaction at READ COMMITTED: plain      *)
(* selects, then writes that begin with a lock on a row every other writer *)
(* needs too and end with the commit.  The selects are steps of their own, *)
(* the writes up to the commit are one.                                    *)
(***************************************************************************)
EXTENDS Integers, FiniteSets

CONSTANTS
    Savers,       \* requests that change the draft: update, restoreVersion
    Publishers,   \* requests that change what is live: publish, rollback
    Deleters,     \* requests that delete the flow
    Graphs,       \* what a draft may hold
    Valid,        \* the graphs that pass the validation of a publication
    NoGraph,      \* "no such snapshot"
    MaxVersion    \* bound: the last version a draft may reach

Actors   == Savers \cup Publishers \cup Deleters
Versions == 1..MaxVersion

ASSUME GraphsAssumption == Valid \subseteq Graphs /\ NoGraph \notin Graphs
ASSUME BoundAssumption  == MaxVersion \in Nat \ {0}
\* One actor, one role.
ASSUME ActorsAssumption ==
    Savers \cap Publishers = {} /\ Deleters \cap (Savers \cup Publishers) = {}

VARIABLES
    flow,       \* the committed row of the flow, or Deleted
    snapshots,  \* the committed snapshots, by version
    crons,      \* version and graph the cron jobs of the flow come from
    tx,         \* the transaction each actor has open
    overtaken   \* the lowest number given to a draft that replaced one its save
                \* had not read; history, nothing reads it

vars == <<flow, snapshots, crons, tx, overtaken>>

Flows   == [version : Versions, published : 0..MaxVersion, graph : Graphs]
Deleted == [version |-> 0, published |-> 0, graph |-> NoGraph]
Exists  == flow # Deleted

NoJobs == [version |-> 0, graph |-> NoGraph]

\* What a transaction keeps: the number of the draft as it was read, the version
\* the request names, and the graph it brings, has found or has read.
Tx(pc, version, target, graph) ==
    [pc |-> pc, version |-> version, target |-> target, graph |-> graph]
Idle == Tx("idle", 0, 0, NoGraph)

Close(a) == tx' = [tx EXCEPT ![a] = Idle]

-----------------------------------------------------------------------------
Init ==
    /\ \E g \in Graphs : flow = [version |-> 1, published |-> 0, graph |-> g]
    /\ snapshots = [v \in Versions |-> NoGraph]
    /\ crons     = NoJobs
    /\ tx        = [a \in Actors |-> Idle]
    /\ overtaken = MaxVersion + 1

\* The select every operation begins with; one that finds no flow fails.
ReadFlow(a, pc, version, target, graph) ==
    /\ tx[a] = Idle
    /\ Exists
    /\ tx' = [tx EXCEPT ![a] = Tx(pc, version, target, graph)]
    /\ UNCHANGED <<flow, snapshots, crons, overtaken>>

\* update: the request brings a graph and, or not, the version it was made from;
\* if it brings one, it goes on only if the row has that version.
SaveRead(s, graph) ==
    /\ flow.version < MaxVersion
    /\ ReadFlow(s, "saving", flow.version, 0, graph)

\* Mutant: a save keeps the number.
SameVersion(read) == read
\* The number of a stored draft follows the one its transaction has read.
NextVersion(read) == read + 1

\* The update of a row that has been deleted finds nothing, and fails.  It asks
\* for the row by its id alone: the draft it replaces may not be the one it read.
Lower(m, n) == IF m < n THEN m ELSE n
StoreDraft(s, graph) ==
    LET number == NextVersion(tx[s].version)
    IN  /\ flow' = IF Exists
                   THEN [flow EXCEPT !.version = number, !.graph = graph]
                   ELSE flow
        /\ overtaken' = IF Exists /\ tx[s].version # flow.version
                        THEN Lower(overtaken, number)
                        ELSE overtaken
    /\ Close(s)
    /\ UNCHANGED <<snapshots, crons>>

SaveWrite(s) ==
    /\ tx[s].pc = "saving"
    /\ StoreDraft(s, tx[s].graph)

\* Mutant: nobody looks whether there is such a snapshot.
FindAny(version) == TRUE
\* The snapshot the request names exists.
Found(version) == snapshots[version] # NoGraph

\* restoreVersion: the row, then the snapshot in a second select, then the
\* same update.
RestoreRead(s, version) ==
    /\ flow.version < MaxVersion
    /\ ReadFlow(s, "restoring", flow.version, version, NoGraph)

RestoreFind(s) ==
    /\ tx[s].pc = "restoring"
    /\ IF Found(tx[s].target)
       THEN tx' = [tx EXCEPT ![s] = Tx("restored", tx[s].version, 0, snapshots[tx[s].target])]
       ELSE Close(s)
    /\ UNCHANGED <<flow, snapshots, crons, overtaken>>

RestoreWrite(s) ==
    /\ tx[s].pc = "restored"
    /\ StoreDraft(s, tx[s].graph)

\* Mutant: the jobs stay as they are.
SyncNothing(version, graph) == UNCHANGED crons
\* syncPublishedFlowCronJobs inserts, updates and deletes until the jobs are
\* those of the snapshot.
Sync(version, graph) == crons' = [version |-> version, graph |-> graph]

\* publish: the draft that was read is validated, stored as the snapshot of
\* its version, over the one that may be there, and made live.
PublishRead(p) == ReadFlow(p, "publishing", flow.version, 0, flow.graph)

\* What is published: the draft as it was read and validated.
DraftRead(p) == tx[p]

PublishWrite(p) ==
    LET draft == DraftRead(p)
    IN  /\ tx[p].pc = "publishing"
        /\ IF Exists /\ tx[p].graph \in Valid
           THEN /\ snapshots' = [snapshots EXCEPT ![draft.version] = draft.graph]
                /\ flow' = [flow EXCEPT !.published = draft.version]
                /\ Sync(draft.version, draft.graph)
           ELSE UNCHANGED <<flow, snapshots, crons>>
        /\ Close(p)
        /\ UNCHANGED overtaken

\* rollbackPublished: an existing snapshot is made live again.  The snapshot is
\* selected once more after the update has locked the row.
RollbackRead(p, version) == ReadFlow(p, "rolling", 0, version, NoGraph)

RollbackFind(p) ==
    /\ tx[p].pc = "rolling"
    /\ IF Found(tx[p].target)
       THEN tx' = [tx EXCEPT ![p].pc = "rolled"]
       ELSE Close(p)
    /\ UNCHANGED <<flow, snapshots, crons, overtaken>>

RollbackWrite(p) ==
    LET version == tx[p].target
    IN  /\ tx[p].pc = "rolled"
        /\ IF Exists
           THEN /\ flow' = [flow EXCEPT !.published = version]
                /\ Sync(version, snapshots[version])
           ELSE UNCHANGED <<flow, crons>>
        /\ Close(p)
        /\ UNCHANGED <<snapshots, overtaken>>

\* delete: the cron jobs, then the flow; its snapshots go with it.
Delete(d) ==
    /\ Exists
    /\ flow'      = Deleted
    /\ snapshots' = [v \in Versions |-> NoGraph]
    /\ crons'     = NoJobs
    /\ UNCHANGED <<tx, overtaken>>

-----------------------------------------------------------------------------
SaveStep(s) ==
    \/ \E g \in Graphs : SaveRead(s, g)
    \/ SaveWrite(s)
    \/ \E v \in Versions : RestoreRead(s, v)
    \/ RestoreFind(s)
    \/ RestoreWrite(s)

PublishStep(p) ==
    \/ PublishRead(p)
    \/ PublishWrite(p)
    \/ \E v \in Versions : RollbackRead(p, v)
    \/ RollbackFind(p)
    \/ RollbackWrite(p)

Next ==
    \/ \E s \in Savers : SaveStep(s)
    \/ \E p \in Publishers : PublishStep(p)
    \/ \E d \in Deleters : Delete(d)

Spec == Init /\ [][Next]_vars

-----------------------------------------------------------------------------
\* Every variable stays in its domain; only graphs that have passed the
\* validation of a publication become snapshots and cron jobs.
TypeOK ==
    /\ flow \in Flows \cup {Deleted}
    /\ snapshots \in [Versions -> Valid \cup {NoGraph}]
    /\ crons \in [version : Versions, graph : Valid] \cup {NoJobs}
    /\ overtaken \in 1..(MaxVersion + 1)
    /\ tx \in [Actors -> [pc : {"idle", "saving", "restoring", "restored",
                                "publishing", "rolling", "rolled"},
                          version : 0..MaxVersion, target : 0..MaxVersion,
                          graph : Graphs \cup {NoGraph}]]

\* The live version of a flow has a snapshot, so startPublishedFlowRun never
\* fails with PUBLISHED_VERSION_MISSING, and that snapshot is a valid graph,
\* whatever was saved while it was published.
LiveIsValid == flow.published # 0 => snapshots[flow.published] \in Valid

\* The cron jobs of a flow are those of its live version, in whatever order
\* publications and rollbacks overtake one another.
JobsFollowLive ==
    crons = IF flow.published = 0 THEN NoJobs
            ELSE [version |-> flow.published, graph |-> snapshots[flow.published]]

\* A snapshot stays as it was published while its flow exists, however often it
\* is published again, rolled back to or restored, so the runs that refer to it go
\* on with the graph they were started with.  Overlapping saves may give a number
\* twice: that reaches no snapshot below the number the overtaken save has stored.
SnapshotsStay ==
    [][\A v \in Versions : snapshots[v] # NoGraph /\ Exists' /\ v < overtaken =>
         snapshots'[v] = snapshots[v]]_vars

\* "version mismatch: expected ..., actual ...": a save that names the version it
\* was made from replaces that version and no other; any save may have named the
\* one it has read.  With two savers it does not hold, see the README; no
\* configuration lists it.
SavesReplaceExpected ==
    [][\A s \in Savers :
         tx[s].pc = "saving" /\ tx'[s].pc = "idle" /\ Exists =>
         flow.version = tx[s].version]_vars
=============================================================================
