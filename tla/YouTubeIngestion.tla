-------------------------- MODULE YouTubeIngestion --------------------------
(***************************************************************************)
(* Videos that become runs (apps/adapter/src/youtube-service.ts,           *)
(* routers/youtube.ts, routers/runs.ts): a WebSub subscription, the        *)
(* notifications the hub delivers for it, runs started by hand for a       *)
(* video, and the row of youtube_video_ingestions that copies the status   *)
(* of the run it is linked to.                                             *)
(*                                                                         *)
(* A request is split at its awaits.  Each statement is one step; the      *)
(* notification's transaction locks the row of the video it upserts.       *)
(* Runs are those of RunLifecycle, seen from outside.                      *)
(***************************************************************************)
EXTENDS Naturals, FiniteSets

CONSTANTS
    Videos,
    Feeds,       \* bound: notifications under way at a time
    Manuals,     \* bound: runs by hand, one each
    MaxRuns,     \* bound: runs started
    MaxChanges,  \* bound: changes of the subscription's flow
    MaxCrashes   \* bound: ends of the adapter process

ASSUME RunsAssumption  == MaxRuns \in Nat /\ MaxChanges \in Nat /\ MaxCrashes \in Nat
ASSUME ActorsAssumption == Feeds \cap Manuals = {}
ASSUME VideosAssumption == IsFiniteSet(Videos)

Runs   == 1 .. MaxRuns
Actors == Feeds \cup Manuals
NoRun  == 0

VARIABLES
    changes,   \* of the flow linked to the subscription, linked at first
    row,       \* the ingestion of each video
    run,       \* the runs: status, approved requests, origin
    exec,      \* how each run is being executed: linked to ingestions or not
    sync,      \* syncYouTubeIngestionFromRun, by run and by who called it
    op,        \* the requests under way
    crashes,
    clean      \* no two of these have overlapped, no notification has named a
               \* video twice, and no tick has resumed a run

vars == <<changes, row, run, exec, sync, op, crashes, clean>>

-----------------------------------------------------------------------------
NoRow == [status |-> "none", article |-> "pending", run |-> NoRun]
NoneRun == [status |-> "absent", approved |-> FALSE, from |-> "none"]
Ended == {"succeeded", "failed"}     \* a cancelled run counts as failed

\* linked: the flow the notification found.
OpIdle == [pc |-> "idle", video |-> "none", linked |-> FALSE, run |-> NoRun]

Callers  == {"exec", "user"}
SyncIdle == [pc |-> "idle", of |-> {}, status |-> "absent", approved |-> FALSE]

Init ==
    /\ changes = 0
    /\ row = [v \in Videos |-> NoRow]
    /\ run = [r \in Runs |-> NoneRun]
    /\ exec = [r \in Runs |-> "none"]
    /\ sync = [r \in Runs |-> [c \in Callers |-> SyncIdle]]
    /\ op = [a \in Actors |-> OpIdle]
    /\ crashes = 0 /\ clean = TRUE

Launching  == {a \in Actors : op[a].pc \notin {"idle", "done"}}
Syncing(r) == \E c \in Callers : sync[r][c].pc # "idle"
Quiet      == /\ Launching = {}
              /\ \A r \in Runs : exec[r] = "none" /\ ~Syncing(r)

Linked   == changes % 2 = 0
\* Bound: one request of a user at a time that ends a run.
UserIdle == \A r \in Runs : sync[r]["user"].pc = "idle"

\* A notification may be delivered again.
Over(a) == IF a \in Manuals THEN [OpIdle EXCEPT !.pc = "done"] ELSE OpIdle

\* The videos to launch were listed in the transaction: one that the notification
\* names again is launched again, whatever run it is linked to by then.
After(a, again) ==
    IF again THEN [op[a] EXCEPT !.pc = "launch", !.run = NoRun] ELSE Over(a)
Repeats(a) == IF a \in Feeds THEN BOOLEAN ELSE {FALSE}

Go(a, o) == op' = [op EXCEPT ![a] = o]
Due(r, c) == sync' = [sync EXCEPT ![r][c] = [SyncIdle EXCEPT !.pc = "due"]]

-----------------------------------------------------------------------------
(* Launching: processYouTubeWebSubNotification, launchYouTubeFlowForVideo, *)
(* startYouTubeVideoArticleRun.                                            *)

\* The subscription is read, whatever its status, and the signature checked.  A
\* notification of several videos is one for each, under way together.
FeedRead(a, v) ==
    /\ a \in Feeds /\ op[a].pc = "idle"
    /\ Go(a, [OpIdle EXCEPT !.pc = "read", !.video = v, !.linked = Linked])
    /\ clean' = (clean /\ Launching = {})
    /\ UNCHANGED <<changes, row, run, exec, sync, crashes>>

\* Mutant: a row that is known already is not looked at again.
MayLaunchNew(a, v) == op[a].linked /\ row[v].status \in {"none", "running", "failed"}

\* Is the video launched by the notification a?
MayLaunch(a, v) == op[a].linked /\ row[v].run = NoRun

\* Mutant: the row is queued though no flow is linked.
FeedUpsertQueues(a) ==
    LET v == op[a].video
    IN  /\ a \in Feeds /\ op[a].pc = "read"
        /\ row' = IF row[v].status # "none" THEN row
                  ELSE [row EXCEPT ![v] = [NoRow EXCEPT !.status = "queued"]]
        /\ IF MayLaunch(a, v) THEN Go(a, [op[a] EXCEPT !.pc = "launch"]) ELSE Go(a, OpIdle)
        /\ UNCHANGED <<changes, run, exec, sync, crashes, clean>>

\* The upsert inserts a row, or leaves its status and its run alone.
FeedUpsert(a) ==
    LET v == op[a].video
    IN  /\ a \in Feeds /\ op[a].pc = "read"
        /\ row' = IF row[v].status # "none" THEN row
                  ELSE [row EXCEPT ![v] = [NoRow EXCEPT
                           !.status = IF op[a].linked THEN "queued" ELSE "detected"]]
        /\ IF MayLaunch(a, v) THEN Go(a, [op[a] EXCEPT !.pc = "launch"]) ELSE Go(a, OpIdle)
        /\ UNCHANGED <<changes, run, exec, sync, crashes, clean>>

\* The upsert of a run by hand starts the row over, but for its run.
ManualUpsert(a, v) ==
    /\ a \in Manuals /\ op[a].pc = "idle"
    /\ row' = [row EXCEPT ![v] = [@ EXCEPT !.status = "queued", !.article = "pending"]]
    /\ Go(a, [OpIdle EXCEPT !.pc = "launch", !.video = v])
    /\ clean' = (clean /\ Quiet)
    /\ UNCHANGED <<changes, run, exec, sync, crashes>>

\* startPublishedFlowRun creates the run.
StartRun(a) ==
    /\ op[a].pc = "launch"
    /\ \E r \in Runs :
          /\ \A q \in Runs : run[q].status = "absent" <=> q >= r
          /\ run' = [run EXCEPT ![r] = [NoneRun EXCEPT !.status = "running",
                        !.from = IF a \in Feeds THEN "feed" ELSE "hand"]]
          /\ Go(a, [op[a] EXCEPT !.pc = "link", !.run = r])
    /\ UNCHANGED <<changes, row, exec, sync, crashes, clean>>

\* The ingestion is linked to its run, which is executed from now on.
LinkRun(a, again) ==
    /\ op[a].pc = "link"
    /\ row' = [row EXCEPT ![op[a].video] = [@ EXCEPT !.status = "running",
                                                     !.run = op[a].run]]
    /\ exec' = [exec EXCEPT ![op[a].run] = "linked"]
    /\ Go(a, After(a, again))
    /\ clean' = (clean /\ ~again)
    /\ UNCHANGED <<changes, run, sync, crashes>>

\* The launch is refused; or the run is there, and linking it fails: it is
\* never executed, and a redelivery launches another.
LaunchFails(a, again) ==
    /\ op[a].pc \in {"launch", "link"}
    /\ clean' = (clean /\ op[a].pc = "launch" /\ ~again)
    /\ row' = [row EXCEPT ![op[a].video] = [@ EXCEPT !.status = "failed",
                                                     !.article = "failed"]]
    /\ Go(a, After(a, again))
    /\ UNCHANGED <<changes, run, exec, sync, crashes>>

-----------------------------------------------------------------------------
(* The runs.                                                               *)

\* Approvals of a run that has failed are of no interest.
Ending(old, status) ==
    [old EXCEPT !.status = status, !.approved = @ /\ status # "failed"]

\* Mutant: the ingestion is not told when the run comes to wait.
ExecEndsUntold(r, status) ==
    /\ exec[r] # "none"
    /\ status \in {"waiting", "succeeded", "failed"}
    /\ run' = IF run[r].status = "running" THEN [run EXCEPT ![r] = Ending(@, status)] ELSE run
    /\ exec' = [exec EXCEPT ![r] = "none"]
    /\ IF exec[r] = "linked" /\ status # "waiting" THEN Due(r, "exec") ELSE UNCHANGED sync
    /\ UNCHANGED <<changes, row, op, crashes, clean>>

\* An execution ends; a cancellation in the meantime stands.
ExecEnds(r, status) ==
    /\ exec[r] # "none"
    /\ status \in {"waiting", "succeeded", "failed"}
    /\ run' = IF run[r].status = "running" THEN [run EXCEPT ![r] = Ending(@, status)] ELSE run
    /\ exec' = [exec EXCEPT ![r] = "none"]
    /\ IF exec[r] = "linked" THEN Due(r, "exec") ELSE UNCHANGED sync
    /\ UNCHANGED <<changes, row, op, crashes, clean>>

\* The tick executes a run without telling its ingestion.
Tick(r) ==
    /\ run[r].status = "waiting"
    /\ run' = [run EXCEPT ![r].status = "running"]
    /\ exec' = [exec EXCEPT ![r] = "plain"]
    /\ clean' = FALSE
    /\ UNCHANGED <<changes, row, sync, op, crashes>>

\* decideApproval: the run goes on, or a rejection ends it.
Decide(r, approves) ==
    /\ run[r].status = "waiting"
    /\ clean' = (clean /\ ~Syncing(r) /\ Launching = {})
    /\ \/ /\ run' = [run EXCEPT ![r].status = "running", ![r].approved = @ \/ approves]
          /\ exec' = [exec EXCEPT ![r] = "linked"]
          /\ UNCHANGED sync
       \/ /\ ~approves
          /\ UserIdle
          /\ run' = [run EXCEPT ![r] = Ending(@, "failed")]
          /\ Due(r, "user")
          /\ UNCHANGED exec
    /\ UNCHANGED <<changes, row, op, crashes>>

\* cancelRun, which leaves a run that has ended alone.
Cancel(r) ==
    /\ run[r].status # "absent" /\ UserIdle
    /\ run' = IF run[r].status \in Ended THEN run ELSE [run EXCEPT ![r] = Ending(@, "failed")]
    /\ Due(r, "user")
    /\ clean' = (clean /\ ~Syncing(r) /\ Launching = {})
    /\ UNCHANGED <<changes, row, exec, op, crashes>>

\* The run is read, with the ingestion that is linked to it, if any.
SyncRead(r, c) ==
    LET of == {v \in Videos : row[v].run = r}
    IN  /\ sync[r][c].pc = "due"
        /\ sync' = [sync EXCEPT ![r][c] =
               IF of = {} THEN SyncIdle
               ELSE [pc |-> "read", of |-> of, status |-> run[r].status,
                     approved |-> run[r].approved /\ run[r].status = "succeeded"]]
        /\ UNCHANGED <<changes, row, run, exec, op, crashes, clean>>

\* Mutant: a draft that nobody had to approve counts as approved.
PatchApproves(old, status, approved) ==
    CASE status = "running" -> [old EXCEPT !.status = "running"]
      [] status = "waiting" ->
             [old EXCEPT !.status = "article_drafted", !.article = "drafted"]
      [] status = "succeeded" ->
             [old EXCEPT !.status = "approved", !.article = "approved"]
      [] OTHER -> [old EXCEPT !.status = "failed", !.article = "failed"]

\* Mutant: the status of the run is stored as it is.
PatchCopies(old, status, approved) == [old EXCEPT !.status = status]

\* What a run of that status makes of the ingestion.
Patch(old, status, approved) ==
    CASE status = "running" -> [old EXCEPT !.status = "running"]
      [] status = "waiting" \/ (status = "succeeded" /\ ~approved) ->
             [old EXCEPT !.status = "article_drafted", !.article = "drafted"]
      [] status = "succeeded" /\ approved ->
             [old EXCEPT !.status = "approved", !.article = "approved"]
      [] OTHER -> [old EXCEPT !.status = "failed", !.article = "failed"]

\* The ingestion is written, whatever run it is linked to by now.
SyncWrite(r, c) ==
    /\ sync[r][c].pc = "read"
    /\ row' = [v \in Videos |->
           IF v \in sync[r][c].of THEN Patch(row[v], sync[r][c].status, sync[r][c].approved)
           ELSE row[v]]
    /\ sync' = [sync EXCEPT ![r][c] = SyncIdle]
    /\ UNCHANGED <<changes, run, exec, op, crashes, clean>>

-----------------------------------------------------------------------------
\* setYouTubeSubscriptionFlow.
LinkFlow ==
    /\ changes < MaxChanges
    /\ changes' = changes + 1
    /\ UNCHANGED <<row, run, exec, sync, op, crashes, clean>>

\* The process ends: requests, executions and synchronisations are gone.
Crash ==
    /\ crashes < MaxCrashes
    /\ crashes' = crashes + 1
    /\ exec' = [r \in Runs |-> "none"]
    /\ sync' = [r \in Runs |-> [c \in Callers |-> SyncIdle]]
    /\ op' = [a \in Actors |-> IF op[a].pc = "idle" THEN OpIdle ELSE Over(a)]
    /\ clean' = FALSE
    /\ UNCHANGED <<changes, row, run>>

-----------------------------------------------------------------------------
LaunchStep(a) ==
    StartRun(a) \/ \E again \in Repeats(a) : LinkRun(a, again) \/ LaunchFails(a, again)

Notification(a) == (\E v \in Videos : FeedRead(a, v)) \/ FeedUpsert(a)
                   \/ (a \in Feeds /\ LaunchStep(a))
RunByHand(a) == (\E v \in Videos : ManualUpsert(a, v))
                \/ (a \in Manuals /\ LaunchStep(a))

SyncStep(r)   == \E c \in Callers : SyncRead(r, c) \/ SyncWrite(r, c)
RunStep(r) ==
    \/ \E status \in {"waiting", "succeeded", "failed"} : ExecEnds(r, status)
    \/ Tick(r) \/ Cancel(r) \/ \E approves \in BOOLEAN : Decide(r, approves)

Next ==
    \/ \E a \in Feeds   : Notification(a)
    \/ \E a \in Manuals : RunByHand(a)
    \/ \E r \in Runs : RunStep(r) \/ SyncStep(r)
    \/ LinkFlow
    \/ Crash

\* A request that has begun goes on while the process lives.
Fairness == \A a \in Actors : WF_vars(FeedUpsert(a) \/ LaunchStep(a))

Spec == Init /\ [][Next]_vars /\ Fairness

-----------------------------------------------------------------------------
RowStatuses == {"none", "detected", "queued", "running", "article_drafted",
                "approved", "failed"}
RunStatuses == {"absent", "running", "waiting"} \cup Ended

TypeOK ==
    /\ changes \in 0 .. MaxChanges
    /\ row \in [Videos -> [status : RowStatuses,
                           article : {"pending", "drafted", "approved", "failed"},
                           run : Runs \cup {NoRun}]]
    /\ run \in [Runs -> [status : RunStatuses, approved : BOOLEAN,
                         from : {"none", "feed", "hand"}]]
    /\ exec \in [Runs -> {"none", "linked", "plain"}]
    /\ \A r \in Runs, c \in Callers :
          sync[r][c] \in [pc : {"idle", "due", "read"}, of : SUBSET Videos,
                         status : RunStatuses, approved : BOOLEAN]
    /\ \A a \in Actors :
          op[a] \in [pc : {"idle", "read", "launch", "link", "done"},
                    video : Videos \cup {"none"}, linked : BOOLEAN,
                    run : Runs \cup {NoRun}]

(* However deliveries, runs by hand, cancellations and synchronisations cross  *)
(* one another, an article is shown as approved only if a reviewer has         *)
(* approved a run that succeeded (youtube-service.ts 818-854).                 *)
ApprovedIsReal ==
    \A v \in Videos : row[v].article = "approved" =>
        \E r \in Runs : run[r].status = "succeeded" /\ run[r].approved

(* A video is launched once by its subscription, however often the hub         *)
(* delivers it, as long as two deliveries do not overlap, none names it twice, *)
(* and the process does not end in between (youtube-service.ts 754).           *)
FeedLaunchesOnce ==
    clean => Cardinality({r \in Runs : run[r].from = "feed"}) <= Cardinality(Videos)

(* Once everything that is under way has ended, an ingestion says what its run *)
(* has come to, if its changes of status have not overlapped and no tick has   *)
(* resumed the run (youtube-service.ts 802-876, routers/runs.ts 175, 366).     *)
IngestionTellsRun ==
    clean /\ Quiet => \A v \in Videos :
        LET r == row[v].run
        IN  r # NoRun /\ row[v].status # "failed"
              => Patch(row[v], run[r].status, run[r].approved) = row[v]

(* The row of a video tells what its run has come to, and claims no approval   *)
(* that nobody has given.                                                      *)
RowTellsRun == TypeOK /\ ApprovedIsReal /\ IngestionTellsRun

(* A video that is queued is launched or reported as failed, unless the        *)
(* process ends.                                                               *)
QueuedIsLaunched ==
    \A v \in Videos : crashes = 0 /\ row[v].status = "queued"
                         ~> crashes > 0 \/ row[v].status # "queued"
=============================================================================
