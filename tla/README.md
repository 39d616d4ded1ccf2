# Verification of openclaw-wrapper

This directory holds TLA+ models of the control plane in this repository, the
TLC configurations that check them on small instances, and proofs checked by
TLAPS. File names without a directory below are files of
`apps/adapter/src/`.

- [The system](#the-system)
- [What is modelled](#what-is-modelled)
- [Runs of the model checker](#runs-of-the-model-checker)
- [Where the code and its documents disagree](#where-the-code-and-its-documents-disagree)
- [What holds only under a restriction](#what-holds-only-under-a-restriction)
- [Seen while modelling](#seen-while-modelling)
- [Proofs](#proofs)
- [What is only model-checked, and what is not modelled](#what-is-only-model-checked-and-what-is-not-modelled)
- [Plan](#plan)

## The system

The repository is a control plane for automations built on an OpenClaw gateway.
A user draws a *flow* (a graph of nodes) in the web UI (`apps/web`); the
*adapter* (`apps/adapter`, Fastify, tRPC, Drizzle over Postgres) stores drafts,
publishes snapshots, launches *runs* of published flows, executes their nodes
and keeps the records. Packages hold the shared schemas, the gateway's
WebSocket client, the memory SDK and the node SDK. "Prefer durable records over
transient in-memory orchestration" (README.md:181) is the rule the adapter
follows: what must survive is a row in Postgres, and the executions in the
memory of the single process work from those rows.

### Components

| Component | State | Operations | Hard behaviour | Correct when |
|---|---|---|---|---|
| Run lifecycle (`run-service.ts`, `routers/runs.ts`, `wait-resume-service.ts`) | `runs` (status, continuation, resumeAt), `run_events`, `run_approval_requests`; background executions and transactions under way | launch, execute, finalize, mark failed, wait, resume on time, decide an approval, cancel | reads and writes of concurrent transactions at READ COMMITTED; a process that dies; ticks, reviewers and cancellers that race | a finished run stays finished; a waiting run can be found by its reviewers; log, row and requests agree; every run ends |
| Flow versions (`routers/flows.ts`, `flow-cron-jobs.ts`) | `flows` (draft, version, published version), `flow_versions`, derived rows of `cron_jobs` | save, restore, publish, roll back, delete | saves and publications that overtake one another | what is live has been validated, has its snapshot and its jobs; snapshots do not change; no save is lost unseen |
| Cron scheduler (`cron-job-service.ts`, `routers/cron.ts`) | `cron_jobs` (enabled, one JSON state), `cron_job_runs` | tick, run now, deliver, store result, alert, edit, delete, reconcile at startup | overlapping ticks, whole-state writes from old reads, no transaction at all, crash during a run | no overlap, no due run lost, at most one run for one instant, alerts keep their cooldown, results and failures reach somebody |
| Flow executor (`flow-executor.ts`, `openclaw.ts`, `packages/schemas/src/execution.ts`) | queue, paths, visited nodes, grants, events in memory; the continuation in the run's row | take a node, run its handler, follow its ports, wait, ask for approval, stop | an execution spread over several suspensions, each restored from the row; an abort at any point; a gateway that fails midway | each node runs once and only if it was chosen; commands only if approved; the log tells what ran; a published flow does not fail for what publication checked |
| Triggers and routes (`server.ts`, `routers/runs.ts`, `packages/schemas`) | – | webhook, channel, cron, hook, task, standing-order and manual starts; managed triggers of retried and spawned tasks | what a route requires, what a trigger matches and what is copied into a managed trigger are three pieces of code | every trigger that can be published can be reached; a task that entered can be retried |
| Automation task flows (`automation-service.ts`, `routers/automation.ts`) | `automation_task_flows`, `automation_tasks`, `automation_task_flow_steps` | track a launch, copy the status of a run and aggregate it, cancel, retry, spawn a child | siblings that end at the same time, a cancellation of a flow with active tasks | status is the aggregate of the tasks; cancelled stays cancelled |
| YouTube ingestion (`youtube-service.ts`, `youtube-transcript*.ts`, `routers/youtube.ts`) | `youtube_subscriptions`, `youtube_video_ingestions` | subscribe, verify, notification, launch, copy the status of the run | deliveries repeated, a status copied late, failing launches | one article run per video; the copy follows the run; nothing stays queued |
| Gateway client (`packages/openclaw-client`) | socket, handshake, pending requests, timers, back-off | connect, request, close, reconnect | close and timeout events of an old socket after a new one exists | every request is answered once; every caller ends |
| Channel bridge (`channel-trigger-bridge.ts`) | recent message keys in memory, subscription | subscribe on connect, launch flows for a message | repeated deliveries over old and new sockets, restarts | one run per message and flow; on each connection it is subscribed, or has asked, or has logged that it failed |
| Gateway manager (`gateway-manager.ts`, `routers/gateway.ts`) | settings file, the current client | get the client, update settings, probe | users that keep a replaced client | everybody ends up with a client that is open |
| Channel profiles (`channel-profiles.ts`, `routers/channels.ts`) | `channel_profiles` | save, apply (prefer), delete, resolve for a node | a save reads and writes in two statements; two applications lock rows in turn | one preferred profile, complete; a reply goes where its profile says |
| Memory store (`memory-store.ts`, `packages/memory-sdk`) | `context_memory_entries` | write, load, query, hydrate an input | runs that write the same key, scopes known only at run time | a run reads what was written in its scopes and nothing else |
| Authentication (`auth-service.ts`, `routers/auth.ts`) | users, sessions, reset tokens | log in and out, change and reset a password | checks before unconditional writes, hashing in between | a token is used once; a reset ends the sessions of the old password |
| Workspaces (`workspaces.ts`, `routers/workspaces.ts`, `access-control.ts`) | workspaces, memberships, invites | bootstrap, create, invite, accept, revoke, change roles, remove | several statements without a transaction, any of which may fail | roles are earned; a workspace keeps an owner |
| Node catalog, exec policy (`node-catalog.ts`, `system-exec.ts`) | the catalog, workspace policy, environment | describe, configure, validate, admit a command | what the panel offers, publication validates and the executor requires is separate code; policies change between the two | what was published can run, or a policy changed |
| Canvas editor (`apps/web/src/canvas`) | graph, undo stacks, clipboard, dirty flag | add, connect, reconnect, delete, paste, recipes, undo, redo, save, autosave, load | several ways to the same graph, some without the checks; a save whose answer comes late | the graph can be executed; a clean canvas is what is stored |
| Others | – | secrets, browser and search tools, plugins, operations, mail, schemas, the rest of the web UI | mostly one row or one call at a time | see PROJECT.json |

### How they interact

- A *launch* (UI, webhook, cron job, channel message, YouTube notification,
  another flow) calls `startPublishedFlowRun`: one transaction reads the live
  snapshot, resolves the entry trigger, inserts the run and its first events. The
  caller then queues `executeRunInBackground` in memory.
- An *execution* reads the run, its snapshot and the exec policy, calls the
  executor, and stores the result in one finalizing transaction guarded by the
  run's status. A result may be a suspension (timer or approval) with a
  continuation.
- The *wait-resume service* ticks every few seconds over suspended runs that are
  due; *reviewers* decide approvals; *cancellers* cancel. Each changes the row
  in a transaction of its own and, if the run is running again, queues another
  execution. A running execution learns of a cancellation only by polling.
- Each change of a run's status is copied into the task flow it belongs to (in the
  same transaction) and into the YouTube ingestion it was made for (afterwards).
- A *publication* rewrites the flow's cron jobs in its transaction. The *cron
  scheduler* executes a job within its tick and stores the result afterwards.
- The executor reaches the outside through the gateway client. Errors whose
  message tells of connectivity are answered by an offline fallback for some
  nodes. Nodes read channel profiles and memory from Postgres as they run.
- The gateway client calls its listeners after each handshake and for each event;
  the channel bridge is one of them.
- At startup `server.ts` starts the channel bridge, reconciles the cron jobs of
  published flows and starts both tickers, and then listens (lines 564-569).
  Nothing looks for runs or jobs that were executing when the process died.

## What is modelled

| Module | Models | Mapped from |
|---|---|---|
| `RunContract` | what a run promises to its users: the edges its status moves along, and when its approval request is open | (abstract) |
| `RunLifecycle` | one run under all concurrent actors | `run-service.ts`, `wait-resume-service.ts`, `routers/runs.ts` |
| `FlowVersions` | one flow: draft, snapshots, derived cron jobs | `routers/flows.ts`, `flow-cron-jobs.ts` |
| `CronScheduler` | one scheduled job over time | `cron-job-service.ts`, `routers/cron.ts`, `flow-cron-jobs.ts` |
| `ManagedJobs` | the job made from a cron trigger, and what one firing does and reports | `flow-cron-jobs.ts`, `cron-job-service.ts` |
| `AutomationTaskFlow` | the task flows of one automation: their tasks, and the status aggregated from them | `automation-service.ts`, `run-service.ts`, `routers/automation.ts` |
| `FlowNodes` | the outcomes of the handler of every kind of node | `flow-executor.ts`, `openclaw.ts` |
| `FlowExecutor` | one run node by node, over its waits, approvals and cancellation, and what the canvas shows of it | `flow-executor.ts`, `run-service.ts`, `packages/schemas/src/execution.ts`, `canvas/RunInspector.tsx` |
| `BlankText` | the text that reads as blank, whatever is missing in it | (used by the modules of the composition) |
| `NodeCatalog` | the kinds of node, their fields, defaults, options and panels | `node-catalog.ts`, `canvas/NodeConfigPanel.tsx`, `canvas/CronNodePanel.tsx` |
| `FlowSemantics` | what a publication demands of a configuration, cron expressions included | `packages/schemas/src/execution.ts`, `cron-trigger.ts` |
| `ExecPolicy` | which commands may run | `system-exec.ts`, `routers/flows.ts` |
| `EntryTriggers` | at which trigger an event enters a flow | `packages/schemas/src/execution.ts` |
| `TriggerRequests` | the events that routes, users, managed tasks and the samples of the canvas send | `server.ts`, `routers/runs.ts`, `lib/trigger-plan.ts`, `canvas/RunInspector.tsx`, `run-service.ts`, `automation-service.ts` |
| `NodePayloads` | what a step does to the payload, and why it refuses | `flow-executor.ts` |
| `ChannelProfiles` | saved profiles under concurrent requests, and what a node reads of them | `channel-profiles.ts`, `run-service.ts` |
| `ChannelDelivery` | on which channel and account a reply goes out | `openclaw.ts` |
| `MemoryStore` | entries, scopes and queries | `memory-store.ts`, `packages/memory-sdk` |
| `PublishedPath` | one flow from the canvas to its runs, composed of ten of these modules | `run-service.ts`, `routers/flows.ts`, … |
| `GatewayClient` | the WebSocket client, its sockets and requests | `packages/openclaw-client/src/client.ts` |
| `ChannelBridge` | the bridge on top of the client | `channel-trigger-bridge.ts`, `gateway-manager.ts` |
| `YouTubeIngestion` | videos, the runs made for them and the copies of their status | `youtube-service.ts`, `routers/youtube.ts`, `routers/runs.ts` |
| `AuthSessions` | passwords, sessions, reset tokens | `auth-service.ts`, `routers/auth.ts` |
| `WorkspaceMembers` | one workspace, its members and invites | `workspaces.ts`, `routers/workspaces.ts`, `routers/auth.ts` |
| `CanvasGraph` | the canvas, its history and the draft it is saved to | `canvas/store.ts`, `Canvas.tsx`, `serialize.ts`, `FlowBar.tsx` |
| `…MC` | instances for TLC: symmetry, graphs, launches, paths, events | – |
| `…Proofs` | theorems and their proofs | – |

Definitions marked *Mutant* in a comment are altered forms of the definition
that follows them; they are not part of the model. Replacing a definition by
its mutant shows that a property can tell the difference.

### RunLifecycle

`run` is the row, `log` the events by sequence number, `reqs` the approval
requests, `tx` what each actor's open transaction has read, `exec` the
executions in memory. Every operation of the code is one Postgres transaction at
READ COMMITTED that makes plain selects, inserts events at the sequence number
after the last it has seen, updates the run with `where id = … and status = …`
(the status it has read), and ignores how many rows that update found. The model
splits it where another commit can come in between:

1. `ReadRow`: the select of the run (with the early returns of each operation:
   `ExecBegin`, `ResumeBegin`, `DecideBegin`, `CancelBegin`);
2. `ReadLast`: the select of the last sequence number;
3. the writes and the commit, in one step (`Finalize`, `MarkFailed`, `Resume`,
   `Decide`, `Cancel`, all through `Commit`). The unique index on (run_id,
   sequence) makes a second writer wait and fail, so no commit on the same run
   comes between the writes. A writer whose number is taken fails
   (`FinalizeCollides`, `MarkFailedCollides`, `ResumeCollides`,
   `RequestCollides`), with what its caller does about it.

`Applies` is the guard of the update; if it is false the events stay and the row
does not change, as in the code. `Crash` ends the process: transactions roll
back, executions are gone, nothing restarts them. `setInterval` begins a tick
whether or not the last one has ended (`wait-resume-service.ts:81`), so several
tickers may be at work. `echoed` remembers that a caller was handed the run as running,
although somebody else had made it so, and executed it once more; only a property reads it.

`RunContract` is the promise: `absent → running → {waiting, succeeded}`,
`waiting → running`, and `failed`/`cancelled` from both, with the approval
request open from the suspension until the run leaves it. `ImplementsContract`
maps `status` to the row and `open` to the requests a reviewer finds.

### FlowVersions

The row of the flow with its draft, version and published version; the snapshots;
and from which version and graph the cron jobs come. `update`, `restoreVersion`,
`publish` and `rollbackPublished` are transactions whose selects are steps and
whose writes, which begin with a lock on a row all others need, are one step. A
publication upserts the snapshot of the *version it has read*; a save stores
*the version it has read* plus one: that both numbers are from the past is what
the properties are about. Savers overlap like everybody else: a save updates the row by its
id alone, whatever it holds by then, and `overtaken` remembers the lowest number that a
save gave to a draft in place of one it had not read; only a property reads it. A rollback
does not validate the snapshot again and does not check the exec policy again.

### CronScheduler and ManagedJobs

`job` is the row with its whole `state` column, `act` what each tick, request or
edit is doing with the row it has read, `history` the rows of `cron_job_runs`,
`alerts` the alerts sent, `now` the clock. Nothing in this service is a
transaction, so each query is a step and each actor writes back a whole state, with
anything between its read and its write. `TickList` is the query of the enabled rows at
the beginning of `processCronJobs`. The executions of the jobs listed before this one
are awaited before the tick comes to it (1188-1229): any time later, `TickWrite` stores
what follows from the row *as it was listed*, and `RunDue` goes on to `Read`, the
second read in `runCronJob`, `Start` the mark `runningAtMs`, `Finish` the result on top of the
state *the run started with*, `Record` the history. `lost` remembers that a write rested on
a row which others had changed since in more than `nextRunAtMs`, or which was gone
(`Stale`): the lost update that nothing in this service prevents. Schedules are `at`, `every`
and `cron`; an expression is abstracted to the minutes it matches. `schedule` is
that of the job, one of `Jobs` and never changed. A `managed` job is one derived
from a published flow: after a crash `Reconciled` writes it again from its
trigger, on top of the state it had.

`ManagedJobs` is the other half: `CronJobOf` makes the job of a cron trigger
from the fields of its panel (payload, session, wake mode, delivery, failure
alert), `ExecuteCronJob` says how a firing may end, `Reports` what is recorded,
delivered and alerted. There the gateway and the webhooks answer or fail as they please.

### AutomationTaskFlow

`flows` has the status of each revision of the task flow with one lookup key,
`tasks` the row of each run, `tx` the open transactions, `cancel` the progress of
`automation.cancel`, which is not one. A launch (`Launch`, `LaunchInto`) reads the
task flow, writes it under the row's lock and only then looks for the last number
(`LaunchUpdate`), and inserts the task (`LaunchCommit`). A change of a run's status
reads the task flow (`ChangeBegin`), updates its task and reads the siblings
(`ChangeAggregate`), and writes the task flow (`ChangeCommit`); the siblings are read
before the lock of the task flow is taken, by selects that do not see what others
have not committed. The statuses of a task move along the edges of
`RunContract`, which RunLifecycle implements. `overlapped` remembers the revisions
on which two transactions were open at a time; only properties read it.

### FlowExecutor and FlowNodes

`FlowNodes!NodeOutcomes(kind, granted, aborted)` is the set of what the handler
of a kind of node can do: return with the ports to follow and, or not, a wait;
or throw; with or without an effect outside; answered by the offline fallback or
not; with the abort relayed to the gateway or not. Payloads, templates and
configuration are behind that set; they are the subject of `PublishedPath`.

`FlowExecutor` has the queue, the paths of its items, the visited nodes, the
approvals granted to commands, the events of the execution and its abort signal
(`ex`, `aborted`), the row with its continuation (`run`), the committed events of
the nodes (`log`), `hist`, an account of what has happened that only properties read, and `Badge`,
what the canvas shows at a node of a selected run (`RunInspector.tsx` reads it off the
events). `TakeNode`, `RunNode`, `Route` are one iteration of the loop in
`executePublishedFlow`; `Finalize`, `Decide`, `ResumeWaiting`, `Cancel` are the
operations of RunLifecycle seen from the graph, one transaction each, since their
races are RunLifecycle's subject. `Overwrite` is a consequence of the lost update
described below: the snapshot of a waiting run is replaced by one with another
command.

### PublishedPath and its parts

FlowExecutor leaves out what nodes are configured with and what they say to one
another; this composition is about nothing else. A path of nodes is put on the
canvas with the catalog's defaults (`Draw`, over `NodeCatalog`), edited in the
panel within what the panel offers (`EditField`), published if the code's
validators admit it (`Publish`, over `FlowSemantics` and `ExecPolicy`), started
by the requests of `TriggerRequests` that `EntryTriggers` lets in, or by its own
job (`FireJob`, over `ManagedJobs`), and run step by step (`Step`, over
`NodePayloads`, `ChannelProfiles`, `ChannelDelivery` and `MemoryStore`). The
workspace's exec policy, the adapter's environment, the gateway's channels and
the saved profiles change meanwhile. Three devices keep the data small:

- A free text is blank, one literal, or one template that reads the payload; a
  number is one of a few texts of which `PositiveNumbers` are numbers.
- A payload is the record of the fields that can be read on its two upper levels
  (`NodePayloads`): the code looks a path up in the payload and, failing that,
  under its `input`. A step that *wraps* moves what was `here` one level down and
  loses what was there, which is exactly how a value gets out of reach.
- A failing step carries its reason (`why`): a missing field, a number, a template
  that rendered blank, the payload, the delegation depth, a profile, a service, a
  policy. The properties tell failures apart that a publication should have
  prevented from those it cannot know of.

`ChannelProfiles` keeps its own concurrency: a save reads the row and writes it
later; applying a profile is a transaction of two updates that lock rows one
after the other, so that two of them can wait for each other and one is aborted.
`MemoryStore` has the scopes (flow, run, session, workspace), the upsert and the
queries; `ChannelDelivery` the choice of channel, the account and the skill.

### GatewayClient and ChannelBridge

One client object and several sockets (`sock`, `peer`): the fields of the object
(`ws`, `handshakeComplete`, `connectPromise`, `pendingConnect`, `challengeTimer`)
belong to the latest attempt only, but the handlers of every socket that is not
yet closed go on changing them. JavaScript runs one callback at a time, so a
callback with its promise reactions is one action: `SocketOpens`, `SocketError`,
`SocketCloses`, `Challenge`, `ChallengeTimeout`, `HelloOk`, `HelloRefused`,
`HandshakeTimeout`, `Connect`, `Reconnect`, `Request`, `Response`, `RequestFails`,
`Abort`, `Close`. `ChannelBridge` refines `HelloOk` by the `sessions.subscribe` that
the bridge sends (`Ask`). The request is awaited (`asked`); the gateway grants or refuses it
(`GatewayDecides`), the answer comes (`Answered`) or does not in time (`SubscribeFails`),
also after the gateway has granted it, and a failure is logged and never repeated
(`warned`, `channel-trigger-bridge.ts:311-321`). Messages come over any socket on which
the request was granted, the orphaned ones included; further actions are the handler's query
of the candidate flows, its launches one by one, the forgetting of the message cache and the
restart of the process.

### YouTubeIngestion

`row` is the ingestion of each video, `run` the runs as RunLifecycle shows them
from outside, `op` the requests (the hub's notification, a run by hand), `sync`
each call of `syncYouTubeIngestionFromRun`, which reads the run and writes the
row in two statements. A notification upserts the row under its lock, launches a
run, links it and executes it, each a step that may fail. `Patch` is what a
status of the run makes of the row.

### AuthSessions and WorkspaceMembers

None of the handlers opens a transaction. Each statement is a step, each request
may fail at each of them (`Fails`), and hashing a password is an await in
between. In `AuthSessions` a password is the number of its change, so that a
session knows which password it was opened with (`with`) and whether its sign-in
had been verified before a reset ended the sessions (`late`). In
`WorkspaceMembers` a request acts in the role its context had when it began
(`as`), which may be gone by the time it writes.

### CanvasGraph

A handler of the store is one step, since the store is synchronous. Of a node its
type, one datum and its column are kept; edges are records with ports, whose
compatibility is `Inputs`/`Outputs`. `past` and `future` are the two stacks with
`MAX_HISTORY`; `draft` is what the adapter stores and `sent` the graph of a save
whose answer is out. `blank` says of a node that a field is blank for which the catalog has
a default. `graphToNodes` fills such fields when a flow is loaded (`serialize.ts:62`), and so do
`setNodeCatalog`, a recipe and a copy (`Completed`, `Filled`): only the first two do so without
marking the canvas dirty. `missed` remembers that the last answer marked as saved what
it had not been sent.

## Runs of the model checker

Run a configuration with `tlc -config RunLifecycle_races.cfg RunLifecycleMC.tla`;
the other names are built alike. All runs pass; each takes between a few seconds and
four minutes. A property in the list may be a conjunction: it is then the name of
what its parts say together, and the parts are defined, each with its comment, right
above it.

| Run | Configuration | States | What it shows |
|---|---|---|---|
| `run_races` | `RunLifecycle_races` | 794 880 | one tick, one reviewer, one canceller, two executions, two approval nodes, two suspensions, one crash, every interleaving: a finished row never changes (`TerminalIsFinal`), the log has the event of its end (`FinishedRecorded`), a run that waits on a node has a pending request there (`WaitingHasRequest`), a branch is taken only after a recorded decision (`DecidedWorkIsRecorded`), and the run implements `RunContract` |
| `run_settles` | `RunLifecycle_settles` | 1 405 104 | two ticks that overlap, one reviewer, two executions: the run is executed twice at a time only after a tick or a decision has executed what somebody else had resumed (`SingleExecution`), and without crashes and cancellations each started run ends (`RunSettles`) |
| `cron_jobs` | `CronScheduler_jobs` | 1 900 063 | a job with an interval and a managed job for one instant, two ticks with lists of any age, a request, an editor (pause, resume, delete), a crash with its reconciliation, every query a step: until a write puts an old state over a newer one, `RowTruthful` (exclusive execution, truthful mark; recorded last run), `RunsSpaced` (due runs keep the interval; the job for one instant is started by the scheduler at most once; never before its instant), `AlertsSpaced`, and every run that the scheduler can see to be owed is made (`OccurrencesRun`) |
| `flow_live` | `FlowVersions_live` | 377 919 | two savers, two publishers, a deletion: what is live is valid (`LiveIsValid`) and has a snapshot and its own cron jobs (`JobsFollowLive`); a snapshot stays unless its number is one that a lost save had (`SnapshotsStay`) |
| `exec_flows` | `FlowExecutor_flows` | 38 788 | 98 graphs over all kinds of node: `RunsAsDrawn` (only chosen nodes run and all of them, the visited ones have finished, runs fail only for their nodes), each node once (`RunsOnce`), commands only as approved (`ApprovedBeforeExec`), the log and the badges on the canvas tell what ran (`LogIsTruthful`), and every run ends (`Settles`) |
| `tasks_aggregate` | `AutomationTaskFlow_tasks` | 3 709 143 | three runs of an automation, up to three revisions, a cancellation, transactions interleaved: tasks are numbered without duplicates (`SequencesUnique`); `FlowTellsTasks` (if no two transactions on a task flow overlapped, its status is what its tasks say, and a cancellation that returns has ended what was active); what has succeeded or was cancelled and has ended stays closed (`ClosedStaysClosed`) |
| `bridge_inbound` | `ChannelBridge_inbound` | about 354 000 | two sockets at a time, one caller, one message and one flow: `CallsHeld` (a waiting caller can be settled by the attempt in progress, a call and its entry in the map end together), `HeardOnce` (on the connection in use the bridge is subscribed, waits for the answer or has logged that it failed; one launch per message however often delivered), every request ends unless the socket it waits for connects for ever (`RequestsSettle`) |
| `youtube_videos` | `YouTubeIngestion_videos` | about 3 834 000 | one video, deliveries repeated and naming it twice, a run by hand, two runs, a failing launch, a crash: `RowTellsRun` (the row says what its run has come to, and an article is approved only by a reviewer), one launch by the feed (`FeedLaunchesOnce`), a queued video is launched or reported (`QueuedIsLaunched`) |
| `auth_resets` | `AuthSessions_resets` | about 842 000 | one user, two sessions, two tokens, three passwords, three requests: `TokensSpent` (one open token, each used once), a reset ends the sessions of earlier passwords (`ResetEndsSessions`) |
| `member_roles` | `WorkspaceMembers_roles` | about 3 200 000 | a workspace from its creation on, two users, an invite, two requests: `RolesEarned` (an accepted invite has its member, owners are made by owners), an owner is kept (`KeepsAnOwner`) |
| `canvas_edits` | `CanvasGraph_edits` | about 449 000 | three user actions with any undo, redo and save in between: `CanvasSound` (edges join compatible ports, no cycle, one edge per input), `TimelineStays`, `CleanIsStored` |
| `node_resources` | `PublishedPath_resources` | about 3 921 000 | thirteen paths: `PublicationHolds` (what publication checked, the run finds; a command is refused only if a policy changed; every trigger can be reached by its route and started by its sample; retried and spawned tasks enter; the job's event enters its trigger and its firing is told as it went), `ProfilesUsable`, `MemoryKept`, `RepliesArrive`, `HandoffsBounded` |

### Bounds, and why they are enough

- *RunLifecycle.* The model is about one run; two runs share no row. A hazard is
  two transactions that read the same state, so one actor of each role and a
  second execution show all pairs, and a crash in between; `run_settles` has two ticks; two nodes tell
  requests apart, two suspensions (`MaxParks`) let a transaction from the first
  meet the second. For any numbers the proofs speak.
- *CronScheduler.* Two ticks overlap with a request and an edit: a stale list and whoever
  changes the row after it. `MCJobs` are
  the schedules a behaviour may have. `Horizon` 4 with an interval of 2 has two
  due runs after the first and a cooldown (3) longer than the interval; with `AlertAfter` 2
  failures in a row are counted. The constraint `NotLost` follows each behaviour up to and
  including the first write that loses a newer state. What is claimed beyond it
  (`LastRunRecorded`, `NotBefore`, the types) is proved for all behaviours. The instant 1 has
  instants before, at
  and after it. Time is discrete: only the order of
  instants and their distances to interval and cooldown matter.
- *FlowVersions.* Two savers give a number twice. Three versions let a publication, a save and a
  rollback refer
  to three different ones; two valid graphs tell snapshots apart and a bad one
  exercises the validation.
- *FlowExecutor.* `MCGraphs` has a chain through every kind of node, forks of two
  branches over all combinations of handing off, waiting, asking and executing,
  choices of an approval or a condition with such a node behind one port, and graphs
  that must be refused: fan-in, a cycle, a missing node, a second trigger. Nodes
  influence one another only through queue, path and continuation, so two
  branches of two nodes show the interactions. `MaxCommand` 2 is one change of
  the snapshot.
- *AutomationTaskFlow.* The lost updates of aggregation are between two
  transactions, so `MaxOpen` 2 are open at a time, in any pairing of launches,
  changes and the cancellation; three runs let a third task, or a second
  revision, be a bystander whose status decides what the aggregate must be.
- *GatewayClient, ChannelBridge.* Two sockets are a current one and an orphan; a
  socket that has closed is used again, so that any number follow one another.
  One reconnection timer (`MaxTimers`), one caller; two handlers let a message be
  redelivered while it is handled. With three sockets the request of the bridge can itself
  begin an attempt (`Reopens`): that case is not in the run, and is covered by the
  theorems. The client alone was also checked with three
  sockets (285 000 states): the listed properties hold.
- *YouTubeIngestion.* One video and its two runs: one by the feed, one by hand, or
  two by the feed, which names the video twice in one notification or delivers it again
  after a failure. There is one `Feeds`, so no two deliveries overlap in this run; the
  theorems are for any number. One change of the linked flow, one crash, one user
  request that ends a run at a time.
- *AuthSessions.* Sessions, tokens and requests of different users share nothing;
  three passwords let a reset be followed by a change and by another reset.
- *WorkspaceMembers.* Two users and two requests are the two owners that remove
  each other; the invite is for either of them.
- *CanvasGraph.* `MaxSteps` 3 counts what the user does apart from undo, redo and
  the steps of a save, from an empty canvas and from a stored chain of three nodes;
  `MAX_HISTORY` 2 instead of 50 lets the stack overflow.
- *PublishedPath.* `MCPaths` has one path for each question, at most four nodes long.
  `MaxEdits` 2 (4 for the cron panel, whose fields depend on one another) and
  `MaxRequests` 2 changes of the surroundings: a hazard here is one check and one
  change between it and its use. A second run exists where the flow has memory, for
  only memory relates runs. Profiles change only under flows published as drawn, and
  a path drawn without anything the gateway told starts from one status: there the
  two cannot influence each other. `EveryTriggerIsReached`, `SampleStartsFlow` and
  `ManagedTasksEnter` look at each published draft once, before it runs.

`CHECK_DEADLOCK FALSE` is set where the systems modelled come to rest: runs
end, requests are answered, graphs are refused, paths end, the clock has a horizon.

### Fairness

- *RunLifecycle, LiveSpec*: a transaction that is open goes on; microtasks run;
  an execution ends, since its handlers have timeouts; the tick's `setInterval`
  goes on. No fairness for decisions to be made nor for cancellations.
- *CronScheduler*: the clock moves, ticks are begun (`setInterval`), and a tick or a
  request that was begun goes on, its execution included. All of it is weak fairness.
- *FlowExecutor*: an execution goes on (`Execute`) and the wait-resume service
  resumes what is due (`ResumeWaiting`); approvals always carry a timeout. Nobody
  owes a decision.
- *GatewayClient*: timers fire (the challenge's, the handshake's, a request's), and a
  socket that is closing or broken is closed in the end. A socket that is
  connecting is owed nothing, for `client.ts:212` sets no `handshakeTimeout` and the
  challenge timer is armed on `open` (216-219). The gateway owes nothing either: no
  fairness for challenges, greetings or answers.
- *YouTubeIngestion*: a request that has begun goes on while the process lives.

### What the properties can see

Each property of a run has mutants in PROJECT.json, a conjunction one for
each of its parts but the types: a definition of the
model altered the way the code might be wrong (the guard of an update dropped, a
number not advanced, a queue not kept, a cooldown forgotten, a field not copied), under
which the same configuration fails.

## Where the code and its documents disagree

Six statements of documents, comments or tests do not hold. For the first, second, third and
fifth the modules keep the statement as a property that no configuration lists, marked so in its
comment; how TLC shows the counterexample is said with each.

1. **A decision on a run that has moved on.**
   `recordApprovalDecision` reads the run, then the last sequence number, without
   a lock. If another decision commits in between, this one still commits its
   `run.approval.recorded` and `run.resumed` events, its update finds no row, the
   run it returns is `running`, and the router executes it again. The test
   `run-service.test.ts:311` says it "rejects stale approval decisions after the
   run has already resumed". The same window lets a cancellation that lost its
   race write a second `run.finished` event into a finished run's log, and leave
   a pending request behind a cancelled run: neither "a cancelled run has no
   pending request" nor "a finished run gets no second end" holds in
   `run_races`. *To see it:* `RunLifecycle_races` with `Reviewers = {r1, r2}`,
   `Tickers` and `Cancellers` empty, `MaxParks = 1`, `MaxCrashes = 0` and
   `PROPERTY StaleDecisionRejected`.
2. **Cron expressions never fire.** "Starts a run on an OpenClaw-backed cron schedule"
   (`node-catalog.ts:184`). The tick derives the next run
   from the current time instead of reading `nextRunAtMs`, and
   `findNextCronOccurrenceMs` starts at the *next* minute
   (`cron-job-service.ts:122`): the job is never due. *To see it:*
   `CronScheduler_jobs` with one tick, no request and no editor, `Edits = {}`,
   `Horizon = 6`, `MaxCrashes = 0`, `Jobs <- MCCron` and `PROPERTY ScheduleKept` alone.
   The same property fails for an interval job that was never run by hand, whose
   next run is always in the future (`cron-job-service.ts:113`).
3. **Lost saves.** `expectedVersion` is compared with a row
   selected without a lock (`routers/flows.ts:367`) and the update names the flow
   only. Both drafts get the same number, so publishing the second overwrites the
   snapshot of the first under runs that go on with it: `SnapshotsStay` makes an
   exception of exactly the numbers from the lowest such one on. *To see it:*
   `FlowVersions_live` with `PROPERTY SavesReplaceExpected`.
4. **Approvals that are switched off.** "When disabled, this
   node passes through the approved path without pausing" (`node-catalog.ts:1524`);
   the executor follows both ports (`flow-executor.ts:4081`). *To see it:*
   `FlowExecutor_flows` with `INVARIANT SkippedApproves`.
5. **Approvals drop other branches.** A timer keeps the queue
   (`flow-executor.ts:4384`), an approval does not (`:4480`); the run succeeds
   without the nodes that were queued. `PathsFollowed` therefore excuses exactly
   the items dropped this way. *To see it:* `FlowExecutor_flows` with
   `INVARIANT BranchesRun`.
6. **Cancelled task flows come back.** While another task is
   active, `aggregateAutomationFlowStatus` answers `running` or `waiting` before it
   looks at the current status (`automation-service.ts:343`), and
   `syncAutomationRunState` stores that over `cancelled`. So the cancellation of a
   task flow with an earlier failed task and two active ones, with nobody else
   about, goes `cancelled`, `running` (the first task is cancelled), `partial`: it
   can be retried. "keeps cancelled flows cancelled once all active work has
   stopped" (`automation-service.test.ts:65`) tests the function with a current
   status that the system has lost by then. *To see it:* `AutomationTaskFlow_tasks`
   with `INVARIANT CancelledStays`.

## What holds only under a restriction

- `RunSettles` fails with a crash (the row stays `running` and nothing looks for
  it) and with a cancellation: one that lost its race can take the sequence number
  that `markRunExecutionFailed` needs after the finalizing transaction failed, and
  then nothing marks the run (`run-service.ts:2154`).
- `SingleExecution` has the exception `echoed`, and needs it: two ticks that overlap, or a
  tick and a decision, do execute a run twice. `resumeWaitingRun` and
  `recordApprovalDecision` return a run that somebody else has resumed as `running`,
  and the caller executes it again (statement 1). What the property says is that
  nothing else does.
- `Exclusive`, `MarkTruthful`, `DueRunsSpaced`, `AtRunsOnce`, `AlertsSpaced` and
  `OccurrencesRun` hold until a write rests on a stale row (`lost`), and not after it. A
  tick lists a row, waits for the execution of another job, meanwhile the job is
  started by hand, and the tick stores the state it derives from its list: `runningAtMs`
  is gone, and the job is executed a second time beside the first, or becomes due again
  with the `lastRunAtMs` it had before. A tick and a request that both read the row before
  either has stored its mark do the same in a shorter window.
- `OccurrencesRun` is about what the scheduler can see. A crash during an execution leaves
  `runningAtMs` behind, and the job never runs again. Cron expressions, and interval jobs
  that never ran, never become due (statement 2); `ran` in the schedules of `cron_jobs`
  is the run by hand that an interval job needs. An `at` job that is forced before its instant
  is disabled and does
  not run then. A forced run of an interval job moves its schedule. A failing job
  that is deleted during its run may alert twice; `AlertsSpaced` is about jobs that
  exist.
- `SnapshotsStay` excuses snapshots from the number on that an overtaken save has given
  its draft (statement 3).
- `StatusTruthful` fails for a task flow on which two transactions overlapped:
  two tasks that end at the same time each see the other as running, and the
  task flow stays `running` for good, so that every later launch joins it
  (`automation-service.ts:704`, no lock before `:719`). A launch that read the task
  flow before its cancellation makes it `running` again (`:464`, `:497`): thus
  also `ClosedStaysClosed`. `CancelReaches` fails when a run is suspended or
  resumed between `cancelRun`'s read and its guarded update, which then finds
  nothing (`run-service.ts:1380`); the loop goes on and reports the run as
  cancelled.
- `RequestsSettle` excuses a call that waits for a socket which connects for ever: the
  gateway, or what is in front of it, has accepted the TCP connection and does not answer
  the upgrade. No timer of the client runs by then (`client.ts:212`).
- `SubscribedOrWarned` is no more than its name: a `sessions.subscribe` that was refused or
  timed out is logged and not repeated, and until the next connection the bridge hears
  nothing while the client says that it is connected. The request may also time out at
  the client and be granted by the gateway.
- That `isConnected` means a connection the gateway has accepted holds with two
  sockets and fails with three: the result of a handshake is applied to the current
  attempt, whichever socket it came over.
- `FeedLaunchesOnce` and `IngestionTellsRun` need `clean`: no two deliveries overlap
  before the first has stored its run, no notification names a video twice (its entries are
  upserted together and launched one by one, `youtube-service.ts:722-772`, so it is launched
  twice), no synchronisations of a run overlap, the tick
  has not resumed the run (a tick does not synchronise), and the step that links the
  run has not failed (it leaves a run that is never executed, and a redelivery
  launches another).
- `ResetEndsSessions` excuses a sign-in whose password was verified before the reset
  and that opens its session after it (`routers/auth.ts:119`); `TokenUsedOnce` two
  requests that find the token open at a time; `OneTokenOpen` two that are issued at
  a time. A password change whose verification precedes a reset overwrites the
  password of the reset.
- `KeepsAnOwner` excuses a demotion (`updateMemberRole`, `addMember` as an upsert,
  accepting an invite with a lower role; `routers/workspaces.ts:666` checks nothing of
  the kind that `:729` checks for a removal), two removals that count before either
  deletes, and a creation cut short, which leaves a workspace without an owner.
  A bootstrap cut short leaves an account nobody can go on from, for it is refused
  the second time; two at once both find that nobody exists.
- `CleanIsStored` excuses what was edited while a save was in flight: `markSaved`
  clears the dirty flag whatever was done since (`FlowBar.tsx:287`). A clean canvas shows the
  stored draft *or* that draft with all of its blank fields filled from the catalog: which of
  the two cannot be told from the dirty flag, and what is stored stays blank until
  something else is edited and saved.
- `AtMostOnePreferred` excuses a profile that is created while another is applied.
- `ReplyCarriesText` holds with at most one wrapping step between; behind two of
  them the text is out of reach although the publication accepts the flow.
  `HandoffsBounded` holds for handoffs that follow one another; one behind an agent, a
  skill or a request starts at depth zero. `DeliversAsAsked` is about a gateway that
  names several channels; with one it goes out on that one, whatever was asked. It is about
  messages that go out: without a gateway a reply is simulated (`offline_fallback`,
  `flow-executor.ts:1662`, `:1870`), the step succeeds and nothing is sent.
- `ManagedTasksEnter` excuses a task spawned without a source task in a flow whose
  task trigger names a priority: `buildManagedTrigger` then has none, and the
  flow refuses the task.
- `JobReports` says nothing of an alert in announce mode without `to`: the panel shows
  no warning, and it is never sent.

## Seen while modelling

Without a property of their own.

*Runs and nodes.*

- A cancelled execution stores none of its events, delegations or relay logs,
  for its finalizing transaction finds the run no longer running
  (`run-service.ts:1707`); the audit event `run.cancel.relayed`, written from them, is
  never written. An abort between sending `agent` and its acceptance is not relayed.
- "connection closed" after the gateway accepted a request is treated as if the
  gateway had never been reached: the node "was simulated because the OpenClaw gateway is
  unavailable" although an agent may be at work (`flow-executor.ts:557`, `:569`).
  `FlowNodes` has this outcome (offline, with an effect).
- On the canvas a wait that is over goes on showing `waiting`, for its `run.waiting` follows
  its `node.finished`; so does a node of a run that was cancelled while it waited, and a
  command that was approved and cancelled before it ran shows `succeeded`. `BadgesTell`
  excludes the first two; the third is about runs that do not rest.
- Nobody checks at publication: the field path of a branch, the key of a thread
  binding, the name of a skill, the URL of a request, the ids of agents, the target of
  a handoff, number fields, a template merged with a literal.
- Session memory written behind an agent or a skill goes to the agent's own session of
  that run, which nobody reads later. Memory in the payload hides newer values
  in the store; of overlapping keys (`a`, `a.b`) the order of rows decides. A key
  prefix together with a query never excludes anything by the query.
- The default channel of a reply node overrides the channel the message came from.
  An account that a profile names and that is not connected is silently replaced by the
  only connected one (`openclaw.ts:1590`). A destination of a channel route that is no
  uuid makes the query of its profile fail (`run-service.ts:1473`).
- Concurrent saves of a profile lose a secret; a change of template keeps the secrets of
  the old one; applying a deleted profile clears all marks; `desc(appliedAt)` puts NULLs
  first, so that the preferred profile is one that was never applied whenever there is one.

*Cron and triggers.*

- An isolated job that had a session key keeps speaking in that session: the panel hides
  the key and keeps it. The panel shows 3 and 3600 where a blank alert threshold and
  cooldown mean 1 and 0. A flow launched by a job whose delivery fails is recorded as an
  error although its run goes on. A pause, a resume (also the panel's switch, which
  changes draft and job before any publication) and the switch-off after "delete after
  run" are undone by the reconciliation at the next restart; the state is carried over,
  so that a one-instant job does not run again.
- A step after a single number of a cron field (`5/15`) is ignored; `hour12: false` may
  yield hour 24 at midnight; an `every` or `at` trigger takes any cron event.
  `cron-trigger-service.ts` is used by nobody.
- A job for one instant that is moved to a later one while it runs is switched off by the
  end of that run (`cron-job-service.ts:1068`). The sample of the canvas is made from the
  draft and sent to the live version: after an edit since the publication it may be refused.
- The header `x-openclaw-hook-filter` is stored and never matched; the text of the payload
  is. A signed-in start accepts spaces for texts a route insists on, and a task event
  made of them belongs to no task flow.

*Gateway, videos, accounts, canvas.*

- A failing query of the candidate flows (`channel-trigger-bridge.ts:330`) rejects in an
  event handler, and there is no `unhandledRejection` handler: the adapter ends. An
  inbound message is marked as seen before its launches, so that a failed one is not
  repeated, and after a restart a redelivered one launches again. New gateway settings
  (`gateway-manager.ts:267`) close the client, and the bridge keeps the closed one.
- The status of a YouTube subscription is written and never read: a notification is
  processed whatever it says; leases are not renewed by the code.
- `acceptInvite` writes the audit event "joined" although the invite was revoked meanwhile.
- A connection's check does not leave out the edge that is being moved, so the source end
  of an edge cannot be moved at all. A drag pushes history at every mouse move. Loading
  or creating a flow while a save is in flight binds the screen to the saved flow, whose
  draft the next autosave replaces (`FlowBar.tsx:393`); the answers of a publication, a
  restoration
  and a revealed secret are likewise shown with whichever flow is on the screen. A publication
  carries no
  `expectedVersion`. The answers of the panel's mutations are written into whichever
  node is selected when they arrive.
- Cancelling a task flow that has succeeded makes it cancelled:
  `markAutomationTaskFlowCancelled` looks at no other status.

## Proofs

`tlapm M.tla` checks the proofs of module `M`, one of the eight `…Proofs` modules.
They assume the named `ASSUME`s of the modules they are about and nothing else: roles are
disjoint, bounds are naturals, `NoNode` is no node, `None` no instant, valid graphs are
graphs, the graphs of `FlowExecutor` have the kinds, ports and commands of their module and
edges between their nodes, the videos of a subscription are finite in number, ids of the
canvas are finitely many naturals, what the canvas is given to load or insert is a graph
that the executor can follow, and types the catalog knows have outputs. Of the texts of
`PublishedPath` they assume that what reads as a number above 0 is one, that a blank text is
no schedule, that every text with a reference is known to be a template and `{{replyText}}`
reads the field of that name; of its paths that a trigger, which has no input, can only come
first; of its payloads that they have the fields of a payload and a depth; of its events
that they are of a known kind; of profiles that forms name a known template and no id is
blank. Actors, nodes, graphs, paths, schedules, policies, gateways and bounds are arbitrary.
No theorem has a hypothesis of its own. Each inductive invariant was checked by TLC on the
instance of
the run first.

| Module | Theorems | What they state of a run's properties |
|---|---|---|
| `RunLifecycleProofs` | `TypeCorrect`, `FinishedIsRecorded`, `WaitingIsRequested`, `DecidedIsRecorded`, `FinalIsFinal`, `OneExecution`, `Refinement` | all of `run_races`, and `run_settles` but for liveness |
| `FlowEditingProofs` | `TypeCorrect`, `LiveValid`, `JobsAreLive`, `SnapshotsSettled` | all of `flow_live` |
| | `Drawing`, `Saving`, `GoingBack` | all of `canvas_edits` |
| `AutomationTaskFlowProofs` | `Uniqueness`, `Telltale`, `Closing` | all of `tasks_aggregate` |
| `FlowExecutorProofs` | `Approving`, `RunningOnce`, `Drawing`, `TruthTold` | `exec_flows` but for liveness |
| `CronSchedulerProofs` | `Invariance`, `Telling`, `Spacing`, `Alerting` | `cron_jobs` but for liveness |
| `InboundProofs` | `Reporting`, `FeedLaunching` | all of `youtube_videos` but for liveness |
| | `BridgeInvariance`, `CallsAreHeld`, `HearingIsOnce` | `bridge_inbound` but for liveness |
| `AuthSessionsProofs` | `Spending`, `Revoking` | all of `auth_resets` |
| `WorkspaceProofs` | `Earning`, `Keeping` | all of `member_roles` |
| | `Profiling`, `Remembering`, `HandingOff`, `Arriving`, `Publishing` | all of `node_resources` |

**RunLifecycleProofs.** The inductive invariant is

    IInv == TypeOK /\ FinishedRecorded /\ WaitingHasRequest /\ DecidedWorkIsRecorded

`TypeOK` alone would be a shallow fact if it did not contain `HasRead`: what an
open transaction holds is a row in the state its operation is about (an execution
holds a running row, a tick a waiting one, a reviewer one that waits for an
approval, nobody a finished one). That is what a stale transaction can rely on: if
its guarded update finds the row, the row's status is one it was made for. The
argument has three layers. `StepWrites` shows that every step that changes `run`,
`log` or `reqs` is one `Write` of an actor, with properties of the events and rows
it may write; `WriteEffect` and `StepMoves` say what any such write, and any other
step, can change; the invariants follow from those without a look at the actions
again. `WaitingHasRequest` is the subtle one: a cancellation that has read a
running row must leave the requests alone, and a decision, a timeout or a
cancellation that has read a waiting row closes a request while its own guarded
update may fail. It is safe because that update fails only on a row that does not
wait, and if it succeeds the run leaves its suspension, this one or a later one.

| Theorem | States |
|---|---|
| `TypeCorrect` | `Spec => []TypeOK` |
| `FinishedIsRecorded`, `WaitingIsRequested`, `DecidedIsRecorded` | the three invariants |
| `FinalIsFinal` | `Spec => TerminalIsFinal` |
| `OneExecution` | `Spec => []SingleExecution`, by `OneAtATime` |
| `Refinement` | `Spec => ImplementsContract`: initial states map to initial states, every step to a step of `RunContract` or a stutter |

`SingleExecution` is about any number of ticks and decisions, however they overlap. Its
invariant `OneAtATime` says that, as long as nobody was handed a running run to execute
(`echoed`), at most one execution is under way and none while the run waits: whoever resumes
it finds it waiting, and the guard of the update lets only one of them through.

**FlowEditingProofs, FlowVersions.** `IInv` is `TypeOK`, `LiveIsValid`, `JobsFollowLive`
and, for each actor, `TxOK`: what its open transaction has found (the number and the graph of
a draft the flow has had, a snapshot that exists as long as the flow does).

| Theorem | States |
|---|---|
| `TypeCorrect`, `LiveValid`, `JobsAreLive` | the invariants |
| `SnapshotsSettled` | `Spec => SnapshotsStay`, for any number of savers |

The last one rests on a second invariant, `Numbered`: whatever carries a version number below
`overtaken` (the draft, a snapshot, an open publication) carries the same graph as all else
with that number, no such number is above that of the draft, and a draft that an overtaken
save has left is above all of them. That the exception is needed, statement 3 shows; that it
reaches no lower number is what the theorem says.

**FlowEditingProofs, CanvasGraph.** What the store finds by a search is stated by closed
sets: `WouldCreateCycle` says that every set of nodes that has the target and that no edge
leaves has the source. `Acyclic` says that every set of nodes that is not empty has one that
no edge enters from the set. With that, the lemmas about edits (`NodeSound`, `PartSound`,
`EdgeSound`, `UnionSound`) need no induction over paths: a connection that is let through
comes with a closed set which a cycle through it would have to leave. The invariant is

    CanvasInv == AllKept /\ Counted /\ PlainSent /\ CleanIsStored

`AllKept`: the graph, the clipboard, the draft, the saves under way and both stacks hold
only graphs that are `Fine`, that is, graphs of known types whose edges join compatible
ports of nodes that are there, one into each input, without a cycle, and with ids left of
those the store may hand out. `CanvasSound` alone speaks of the graph on the screen and
says nothing of what an undo, a paste or a reload brings back. `Counted` ties `canUndo`
and `canRedo` to the stacks and bounds them together by `MAX_HISTORY`, of which
`TimelineStays` needs that an undo and a redo are each other's inverses. `PlainSent` is
what makes an answer that finds the canvas unchanged mean that the draft is what is on the
screen, up to its blank fields: completing what is completed changes nothing, so a load and
a new catalog keep a clean canvas one of the two `Readings` of the draft. `Ranks` and `Renewed`
show that the new ids of a copy are distinct and free: they
are numbered by the rank of the old ones, counted from the first free one.

| Theorem | States |
|---|---|
| `Drawing` | `CanvasSpec => []CanvasSound` |
| `Saving` | `CanvasSpec => []CleanIsStored` |
| `GoingBack` | `CanvasSpec => TimelineStays` |

**AutomationTaskFlowProofs.** `SequencesUnique` is not inductive: that a launch takes
a free number follows from what the lock means. The invariant is

    IInv == Domains /\ Refs /\ HasLast /\ LockHeld /\ SequencesUnique

`LockHeld` says of a launch that has written the row of its task flow and has not
ended (so it holds the row's lock, `automation-service.ts:464`, `:497`, or has
inserted it, `:512`) that its number is above all numbers there, that no other launch
holds the same task flow, and that what it inserts is the next revision. `Refs` says
that whatever names a task flow or a run names one that exists, and that a run being
launched has no task yet; `Domains` are the types of `TypeOK` without its bounds;
`HasLast`, that each task flow has a last number, stands for the finiteness of its
tasks, so that `Max` in `NextSequence` is defined without an induction
(`NextFollows`). There are three kinds of steps: the update of a launch
(`LaunchUpdateStep`), its end (`LaunchCommitStep`), and all others, which neither
number a task nor make anybody a holder (`QuietStep`).

| Theorem | States |
|---|---|
| `Uniqueness` | `Spec => []SequencesUnique` |
| `Telltale` | `Spec => []FlowTellsTasks` |
| `Closing` | `Spec => ClosedStaysClosed` |

The last two rest on a second invariant, `Telling == IInv /\ Story`. All of them excuse
revisions on which two transactions overlapped, so `Story` says for a transaction that
is alone on its revision what it may rely on: what it has read is still so (`Steady`),
and it goes on with a task and a task flow that exist (`Moving`). Without that a commit
that aggregates the statuses it has read could write anything. `Truthful` is
`StatusTruthful` for each revision, `Founded` that a revision has a task or a launch
that brings one, `Cancelling` and `Reaching` what a cancellation has asked for and what
of it has ended, `Counted` that overlaps are remembered. `StepKinds` reduces the actions
to seven kinds of steps (an actor rests, begins, goes on, gives up, commits a launch,
commits a change; a cancellation marks the row), and each part of `Story` is proved
over the kinds.

**FlowExecutorProofs.** Three inductive invariants, all on top of `Typed`, which is
`TypeOK`, that the graph is one of `Graphs` but for its command (`Drawn`), and that
execution and row are in step (`Phases`).

- `Granting`: an item in a queue, at the node or in a continuation carries no grant but
  one given for its node and its command, and the queue behind an exec approval has one
  item, the one that asks. `ApprovedBeforeExec` alone says nothing of what is yet to run.
- `Order`: each queue holds nodes that have not run, each once, each with the path that
  led to it (`Fresh`, `OnPath`); all that was chosen and not dropped has run or is in the
  queue (`Rest`); a stored continuation, of a timer, a decision or an exec approval, holds
  that much as well (`Stored`). That no node is queued twice is where the validity of the
  graph comes in: no node has two edges into it and there is no cycle, so that what
  lies ahead of a node is on no path, in no queue and has not run (`AtRoute`).
- `Honest`: `Truthful` relates the events, those in the log and those an execution has yet
  to store (`Story`), to the nodes that ran: each event that says how a node ended tells
  one entry, in the order of the entries and without a gap, and as long as the run is not
  cancelled all of them are told. `Waiting` says that a run waits for what its node is
  there for, and that nothing behind a node whose decision is open has been chosen;
  `Aborting`, that only a cancellation aborts. `Shown` is what the canvas relies on: what
  the last event of each node can be while the execution and the row stand as they do.
  The events are compared by their places in the log and never filtered, so that no fact
  about `SelectSeq` is needed.

| Theorem | States |
|---|---|
| `Approving` | `Spec => [](TypeOK /\ ApprovedBeforeExec)` |
| `RunningOnce` | `Spec => []RunsOnce` |
| `Drawing` | `Spec => []RunsAsDrawn` |
| `TruthTold` | `Spec => []LogIsTruthful`, by `Typed /\ Order /\ Honest` |

The order in which edges are followed is that of their numbers (`InOrder`); lemmas say
that it is a bijection onto the edges chosen.

**CronSchedulerProofs.** Every query is a step and nothing keeps actors apart. The invariant is

    IInv == Base /\ (~lost => Story)

`Base` holds whatever was lost. Its `Domains` is `TypeOK` with one thing more: a run that is
due is not early, without which the next run derived from it would leave the bounds.
`Planned` says what an actor can go by, however old its row is: the row has no mark, its
last run is over, and what the scheduler begins has come due by it (`Called`). `Remembered`
says that whatever a row, stored or held, calls the last run is on record, so that not even
a state that was lost and comes back invents one. `Story` holds until the first lost update:
one execution (`Single`), whose mark is on a row that is otherwise as it was (`Marked`), a
last run that is the latest that ended and a last alert no later (`LastIsLatest`), and from
these the distances (`Spaced`, `Once`, `AlertsSpaced`). The argument is that a write which
loses nothing rests on a row equal to the present one but for the next run, which every reader
derives again; so what its actor found in an old list is still true. `StepKinds` reduces the
actions to a few kinds of steps, and each part is proved over the kinds.

| Theorem | States |
|---|---|
| `Invariance` | `Spec => []IInv` |
| `Telling` | `Spec => []RowTruthful` |
| `Spacing` | `Spec => []RunsSpaced` |
| `Alerting` | `Spec => []AlertsSpaced` |

**InboundProofs, YouTubeIngestion.** `IInv == Domains /\ Known /\ Orderly`. `Known` holds whatever
crosses: nobody knows of a run that is not there, a launch has its video and then its run,
and an approval that a synchronisation carries has been given and stays so; from it follows
`ApprovedIsReal`. `Orderly` holds as long as `clean` does: one launch at a time, by hand
with nothing else under way, by a notification for a video without a run (`Launched`); a
synchronisation has read what the run has come to and still is (`Synced`); a row tells its
run, or an execution, a synchronisation or a launch that will tell it is under way
(`Telling`), so that at rest it tells it. `Counted` compares the runs of the subscription
with the videos that have one, or are about to be linked to one: a launch adds to both. Each
action has three lemmas: what it does (`…Does`), and that it keeps the one part (`…Knows`)
and the other (`…Orders`).

| Theorem | States |
|---|---|
| `Reporting` | `Spec => []RowTellsRun` |
| `FeedLaunching` | `Spec => []FeedLaunchesOnce` |

**InboundProofs, ChannelBridge.** The invariant is in three parts, one of the client, one
of the connection as the bridge sees it, one of its handlers:

    BridgeInv == ClientInv /\ AskedOnceGreeted /\ HandlerInv

`ClientInv` is `ClientTypeOK`, `OneAttempt` (the promise of `connect()` that somebody waits
for is the one the handlers of the latest socket will settle, and none is left once the
handshake is complete), `SentArePending` and `NewUntilOpen`. Any number of sockets may be
orphaned by a reconnection; what keeps them from settling a later attempt is that the
fields of the client name one socket only. `AskedOnceGreeted`: on a connection that the client
takes for complete the bridge has been
granted its request, waits for the answer or has logged the failure, from the greeting on and
whichever socket the greeting came over. `HandlerInv`: a message is handled by
one handler and was marked as seen before (`HandledOnce`), and a flow that is still on a
handler's list has not been launched for its message (`LaunchesLeft`); without that last
one the second launch of a flow would be no contradiction. `BridgeInvariance` states the
whole invariant, `CallsAreHeld` and `HearingIsOnce` the properties of the run. They hold
for any number of sockets, requests, messages, flows and handlers.

| Theorem | States |
|---|---|
| `BridgeInvariance` | `BSpec => []BridgeInv` |
| `CallsAreHeld` | `BSpec => []CallsHeld` |
| `HearingIsOnce` | `BSpec => []HeardOnce` |

**AuthSessionsProofs.** `IInv == Typing /\ UseInv /\ IssueInv /\ ResetEndsSessions`. A
token that has not been used twice at a time is open, or held by one request that closes
it before it writes, and in both cases has set no password yet (`UseInv`); who issues a
token for a user, alone, has closed those before and opens one (`IssueInv`).
`ResetEndsSessions` is inductive as it stands once each session has an owner (`Owned`).

| Theorem | States |
|---|---|
| `Spending` | `Spec => []TokensSpent` |
| `Revoking` | `Spec => []ResetEndsSessions` |

**WorkspaceProofs, WorkspaceMembers.** `IInv == Typing /\ AcceptedAreMembers /\
OwnersMakeOwners /\ OthersStay /\ Founded`. `Typing` has what each request knows at each of
its statements (`Knows`): with what role it was let in, and that an invite for an owner was
given by one. `OthersStay` says of a request about to delete an owner that it is alone and
another owner is left, and `Founded` of a workspace without an owner that somebody is about
to become its first.

| Theorem | States |
|---|---|
| `Earning` | `MembersSpec => []RolesEarned` |
| `Keeping` | `MembersSpec => []KeepsAnOwner` |

**WorkspaceProofs, PublishedPath.** Four invariants, each on top of what it needs of the
others.

- `ProfilesInv`: what is stored, and what a save is about to write, is complete
  (`ProfilesTyped`: the form alone is not, it is completed from the row that was read); and
  until a profile appears while another is applied, what a request that applies one has
  not yet cleared is what it waits to lock (`OnlyPreferred`, `AllCleared`).
- `MemoryInv`: who has seen an entry of a session, and who wrote it, have been in that
  session (`SeenOwned`, `EntriesOwned`), so that whoever replaces an entry has been in the
  session of whoever wrote it before.
- `PathInv`: the draft begins with its trigger and its replies have the templates of the
  catalog (`Drawn`). Of a run, what the handoffs right before its step add up to is in the
  payload (`Counts`): `HandoffsBounded` speaks of steps, the code of a number in the payload,
  and a step that wraps may take the number away. What was said is on the first level right
  after it
  was said, and on one of two levels after one step more, unless a step in between says
  something or drops the text (`Spoke`). Without these neither property is inductive.
- `PublicationInv`: the draft has the fields of the catalog, whatever the gateway told the
  editor (`Configured`); what is published has one trigger, was let through, and would be
  again as long as no policy has changed (`Checked`); no firing was skipped, and what was
  recorded of the last is true of the jobs that are left (`Fired`); and each run fits
  (`Fits`): it does not fail for a field that was checked, and until a policy has changed it
  was started under the policy of the workspace. What remains is about operators: that a
  route, a sample, a managed task and the job of a trigger make events which that trigger
  accepts (`RouteReaches`, `SampleEnters`, `ManagedEnter`, `JobEnters`), that each handler
  finds the fields it insists on (`FindsItsFields`), that a command which passes the
  publication passes the execution (`KnownIsAllowed`), and that a job made of any
  configuration has a text and a session (`BuiltTells`).

| Theorem | States |
|---|---|
| `Profiling` | `Spec => []ProfilesUsable` |
| `Remembering` | `Spec => []MemoryKept` |
| `HandingOff` | `Spec => []HandoffsBounded` |
| `Arriving` | `Spec => []RepliesArrive` |
| `Publishing` | `Spec => []PublicationHolds` |

Two proofs failed on the model before they succeeded, on points the runs had not reached.
`Arriving`: a web search that returns its top result, or that result's URL, hands on a bare
text, and `BareText` had named only one of the two. `Publishing`: in TLA+ a `CASE` with two
true arms is either of them, so a firing that starts a flow, which has no text, could be
read as skipped for want of one; what the code decides in order is now decided in order (`IF
… ELSE IF`), here and in four other modules. What a reply may come from is searched by the
code backwards along the edges; `FlowSemantics` states that by closed sets, as `CanvasGraph`
does, so that no recursion is left in the composition.

## What is only model-checked, and what is not modelled

**Only model-checked.** Liveness (`RunSettles`, `OccurrencesRun`, `Settles`,
`RequestsSettle`, `QueuedIsLaunched`), which is out of the prover's reach, as are `ENABLED`
and what recursive definitions compute. Every invariant and every action property of the
runs is stated by a theorem.

**Abstracted in the modelled parts.** The wording of messages and errors beyond their
kind; templates beyond one reference; usage counts; the rows other components write in the
same transactions (audit events, and in RunLifecycle the task flows). Two writers that lock a
request and an event in opposite orders deadlock in Postgres; one is aborted, as if the
other had come first. The schedule of a cron job is not edited: `routers/cron.ts` may also
change schedule, payload and delivery of a job between its runs. `CanvasGraph` leaves out
where a paste puts its copies, changes of React Flow's that are not about selection, and
what is edited before the catalog has arrived.

**Not modelled.** PROJECT.json says for each component what is modelled of it. Left out:

- *Gateway manager*: a settings file and the current client. `client.close` has no
  await before its effects, so that updates of the settings do not interleave; what a
  replacement does to the client and the bridge is `Close` in `ChannelBridge`.
- *YouTube subscriptions*: the dialogue with the hub; nothing reads the status it leads to.
- *Local users* (`AUTH_MODE=disabled`, `auth-service.ts:408`): two first requests at once
  both create the local user, and the second fails.
- *Trigger secrets* (`flow-trigger-security.ts`): one row. Two first reveals at once, or a
  reveal that crosses a rotation: the later store wins, and the secret shown by the other
  is not accepted.
- *Secret store, browser and web search, plugins, mail*: one row or one call at a time,
  most of it input and output.
- *Operations and audit log*: append and read.
- *Schemas, database schema*: declarations; what they demand of a value is in the
  operations that parse it.
- *The rest of the web UI*: forms over queries and mutations, each of which is an operation
  of the adapter above. The bar over the canvas has a state of its own; see the remarks on
  the canvas in "Seen while modelling".

## Plan

1. Edits of a cron job's schedule during its runs, in `CronScheduler`.
2. The bar over the canvas with a second tab: publications, rollbacks and restored
   versions whose answers come late, on top of `CanvasGraph` and `FlowVersions`.
3. Trigger secrets and the secret store, if they get more than one row.
