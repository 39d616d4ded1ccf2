----------------------------- MODULE CronScheduler -----------------------------
(***************************************************************************)
(* One scheduled job, any of Jobs: its row in `cron_jobs`, its rows in     *)
(* `cron_job_runs`, and the actors that share them: ticks of the           *)
(* scheduler, which overlap because setInterval does not await them,       *)
(* requests to run the job at once, and edits                              *)
(* (apps/adapter/src/cron-job-service.ts, flow-cron-jobs.ts,               *)
(* routers/cron.ts).                                                       *)
(*                                                                         *)
(* Nothing here runs in a transaction.  Every actor reads the row and      *)
(* later writes the whole `state` column from what it read, so the reads   *)
(* and the writes are steps of their own, and anything may come between:   *)
(* between the list of a tick and the row of this job lie the executions   *)
(* of all jobs listed before it.                                           *)
(*                                                                         *)
(* The schedule is valid and never edited.  Time is a counter.             *)
(***************************************************************************)
EXTENDS Integers, Sequences, FiniteSets

CONSTANTS
    Ticks,           \* ticks that may be under way at once
    Requests,        \* requests to run the job, one each
    Editors,         \* edits of the job, one each
    Edits,           \* the edits made: a subset of {"pause", "resume", "delete"}
    Jobs,            \* the schedules a job may have
    AlertAfter,      \* failures in a row before an alert is sent
    Cooldown,        \* the least time between two alerts
    None,            \* an absent field
    Horizon,         \* bound: the last instant
    MaxCrashes       \* bound: how often the adapter process may die

Actors == Ticks \cup Requests \cup Editors

\* kind: of the schedule; at: when an "at" job is to run; every: the interval
\* of an "every" job; minute, period: a "cron" job matches each period-th
\* minute; once: the job is disabled when it has run; managed: it belongs to a
\* trigger of a published flow, enabled there; ran: it was run by hand when it
\* was created.  An interval is anchored at the creation, the instant 0.
ASSUME JobsAssumption ==
    Jobs \subseteq [kind : {"at", "every", "cron"}, at : Nat, every : Nat \ {0},
                    minute : Nat \ {0}, period : Nat \ {0},
                    once : BOOLEAN, managed : BOOLEAN, ran : BOOLEAN]
ASSUME RanAssumption == \A j \in Jobs : j.ran => j.kind = "every" /\ ~j.once
ASSUME AlertAssumption  == AlertAfter \in Nat \ {0} /\ Cooldown \in Nat
ASSUME EditsAssumption  == Edits \subseteq {"pause", "resume", "delete"}
ASSUME BoundsAssumption == Horizon \in Nat /\ MaxCrashes \in Nat
ASSUME NoneAssumption   == None \notin Int
\* One actor, one role.
ASSUME ActorsAssumption ==
    Ticks \cap Requests = {} /\ Editors \cap (Ticks \cup Requests) = {}

VARIABLES
    schedule,  \* when the job is to run; never edited
    now,       \* the clock
    job,       \* the row, or Deleted
    act,       \* what each actor is doing, with the row it has read
    history,   \* the rows of cron_job_runs, oldest first
    alerts,    \* the instants the failure alerts carry
    crashes,   \* how often the process died
    lost       \* history: a write rested on a row that had changed or gone

vars == <<schedule, now, job, act, history, alerts, crashes, lost>>

-----------------------------------------------------------------------------
(* The row, and what is under way.                                         *)

Kind   == schedule.kind
At     == schedule.at
Every  == schedule.every
Minute == schedule.minute
Period == schedule.period

Times    == 0..Horizon + Every + At + Minute * Period
Instants == Times \cup {None}

\* nextRunAtMs, runningAtMs, lastRunAtMs, consecutiveErrors, lastFailureAlertAtMs
States  == [next : Instants, running : Instants, last : Instants,
            errs : Nat, alerted : Instants]
Rows    == [enabled : BOOLEAN, state : States]
Deleted == [enabled |-> FALSE]   \* no state
Exists  == job # Deleted

Modes == {"due", "force"}

\* `at` is the clock as it was when the actor started.
Act(pc, at, mode, row) == [pc |-> pc, at |-> at, mode |-> mode, row |-> row]
Idle == Act("idle", 0, "due", Deleted)
Done == Act("done", 0, "due", Deleted)

\* Ticks start over; a request or an edit is made once.
Rest(a) == act' = [act EXCEPT ![a] = IF a \in Ticks THEN Idle ELSE Done]

\* The update names no state: it replaces what is there, if anything is.
Persist(state) == job' = IF Exists THEN [job EXCEPT !.state = state] ELSE job

\* What the actor writes it has derived from a row that is gone, or that others
\* have rewritten in more than the next run, which every reader derives again.
Stale(a) ==
    Exists => [job.state EXCEPT !.next = None] # [act[a].row.state EXCEPT !.next = None]

-----------------------------------------------------------------------------
(* When the job is to run next.                                            *)

\* The first instant after t, a whole minute, that the expression matches.
NextMatch(t) ==
    LET first == (t \div Minute) + 1
    IN  (((first + Period - 1) \div Period) * Period) * Minute

\* Mutant: two intervals after the last run.
NextEveryTwice(t, last) ==
    IF last # None THEN last + 2 * Every
    ELSE IF t = 0 THEN 0 ELSE ((t \div Every) + 1) * Every
\* computeEveryNextRunMs; the anchor, 0, is not before t if t is 0.
NextEvery(t, last) ==
    IF last # None THEN last + Every
    ELSE IF t = 0 THEN 0 ELSE ((t \div Every) + 1) * Every

\* Mutant: an "at" job that has run is due again.
NextRunForgets(state, t) == IF Kind = "at" THEN At ELSE NextEvery(t, state.last)
\* Mutant: any earlier run uses the instant of an "at" job up.
NextRunUsedUp(state, t) ==
    IF Kind = "at" THEN IF state.last # None THEN None ELSE At
    ELSE NextEvery(t, state.last)
\* The next run of an enabled job, from its state and the clock.
NextRun(state, t) ==
    CASE Kind = "at"    -> IF state.last # None /\ state.last >= At THEN None ELSE At
      [] Kind = "every" -> NextEvery(t, state.last)
      [] Kind = "cron"  -> NextMatch(t)

\* Mutant: the mark of a run under way is dropped.
NormalisedUnmarked(row, t) ==
    [row.state EXCEPT !.next = IF row.enabled THEN NextRun(row.state, t) ELSE None,
                      !.running = None]
\* Mutant: a next run that is stored is never derived again.
NormalisedOnce(row, t) ==
    [row.state EXCEPT !.next = IF ~row.enabled THEN None
                               ELSE IF row.state.next # None THEN row.state.next
                               ELSE NextRun(row.state, t)]
\* normalizeCronJobState: the next run is derived on every read.
Normalised(row, t) ==
    [row.state EXCEPT !.next = IF row.enabled THEN NextRun(row.state, t) ELSE None]

\* The next run after one that was due at `due` and began at t.
NextAfter(due, t) ==
    LET base == IF due = None THEN t ELSE due
    IN  CASE Kind = "at"    -> None
          [] Kind = "every" -> IF base + Every > t THEN base + Every
                               ELSE NextEvery(t, base)
          [] Kind = "cron"  -> NextMatch(base)

-----------------------------------------------------------------------------
\* A new row, with the state create and publish give it; or that row after
\* one successful run by hand.
Created == [next |-> None, running |-> None, last |-> None, errs |-> 0,
            alerted |-> None]

Init ==
    /\ schedule \in Jobs
    /\ now     = 0
    /\ LET row == [enabled |-> TRUE, state |-> Created]
           due == NextRun(Created, 0)
       IN  job = [row EXCEPT !.state.next = IF schedule.ran THEN NextAfter(due, 0) ELSE due,
                             !.state.last = IF schedule.ran THEN 0 ELSE None]
    /\ act     = [a \in Actors |-> Idle]
    /\ history = IF schedule.ran
                 THEN <<[at |-> 0, mode |-> "force"]>>
                 ELSE << >>
    /\ alerts  = << >>
    /\ crashes = 0
    /\ lost    = FALSE

Advance ==
    /\ now < Horizon
    /\ now' = now + 1
    /\ UNCHANGED <<schedule, job, act, history, alerts, crashes, lost>>

\* What the row, as a tick lists it at `at`, makes the tick do.
Rewritten(row, at) == Normalised(row, at).next # row.state.next
DueRow(row, at) ==
    LET next == Normalised(row, at).next
    IN  row.state.running = None /\ next # None /\ next <= at

\* processCronJobs: the clock, then the enabled rows.  A tick whose row asks for
\* nothing does nothing and is left out.
TickList(t) ==
    /\ act[t].pc = "idle"
    /\ Exists /\ job.enabled
    /\ Rewritten(job, now) \/ DueRow(job, now)
    /\ act' = [act EXCEPT ![t] = Act("listed", now, "due", job)]
    /\ UNCHANGED <<schedule, now, job, history, alerts, crashes, lost>>

\* Mutant: neither what is due nor the mark is looked at.
ReadUnguarded(a, mode, at) ==
    IF Exists /\ job.enabled
    THEN act' = [act EXCEPT ![a] =
                   Act("read", at, mode, [job EXCEPT !.state = Normalised(job, at)])]
    ELSE Rest(a)
\* runCronJob reads the row again and returns, or throws when it is gone,
\* unless the job is enabled, due (when it must be) and not running.
Read(a, mode, at) ==
    LET state == Normalised(job, at)
    IN  IF /\ Exists /\ job.enabled
           /\ mode = "due" => state.next # None /\ state.next <= at
           /\ state.running = None
        THEN act' = [act EXCEPT ![a] =
                       Act("read", at, mode, [job EXCEPT !.state = state])]
        ELSE Rest(a)

\* The tick comes to this row, after the jobs before it: it stores the state it
\* derives from what it listed, if it differs, and goes on to run the job if that
\* says so.
TickWrite(t) ==
    LET row == act[t].row  at == act[t].at IN
    /\ act[t].pc = "listed"
    /\ Rewritten(row, at)
    /\ Persist(Normalised(row, at))
    /\ lost' = (lost \/ Stale(t))
    /\ IF DueRow(row, at) THEN act' = [act EXCEPT ![t] = Act("due", at, "due", Deleted)]
       ELSE Rest(t)
    /\ UNCHANGED <<schedule, now, history, alerts, crashes>>

RunDue(t) ==
    /\ \/ act[t].pc = "due"
       \/ act[t].pc = "listed" /\ ~Rewritten(act[t].row, act[t].at)
    /\ Read(t, "due", act[t].at)
    /\ UNCHANGED <<schedule, now, job, history, alerts, crashes, lost>>

RunNow(r, mode) ==
    /\ act[r].pc = "idle"
    /\ Read(r, mode, now)
    /\ UNCHANGED <<schedule, now, job, history, alerts, crashes, lost>>

\* The mark that keeps others away; then the execution begins.
Start(a) ==
    LET state == [act[a].row.state EXCEPT !.running = act[a].at]
    IN  /\ act[a].pc = "read"
        /\ Persist(state)
        /\ lost' = (lost \/ Stale(a))
        /\ act' = [act EXCEPT ![a].pc = "running", ![a].row.state = state]
        /\ UNCHANGED <<schedule, now, history, alerts, crashes>>

\* Failures in a row are counted as far as they matter.
OneMore(errs) == IF errs < AlertAfter THEN errs + 1 ELSE AlertAfter

\* Mutant: no cooldown.
MayAlertAlways(state, at) == OneMore(state.errs) >= AlertAfter
\* maybeSendCronFailureAlert, from the state the run started with.
MayAlert(state, at) ==
    /\ OneMore(state.errs) >= AlertAfter
    /\ (Cooldown > 0 /\ state.alerted # None) => state.alerted + Cooldown <= at

\* The execution ends and its result, or its error or exception, is stored, on top
\* of the state the run started with; `sent` says whether an alert went out.
Finish(a, ok, sent) ==
    LET state == act[a].row.state
        at    == act[a].at
        after == [state EXCEPT
                    !.next    = IF act[a].mode = "force" /\ state.next # None
                                   /\ state.next > at
                                THEN state.next ELSE NextAfter(state.next, at),
                    !.running = None,
                    !.last    = at,
                    !.errs    = IF ok THEN 0 ELSE OneMore(state.errs),
                    !.alerted = IF sent THEN at ELSE state.alerted]
        off   == ok /\ (schedule.once \/ Kind = "at")
    IN  /\ act[a].pc = "running"
        /\ sent => ~ok /\ MayAlert(state, at)
        /\ job' = IF Exists THEN [enabled |-> job.enabled /\ ~off, state |-> after]
                  ELSE job
        /\ alerts' = IF sent THEN Append(alerts, at) ELSE alerts
        /\ act' = [act EXCEPT ![a].pc = "recording"]
        /\ UNCHANGED <<schedule, now, history, crashes, lost>>

\* Mutant: a run by hand leaves no record.
RecordDueOnly(a) ==
    /\ act[a].pc = "recording"
    /\ Exists
    /\ history' = IF act[a].mode = "force" THEN history
                  ELSE Append(history, [at |-> act[a].at, mode |-> act[a].mode])
    /\ Rest(a)
    /\ UNCHANGED <<schedule, now, job, alerts, crashes, lost>>
\* The insert into cron_job_runs.
Record(a) ==
    /\ act[a].pc = "recording"
    /\ Exists
    /\ history' = Append(history, [at |-> act[a].at, mode |-> act[a].mode])
    /\ Rest(a)
    /\ UNCHANGED <<schedule, now, job, alerts, crashes, lost>>

\* The job is gone, and the insert breaks its foreign key.  That is one more
\* exception of the run, unless the run had thrown already (as any run may have):
\* it may be alerted like the others, and its own record fails in turn.
RecordFails(a, sent) ==
    /\ act[a].pc = "recording"
    /\ ~Exists
    /\ sent => MayAlert(act[a].row.state, act[a].at)
    /\ alerts' = IF sent THEN Append(alerts, act[a].at) ELSE alerts
    /\ Rest(a)
    /\ UNCHANGED <<schedule, now, job, history, crashes, lost>>

\* cron.update and cron.delete; a managed job is only deleted by a publication
\* of its flow without the trigger.
EditRead(e) ==
    /\ act[e].pc = "idle"
    /\ Exists
    /\ act' = [act EXCEPT ![e] = Act("editing", now, "due", job)]
    /\ UNCHANGED <<schedule, now, job, history, alerts, crashes, lost>>

EditWrite(e, edit) ==
    LET row == [act[e].row EXCEPT !.enabled = edit = "resume"]
    IN  /\ act[e].pc = "editing"
        /\ job' = IF Exists /\ edit # "delete"
                  THEN [row EXCEPT !.state = Normalised(row, act[e].at)]
                  ELSE Deleted
        /\ lost' = (lost \/ (edit # "delete" /\ Stale(e)))
        /\ Rest(e)
        /\ UNCHANGED <<schedule, now, history, alerts, crashes>>

\* Mutant: the state of the job is not carried over.
ReconciledAfresh(row, t) ==
    IF Exists /\ schedule.managed
    THEN [enabled |-> TRUE,
          state |-> Normalised([enabled |-> TRUE, state |-> Created], t)]
    ELSE row
\* reconcilePublishedFlowCronJobs: a managed job is written again as its flow
\* was published, whatever was paused or switched off since; its state stays.
Reconciled(row, t) ==
    IF Exists /\ schedule.managed
    THEN [enabled |-> TRUE, state |-> Normalised([row EXCEPT !.enabled = TRUE], t)]
    ELSE row

\* The process dies; the next one reconciles the managed jobs before it starts
\* ticking over the same row.
Crash ==
    /\ crashes < MaxCrashes
    /\ crashes' = crashes + 1
    /\ job' = Reconciled(job, now)
    /\ act' = [a \in Actors |-> IF act[a] \in {Idle, Done} THEN act[a]
                                ELSE IF a \in Ticks THEN Idle ELSE Done]
    /\ UNCHANGED <<schedule, now, history, alerts, lost>>

-----------------------------------------------------------------------------
Run(a) ==
    \/ Start(a)
    \/ \E ok, sent \in BOOLEAN : Finish(a, ok, sent)
    \/ Record(a)
    \/ \E sent \in BOOLEAN : RecordFails(a, sent)

TickStep(t) == TickList(t) \/ TickWrite(t) \/ RunDue(t) \/ Run(t)
RequestStep(r) == (\E mode \in Modes : RunNow(r, mode)) \/ Run(r)
EditStep(e) == EditRead(e) \/ \E edit \in Edits : EditWrite(e, edit)

Next ==
    \/ Advance
    \/ \E t \in Ticks : TickStep(t)
    \/ \E r \in Requests : RequestStep(r)
    \/ \E e \in Editors : EditStep(e)
    \/ Crash

\* Time passes, the scheduler ticks as long as the process lives, and what an
\* actor has begun it carries on with, executions included.
Fairness ==
    /\ WF_vars(Advance)
    /\ \A t \in Ticks : WF_vars(TickStep(t))
    /\ \A r \in Requests : WF_vars(Run(r))
    /\ \A e \in Editors : WF_vars(\E edit \in Edits : EditWrite(e, edit))

Spec     == Init /\ [][Next]_vars
FairSpec == Spec /\ Fairness
-----------------------------------------------------------------------------

Executing(a) == act[a].pc = "running"

\* Every field stays in its domain.
TypeOK ==
    /\ now \in 0..Horizon
    /\ job \in Rows \cup {Deleted}
    /\ act \in [Actors -> [pc : {"idle", "listed", "due", "read", "running",
                                 "recording", "editing", "done"},
                           at : 0..Horizon, mode : Modes,
                           row : Rows \cup {Deleted}]]
    /\ history \in Seq([at : 0..Horizon, mode : Modes])
    /\ alerts \in Seq(0..Horizon)
    /\ crashes \in 0..MaxCrashes
    /\ lost \in BOOLEAN

\* "Cron job is already running.": ticks and requests together never execute
\* the job twice at the same time (the check of runningAtMs in runCronJob),
\* unless a write has put an old state over a newer one: a mark wiped out.
Exclusive == lost \/ \A a, b \in Actors : Executing(a) /\ Executing(b) => a = b

\* The row says that the job is running exactly while it is, unless a write has
\* put an old state over a newer one.  (The mark of an execution that died with
\* the process stays.)
MarkTruthful ==
    Exists /\ crashes = 0 /\ ~lost =>
        (job.state.running # None <=> \E a \in Actors : Executing(a))

\* What the row calls the last run is in the history, or about to be (the
\* process may die between the two writes), whatever was put over whatever.
LastRunRecorded ==
    Exists /\ crashes = 0 /\ job.state.last # None =>
        \/ \E i \in DOMAIN history : history[i].at = job.state.last
        \/ \E a \in Actors : act[a].pc = "recording" /\ act[a].at = job.state.last

\* However ticks with old lists, a request and edits come between one another,
\* the row tells of one execution at a time and of the one there is until a
\* write loses a newer state, and of the last run in any case.
RowTruthful == TypeOK /\ Exclusive /\ MarkTruthful /\ LastRunRecorded

\* The scheduler leaves at least the interval between one run of the job,
\* by whatever cause, and the next run it starts itself.
DueRunsSpaced ==
    Kind = "every" => \A i, j \in DOMAIN history :
        /\ i # j /\ history[j].mode = "due"
        /\ \/ history[i].at < history[j].at
           \/ history[i].at = history[j].at /\ history[i].mode = "due"
        => history[i].at + Every <= history[j].at

\* The scheduler starts a job with a single instant at most once, whatever
\* edits, requests and crashes come in between.
BegunDue == {i \in DOMAIN history : history[i].mode = "due"}
            \cup {a \in Actors : act[a].pc \in {"running", "recording"}
                                 /\ act[a].mode = "due"}
AtRunsOnce == Kind = "at" => Cardinality(BegunDue) <= 1

\* It never starts it before the instant, not even when states were lost.
NotBefore ==
    Kind = "at" => \A i \in DOMAIN history : history[i].mode = "due" => history[i].at >= At

\* What the scheduler starts itself it starts never too early and, until a write
\* loses a newer state, not too often, however old the list is it works from.
RunsSpaced == NotBefore /\ (lost \/ (DueRunsSpaced /\ AtRunsOnce))

\* Failure alerts keep the cooldown the job asks for, until a write loses the
\* instant of an alert.  (A failed run whose job is deleted before it is
\* recorded may alert a second time.)
AlertsSpaced ==
    Exists /\ ~lost => \A i, j \in DOMAIN alerts : i < j => alerts[i] + Cooldown <= alerts[j]

\* The schedule, as it is described to users, calls for a run that the job,
\* enabled, has not had.
RunSince(t) ==
    \/ job.state.last # None /\ job.state.last >= t
    \/ \E i \in DOMAIN history : history[i].at >= t
Promised ==
    /\ Exists /\ job.enabled
    /\ CASE Kind = "at"    -> now >= At /\ ~RunSince(At)
         [] Kind = "every" -> now >= Every /\ ~RunSince(now - Every + 1)
         [] Kind = "cron"  -> \E t \in 1..now : t % (Minute * Period) = 0 /\ ~RunSince(t)

\* Of that, what the scheduler can see: not the occurrences of an expression nor
\* the first run of an interval, which it derives from now and finds in the
\* future (cron-job-service.ts:113, :122), nor anything of a job whose mark
\* was left behind by an execution that died, or brought back by a lost update.
Owed ==
    /\ Promised /\ ~lost
    /\ Kind = "at" \/ (Kind = "every" /\ job.state.last # None)
    /\ job.state.running # None => \E a \in Actors : Executing(a)

\* A run that is owed is made, unless the job is paused or deleted: by ticks that
\* overlap, over crashes that hit no execution and whatever was run by hand.
OccurrencesRun == Owed ~> ~Owed

\* "Starts a run on an OpenClaw-backed cron schedule": every run the schedule
\* promises is made.  It does not hold, see the README; no configuration lists it.
ScheduleKept == Promised ~> ~Promised

=============================================================================
