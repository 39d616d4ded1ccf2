----------------------------- MODULE ManagedJobs -----------------------------
(***************************************************************************)
(* The job a published cron trigger becomes (flow-cron-jobs.ts), and what  *)
(* one firing of it does and reports (cron-job-service.ts): it starts a    *)
(* run of the flow, takes a turn of an agent or posts an event, hands the  *)
(* result on to whom the trigger names, and raises an alert when it failed.*)
(* CronScheduler has when a job fires; here a firing is one step.          *)
(*                                                                         *)
(* The gateway and the webhooks answer or fail as they please.  Models,    *)
(* tools and timeouts are passed on to the gateway and left out.           *)
(***************************************************************************)
EXTENDS EntryTriggers

NoTarget == [mode |-> "none", to |-> Blank]

BuildCronDelivery(data) ==
    IF data.deliveryMode \in {"announce", "webhook"}
    THEN [mode |-> data.deliveryMode, to |-> data.deliveryTo] ELSE NoTarget

\* No number stands for the first failure in a row.
BuildCronFailureAlert(data) ==
    IF data.failureAlertEnabled = "yes"
    THEN [mode |-> data.failureAlertMode, to |-> data.failureAlertTo,
          after |-> IF data.failureAlertAfter \in PositiveNumbers THEN NumberOf[data.failureAlertAfter]
                    ELSE 1]
    ELSE [mode |-> "none", to |-> Blank, after |-> 1]

GetCronExecutionKind(data) ==
    IF data.executionKind \in {"agentTurn", "systemEvent"} THEN data.executionKind ELSE "flowTrigger"

\* Mutant: a custom session is one whether or not it has a key.
SessionTargetAsChosen(data) ==
    IF GetCronExecutionKind(data) # "agentTurn" THEN "main"
    ELSE IF data.sessionTarget = "session" THEN "session"
    ELSE "isolated"
\* A custom session without a key is an isolated one.
GetCronSessionTarget(data) ==
    IF GetCronExecutionKind(data) # "agentTurn" THEN "main"
    ELSE IF data.sessionTarget = "session" /\ data.sessionKey # Blank THEN "session"
    ELSE "isolated"

GetCronWakeMode(data) ==
    IF data.wakeMode \in {"now", "next-heartbeat"} THEN data.wakeMode
    ELSE IF GetCronSessionTarget(data) = "main" THEN "next-heartbeat"
    ELSE "now"

\* A prompt or a text that was left blank is replaced.
OrElse(text, default) == IF text = Blank THEN default ELSE text

BuildCronPayload(data) ==
    LET kind == GetCronExecutionKind(data)
    IN [kind |-> kind,
        text |-> CASE kind = "agentTurn"   -> OrElse(data.assistantPrompt, "Run the scheduled task")
                   [] kind = "systemEvent" -> OrElse(data.systemEventText, "Scheduled wakeup")
                   [] OTHER                -> Blank]

CronJobOf(nodes, id) ==
    LET data == nodes[id].data
        turn == GetCronExecutionKind(data) = "agentTurn"
    IN [node |-> id, schedule |-> BuildCronScheduleFromTriggerData(data),
        enabled |-> data.enabled = "yes",
        deleteAfterRun |-> data.deleteAfterRun = "yes" \/ data.scheduleKind = "at",
        payload |-> BuildCronPayload(data), sessionTarget |-> GetCronSessionTarget(data),
        sessionKey |-> IF turn THEN data.sessionKey ELSE Blank,
        clearAgent |-> turn /\ data.clearAgent = "yes",
        wakeMode |-> GetCronWakeMode(data),
        delivery |-> BuildCronDelivery(data), bestEffort |-> data.deliveryBestEffort = "yes",
        failureAlert |-> BuildCronFailureAlert(data)]

ReadFlowCronTriggerNodes(nodes) ==
    {CronJobOf(nodes, id) : id \in {i \in GetTriggerNodesByType(nodes, "trigger.cron") :
                                      BuildCronScheduleFromTriggerData(nodes[i].data) # NoSchedule}}

\* Mutant: the event tells the schedule and not its timezone.
EventWithoutTimezone(job) ==
    [type |-> "cron", values |-> [schedule |-> job.schedule.value, timezone |-> Blank]]
EventOfJob(job) ==
    [type |-> "cron", values |-> [schedule |-> job.schedule.value, timezone |-> job.schedule.timezone]]

-----------------------------------------------------------------------------
\* The session an agent's turn is taken in, Blank for none: a key goes first, and
\* an isolated job has one of its own.
BuildAgentSessionKey(job) ==
    IF job.sessionKey # Blank THEN job.sessionKey
    ELSE IF job.sessionTarget = "isolated" THEN "own"
    ELSE Blank

\* A turn is waited for when it is taken now, in a session that is kept.
ShouldAwaitAgentTurn(job) ==
    job.wakeMode = "now" /\ ~job.clearAgent /\ job.sessionTarget \in {"isolated", "session"}

\* How a firing may end, and whether it has emptied the session before: a turn
\* that is not waited for resets the session when asked to, creates and sends.
ExecuteCronJob(job) ==
    LET Ends(cleared) == {[status |-> s, cleared |-> cleared] : s \in {"ok", "error"}}
        turn    == job.payload.kind = "agentTurn"
        missing == \/ job.payload.kind # "flowTrigger" /\ job.payload.text = Blank
                   \/ turn /\ BuildAgentSessionKey(job) = Blank
    IN IF missing THEN {[status |-> "skipped", cleared |-> FALSE]}
       ELSE IF turn /\ ~ShouldAwaitAgentTurn(job) /\ job.clearAgent
       THEN Ends(TRUE) \cup {[status |-> "error", cleared |-> FALSE]}
       ELSE Ends(FALSE)

\* A text reaches a target that names a destination, unless the sending fails.
PostTo(to) == IF to = Blank THEN {"nowhere"} ELSE {"sent", "lost"}

\* Only a result that is ok is handed on.
DeliverCronExecutionResult(job, status) ==
    IF job.delivery.mode = "none" \/ status # "ok" THEN {"not-requested"}
    ELSE {IF sent = "sent" THEN "delivered" ELSE "not-delivered" : sent \in PostTo(job.delivery.to)}

\* Mutant: a result that did not arrive is no error.
StatusAsExecuted(job, status, delivery) == status
FinalStatus(job, status, delivery) ==
    IF status = "ok" /\ delivery = "not-delivered" /\ ~job.bestEffort THEN "error" ELSE status

\* Mutant: only the destination of the alert itself is looked at.
AlertItsOwnTarget(job) == job.failureAlert
\* An alert without a destination goes where the results go.
ResolveFailureAlertTarget(job) == [job.failureAlert EXCEPT !.to = OrElse(@, job.delivery.to)]

\* `errors`: the failures in a row, this one included.
MaybeSendCronFailureAlert(job, errors) ==
    LET target == ResolveFailureAlertTarget(job)
    IN IF errors = 0 \/ target.mode = "none" \/ errors < target.after THEN {"none"}
       ELSE PostTo(target.to)

NoFiring == [status |-> "none", errors |-> 0, delivery |-> "not-requested", alert |-> "none",
             session |-> Blank, cleared |-> FALSE]

\* What may be recorded of a firing that executed as `execution` says, after
\* `before` failures in a row.
Reports(job, execution, before) ==
    LET session == IF job.payload.kind = "agentTurn" THEN BuildAgentSessionKey(job) ELSE Blank
        Report(delivery) ==
            LET status == FinalStatus(job, execution.status, delivery)
                errors == IF status = "ok" THEN 0 ELSE before + 1
            IN {[status |-> status, errors |-> errors, delivery |-> delivery, alert |-> alert,
                 session |-> session, cleared |-> execution.cleared] :
                   alert \in MaybeSendCronFailureAlert(job, errors)}
    IN UNION {Report(delivery) : delivery \in DeliverCronExecutionResult(job, execution.status)}
=============================================================================
