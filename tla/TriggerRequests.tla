---------------------------- MODULE TriggerRequests ----------------------------
(***************************************************************************)
(* The requests that start a flow: the webhook and event routes of the     *)
(* adapter (server.ts), their counterparts for signed-in users             *)
(* (routers/runs.ts), the samples that the canvas and the workspace panel  *)
(* send (trigger-plan.ts), and the managed triggers of the tasks that are  *)
(* spawned or retried in a task flow (run-service.ts,                      *)
(* automation-service.ts).                                                 *)
(*                                                                         *)
(* A request is the event it hands to startPublishedFlowRun; `values` are  *)
(* the texts its sender may fill in.  The secret of a route is checked     *)
(* before and left out.                                                    *)
(***************************************************************************)
EXTENDS EntryTriggers

Silent == [eventName |-> Blank, channel |-> Blank, routeKey |-> Blank, text |-> Blank,
           schedule |-> Blank, timezone |-> Blank, hookName |-> Blank, taskType |-> Blank, taskQueue |-> Blank,
           taskPriority |-> Blank, standingOrderKey |-> Blank, standingOrderScope |-> Blank]

\* A field that is not spoken of is blank.
EventWith(type, said) ==
    [type |-> type,
     values |-> [field \in DOMAIN Silent |-> IF field \in DOMAIN said THEN said[field] ELSE Blank]]

\* A part of the path, or a header the route insists on; a signed-in user may
\* send spaces.
Insisted(sender, values) == IF sender = "route" THEN values \ {Blank} ELSE values

ManualRequests == {EventWith("manual", Silent)}

FlowWebhooks(values) == {EventWith("webhook", [eventName |-> e]) : e \in values}

\* Mutant: the route key is not read.
ChannelEventsUnrouted(sender, values) ==
    {EventWith("channel", [channel |-> c, text |-> t]) :
        c \in Insisted(sender, values), t \in values}
ChannelEvents(sender, values) ==
    {EventWith("channel", [channel |-> c, routeKey |-> k, text |-> t]) :
        c \in Insisted(sender, values), k \in values, t \in values}

\* A schedule is insisted on, but may be spaces; a route without a timezone
\* header stands for UTC.
CronEvents(sender, values) ==
    {EventWith("cron", [schedule |-> s,
                        timezone |-> IF z = Blank /\ sender = "route" THEN "UTC" ELSE z]) :
        s \in values, z \in values}

\* The filter a caller names is stored with the run; the text that is looked
\* at is that of the payload.
HookEvents(sender, values) ==
    {EventWith("hook", [hookName |-> h, text |-> t]) :
        h \in Insisted(sender, values), t \in values}

TaskEvents(sender, values) ==
    {EventWith("task", [taskType |-> t, taskQueue |-> q, taskPriority |-> p]) :
        t \in Insisted(sender, values), q \in values, p \in values}

StandingOrderEvents(sender, values) ==
    {EventWith("order", [standingOrderKey |-> k, standingOrderScope |-> s]) :
        k \in Insisted(sender, values), s \in values}

RequestsOfType(type, sender, values) ==
    CASE type = "webhook" -> FlowWebhooks(values)
      [] type = "channel" -> ChannelEvents(sender, values)
      [] type = "cron"    -> CronEvents(sender, values)
      [] type = "hook"    -> HookEvents(sender, values)
      [] type = "task"    -> TaskEvents(sender, values)
      [] type = "order"   -> StandingOrderEvents(sender, values)
      [] type = "manual"  -> ManualRequests

-----------------------------------------------------------------------------
\* The sample that a draft is tried with: what its trigger asks for, and an
\* example where it asks for nothing.
GetPrimaryTriggerNode(nodes) ==
    LET triggers == GetExecutableTriggerNodes(nodes)
    IN {id \in triggers : \A other \in triggers : id <= other}

\* Mutant: the example whatever the trigger asks for.
ExampleText(configured, example) == example
SampleText(configured, example) == IF configured = Blank THEN example ELSE configured

SampleSchedule(data) ==
    SampleText(data.schedule, SampleText(BuildCronScheduleFromTriggerData(data).value, "cron"))

TriggerPlanOf(node) ==
    LET data == node.data
    IN CASE node.type = "trigger.webhook" -> EventWith("webhook", [eventName |-> data.eventName])
         [] node.type = "trigger.channel" ->
              EventWith("channel", [channel  |-> SampleText(data.channelType, "whatsapp"),
                                    routeKey |-> data.routeKey,
                                    text     |-> SampleText(data.messagePattern, "order 42")])
         [] node.type = "trigger.cron" ->
              EventWith("cron", [schedule |-> SampleSchedule(data),
                                 timezone |-> IF data.scheduleKind = "cron"
                                              THEN GetCronTriggerTimezone(data) ELSE Blank])
         [] node.type = "trigger.hook" ->
              EventWith("hook", [hookName |-> SampleText(data.hookName, "hook.sample.received"),
                                 text     |-> SampleText(data.filter, "received")])
         [] node.type = "trigger.task" ->
              EventWith("task", [taskType     |-> SampleText(data.taskType, "inbox-triage"),
                                 taskQueue    |-> data.taskQueue,
                                 taskPriority |-> SampleText(data.taskPriority, "normal")])
         [] OTHER ->
              EventWith("order", [standingOrderKey   |->
                                      SampleText(data.standingOrderKey, "daily-inbox-triage"),
                                  standingOrderScope |-> data.standingOrderScope])

\* A draft without a trigger gets the sample of a webhook.
BuildTriggerPlan(nodes) ==
    IF GetPrimaryTriggerNode(nodes) = {} THEN EventWith("webhook", Silent)
    ELSE TriggerPlanOf(nodes[CHOOSE id \in GetPrimaryTriggerNode(nodes) : TRUE])

-----------------------------------------------------------------------------
\* What is kept of the event in the task flow it belongs to, and what a task
\* spawned or retried in that flow is started with.
NoIdentity == [type |-> "none", key |-> Blank, scope |-> Blank]

DeriveAutomationIdentity(event) ==
    LET v == event.values
    IN CASE event.type = "task" /\ v.taskType # Blank ->
              [type |-> "task", key |-> v.taskType,
               scope |-> IF v.taskQueue = Blank THEN "default" ELSE v.taskQueue]
         [] event.type = "order" /\ v.standingOrderKey # Blank ->
              [type |-> "order", key |-> v.standingOrderKey,
               scope |-> IF v.standingOrderScope = Blank THEN "global" ELSE v.standingOrderScope]
         [] OTHER -> NoIdentity

\* Mutant: the priority of the task it comes from is forgotten.
ManagedWithoutPriority(identity, source) ==
    LET Kept(value) == IF value = Blank THEN identity.scope ELSE value
    IN IF identity.type = "task"
       THEN EventWith("task", [taskType |-> identity.key, taskQueue |-> Kept(source.taskQueue)])
       ELSE EventWith("order", [standingOrderKey |-> identity.key,
                                standingOrderScope |-> Kept(source.standingOrderScope)])

\* `source`: what the event of the task it comes from says, or Silent.
BuildManagedTrigger(identity, source) ==
    LET Kept(value) == IF value = Blank THEN identity.scope ELSE value
    IN IF identity.type = "task"
       THEN EventWith("task", [taskType |-> identity.key, taskQueue |-> Kept(source.taskQueue),
                               taskPriority |-> source.taskPriority])
       ELSE EventWith("order", [standingOrderKey |-> identity.key,
                                standingOrderScope |-> Kept(source.standingOrderScope)])
=============================================================================
