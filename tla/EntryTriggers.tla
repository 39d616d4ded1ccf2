---------------------------- MODULE EntryTriggers ----------------------------
(***************************************************************************)
(* At which trigger of a flow an event starts a run                        *)
(* (resolveExecutionEntryTrigger of packages/schemas/src/execution.ts).    *)
(*                                                                         *)
(* An event is a record [type, values]: its type is that of the RunTrigger *)
(* and `values` has, by field, what the event and its payload say; a field *)
(* that is missing has the value Blank. That a text contains a pattern is  *)
(* kept as equality: of the texts the checks use none contains another.    *)
(***************************************************************************)
EXTENDS FlowSemantics

TriggerOfEvent ==
    [webhook |-> "trigger.webhook", channel |-> "trigger.channel", cron |-> "trigger.cron",
     hook |-> "trigger.hook", task |-> "trigger.task", order |-> "trigger.standing-order"]

TriggerKinds == {TriggerOfEvent[type] : type \in DOMAIN TriggerOfEvent}

GetExecutableTriggerNodes(nodes) == {id \in DOMAIN nodes : nodes[id].type \in TriggerKinds}

GetTriggerNodesByType(nodes, type) == {id \in DOMAIN nodes : nodes[id].type = type}

\* A blank field of the trigger accepts any value of the event.
AsConfigured(configured, requested) == configured # Blank => configured = requested

WebhookTriggerMatches(data, values) == AsConfigured(data.eventName, values.eventName)

ChannelTriggerMatches(data, values) ==
    /\ AsConfigured(data.channelType, values.channel)
    /\ AsConfigured(data.routeKey, values.routeKey)
    /\ AsConfigured(data.messagePattern, values.text)

\* Only a cron expression is compared; an interval or a date accepts any event.
CronTriggerMatches(data, values) ==
    \/ data.scheduleKind # "cron"
    \/ /\ data.schedule # Blank
       /\ data.schedule = values.schedule
       /\ GetCronTriggerTimezone(data) = (IF values.timezone = Blank THEN "UTC" ELSE values.timezone)

HookTriggerMatches(data, values) ==
    /\ AsConfigured(data.hookName, values.hookName)
    /\ AsConfigured(data.filter, values.text)

TaskTriggerMatches(data, values) ==
    /\ AsConfigured(data.taskType, values.taskType)
    /\ AsConfigured(data.taskQueue, values.taskQueue)
    /\ AsConfigured(data.taskPriority, values.taskPriority)

StandingOrderTriggerMatches(data, values) ==
    /\ AsConfigured(data.standingOrderKey, values.standingOrderKey)
    /\ AsConfigured(data.standingOrderScope, values.standingOrderScope)

TriggerMatches(node, values) ==
    CASE node.type = "trigger.webhook" -> WebhookTriggerMatches(node.data, values)
      [] node.type = "trigger.channel" -> ChannelTriggerMatches(node.data, values)
      [] node.type = "trigger.cron"    -> CronTriggerMatches(node.data, values)
      [] node.type = "trigger.hook"    -> HookTriggerMatches(node.data, values)
      [] node.type = "trigger.task"    -> TaskTriggerMatches(node.data, values)
      [] OTHER                         -> StandingOrderTriggerMatches(node.data, values)

Candidates(nodes, event) ==
    IF event.type = "manual"
    THEN GetExecutableTriggerNodes(nodes)
    ELSE {id \in GetTriggerNodesByType(nodes, TriggerOfEvent[event.type]) :
            TriggerMatches(nodes[id], event.values)}

\* The set of entries: one node, or none when the event is refused.
ResolveExecutionEntryTrigger(nodes, event) ==
    IF Cardinality(Candidates(nodes, event)) = 1 THEN Candidates(nodes, event) ELSE {}
=============================================================================
