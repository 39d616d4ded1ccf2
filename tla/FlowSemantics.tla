---------------------------- MODULE FlowSemantics ----------------------------
(***************************************************************************)
(* What a publication demands of the configuration of a flow               *)
(* (packages/schemas/src/execution.ts, cron-trigger.ts).  The shape of the *)
(* graph itself is FlowExecutor's concern.                                 *)
(*                                                                         *)
(* `nodes` is a function from the nodes' ids to records [type, data];      *)
(* `edges` is a set of pairs of ids.                                       *)
(***************************************************************************)
EXTENDS NodeCatalog, Naturals, FiniteSets

CONSTANTS CronFields,        \* the fields of every schedule text, see below
          ValidTimezones,    \* the names Intl.DateTimeFormat knows
          ValidDates         \* the texts Date.parse reads

\* A text that is blank has no fields.
ASSUME SchedulesAssumption == CronFields[Blank] = <<>>

\* A field of a cron expression is a set of segments [base, step], where base
\* is <<>> for *, <<n>> for a number and <<a, b>> for a range.
CronRanges == <<<<0, 59>>, <<0, 23>>, <<1, 31>>, <<1, 12>>, <<0, 6>>>>

\* A step after a single number is read and then ignored.
ExpandSegment(segment, min, max) ==
    LET every(from, to) == {value \in from..to : (value - from) % segment.step = 0}
    IN CASE segment.base = <<>>    -> every(min, max)
         [] Len(segment.base) = 1 -> {segment.base[1]}
         [] OTHER                 -> every(segment.base[1], segment.base[2])

ValidSegment(segment, min, max) ==
    /\ segment.step \in 1..(max - min + 1)
    /\ \A i \in DOMAIN segment.base : segment.base[i] \in min..max
    /\ Len(segment.base) = 2 => segment.base[1] <= segment.base[2]

\* Empty exactly when the field is invalid.
ExpandCronPart(part, min, max) ==
    IF \A segment \in part : ValidSegment(segment, min, max)
    THEN UNION {ExpandSegment(segment, min, max) : segment \in part}
    ELSE {}

ValidateCronExpression(schedule) ==
    /\ Len(CronFields[schedule]) = 5
    /\ \A i \in 1..5 :
         ExpandCronPart(CronFields[schedule][i], CronRanges[i][1], CronRanges[i][2]) # {}

\* `parts`: minute, hour, day, month and weekday of a moment in the timezone.
CronExpressionMatches(schedule, parts) ==
    /\ ValidateCronExpression(schedule)
    /\ \A i \in 1..5 :
         parts[i] \in ExpandCronPart(CronFields[schedule][i], CronRanges[i][1], CronRanges[i][2])

-----------------------------------------------------------------------------
\* What a cron trigger's data says.
GetCronTriggerTimezone(data) == IF data.timezone = Blank THEN "UTC" ELSE data.timezone

NoSchedule == [kind |-> "none", value |-> Blank, timezone |-> Blank]

\* A blank in a kind's own field leaves the trigger without a schedule, and so does
\* an interval that is not a positive number.
BuildCronScheduleFromTriggerData(data) ==
    CASE data.scheduleKind = "cron" /\ data.schedule # Blank ->
            [kind |-> "cron", value |-> data.schedule, timezone |-> GetCronTriggerTimezone(data)]
      [] data.scheduleKind = "every" /\ data.everyAmount \in PositiveNumbers ->
            [kind |-> "every", value |-> data.everyAmount, timezone |-> Blank]
      [] data.scheduleKind = "at" /\ data.runAt # Blank ->
            [kind |-> "at", value |-> data.runAt, timezone |-> Blank]
      [] OTHER -> NoSchedule

ValidCronTrigger(data) ==
    CASE data.scheduleKind = "cron"  -> /\ ValidateCronExpression(data.schedule)
                                        /\ GetCronTriggerTimezone(data) \in ValidTimezones
      [] data.scheduleKind = "every" -> data.everyAmount \in PositiveNumbers
      [] OTHER                       -> data.runAt \in ValidDates

-----------------------------------------------------------------------------
ReplyProducers == {"action.agent", "action.skill", "action.agent-send"}

\* What a search against the edges meets from the sources of a node is in every
\* set that has them and that no edge enters from without.
Backwards(S, edges) == \A e \in edges : e[2] \in S => e[1] \in S

HasUpstreamReplyProducer(id, nodes, edges) ==
    \A S \in SUBSET DOMAIN nodes :
        (\A e \in edges : e[2] = id => e[1] \in S) /\ Backwards(S, edges)
            => \E source \in S : nodes[source].type \in ReplyProducers

\* What each kind of node demands.  Kinds that are not named here are not
\* looked at before they run.
SemanticallyValid(id, nodes, edges) ==
    LET type == nodes[id].type
        data == nodes[id].data
    IN /\ (/\ type \in {"action.channel-reply", "action.channel-route"}
           /\ data.messageTemplate = "{{replyText}}")
             => HasUpstreamReplyProducer(id, nodes, edges)
       /\ type = "action.channel-route" => data.destination # Blank
       /\ type = "tool.web-search" => data.query # Blank
       /\ type = "tool.browser" =>
            /\ data.target # Blank
            /\ data.action = "click" => (data.clickHint # Blank \/ data.waitFor # Blank)
       /\ type = "tool.payload-template" => (data.outputMode = "assign" => data.outputPath # Blank)
       /\ type = "tool.exec" => data.command # Blank
       /\ type = "context.memory-write" => data.key # Blank
       /\ type = "trigger.cron" => ValidCronTrigger(data)

\* Mutant: a reply is published although no step before it makes a text.
ValidateStepsAlone(nodes, edges) ==
    \A id \in DOMAIN nodes :
        \/ nodes[id].type \in {"action.channel-reply", "action.channel-route"}
        \/ SemanticallyValid(id, nodes, edges)

ValidateFlowSemantics(nodes, edges) ==
    \A id \in DOMAIN nodes : SemanticallyValid(id, nodes, edges)
=============================================================================
