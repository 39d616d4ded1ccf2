----------------------------- MODULE NodeCatalog -----------------------------
(***************************************************************************)
(* The kinds of node the editor offers (apps/adapter/src/node-catalog.ts): *)
(* their ports, the configuration a new node starts with, and the values   *)
(* the panel lets a user choose for each field.                            *)
(*                                                                         *)
(* Of the fields only those are kept that the validation of a publication, *)
(* the matching of triggers or a handler decides something by; labels,     *)
(* descriptions, capabilities and availability notes are left out.  A free *)
(* text is blank, a literal or a template that reads the payload; a flag is*)
(* "yes" or "no".                                                          *)
(***************************************************************************)
EXTENDS BlankText, Naturals, Sequences, TLC

CONSTANTS Commands,          \* the commands that are typed into an Exec step
          PositiveNumbers,   \* the texts of a number field that are above zero
          NumberOf           \* the number such a text stands for

ASSUME NumbersAssumption == \A text \in PositiveNumbers : NumberOf[text] \in Nat \ {0}

Texts     == {Blank, "text"}
Templates == {Blank, "text", "{{video}}"}
Numbers   == {Blank, "30", "zero"}
Flags     == {"yes", "no"}

\* `offered`: per field, what the panel lets a user choose.
Entry(inputs, outputs, defaults, offered) ==
    [inputs |-> inputs, outputs |-> outputs, defaults |-> defaults, offered |-> offered]

-----------------------------------------------------------------------------
\* Triggers.
Webhook ==
    Entry({}, {"out"}, [eventName |-> Blank], [eventName |-> Texts])
ChannelMessage ==
    Entry({}, {"out"}, [channelType |-> Blank, routeKey |-> Blank, messagePattern |-> Blank],
          [channelType |-> {Blank}, routeKey |-> Texts, messagePattern |-> Texts])
\* Its panel is a form of its own, see CronNodePanel.
CronSchedule ==
    Entry({}, {"out"},
          [enabled |-> "yes", scheduleKind |-> "cron", schedule |-> "hourly", timezone |-> "local",
           everyAmount |-> "30", everyUnit |-> "minutes", runAt |-> Blank, deleteAfterRun |-> "no",
           deliveryMode |-> "none", deliveryTo |-> Blank, deliveryBestEffort |-> "no",
           failureAlertEnabled |-> "no", failureAlertAfter |-> "3", failureAlertMode |-> "announce",
           failureAlertTo |-> Blank,
           executionKind |-> "flowTrigger", sessionTarget |-> "isolated", sessionKey |-> Blank,
           wakeMode |-> "now", clearAgent |-> "no", assistantPrompt |-> "text",
           systemEventText |-> "text"],
          <<>>)
Hook ==
    Entry({}, {"out"}, [hookName |-> Blank, filter |-> Blank], [hookName |-> Texts, filter |-> Texts])
Task ==
    Entry({}, {"out"}, [taskType |-> Blank, taskQueue |-> Blank, taskPriority |-> Blank],
          [taskType |-> Texts, taskQueue |-> Texts, taskPriority |-> {"low", "high"}])
StandingOrder ==
    Entry({}, {"out"}, [standingOrderKey |-> Blank, standingOrderScope |-> Blank],
          [standingOrderKey |-> Texts, standingOrderScope |-> Texts])

-----------------------------------------------------------------------------
\* Steps that OpenClaw performs.
RunAgent ==
    Entry({"in"}, {"out"}, [agentId |-> Blank, sessionKey |-> Blank, waitTimeoutMs |-> "30"],
          [agentId |-> Texts, sessionKey |-> Texts, waitTimeoutMs |-> Numbers])
RunSkill ==
    Entry({"in"}, {"out"},
          [skillName |-> Blank, agentId |-> Blank, sessionKey |-> Blank, waitTimeoutMs |-> "30"],
          [skillName |-> Texts, agentId |-> Texts, sessionKey |-> Texts, waitTimeoutMs |-> Numbers])
SendToAgent ==
    Entry({"in"}, {"out"},
          [targetAgent |-> Blank, sessionKey |-> Blank, maxDelegationDepth |-> "2", waitTimeoutMs |-> "30"],
          [targetAgent |-> Texts, sessionKey |-> Texts, maxDelegationDepth |-> {Blank, "1", "2", "zero"},
           waitTimeoutMs |-> Numbers])
ChannelReplyStep ==
    Entry({"in"}, {"out"},
          [channelProfileId |-> Blank, channelType |-> Blank, toPath |-> "to",
           messageTemplate |-> "{{replyText}}"],
          [channelProfileId |-> {Blank}, channelType |-> {Blank}, toPath |-> {Blank, "to", "elsewhere"},
           messageTemplate |-> {Blank, "text", "{{replyText}}"}])
ChannelRouteStep ==
    Entry({"in"}, {"out"},
          [destination |-> Blank, threading |-> "preserve", messageTemplate |-> "{{replyText}}"],
          [destination |-> {Blank}, threading |-> {"preserve", "new"},
           messageTemplate |-> {Blank, "text", "{{replyText}}"}])

-----------------------------------------------------------------------------
\* Tools.
HttpRequest ==
    Entry({"in"}, {"out"}, [url |-> Blank, timeoutMs |-> "30", failOnHttpError |-> "yes"],
          [url |-> Templates, timeoutMs |-> Numbers, failOnHttpError |-> Flags])
BrowserStep ==
    Entry({"in"}, {"out"},
          [action |-> "open", target |-> Blank, extractMode |-> "text", clickHint |-> Blank,
           waitFor |-> Blank, timeoutMs |-> "30"],
          [action |-> {"open", "extract", "click"}, target |-> Templates,
           extractMode |-> {"text", "html", "title"}, clickHint |-> Templates, waitFor |-> {},
           timeoutMs |-> Numbers])
WebSearchStep ==
    Entry({"in"}, {"out"}, [query |-> Blank, limit |-> "5", outputMode |-> "results"],
          [query |-> Templates, limit |-> Numbers,
           outputMode |-> {"results", "top-result", "top-result-url"}])
YouTubeTranscriptStep ==
    Entry({"in"}, {"out"}, [provider |-> "transcriptapi", video |-> Blank, outputMode |-> "merge"],
          [provider |-> {"transcriptapi", "youtube-transcript-api"}, video |-> Templates,
           outputMode |-> {"merge", "replace", "transcript-only"}])
TranscriptApiStep ==
    Entry({"in"}, {"out"}, [profileId |-> Blank, video |-> Blank, outputMode |-> "merge"],
          [profileId |-> {Blank}, video |-> Templates, outputMode |-> {"merge", "replace", "transcript-only"}])
ExecStep ==
    Entry({"in"}, {"out"},
          [command |-> Blank, approvalMode |-> "ask", approvalTimeoutSeconds |-> "300", timeoutMs |-> "30"],
          [command |-> Commands \cup {Blank}, approvalMode |-> {"ask", "elevated", "trusted"},
           approvalTimeoutSeconds |-> Numbers, timeoutMs |-> Numbers])
ShapePayload ==
    Entry({"in"}, {"out"}, [template |-> "{{input}}", outputMode |-> "replace", outputPath |-> Blank],
          [template |-> {"{{input}}", "{{video}}", "text"}, outputMode |-> {"replace", "merge", "assign"},
           outputPath |-> Texts])

-----------------------------------------------------------------------------
\* Control, context and operations.
BranchStep ==
    Entry({"in"}, {"true", "false"}, [branchMode |-> "auto", fieldPath |-> Blank, equalsValue |-> Blank],
          [branchMode |-> {"auto", "path_truthy", "path_equals"}, fieldPath |-> Texts,
           equalsValue |-> Texts])
ApprovalStep ==
    Entry({"in"}, {"approved", "rejected"}, [enabled |-> "yes", timeoutSeconds |-> "300"],
          [enabled |-> Flags, timeoutSeconds |-> Numbers])
WaitStep ==
    Entry({"in"}, {"out"}, [durationSeconds |-> "60"], [durationSeconds |-> Numbers])
QueryMemory ==
    Entry({"in"}, {"out"}, [namespace |-> "session", keyPrefix |-> Blank, limit |-> "10"],
          [namespace |-> {"session", "memory", "thread", "all"}, keyPrefix |-> Texts, limit |-> Numbers])
WriteMemory ==
    Entry({"in"}, {"out"}, [namespace |-> "session", key |-> Blank],
          [namespace |-> {"session", "memory", "thread"}, key |-> {Blank, "note"}])
ThreadBindStep ==
    Entry({"in"}, {"out"}, [bindingKey |-> Blank, strategy |-> "reuse"],
          [bindingKey |-> {Blank, "video"}, strategy |-> {"reuse", "create"}])
LogStep ==
    Entry({"in"}, {}, [includeInput |-> "yes"], [includeInput |-> Flags])
UsageStep ==
    Entry({"in"}, {"out"}, [metricScope |-> "run"], [metricScope |-> {"run", "node"}])

-----------------------------------------------------------------------------
CatalogTriggers ==
    {"trigger.webhook", "trigger.channel", "trigger.cron", "trigger.hook", "trigger.task",
     "trigger.standing-order"}

NODE_CATALOG ==
    [type \in CatalogTriggers \cup
        {"action.agent", "action.skill", "action.agent-send", "action.channel-reply",
         "action.channel-route", "action.http", "tool.browser", "tool.web-search",
         "tool.youtube-transcript", "tool.transcriptapi", "tool.exec", "tool.payload-template",
         "logic.branch", "control.approval", "control.wait", "context.memory-query",
         "context.memory-write", "context.thread-bind", "action.log", "ops.usage"} |->
     CASE type = "trigger.webhook"        -> Webhook
       [] type = "trigger.channel"        -> ChannelMessage
       [] type = "trigger.cron"           -> CronSchedule
       [] type = "trigger.hook"           -> Hook
       [] type = "trigger.task"           -> Task
       [] type = "trigger.standing-order" -> StandingOrder
       [] type = "action.agent"           -> RunAgent
       [] type = "action.skill"           -> RunSkill
       [] type = "action.agent-send"      -> SendToAgent
       [] type = "action.channel-reply"   -> ChannelReplyStep
       [] type = "action.channel-route"   -> ChannelRouteStep
       [] type = "action.http"            -> HttpRequest
       [] type = "tool.browser"           -> BrowserStep
       [] type = "tool.web-search"        -> WebSearchStep
       [] type = "tool.youtube-transcript" -> YouTubeTranscriptStep
       [] type = "tool.transcriptapi"     -> TranscriptApiStep
       [] type = "tool.exec"              -> ExecStep
       [] type = "tool.payload-template"  -> ShapePayload
       [] type = "logic.branch"           -> BranchStep
       [] type = "control.approval"       -> ApprovalStep
       [] type = "control.wait"           -> WaitStep
       [] type = "context.memory-query"   -> QueryMemory
       [] type = "context.memory-write"   -> WriteMemory
       [] type = "context.thread-bind"    -> ThreadBindStep
       [] type = "action.log"             -> LogStep
       [] type = "ops.usage"              -> UsageStep]

-----------------------------------------------------------------------------
\* The panel shows a field only while the value of another one calls for it.
Shown(type, key, data) ==
    CASE type = "tool.browser" /\ key = "extractMode"                  -> data.action = "extract"
      [] type = "tool.browser" /\ key = "clickHint"                    -> data.action = "click"
      [] type = "tool.payload-template" /\ key = "outputPath"          -> data.outputMode = "assign"
      [] type = "logic.branch" /\ key = "fieldPath"                    -> data.branchMode # "auto"
      [] type = "logic.branch" /\ key = "equalsValue"                  -> data.branchMode = "path_equals"
      [] OTHER -> TRUE

\* The form of a cron trigger, section by section: what it lets one choose.  A
\* field that is not shown keeps what it had.
CronBasics == [enabled |-> Flags]

CronTimes(data) ==
    [scheduleKind |-> {"cron", "every", "at"}, deleteAfterRun |-> Flags] @@
    CASE data.scheduleKind = "cron"  -> [schedule |-> {Blank, "hourly", "daily", "nonsense"},
                                         timezone |-> {"UTC", "local"}]
      [] data.scheduleKind = "every" -> [everyAmount |-> Numbers, everyUnit |-> {"minutes", "hours", "days"}]
      [] OTHER                       -> [runAt |-> {Blank, "noon", "nonsense"}]

CronResult(data) ==
    [deliveryMode |-> {"none", "announce", "webhook"}] @@
    IF data.deliveryMode = "none" THEN <<>> ELSE [deliveryTo |-> Texts, deliveryBestEffort |-> Flags]

CronAlerts(data) ==
    [failureAlertEnabled |-> Flags] @@
    IF data.failureAlertEnabled = "no" THEN <<>>
    ELSE [failureAlertAfter |-> {Blank, "2", "3"}, failureAlertMode |-> {"announce", "webhook"},
          failureAlertTo |-> Texts]

CronExecution(data) ==
    LET wake == [wakeMode |-> {"now", "next-heartbeat"}]
        turn == [sessionTarget |-> {"isolated", "session"}, clearAgent |-> Flags, assistantPrompt |-> Texts]
    IN [executionKind |-> {"flowTrigger", "agentTurn", "systemEvent"}] @@ wake @@
       CASE data.executionKind = "agentTurn"   ->
              turn @@ (IF data.sessionTarget = "session" THEN [sessionKey |-> Texts] ELSE <<>>)
         [] data.executionKind = "systemEvent" -> [systemEventText |-> Texts]
         [] OTHER                              -> <<>>

CronNodePanel(data) ==
    CronBasics @@ CronTimes(data) @@ CronResult(data) @@ CronAlerts(data) @@ CronExecution(data)

\* What the gateway and the database know when the catalog is asked for.  A
\* gateway that does not answer leaves the agent "main" and the saved profiles.
NoGateway(prefill) ==
    [prefill EXCEPT !.agents = {"main"}, !.defaultAgent = "main", !.preferredTarget = Blank,
                    !.skills = {}, !.preferredSkill = Blank, !.channels = {}, !.preferredChannel = Blank]

FillBlank(defaults, key, value) ==
    IF defaults[key] = Blank THEN [defaults EXCEPT ![key] = value] ELSE defaults
ReplaceDefault(defaults, key, value) ==
    IF value = Blank THEN defaults ELSE [defaults EXCEPT ![key] = value]

PrefilledDefaults(type, defaults, prefill) ==
    CASE type = "action.agent"      -> FillBlank(defaults, "agentId", prefill.defaultAgent)
      [] type = "action.skill"      -> FillBlank(FillBlank(defaults, "agentId", prefill.defaultAgent),
                                                 "skillName", prefill.preferredSkill)
      [] type = "action.agent-send" -> FillBlank(defaults, "targetAgent", prefill.preferredTarget)
      [] type = "trigger.channel"   -> ReplaceDefault(defaults, "channelType", prefill.preferredChannel)
      [] type = "action.channel-reply" ->
            ReplaceDefault(FillBlank(defaults, "channelProfileId", prefill.preferredProfile),
                           "channelType", prefill.preferredChannel)
      [] OTHER -> defaults

\* A select with nothing to offer keeps what it had, except the channel's; its
\* placeholder is a blank that can be chosen.
PrefilledOptions(key, options, prefill) ==
    LET Known(values) == IF values = {} THEN options ELSE values \cup {Blank}
    IN CASE key \in {"agentId", "targetAgent"}         -> Known(prefill.agents)
         [] key = "skillName"                          -> Known(prefill.skills)
         [] key \in {"channelProfileId", "profileId"}  -> Known(prefill.profiles)
         [] key = "channelType"                        -> prefill.channels \cup {Blank}
         [] key = "destination" ->
              options \cup (IF prefill.profiles = {} THEN prefill.channels ELSE prefill.profiles)
         [] OTHER -> options

BuildNodeCatalog(prefill) ==
    [type \in DOMAIN NODE_CATALOG |->
        LET entry == NODE_CATALOG[type]
        IN [entry EXCEPT
              !.defaults = PrefilledDefaults(type, @, prefill),
              !.offered  = [key \in DOMAIN @ |-> PrefilledOptions(key, @[key], prefill)]]]

NewNode(catalog, type) == [type |-> type, data |-> catalog[type].defaults]

\* A select is narrowed to the options that belong to what else was chosen, as
\* long as there are any; that nothing is chosen is always an option.
ResolveFieldOptions(options, scoped) ==
    IF options \cap scoped = {} THEN options ELSE options \cap (scoped \cup {Blank})

\* What the panel of a node offers; `scopes` has, by field, what belongs there.
Offered(catalog, node, scopes) ==
    IF node.type = "trigger.cron" THEN CronNodePanel(node.data)
    ELSE LET options == catalog[node.type].offered
         IN [key \in {k \in DOMAIN options : Shown(node.type, k, node.data)} |->
               IF key \in DOMAIN scopes THEN ResolveFieldOptions(options[key], scopes[key])
               ELSE options[key]]
=============================================================================
