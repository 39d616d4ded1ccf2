------------------------------ MODULE FlowNodes ------------------------------
(***************************************************************************)
(* What the handler of each kind of node may do, as the executor of a flow *)
(* sees it (apps/adapter/src/flow-executor.ts).  Payloads, templates and   *)
(* configuration are abstracted to the handler's outcome; a handler that   *)
(* rejects its configuration or its input fails before any effect.         *)
(***************************************************************************)

Ports == {"out", "true", "false", "approved", "rejected"}

\* `ports`: the ports the executor follows; `until`: what the run waits for
\* next; `effect`: the outside world has acted on the request; `offline`: the
\* answer is the offline fallback's; `relayed`: the gateway was told to stop.
Outcomes ==
    [returns : BOOLEAN, ports : SUBSET Ports,
     until : {"none", "timer", "control", "exec"},
     effect : BOOLEAN, offline : BOOLEAN, relayed : BOOLEAN]

Returns(ports, effect) ==
    [returns |-> TRUE, ports |-> ports, until |-> "none",
     effect |-> effect, offline |-> FALSE, relayed |-> FALSE]
Fails(effect) == [Returns({}, effect) EXCEPT !.returns = FALSE]
Waits(ports, until) == [Returns(ports, FALSE) EXCEPT !.until = until]

\* A handler without effects: it computes its output or rejects its input.
Pure == {Returns({"out"}, FALSE), Fails(FALSE)}

-----------------------------------------------------------------------------
\* Handlers that stay in the adapter.
Trigger     == {Returns({"out"}, FALSE)}
Branch      == {Returns({"true"}, FALSE), Returns({"false"}, FALSE), Fails(FALSE)}
Log         == {Returns({}, FALSE)}
ThreadBind  == Pure
MemoryQuery == Pure
Usage       == Pure
Shape       == Pure
MemoryWrite == {Returns({"out"}, TRUE), Fails(FALSE)}

-----------------------------------------------------------------------------
\* Handlers that call the gateway.  `Called` is what a call comes to: answered,
\* refused, or failed after the gateway has acted.  An error whose message
\* tells of connectivity is marked `offline`: nothing may have been sent, or
\* the connection may have closed while the answer was awaited.
Answers == {Returns({"out"}, TRUE), Fails(TRUE), Fails(FALSE)}
Cut     == {[Fails(effect) EXCEPT !.offline = TRUE] : effect \in BOOLEAN}
Called  == Answers \cup Cut

\* An abort is relayed while an accepted agent run is awaited, not before its
\* acceptance; to the session of a skill from its creation on.
RelayedAbort(effect) == [Fails(effect) EXCEPT !.relayed = TRUE]
RunOpenClawAgent(aborted) ==
    Called \cup IF aborted THEN {RelayedAbort(TRUE)} ELSE {}
RunOpenClawSkill(aborted) ==
    Called \cup IF aborted THEN {RelayedAbort(effect) : effect \in BOOLEAN} ELSE {}
SendOpenClawChannelReply == Called

\* The offline fallback returns an answer of its own for such an error.
WithFallback(calls) ==
    {IF call.offline THEN [Returns({"out"}, call.effect) EXCEPT !.offline = TRUE] ELSE call
        : call \in calls}

Agent(aborted)     == {Fails(FALSE)} \cup WithFallback(RunOpenClawAgent(aborted))
AgentSend(aborted) == {Fails(FALSE)} \cup WithFallback(RunOpenClawAgent(aborted))
Skill(aborted)     == {Fails(FALSE)} \cup WithFallback(RunOpenClawSkill(aborted))
ChannelReply       == {Fails(FALSE)} \cup WithFallback(SendOpenClawChannelReply)
ChannelRoute       == {Fails(FALSE)} \cup WithFallback(SendOpenClawChannelReply)

-----------------------------------------------------------------------------
\* Handlers that call other services: refused, answered, or given up (a
\* timeout, an abort, an error status) after the service has acted.
\* A transcript may be found in the cache.
Http              == Answers
Browser           == Answers
WebSearch         == Answers
YouTubeTranscript == Answers \cup {Returns({"out"}, FALSE)}
TranscriptApi     == Answers \cup {Returns({"out"}, FALSE)}

-----------------------------------------------------------------------------
\* Handlers that make the run wait.
Wait == {Waits({"out"}, "timer"), Fails(FALSE)}

\* executeNode returns both ports, also for a request that is switched off.
Approval(enabled) ==
    IF enabled THEN {Waits({"approved", "rejected"}, "control"), Fails(FALSE)}
               ELSE {Returns({"approved", "rejected"}, FALSE)}

\* A command runs if its mode is "trusted" or the queue item carries the
\* approval of this very command; otherwise the handler asks for one.
Exec(trusted, granted) ==
    IF trusted \/ granted THEN Answers
                          ELSE {Waits({"out"}, "exec"), Fails(FALSE)}

-----------------------------------------------------------------------------
Triggers == {"trigger.webhook", "trigger.channel", "trigger.cron",
             "trigger.hook", "trigger.task", "trigger.standing-order"}

Kinds ==
    Triggers \cup
    {"logic.branch", "action.log", "action.agent", "action.agent-send",
     "action.skill", "action.channel-reply", "action.channel-route",
     "action.http", "tool.browser", "tool.web-search", "tool.payload-template",
     "context.thread-bind", "context.memory-write", "context.memory-query",
     "ops.usage", "tool.youtube-transcript", "tool.transcriptapi",
     "tool.exec", "tool.exec-trusted",
     "control.wait", "control.approval", "control.approval-off", "unsupported"}

-----------------------------------------------------------------------------
\* What a node of kind `k` may do, by the parts of executeNode; a part knows
\* nothing of the kinds of the others.  "-trusted" and "-off" stand for the
\* configurations approvalMode = 'trusted' and enabled = false.
LogicSteps(k) ==
    CASE k \in Triggers      -> Trigger
      [] k = "logic.branch"  -> Branch
      [] OTHER               -> {}

AgentSteps(k, aborted) ==
    CASE k = "action.agent"      -> Agent(aborted)
      [] k = "action.agent-send" -> AgentSend(aborted)
      [] k = "action.skill"      -> Skill(aborted)
      [] OTHER                   -> {}

FetchSteps(k) ==
    CASE k = "action.http"     -> Http
      [] k = "tool.browser"    -> Browser
      [] k = "tool.web-search" -> WebSearch
      [] OTHER                 -> {}

ToolSteps(k, granted) ==
    CASE k = "tool.youtube-transcript" -> YouTubeTranscript
      [] k = "tool.transcriptapi"      -> TranscriptApi
      [] k = "tool.exec"               -> Exec(FALSE, granted)
      [] k = "tool.exec-trusted"       -> Exec(TRUE, granted)
      [] OTHER                         -> {}

MessageSteps(k) ==
    CASE k = "tool.payload-template" -> Shape
      [] k = "action.channel-reply"  -> ChannelReply
      [] k = "action.channel-route"  -> ChannelRoute
      [] OTHER                       -> {}

ReportSteps(k) ==
    CASE k = "action.log" -> Log
      [] k = "ops.usage"  -> Usage
      [] OTHER            -> {}

WaitingSteps(k) ==
    CASE k = "control.wait"         -> Wait
      [] k = "control.approval"     -> Approval(TRUE)
      [] k = "control.approval-off" -> Approval(FALSE)
      [] OTHER                      -> {}

ContextSteps(k) ==
    CASE k = "context.thread-bind"  -> ThreadBind
      [] k = "context.memory-write" -> MemoryWrite
      [] k = "context.memory-query" -> MemoryQuery
      [] OTHER                      -> {}

NodeOutcomes(k, granted, aborted) ==
    IF k = "unsupported" THEN {Fails(FALSE)}
    ELSE UNION {LogicSteps(k), AgentSteps(k, aborted), FetchSteps(k), ToolSteps(k, granted),
                MessageSteps(k), ReportSteps(k), WaitingSteps(k), ContextSteps(k)}
=============================================================================
