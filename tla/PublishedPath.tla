----------------------------- MODULE PublishedPath -----------------------------
(***************************************************************************)
(* The life of one flow: steps are put on the canvas with the defaults of  *)
(* the catalog, edited in the panel, published, and run by the events of   *)
(* its trigger, while the workspace's exec policy, the adapter's           *)
(* environment, the channel profiles, the gateway's channels and the       *)
(* stored memory change.                                                   *)
(*                                                                         *)
(* The module composes NodeCatalog (what can be configured), FlowSemantics *)
(* and ExecPolicy (what a publication checks), EntryTriggers and           *)
(* TriggerRequests (what starts a run), ManagedJobs (what a cron trigger   *)
(* becomes), NodePayloads (what a step does), ChannelProfiles, MemoryStore *)
(* and ChannelDelivery.  The flow is a path, so that the step after each   *)
(* is known; FlowExecutor has the branches, the waits and the crashes.     *)
(***************************************************************************)
EXTENDS ManagedJobs, TriggerRequests, NodePayloads, ExecPolicy, ChannelProfiles, MemoryStore,
        ChannelDelivery

CONSTANTS Paths,             \* the sequences of node types that are drawn
          MaxEdits,          \* bound on the fields that are edited
          MaxCronEdits,      \* the same for a flow that starts by the clock
          MaxRequests,       \* bound on what others change meanwhile
          Runs,              \* 1..n
          Agents, SkillsOf,  \* what the gateway lists
          Events, Payloads,  \* the events and the payloads they bring
          StepSession,       \* the session a step of a run gets of its own
          WorkspacePolicies, AdapterPolicies,
          Statuses,          \* the answers to channels.status
          Flow

ASSUME BoundsAssumption == MaxEdits \in Nat /\ MaxCronEdits \in Nat /\ MaxRequests \in Nat

\* What is rendered has a template in it.
ASSUME TextsAssumption == DOMAIN TemplateField \subseteq TemplateTexts

\* A trigger has no input, so a path can only begin with one.
ASSUME PathsAssumption ==
    /\ Paths \subseteq Seq(DOMAIN NODE_CATALOG)
    /\ \A path \in Paths : \A i \in DOMAIN path : path[i] \in TriggerKinds => i = 1
ASSUME EventsAssumption == \A event \in Events : event.type \in DOMAIN TriggerOfEvent \cup {"manual"}

\* A payload that names no depth has depth 0 (readDelegationDepth).
ASSUME PayloadsAssumption ==
    \A payload \in Payloads : DOMAIN payload = DOMAIN TextPayload /\ payload.depth \in Nat

VARIABLES nodes, edits,              \* the draft
          prefill,                   \* what the editor was told
          published, jobs,           \* the version that runs, and its cron jobs
          adapter, workspace,        \* the exec policies
          changed,                   \* whether one changed since the publication
          status,                    \* the gateway's channels
          entries,                   \* the stored memory
          requests,                  \* changes of the surroundings so far
          runs,
          firing                     \* what was recorded of the last firing of the job

flowVars   == <<nodes, edits, prefill, published, jobs>>
policyVars == <<adapter, workspace, changed>>
vars == <<flowVars, policyVars, status, entries, requests, runs, firing, profileVars>>

Replies     == {"action.channel-reply", "action.channel-route"}
Transcripts == {"tool.youtube-transcript", "tool.transcriptapi"}

Types == {nodes[i].type : i \in DOMAIN nodes}
UsesExec     == "tool.exec" \in Types
UsesProfiles == Types \cap (Replies \cup Transcripts) # {}
UsesMemory   == Types \cap {"context.memory-write", "context.memory-query"} # {}

Edges == {<<i, i + 1>> : i \in 1..(Len(nodes) - 1)}

NoDelivery == [asked |-> Blank, used |-> Blank, known |-> {}]
NoGrant    == [at |-> 0, command |-> Blank]
NoRun == [phase |-> "none", at |-> 0, payload |-> TextPayload, policy |-> Unrestricted,
          grant |-> NoGrant, why |-> Blank, seen |-> {}, sessions |-> {}, wrote |-> {}, said |-> 0,
          sent |-> NoDelivery]

-----------------------------------------------------------------------------
\* The editor.
Prefills ==
    {[gateway EXCEPT !.profiles = Stored, !.preferredProfile = first] :
        first \in (IF Stored # {} THEN PreferredProfileIds ELSE {Blank}),
        gateway \in {[profiles |-> {}, preferredProfile |-> Blank, agents |-> g.agents,
                      defaultAgent |-> g.defaultAgent, preferredTarget |-> g.preferredTarget,
                      skills |-> g.skills, preferredSkill |-> g.preferredSkill,
                      channels |-> g.channels, preferredChannel |-> g.preferredChannel] :
                        g \in LoadNodePrefill(Agents, "main", SkillsOf, status)}}

\* What is drawn with something that the gateway told.
Prefilled == {"trigger.channel", "action.agent", "action.skill", "action.agent-send"} \cup Replies

\* `path` is drawn with the defaults the catalog has at that moment.
Draw(path) ==
    /\ prefill \in {NoGateway(p) : p \in Prefills}
                  \cup {p \in Prefills : \E i \in DOMAIN path : path[i] \in Prefilled}
    /\ nodes = [i \in DOMAIN path |-> NewNode(BuildNodeCatalog(prefill), path[i])]

\* The options that belong to the agent, and to the node, of the selected step.
Scopes(node) ==
    CASE node.type = "action.skill" /\ node.data.agentId \in DOMAIN SkillsOf ->
            [skillName |-> {s.name : s \in SkillsOf[node.data.agentId]}]
      [] node.type = "tool.transcriptapi" ->
            [profileId |-> {p \in Stored : rows[p].channelType = "transcriptapi"}]
      [] OTHER -> <<>>

EditField(i) ==
    LET offered == Offered(BuildNodeCatalog(prefill), nodes[i], Scopes(nodes[i]))
    IN /\ ~published
       /\ edits < (IF "trigger.cron" \in Types THEN MaxCronEdits ELSE MaxEdits)
       /\ \E key \in DOMAIN offered : \E value \in offered[key] \ {nodes[i].data[key]} :
            nodes' = [nodes EXCEPT ![i].data[key] = value]
       /\ edits' = edits + 1
       /\ UNCHANGED <<prefill, published, jobs, policyVars, status, entries, requests, runs, firing, profileVars>>

Publish ==
    /\ ~published
    /\ Cardinality(GetExecutableTriggerNodes(nodes)) = 1
    /\ ValidateFlowSemantics(nodes, Edges)
    /\ ValidateExecPublishPolicy(adapter, workspace, {nodes[i] : i \in DOMAIN nodes})
    /\ published' = TRUE
    /\ jobs' = ReadFlowCronTriggerNodes(nodes)
    /\ changed' = FALSE
    /\ UNCHANGED <<nodes, edits, prefill, adapter, workspace, status, entries, requests, runs, firing, profileVars>>

-----------------------------------------------------------------------------
\* The surroundings.  They change where the flow can tell, and the profiles
\* under the flows that are published as they were drawn.
UpdateExecPolicy(policy) ==
    /\ UsesExec /\ workspace # policy /\ requests < MaxRequests
    /\ workspace' = policy
    /\ changed' = TRUE
    /\ requests' = requests + 1
    /\ UNCHANGED <<flowVars, adapter, status, entries, runs, firing, profileVars>>

\* The adapter is restarted with another environment while no run is under way.
RestartAdapter(policy) ==
    /\ UsesExec /\ adapter # policy /\ requests < MaxRequests
    /\ \A r \in Runs : runs[r].phase # "running"
    /\ adapter' = policy
    /\ changed' = TRUE
    /\ requests' = requests + 1
    /\ UNCHANGED <<flowVars, workspace, status, entries, runs, firing, profileVars>>

ChannelsChange(s) ==
    /\ Types \cap Replies # {} /\ published /\ status # s /\ requests < MaxRequests
    /\ status' = s
    /\ requests' = requests + 1
    /\ UNCHANGED <<flowVars, policyVars, entries, runs, firing, profileVars>>

\* A request that begins; its later statements are not counted.
Starting == \E c \in Callers : calls[c] = IdleCall /\ calls'[c] # IdleCall

ProfileRequest ==
    /\ UsesProfiles /\ published /\ edits = 0
    /\ ProfilesNext
    /\ requests' = IF Starting THEN requests + 1 ELSE requests
    /\ requests' <= MaxRequests
    /\ UNCHANGED <<flowVars, policyVars, status, entries, runs, firing>>

-----------------------------------------------------------------------------
\* Starting and resuming a run.  Both load the workspace's policy; the memory
\* of the payload's scopes is merged in.
ReaderOf(payload) ==
    Reader(Flow, GetStringPathValue(payload, "sessionKey"), GetStringPathValue(payload, "threadId"))

Sessions(payload) == {GetStringPathValue(payload, "sessionKey")} \ {Blank}

Begin(r, events, payload) ==
    /\ published /\ runs[r] = NoRun
    /\ r > 1 => UsesMemory /\ runs[r - 1] # NoRun
    /\ \E entry \in UNION {ResolveExecutionEntryTrigger(nodes, e) : e \in events} :
         runs' = [runs EXCEPT ![r] =
                    [NoRun EXCEPT !.phase = "running", !.at = entry, !.payload = payload,
                                  !.policy = workspace, !.sessions = Sessions(payload),
                                  !.seen = LoadPersistedMemory(entries, ReaderOf(payload))]]
    /\ UNCHANGED <<policyVars, status, entries, profileVars>>

StartRun(r) ==
    /\ \E payload \in Payloads : Begin(r, Events \cup {BuildTriggerPlan(nodes)}, payload)
    /\ UNCHANGED <<flowVars, requests, firing>>

\* The job fires: it starts a run, or what it does itself fails or succeeds;
\* one that ran is switched off when the trigger says so.
FireJob ==
    /\ requests < MaxRequests
    /\ requests' = requests + 1
    /\ \E job \in jobs :
         /\ job.enabled
         /\ \E execution \in ExecuteCronJob(job) :
              /\ firing' \in Reports(job, execution, firing.errors)
              /\ IF execution.status = "ok" /\ job.payload.kind = "flowTrigger"
                 THEN \E r \in Runs : Begin(r, {EventOfJob(job)}, Payload(NoFields, NoFields, 0))
                 ELSE UNCHANGED <<policyVars, status, entries, runs, profileVars>>
         /\ jobs' = {[job EXCEPT !.enabled = ~(firing'.status = "ok" /\ job.deleteAfterRun)]}
    /\ UNCHANGED <<nodes, edits, prefill, published>>

Approve(r) ==
    /\ runs[r].phase = "asking"
    /\ \E approved \in BOOLEAN :
         runs' = [runs EXCEPT ![r].phase = IF approved THEN "approved" ELSE "failed",
                              ![r].why = IF approved THEN Blank ELSE "rejected"]
    /\ UNCHANGED <<flowVars, policyVars, status, entries, requests, firing, profileVars>>

Resume(r) ==
    /\ runs[r].phase = "approved"
    /\ runs' = [runs EXCEPT ![r].phase = "running", ![r].policy = workspace]
    /\ UNCHANGED <<flowVars, policyVars, status, entries, requests, firing, profileVars>>

-----------------------------------------------------------------------------
\* What a step may come to: a set of outcomes, in the order of the handler's
\* checks.  A trigger and a log step hand their payload on.
SettingsFor(data, type) ==
    IF type = "tool.transcriptapi" THEN LoadTranscriptApiProfileSettings(data.profileId) # {}
    ELSE data.provider = "transcriptapi" => LoadTranscriptApiProfileSettings(Blank) # {}

\* The agent a skill step speaks to when it names none is the default one.
AgentOf(data) == IF data.agentId \in DOMAIN SkillsOf THEN data.agentId ELSE "main"

Outcomes(run, type, data, session) ==
    LET payload == run.payload
    IN CASE type = "action.agent"      -> AgentOutput(data, payload, session)
         [] type = "action.skill"      ->
              {o \in SkillOutput(data, payload, session) :
                 o.why # Blank \/ ResolveSkillCommand(data.skillName, SkillsOf[AgentOf(data)]) # {}}
         [] type = "action.agent-send" -> AgentSendOutput(data, payload, session)
         [] type = "action.http"       -> HttpOutput(data, payload)
         [] type = "tool.browser"      -> BrowserOutput(data, payload)
         [] type = "tool.web-search"   -> WebSearchOutput(data, payload)
         [] type \in Transcripts       -> TranscriptOutput(data, payload, SettingsFor(data, type))
         [] type = "tool.payload-template" -> ShapeOutput(data, payload)
         [] type = "logic.branch"      -> BranchOutput(data, payload)
         [] type = "control.approval"  -> ApprovalOutput(data, payload)
         [] type = "control.wait"      -> WaitOutput(data, payload)
         [] type = "context.thread-bind"  -> ThreadBindOutput(data, payload)
         [] type = "context.memory-write" -> MemoryWriteOutput(data, payload, Flow)
         [] type \in {"context.memory-query", "ops.usage"} -> {Done(MergeObjectOutput(payload))}
         [] OTHER -> {Done(payload)}

\* Mutant: a failure ends the run without a reason.
AfterQuietly(run, outcome) ==
    IF outcome.why # Blank THEN [run EXCEPT !.phase = "failed"]
    ELSE [run EXCEPT !.payload = outcome.payload, !.at = @ + 1,
                     !.phase = IF run.at = Len(nodes) THEN "done" ELSE "running"]

\* The run after an outcome of its current step.
After(run, outcome) ==
    IF outcome.why # Blank THEN [run EXCEPT !.phase = "failed", !.why = outcome.why]
    ELSE [run EXCEPT !.payload = outcome.payload,
                     !.sessions = @ \cup Sessions(outcome.payload),
                     !.at = @ + 1,
                     !.phase = IF run.at = Len(nodes) THEN "done" ELSE "running"]

Current(r) == nodes[runs[r].at]

Settle(r, run) ==
    /\ runs[r].phase = "running"
    /\ runs' = [runs EXCEPT ![r] = run]
    /\ UNCHANGED <<flowVars, policyVars, status, requests, firing, profileVars>>

Special == {"tool.exec", "context.memory-write", "context.memory-query", "context.thread-bind"} \cup Replies

\* A step that changes nothing but the payload; what a producer said is noted.
PlainStep(r) ==
    LET node == Current(r)
    IN /\ node.type \notin Special
       /\ \E outcome \in Outcomes(runs[r], node.type, node.data, StepSession[r][runs[r].at]) :
            LET said == node.type \in ReplyProducers /\ outcome.payload.here["replyText"] # Blank
            IN Settle(r, [After(runs[r], outcome) EXCEPT !.said = IF said THEN runs[r].at ELSE @])
       /\ UNCHANGED entries

\* A memory step reads or writes the store with the scopes of its payload.
MemoryWriteStep(r) ==
    LET data    == Current(r).data
        scope   == MemoryScope(data.namespace, runs[r].payload, Flow)
        entry   == [flow |-> Flow, namespace |-> data.namespace, scope |-> scope, key |-> data.key,
                    value |-> r]
    IN /\ Current(r).type = "context.memory-write"
       /\ \E outcome \in Outcomes(runs[r], Current(r).type, data, Blank) :
            /\ Settle(r, [After(runs[r], outcome) EXCEPT
                            !.wrote = IF outcome.why = Blank THEN @ \cup {entry} ELSE @])
            /\ entries' = IF outcome.why = Blank THEN PersistMemoryWrite(entries, entry) ELSE entries

MemoryQueryStep(r) ==
    LET data  == Current(r).data
        found == QueryPersistedMemory(entries, ReaderOf(runs[r].payload), data.namespace, data.keyPrefix)
    IN /\ Current(r).type = "context.memory-query"
       /\ \E outcome \in Outcomes(runs[r], Current(r).type, data, Blank) :
            Settle(r, [After(runs[r], outcome) EXCEPT !.seen = @ \cup found])
       /\ UNCHANGED entries

\* Binding a context reads the memory of what it bound.
BindContextStep(r) ==
    /\ Current(r).type = "context.thread-bind"
    /\ \E outcome \in Outcomes(runs[r], Current(r).type, Current(r).data, Blank) :
         Settle(r, [After(runs[r], outcome) EXCEPT
                      !.seen = IF outcome.why # Blank THEN @
                               ELSE MergePersistedMemoryIntoInput(
                                      @, LoadPersistedMemory(entries, ReaderOf(outcome.payload)))])
    /\ UNCHANGED entries

-----------------------------------------------------------------------------
\* An Exec step asks unless its mode is trusted or this very command of this
\* step was approved; only then are its timeout and the policies looked at.
ExecNodeStep(r) ==
    LET run     == runs[r]
        data    == Current(r).data
        command == RenderInputTemplate(data.command, run.payload)
        mode    == NormalizeApprovalMode(data.approvalMode)
        grant   == [at |-> run.at, command |-> command]
        asks    == mode # "trusted" /\ run.grant # grant
        number  == IF asks THEN "approvalTimeoutSeconds" ELSE "timeoutMs"
        refused == IF data.command = Blank THEN "field"
                   ELSE IF command = Blank THEN "template"
                   ELSE IF BadNumber(data, number) THEN "number"
                   ELSE IF ~asks /\ ~AssertExecAllowed(adapter, run.policy, command, mode) THEN "policy"
                   ELSE Blank
    IN /\ Current(r).type = "tool.exec"
       /\ \/ refused # Blank /\ Settle(r, After(run, Failed(refused)))
          \/ refused = Blank /\ asks /\ Settle(r, [run EXCEPT !.phase = "asking", !.grant = grant])
          \/ /\ refused = Blank /\ ~asks
             /\ \E outcome \in ExecOutput(run.payload) : Settle(r, After(run, outcome))
       /\ UNCHANGED entries

\* A reply asks for a channel; `asked` names it, `keep` whether the thread is
\* taken along.  The gateway's channels are asked for again, and a failure of
\* that is taken for an empty answer.  A send that finds no gateway is simulated:
\* the step succeeds as if the message had gone out on the channel asked for,
\* and nothing is sent.
Deliver(r, profile, asked, keep) ==
    LET run     == runs[r]
        data    == Current(r).data
        refusal == ReplyRefusal(data, run.payload, profile)
        reply(channel) == ReplyOutput(run.payload, channel, ReplyTarget(data, run.payload, profile), keep)
    IN \/ refusal # Blank /\ Settle(r, After(run, Failed(refusal)))
       \/ refusal = Blank /\ Settle(r, After(run, Failed("service")))
       \/ /\ refusal = Blank
          /\ \E answer \in {status, NothingKnown(DOMAIN status.accounts)} :
             \E channel \in DeliveryChannels(answer, asked) :
                 Settle(r, [After(run, reply(channel)) EXCEPT
                              !.sent = [asked |-> asked, used |-> channel, known |-> answer.known]])
       \/ /\ refusal = Blank
          /\ Settle(r, [After(run, reply(FirstOf(asked, "offline"))) EXCEPT !.sent = NoDelivery])

ChannelReplyNodeStep(r) ==
    LET data    == Current(r).data
        profile == GetChannelExecutionProfile(data.channelProfileId)
    IN /\ Current(r).type = "action.channel-reply"
       /\ IF data.channelProfileId # Blank /\ profile = NoProfile
          THEN Settle(r, After(runs[r], Failed("profile")))
          ELSE Deliver(r, profile, ReplyChannel(data, runs[r].payload, profile), TRUE)
       /\ UNCHANGED entries

\* A destination that is no id makes the look-up of the profile fail.
ChannelRouteNodeStep(r) ==
    LET data    == Current(r).data
        profile == GetChannelExecutionProfile(data.destination)
    IN /\ Current(r).type = "action.channel-route"
       /\ CASE data.destination = Blank -> Settle(r, After(runs[r], Failed("field")))
            [] data.destination \notin ProfileIds \cup {Blank} ->
                 Settle(r, After(runs[r], Failed("profile")))
            [] OTHER -> Deliver(r, profile, RouteChannel(data, runs[r].payload, profile),
                                data.threading # "new")
       /\ UNCHANGED entries

Step(r) ==
    /\ runs[r].phase = "running"
    /\ \/ PlainStep(r)
       \/ MemoryWriteStep(r)
       \/ MemoryQueryStep(r)
       \/ BindContextStep(r)
       \/ ExecNodeStep(r)
       \/ ChannelReplyNodeStep(r)
       \/ ChannelRouteNodeStep(r)

-----------------------------------------------------------------------------
Init ==
    /\ \E path \in Paths :
         LET reads == \E i \in DOMAIN path : path[i] \in Replies \cup Transcripts
         IN /\ ProfilesInit
            /\ ~reads => rows = [id \in ProfileIds |-> NoProfile]
            /\ \E a \in AdapterPolicies, w \in WorkspacePolicies :
                 /\ adapter = a /\ workspace = w
                 /\ (\A i \in DOMAIN path : path[i] # "tool.exec") => a = Unrestricted /\ w = Unrestricted
            /\ status \in Statuses
            /\ (\A i \in DOMAIN path : path[i] \notin Prefilled) => status = CHOOSE s \in Statuses : TRUE
            /\ Draw(path)
    /\ edits = 0 /\ published = FALSE /\ jobs = {} /\ changed = FALSE
    /\ entries = {} /\ requests = 0
    /\ runs = [r \in Runs |-> NoRun]
    /\ firing = NoFiring

Next ==
    \/ \E i \in DOMAIN nodes : EditField(i)
    \/ Publish
    \/ \E policy \in WorkspacePolicies : UpdateExecPolicy(policy)
    \/ \E policy \in AdapterPolicies : RestartAdapter(policy)
    \/ \E s \in Statuses : ChannelsChange(s)
    \/ ProfileRequest
    \/ FireJob
    \/ \E r \in Runs : StartRun(r) \/ Approve(r) \/ Resume(r) \/ Step(r)

Spec == Init /\ [][Next]_vars

-----------------------------------------------------------------------------
Phases == {"none", "running", "asking", "approved", "done", "failed"}
Reasons == {Blank, "field", "number", "template", "payload", "depth", "profile", "service", "policy",
            "rejected"}

TypeOK ==
    /\ edits \in 0..(MaxEdits + MaxCronEdits) /\ requests \in 0..MaxRequests
    /\ published \in BOOLEAN /\ changed \in BOOLEAN /\ grown \in BOOLEAN
    /\ adapter \in AdapterPolicies /\ workspace \in WorkspacePolicies
    /\ status \in Statuses
    /\ \A i \in DOMAIN nodes :
         DOMAIN nodes[i].data = DOMAIN NODE_CATALOG[nodes[i].type].defaults
    /\ \A r \in Runs :
         /\ runs[r].phase \in Phases /\ runs[r].why \in Reasons
         /\ (runs[r].phase = "failed") = (runs[r].why # Blank)
         /\ runs[r].at \in 0..(Len(nodes) + 1)
    /\ \A e \in entries : e.value \in Runs
    /\ \A job \in jobs : job.schedule # NoSchedule
    /\ firing.status \in {"none", "ok", "error", "skipped"} /\ firing.errors \in 0..MaxRequests

\* What the publication checks, the run finds: a step whose configuration is
\* validated never fails for a field that is missing, whatever the catalog
\* offered and the panel let be entered.
CheckedTypes == {"action.channel-route", "tool.web-search", "tool.browser", "tool.payload-template",
                 "tool.exec", "context.memory-write"}
PublishedCanRun ==
    \A r \in Runs : runs[r].why = "field" => Current(r).type \notin CheckedTypes

\* A command that was known at the publication is refused by a run only when
\* a policy changed since: the adapter's and the workspace's rules that the
\* publication checks are those the execution asserts.
BlockedMeansChanged ==
    \A r \in Runs :
        runs[r].why = "policy" => changed \/ HasCommandTemplate(Current(r).data.command)

\* The event a published cron job fires with is accepted by the trigger the
\* job was made from, whatever was left blank in the panel.
JobEntersFlow ==
    \A job \in jobs : ResolveExecutionEntryTrigger(nodes, EventOfJob(job)) = {job.node}

\* Whatever a published trigger asks for, its route can be sent a request that
\* starts the flow.  (The draft stays as it was published.)
JustPublished == published /\ requests = 0 /\ \A r \in Runs : runs[r] = NoRun
TextsOf(data) == {"other"} \cup {data[f] : f \in
    DOMAIN data \cap ({"channelType", "messagePattern", "filter"} \cup DOMAIN Silent)}
EveryTriggerIsReached ==
    JustPublished => \A t \in GetExecutableTriggerNodes(nodes) :
        \E type \in DOMAIN TriggerOfEvent :
            /\ TriggerOfEvent[type] = nodes[t].type
            /\ \E event \in RequestsOfType(type, "route", TextsOf(nodes[t].data)) :
                 ResolveExecutionEntryTrigger(nodes, event) = {t}

\* The sample of a draft that has just been published starts its flow: what
\* the canvas fills in for a blank field is what the trigger accepts, and what
\* it takes from a field is what the trigger looks for.
SampleStartsFlow ==
    JustPublished =>
        ResolveExecutionEntryTrigger(nodes, BuildTriggerPlan(nodes)) = GetExecutableTriggerNodes(nodes)

\* A task that entered a flow can be retried in it, and the tasks it spawns
\* enter it too: their managed trigger is accepted where its event was, and
\* belongs to the same task flow.  Without a task to spawn it from a flow that
\* asks for a priority accepts no task.
ManagedTasksEnter ==
    JustPublished => \A t \in GetExecutableTriggerNodes(nodes) :
        \A type \in {y \in {"task", "order"} : TriggerOfEvent[y] = nodes[t].type} :
            \A event \in RequestsOfType(type, "route", TextsOf(nodes[t].data)) :
                LET identity == DeriveAutomationIdentity(event)
                    Enters(source) ==
                        LET managed == BuildManagedTrigger(identity, source)
                        IN /\ ResolveExecutionEntryTrigger(nodes, managed) = {t}
                           /\ DeriveAutomationIdentity(managed) = identity
                IN ResolveExecutionEntryTrigger(nodes, event) = {t} =>
                     /\ identity # NoIdentity
                     /\ Enters(event.values)
                     /\ Enters(Silent) \/ (type = "task" /\ nodes[t].data.taskPriority # Blank)

\* A firing of a published job is told as it went, whatever the panel let one
\* leave blank: it is never skipped for want of a text or a session, an "ok"
\* means that the result arrived where it was asked for or did not have to, and
\* a failure is not silent when alerts are on from the first failure and any
\* destination was entered.
JobReports ==
    /\ firing.status # "skipped"
    /\ \A job \in jobs :
         /\ firing.status = "ok" /\ firing.delivery = "not-delivered" => job.bestEffort
         /\ firing.status = "error" /\ firing.alert = "none" =>
              job.failureAlert.mode = "none" \/ job.failureAlert.after > firing.errors
         /\ firing.alert = "nowhere" => {job.failureAlert.to, job.delivery.to} = {Blank}

\* Memory of a session is read by runs of that session alone: of two runs that
\* share an entry there is a session both have been in.
ScopesApart ==
    \A r \in Runs : \A e \in runs[r].seen :
        e.namespace = "session" => runs[r].sessions \cap runs[e.value].sessions # {}

\* What a run wrote stays until a run writes the same key of the same scope: a
\* run of another session never takes its place.
WritesKept ==
    \A r \in Runs : \A w \in runs[r].wrote :
        \E e \in entries :
            /\ SameSlot(e, w)
            /\ w.namespace = "session" => w.scope \in runs[e.value].sessions

\* A reply whose template asks for the text of a step before it finds it when
\* a producer spoke right before, or with one step in between that hands on an
\* object with what it got.
BareText(node) ==
    \/ node.type = "tool.web-search" /\ node.data.outputMode \in {"top-result", "top-result-url"}
    \/ node.type \in Transcripts /\ node.data.outputMode = "transcript-only"
    \/ node.type = "tool.payload-template"
ReplyCarriesText ==
    \A r \in Runs :
        LET run == runs[r]
        IN (run.why = "template" /\ Current(r).type \in Replies /\ run.said # 0)
             => \/ run.at - run.said > 2
                \/ \E i \in (run.said + 1)..(run.at - 1) :
                     BareText(nodes[i]) \/ nodes[i].type \in ReplyProducers \cup Replies

\* Handoffs right after one another are counted: none runs beyond the depth
\* its own step allows.
HandoffsBounded ==
    \A r \in Runs : \A first, last \in 1..(runs[r].at - 1) :
        (\A i \in first..last : nodes[i].type = "action.agent-send") /\ first <= last
          => last - first + 1 <= MaxDepth(nodes[last].data)

\* When the gateway names several channels, a reply that goes out goes out on the
\* one that was asked for, that of its profile before all others, or it does not
\* go out at all: the step fails, or a send without a gateway is simulated.
DeliversAsAsked ==
    \A r \in Runs :
        LET sent == runs[r].sent
        IN sent.asked # Blank /\ Cardinality(sent.known) > 1 => sent.used = sent.asked

\* What a publication has checked still holds when the flow runs: its nodes
\* find their fields, its commands their policy, requests, tasks and its job
\* its trigger, and the job tells how it went.
PublicationHolds ==
    /\ TypeOK /\ PublishedCanRun /\ BlockedMeansChanged
    /\ EveryTriggerIsReached /\ SampleStartsFlow /\ ManagedTasksEnter /\ JobEntersFlow /\ JobReports

\* Whoever edits and applies profiles, the preferred one is unique and complete.
ProfilesUsable == AtMostOnePreferred /\ RequiredKept

\* Memory is kept, and kept from others.
MemoryKept == WritesKept /\ ScopesApart

\* A reply has something to say, and says it where it was asked to.
RepliesArrive == ReplyCarriesText /\ DeliversAsAsked
=============================================================================
