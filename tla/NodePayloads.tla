---------------------------- MODULE NodePayloads ----------------------------
(***************************************************************************)
(* What the steps of a flow do to the payload they hand on, and why a step *)
(* refuses to run (apps/adapter/src/flow-executor.ts).  FlowNodes says     *)
(* which ports a step takes and what it waits for; this module says what a *)
(* later step can still read.                                              *)
(*                                                                         *)
(* A path of the code is looked up in the payload and, failing that, under *)
(* its "input": a payload is the record of the fields found on the two     *)
(* levels.  A step that wraps keeps what was `here` one level down and     *)
(* loses what was there already.                                           *)
(***************************************************************************)
EXTENDS NodeCatalog, Naturals

CONSTANTS TemplateField      \* the field a {{...}} text reads

ASSUME TemplatesAssumption ==
    /\ "text" \notin DOMAIN TemplateField
    /\ "{{replyText}}" \in DOMAIN TemplateField /\ TemplateField["{{replyText}}"] = "replyText"

Fields == {"sessionKey", "threadId", "replyText", "channel", "to", "video"}
NoFields == [field \in Fields |-> Blank]

\* `depth` counts the handoffs and is looked for on the first level alone; a
\* bare text has no fields at all.
Payload(here, input, depth) == [here |-> here, input |-> input, depth |-> depth, object |-> TRUE]
TextPayload == [here |-> NoFields, input |-> NoFields, depth |-> 0, object |-> FALSE]

\* Mutant: the level below is not looked at.
ReadHere(payload, field) == payload.here[field]

GetStringPathValue(payload, field) ==
    IF payload.here[field] # Blank THEN payload.here[field] ELSE payload.input[field]

RenderInputTemplate(text, payload) ==
    IF text \in DOMAIN TemplateField THEN GetStringPathValue(payload, TemplateField[text]) ELSE text

Wrap(payload, fields, depth) == Payload(fields, payload.here, depth)

\* A bare text becomes the input of a new object.
MergeObjectOutput(payload) == IF payload.object THEN payload ELSE Payload(NoFields, NoFields, 0)

BadNumber(data, key) == data[key] # Blank /\ data[key] \notin PositiveNumbers

\* An outcome of a step: the payload it hands on, or why it fails.
Done(payload) == [why |-> Blank, payload |-> payload]
Failed(why)   == [why |-> why, payload |-> TextPayload]

\* The checks of a handler in their order; the first that is not met decides.
Unless(blank, why, rest) == IF blank THEN {Failed(why)} ELSE rest

-----------------------------------------------------------------------------
\* OpenClaw's steps.  `session` is the session of this step of this run.
KeyOf(data, session) == IF data.sessionKey # Blank THEN data.sessionKey ELSE session

\* A turn may end without a text, and the gateway may refuse it.
Turn(payload, key, depth) ==
    {Done(Wrap(payload, [NoFields EXCEPT !["sessionKey"] = key, !["replyText"] = text], depth)) :
        text \in {Blank, "said"}} \cup {Failed("service")}

AgentOutput(data, payload, session) ==
    Unless(data.agentId = Blank, "field",
    Unless(BadNumber(data, "waitTimeoutMs"), "number",
           Turn(payload, KeyOf(data, session), 0)))

SkillOutput(data, payload, session) ==
    Unless(data.skillName = Blank, "field",
    Unless(BadNumber(data, "waitTimeoutMs"), "number",
           Turn(payload, KeyOf(data, session), 0)))

MaxDepth(data) == IF data.maxDelegationDepth = Blank THEN 2 ELSE NumberOf[data.maxDelegationDepth]

\* Mutant: a handoff does not say how deep it is.
SameDepth(depth) == depth

NextDelegationDepth(depth) == depth + 1

AgentSendOutput(data, payload, session) ==
    Unless(data.targetAgent = Blank, "field",
    Unless(BadNumber(data, "maxDelegationDepth"), "number",
    Unless(payload.depth + 1 > MaxDepth(data), "depth",
    Unless(BadNumber(data, "waitTimeoutMs"), "number",
           Turn(payload, KeyOf(data, session), NextDelegationDepth(payload.depth))))))

-----------------------------------------------------------------------------
\* Tools.
HttpOutput(data, payload) ==
    Unless(data.url = Blank, "field",
    Unless(RenderInputTemplate(data.url, payload) = Blank, "template",
    Unless(BadNumber(data, "timeoutMs"), "number",
           {Done(Wrap(payload, NoFields, 0)), Failed("service")})))

\* Of the selectors only the hint of a click is needed.
BrowserSelector(data) ==
    CASE data.action = "extract" -> IF data.extractMode # Blank THEN data.extractMode ELSE data.waitFor
      [] data.action = "click"   -> IF data.clickHint # Blank THEN data.clickHint ELSE data.waitFor
      [] OTHER                   -> Blank

BrowserOutput(data, payload) ==
    LET selector == BrowserSelector(data)
    IN Unless(BadNumber(data, "timeoutMs"), "number",
       Unless(data.target = Blank, "field",
       Unless(RenderInputTemplate(data.target, payload) = Blank, "template",
       Unless(data.action = "click" /\ selector = Blank, "field",
       Unless(data.action = "click" /\ RenderInputTemplate(selector, payload) = Blank, "template",
              {Done(Wrap(payload, NoFields, 0)), Failed("service")})))))

WebSearchOutput(data, payload) ==
    Unless(BadNumber(data, "limit"), "number",
    Unless(data.query = Blank, "field",
    Unless(RenderInputTemplate(data.query, payload) = Blank, "template",
           {Failed("service"),
            CASE data.outputMode = "top-result-url" -> Done(TextPayload)
              [] data.outputMode = "top-result"     -> Done(Payload(NoFields, NoFields, 0))
              [] OTHER                              -> Done(Wrap(payload, NoFields, 0))})))

TranscriptOf(data, payload) ==
    IF RenderInputTemplate(data.video, payload) # Blank
    THEN RenderInputTemplate(data.video, payload)
    ELSE GetStringPathValue(payload, "video")

\* `settings`: whether a profile with an API key was found.
TranscriptOutput(data, payload, settings) ==
    Unless(~settings, "profile",
    Unless(TranscriptOf(data, payload) = Blank, "payload",
           {Failed("service"),
            CASE data.outputMode = "transcript-only" -> Done(TextPayload)
              [] data.outputMode = "replace"         -> Done(Wrap(payload, NoFields, 0))
              [] OTHER                               -> Done(MergeObjectOutput(payload))}))

ExecOutput(payload) == {Done(Wrap(payload, NoFields, 0)), Failed("service")}

\* What a template of Shape Payload stands for: the payload, or a bare text.
ShapeOutput(data, payload) ==
    LET whole == data.template = "{{input}}"
    IN Unless(~whole /\ RenderInputTemplate(data.template, payload) = Blank, "template",
       CASE data.outputMode = "replace" -> {Done(IF whole THEN payload ELSE TextPayload)}
         [] data.outputMode = "merge"   ->
              Unless(~whole \/ ~payload.object, "payload", {Done(payload)})
         [] OTHER -> Unless(data.outputPath = Blank, "field", {Done(MergeObjectOutput(payload))}))

-----------------------------------------------------------------------------
\* Control and context.
BranchOutput(data, payload) ==
    Unless(data.branchMode # "auto" /\ data.fieldPath = Blank, "field", {Done(payload)})

ApprovalOutput(data, payload) ==
    Unless(data.enabled = "yes" /\ BadNumber(data, "timeoutSeconds"), "number", {Done(payload)})

WaitOutput(data, payload) ==
    Unless(BadNumber(data, "durationSeconds"), "number", {Done(payload)})

\* What the payload already names is kept; the rest is bound to the value.
BindContext(payload, value) ==
    LET thread  == GetStringPathValue(payload, "threadId")
        session == GetStringPathValue(payload, "sessionKey")
    IN [MergeObjectOutput(payload) EXCEPT
          !.here["threadId"]   = IF thread # Blank THEN thread ELSE value,
          !.here["sessionKey"] = IF session # Blank THEN session ELSE value]

ThreadBindOutput(data, payload) ==
    LET value == GetStringPathValue(payload, "video")
    IN Unless(data.bindingKey = Blank, "field",
       Unless(value = Blank, "payload",
       Unless(/\ data.strategy = "reuse"
              /\ GetStringPathValue(payload, "threadId") = Blank
              /\ GetStringPathValue(payload, "sessionKey") = Blank, "payload",
              {Done(BindContext(payload, value))})))

\* The scope of a namespace: the flow's, the payload's session or its thread.
MemoryScope(namespace, payload, flow) ==
    CASE namespace = "memory"  -> flow
      [] namespace = "session" -> GetStringPathValue(payload, "sessionKey")
      [] OTHER                 -> GetStringPathValue(payload, "threadId")

MemoryWriteOutput(data, payload, flow) ==
    Unless(data.key = Blank, "field",
    Unless(MemoryScope(data.namespace, payload, flow) = Blank, "payload",
           {Done(MergeObjectOutput(payload))}))

-----------------------------------------------------------------------------
\* Replies.  A template that turns out empty is refused; without one the
\* whole payload is a message.
FormatChannelReplyMessage(data, payload) ==
    IF data.messageTemplate = Blank THEN "payload" ELSE RenderInputTemplate(data.messageTemplate, payload)

FirstOf(a, b) == IF a # Blank THEN a ELSE b

\* `profile` is the saved profile of the step, with blank fields when it has none.
ReplyChannel(data, payload, profile) ==
    FirstOf(FirstOf(profile.channelType, data.channelType), GetStringPathValue(payload, "channel"))
ReplyTarget(data, payload, profile) ==
    FirstOf(GetStringPathValue(payload, "to"), profile.target)

RouteChannel(data, payload, profile) ==
    FirstOf(FirstOf(profile.channelType, data.destination), GetStringPathValue(payload, "channel"))

\* Why a reply is not even sent, in the order of the handler.
ReplyRefusal(data, payload, profile) ==
    IF ReplyTarget(data, payload, profile) = Blank THEN "payload"
    ELSE IF FormatChannelReplyMessage(data, payload) = Blank THEN "template"
    ELSE Blank

\* The gateway answers with the channel and the target it used.
ReplyOutput(payload, channel, to, keepThread) ==
    Done(Wrap(payload,
              [NoFields EXCEPT
                 !["channel"] = channel, !["to"] = to,
                 !["threadId"] = IF keepThread THEN GetStringPathValue(payload, "threadId")
                                 ELSE Blank,
                 !["sessionKey"] = IF keepThread THEN GetStringPathValue(payload, "sessionKey")
                                   ELSE Blank],
              0))
=============================================================================
