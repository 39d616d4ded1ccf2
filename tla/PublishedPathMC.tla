--------------------------- MODULE PublishedPathMC ---------------------------
(* Paths of at most four steps, one for each question; two profiles, two    *)
(* channels, two sessions.                                                  *)
EXTENDS PublishedPath, TLC

Symmetry == Permutations(ProfileIds) \cup Permutations(Callers)

MCPaths ==
    {<<"trigger.cron", "action.log">>,
     <<"trigger.webhook", "tool.exec">>,
     <<"trigger.webhook", "tool.browser", "tool.web-search">>,
     <<"trigger.webhook", "tool.payload-template", "tool.exec">>,
     <<"trigger.webhook", "context.memory-write", "context.memory-query">>,
     <<"trigger.channel", "context.thread-bind", "context.memory-write">>,
     <<"trigger.hook", "action.agent", "context.memory-write">>,
     <<"trigger.channel", "action.agent", "action.channel-reply">>,
     <<"trigger.channel", "action.skill", "action.http", "action.channel-route">>,
     <<"trigger.task", "action.agent-send", "action.agent-send", "action.agent-send">>,
     <<"trigger.standing-order", "control.approval", "control.wait", "logic.branch">>,
     <<"trigger.webhook", "tool.transcriptapi", "ops.usage">>,
     <<"trigger.webhook", "tool.youtube-transcript", "action.agent", "action.channel-reply">>}

MCCronFields ==
    LET all == {[base |-> <<>>, step |-> 1]}
        at(n) == {[base |-> <<n>>, step |-> 1]}
    IN "" :> <<>> @@ "hourly" :> <<at(0), all, all, all, all>>
       @@ "daily" :> <<at(0), at(9), all, all, all>> @@ "nonsense" :> <<at(60), all, all, all, all>>

MCCommandWords == "text" :> <<"git", "pull">> @@ "risky" :> <<"rm", "all">> @@ "v" :> <<"rm", "v">>
                  @@ "{{video}}" :> <<"{{video}}">>
MCProgramName  == [word \in {"git", "rm", "{{video}}"} |-> word]

MCNumberOf      == "1" :> 1 @@ "2" :> 2 @@ "3" :> 3 @@ "5" :> 5 @@ "10" :> 10 @@ "30" :> 30 @@ "60" :> 60
                   @@ "300" :> 300
MCTemplateField == "{{video}}" :> "video" @@ "{{replyText}}" :> "replyText"

FilledIn(type) == {"", CASE type = "channel" -> "c1" [] type = "task" -> "low" [] OTHER -> "text"}
MCEvents ==
    UNION {RequestsOfType(type, sender, FilledIn(type)) :
              type \in DOMAIN TriggerOfEvent \cup {"manual"}, sender \in {"route", "user"}}
MCPayloads ==
    {Payload(NoFields, NoFields, 0),
     Payload([NoFields EXCEPT !["sessionKey"] = "s1", !["video"] = "v", !["channel"] = "c1", !["to"] = "user"],
             NoFields, 0),
     Payload([NoFields EXCEPT !["sessionKey"] = "s2", !["channel"] = "c2", !["to"] = "user"], NoFields, 0)}

MCStepSession == [r \in Runs |-> [i \in 1..4 |-> "run" \o ToString(r) \o "." \o ToString(i)]]

Skill(name, usable, exact) ==
    [name |-> name, usable |-> usable, exact |-> exact, prefixed |-> {}, described |-> {}]
MCSkillsOf == [agent \in {"main", "helper"} |->
                 IF agent = "main" THEN {Skill("sum", TRUE, {"sum"}), Skill("odd", TRUE, {})}
                 ELSE {Skill("draw", FALSE, {"draw"})}]

NoTrusted == [Unrestricted EXCEPT !.modes["trusted"] = "no"]
OnlyGit   == [Unrestricted EXCEPT !.prefixes["trusted"] = {<<"git">>}]
MCWorkspacePolicies == {Unrestricted, NoTrusted, OnlyGit}
MCAdapterPolicies   ==
    {Unrestricted, ResolveExecRuntimePolicy(FALSE),
     [ResolveExecRuntimePolicy(TRUE) EXCEPT !.families["any"] = {"git"}]}

Channels == {"c1", "c2"}
MCStatuses ==
    {[known |-> Channels, accounts |-> [c \in Channels |-> {}]],
     [known |-> Channels, accounts |-> [c \in Channels |-> IF c = "c1" THEN {"a1"} ELSE {}]],
     [known |-> {"c2"}, accounts |-> [c \in Channels |-> {}]]}

Form(template, given) ==
    [template |-> template, type |-> "c2", target |-> "home", given |-> given]
MCForms == {Form("custom-channel", {}), Form("transcript-api", {"apiKey"}), Form("transcript-api", {})}
=============================================================================
