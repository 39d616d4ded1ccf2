---------------------------- MODULE ChannelDelivery ----------------------------
(***************************************************************************)
(* On which channel a reply goes out, which skill a name stands for, and   *)
(* what the editor is told about the gateway                               *)
(* (apps/adapter/src/openclaw.ts).                                         *)
(*                                                                         *)
(* `status` is the gateway's answer to channels.status, a record           *)
(*   known     the channels it names                                       *)
(*   accounts  for every channel, the accounts that are connected          *)
(* A request that fails leaves nothing known.  A name that is asked for is *)
(* a channel's id or label here; the scores of near misses are left out.   *)
(***************************************************************************)
EXTENDS BlankText, FiniteSets, Naturals

NothingKnown(channels) == [known |-> {}, accounts |-> [channel \in channels |-> {}]]

ActiveChannels(status) == {channel \in status.known : status.accounts[channel] # {}}

\* The best scored channels; the order the gateway gives decides among them.
PreferredChannels(status) ==
    IF ActiveChannels(status) # {} THEN ActiveChannels(status)
    ELSE IF status.known # {} THEN status.known ELSE {Blank}

ResolveCatalogOptionValue(requested, options) == options \cap {requested}

\* Mutant: a channel that is not there is replaced whatever the others are.
AnyChannel(status, requested) ==
    IF ResolveCatalogOptionValue(requested, status.known) # {}
    THEN ResolveCatalogOptionValue(requested, status.known)
    ELSE PreferredChannels(status)

\* The channels a reply may go out on, none when it is refused; Blank leaves the
\* choice to the gateway.
DeliveryChannels(status, requested) ==
    IF ResolveCatalogOptionValue(requested, status.known) # {}
    THEN ResolveCatalogOptionValue(requested, status.known)
    ELSE IF requested # Blank /\ Cardinality(status.known) > 1 THEN {} ELSE PreferredChannels(status)

-----------------------------------------------------------------------------
\* A skill is a record [name, usable, exact, prefixed, described]: whether the
\* gateway lets it run, and the commands that answer to its name exactly, by
\* its beginning or by their description.  None is returned when the step fails.
SkillCommands(skill) ==
    IF skill.exact # {} THEN skill.exact
    ELSE IF Cardinality(skill.prefixed) = 1 THEN skill.prefixed
    ELSE IF Cardinality(skill.described) = 1 THEN skill.described
    ELSE {}

ResolveSkillCommand(name, skills) ==
    UNION {SkillCommands(skill) : skill \in {s \in skills : s.name = name /\ s.usable}}

\* What the editor is told: the agents and channels the gateway lists, the
\* default agent, and the skills of every agent, the default one's first.
LoadNodePrefill(agents, defaultAgent, skillsOf, status) ==
    LET usable(agent) == {s.name : s \in {k \in skillsOf[agent] : k.usable}}
        all           == UNION {usable(agent) : agent \in agents \cup {defaultAgent}}
        others        == agents \ {defaultAgent}
    IN {[agents |-> agents, defaultAgent |-> defaultAgent, preferredTarget |-> target,
         skills |-> all, preferredSkill |-> skill,
         channels |-> status.known, preferredChannel |-> channel] :
           target  \in (IF others # {} THEN others ELSE IF agents # {} THEN agents ELSE {Blank}),
           skill   \in (IF usable(defaultAgent) # {} THEN usable(defaultAgent)
                        ELSE IF all # {} THEN all ELSE {Blank}),
           channel \in PreferredChannels(status)}
=============================================================================
