------------------------------ MODULE ExecPolicy ------------------------------
(***************************************************************************)
(* Which commands an Exec step may run (apps/adapter/src/system-exec.ts),  *)
(* and what the publication of a flow checks about it                      *)
(* (apps/adapter/src/routers/flows.ts).                                    *)
(*                                                                         *)
(* The adapter has a policy in its environment and the workspace one in    *)
(* its row.  Both are records of the same form:                            *)
(*   enabled     "yes", "no" or "unset"                                    *)
(*   modes       for "trusted" and "elevated": "yes", "no" or "unset"      *)
(*   prefixes    for "any", "trusted" and "elevated": a set of commands    *)
(*   families    likewise, a set of program names                          *)
(* A command is its sequence of words, so that a prefix of it ends at the  *)
(* end of a word.  The trimming and the case folding of the code are left  *)
(* out, and so are the quotes around a program's name.                     *)
(***************************************************************************)
EXTENDS BlankText, Sequences, SequencesExt

CONSTANTS CommandWords,      \* the words of every command text
          ProgramName,       \* the name of the program a first word stands for
          TemplateTexts      \* the texts with a {{...}} in them

Modes == {"ask", "trusted", "elevated"}

NormalizeApprovalMode(value) == IF value \in {"elevated", "trusted"} THEN value ELSE "ask"

Unrestricted == [enabled  |-> "unset",
                 modes    |-> [mode \in {"trusted", "elevated"} |-> "unset"],
                 prefixes |-> [mode \in {"any", "trusted", "elevated"} |-> {}],
                 families |-> [mode \in {"any", "trusted", "elevated"} |-> {}]]

\* The adapter's policy when its environment says nothing.
ResolveExecRuntimePolicy(production) ==
    [Unrestricted EXCEPT
        !.enabled = "yes",
        !.modes = [trusted |-> IF production THEN "no" ELSE "yes", elevated |-> "no"]]

MatchesAllowedPrefix(command, prefix) == IsPrefix(prefix, CommandWords[command])

ReadCommandFamily(command) == ProgramName[Head(CommandWords[command])]

MatchesAllowedFamily(command, family) == ReadCommandFamily(command) = family

\* The lists that speak of a mode: the common one and, of the two modes that
\* have one, its own.
ModesRestricting(mode) == {"any"} \cup ({mode} \ {"ask"})

ModeAllowed(policy, mode) ==
    /\ policy.enabled # "no"
    /\ mode # "ask" => policy.modes[mode] # "no"

\* An empty list restricts nothing.
ListsAllow(policy, command, mode) ==
    \A kind \in ModesRestricting(mode) :
        /\ policy.prefixes[kind] # {} =>
             \E prefix \in policy.prefixes[kind] : MatchesAllowedPrefix(command, prefix)
        /\ policy.families[kind] # {} =>
             \E family \in policy.families[kind] : MatchesAllowedFamily(command, family)

AssertPolicyAllowed(policy, command, mode) ==
    ModeAllowed(policy, mode) /\ ListsAllow(policy, command, mode)

AssertExecAllowed(adapter, workspace, command, mode) ==
    /\ AssertPolicyAllowed(adapter, command, mode)
    /\ AssertPolicyAllowed(workspace, command, mode)

HasCommandTemplate(command) == command \in TemplateTexts

\* A command with a template in it is not known before the run: the lists are
\* not consulted then, nor for a blank command.
PublishAllowsNode(adapter, workspace, node) ==
    LET mode    == NormalizeApprovalMode(node.data.approvalMode)
        command == node.data.command
    IN \A policy \in {adapter, workspace} :
         /\ ModeAllowed(policy, mode)
         /\ (command # Blank /\ ~HasCommandTemplate(command)) => ListsAllow(policy, command, mode)

\* Mutant: the workspace's lists are checked by the run alone.
AdapterAllowsNode(adapter, workspace, nodes) ==
    \A node \in nodes :
        node.type = "tool.exec" => PublishAllowsNode(adapter, Unrestricted, node)

ValidateExecPublishPolicy(adapter, workspace, nodes) ==
    \A node \in nodes :
        node.type = "tool.exec" => PublishAllowsNode(adapter, workspace, node)
=============================================================================
