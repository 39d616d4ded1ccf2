---------------------------- MODULE FlowExecutorMC ----------------------------
(* Instances of FlowExecutor for TLC: the graphs a flow may have published. *)
EXTENDS FlowExecutor

CONSTANTS t, a, b, c, d

Graph(kind, edges) == [kind |-> kind, edges |-> edges, command |-> 1]
Webhook == t :> "trigger.webhook"

\* Every kind of node behind a trigger, its first port in use.
Out(k) == CASE k = "logic.branch" -> "true"
            [] k \in {"control.approval", "control.approval-off"} -> "approved"
            [] OTHER -> "out"
Chain(k) == Graph(Webhook @@ a :> k @@ b :> "action.log",
                  <<Edge(t, "out", a), Edge(a, Out(k), b)>>)

\* Two branches, one of which goes on.
Fork(k, l, m) == Graph(Webhook @@ a :> k @@ b :> l @@ c :> m,
                       <<Edge(t, "out", a), Edge(t, "out", b), Edge(a, Out(k), c)>>)
\* A node with two ports, then a node that goes on.
Choice(k, p, q, l) == Graph(Webhook @@ a :> k @@ b :> l @@ c :> "action.log" @@ d :> "tool.exec",
                            <<Edge(t, "out", a), Edge(a, p, b), Edge(a, q, c), Edge(b, Out(l), d)>>)

Runnable ==
    {Chain(k) : k \in Kinds \ Triggers}
    \cup {Fork(k, l, m) : k, l, m \in
            {"action.agent-send", "control.wait", "control.approval", "tool.exec"}}
    \cup {Choice("control.approval", "approved", "rejected", l) :
            l \in {"control.wait", "control.approval", "tool.exec"}}
    \cup {Choice("control.approval-off", "approved", "rejected", "control.wait"),
          Choice("logic.branch", "true", "false", "control.approval")}

\* Graphs that are refused: fan-in, a cycle, a missing node, two triggers.
Refused ==
    {Graph(Webhook @@ a :> k @@ b :> "ops.usage" @@ c :> "action.log",
           <<Edge(t, "out", a), Edge(t, "out", b), Edge(a, Out(k), c), Edge(b, "out", c)>>)
        : k \in {"action.agent", "control.wait"}}
    \cup {Graph(Webhook @@ a :> k, <<Edge(t, "out", a), Edge(a, Out(k), t)>>)
        : k \in {"action.agent", "control.wait"}}
    \cup {Graph(Webhook @@ a :> "action.agent", <<Edge(t, "out", a), Edge(a, "out", b)>>),
          Graph(Webhook @@ a :> "trigger.cron", <<Edge(t, "out", b)>>)}

MCGraphs == Runnable \cup Refused

MCLaunches == {[type |-> "manual", fits |-> TRUE]}
    \cup [type : {"trigger.webhook", "trigger.cron"}, fits : BOOLEAN]
=============================================================================
