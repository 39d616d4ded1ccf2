------------------------------ MODULE MemoryStore ------------------------------
(***************************************************************************)
(* The memory a flow keeps between its runs (apps/adapter/src/             *)
(* memory-store.ts, packages/memory-sdk).  An entry is a record            *)
(* [flow, namespace, scope, key, value]; a store is a set of entries.      *)
(* Values are opaque.  The scope of an entry is the flow's id, a session   *)
(* key or a thread id, according to its namespace; of the ids a reader     *)
(* has, the blank ones open no scope.                                      *)
(***************************************************************************)
EXTENDS BlankText, FiniteSets, Naturals

Reader(flow, session, thread) == [flow |-> flow, session |-> session, thread |-> thread]

SameSlot(a, b) ==
    <<a.flow, a.namespace, a.scope, a.key>> = <<b.flow, b.namespace, b.scope, b.key>>

\* Mutant: the conflict target leaves the scope out.
OverwriteKey(entries, entry) ==
    {e \in entries : <<e.flow, e.namespace, e.key>> # <<entry.flow, entry.namespace, entry.key>>}
        \cup {entry}

\* The insert replaces what the unique index finds.
PersistMemoryWrite(entries, entry) == {e \in entries : ~SameSlot(e, entry)} \cup {entry}

\* Mutant: a session is looked up by its namespace alone.
AnySession(entries, reader) ==
    {e \in entries :
        /\ e.flow = reader.flow
        /\ \/ e.namespace = "memory"
           \/ e.namespace = "session" /\ reader.session # Blank
           \/ e.namespace = "thread" /\ reader.thread # Blank /\ e.scope = reader.thread}

LoadPersistedMemory(entries, reader) ==
    {e \in entries :
        /\ e.flow = reader.flow
        /\ \/ e.namespace = "memory" /\ e.scope = reader.flow
           \/ e.namespace = "session" /\ reader.session # Blank /\ e.scope = reader.session
           \/ e.namespace = "thread" /\ reader.thread # Blank /\ e.scope = reader.thread}

\* What the payload already holds under a key is kept.
MergePersistedMemoryIntoInput(held, loaded) ==
    held \cup {e \in loaded : \A h \in held : <<h.namespace, h.key>> # <<e.namespace, e.key>>}

\* Any namespace but these reads as "session" in a query node.
QueryNamespace(namespace) ==
    IF namespace \in {"memory", "session", "thread", "all"} THEN namespace ELSE "session"

\* A blank prefix matches every key; of the keys here none starts with another.
QueryMemoryEntries(entries, namespace, prefix) ==
    {e \in entries : namespace \in {"all", e.namespace} /\ prefix \in {Blank, e.key}}

QueryPersistedMemory(entries, reader, namespace, prefix) ==
    QueryMemoryEntries(LoadPersistedMemory(entries, reader), QueryNamespace(namespace), prefix)

SummarizeMemoryEntries(entries) ==
    [namespace \in {"memory", "session", "thread"} |->
        Cardinality({e \in entries : e.namespace = namespace})]
=============================================================================
