----------------------- MODULE AutomationTaskFlowProofs -----------------------
(***************************************************************************)
(* The tasks of a task flow are numbered without duplicates, its status    *)
(* tells what they say, and what is closed stays closed, for any number of *)
(* runs, cancellations and open transactions.                              *)
(***************************************************************************)
EXTENDS AutomationTaskFlow, FiniteSetTheorems, TLAPS

\* The domains of the variables, without bounds.
Phases   == {"idle", "read", "updated", "locked", "computed"}
Kinds    == {"none", "join", "create", "change"}
Passes   == {"idle", "marked", "looping", "done", "failed"}
Ran      == Active \cup Ended
RunIds   == Runs \cup {"none"}
Targets  == Ran \cup {"none"}
Seen     == Statuses \cup {"none"}
Numbered == [flow : Nat \ {0}, seq : Nat, status : Ran]
Txs == [pc : Phases, op : Kinds, run : RunIds, flow : Nat, seq : Nat, to : Targets, seen : Seen]
Cancels == [pc : Passes, flow : Nat, todo : SUBSET Runs, asked : SUBSET Runs]
Domains ==
    /\ flows \in Seq(Statuses)
    /\ tasks \in [Runs -> {NoTask} \cup Numbered]
    /\ tx \in [Actors -> Txs]
    /\ cancel \in [Cancellers -> Cancels]

\* What refers to a task flow or a run refers to one that exists, and a run
\* that is being launched has no task yet.
Exists(f) == f \in 1..Len(flows)
TaskRefs == \A r \in Runs : tasks[r] # NoTask => Exists(tasks[r].flow)
TxRefs(a) ==
    /\ tx[a].op = "change" => Exists(tx[a].flow)
    /\ tx[a].op = "change" => tx[a].run \in Runs /\ tasks[tx[a].run] # NoTask
    /\ tx[a].op = "change" => tx[a].to \in Ran
    /\ Changing(a, "computed") => tx[a].seen \in Statuses
    /\ tx[a].op \in {"join", "create"} => a \in Runs /\ tasks[a] = NoTask
    /\ tx[a].op \in {"join", "create"} => tx[a].flow \in 1..(Len(flows) + 1)
    /\ tx[a].op = "join" => Exists(tx[a].flow)
CancelRefs(c) ==
    /\ cancel[c].pc # "idle" => Exists(cancel[c].flow)
    /\ \A r \in cancel[c].todo : tasks[r] # NoTask
Refs == TaskRefs /\ (\A a \in Actors : TxRefs(a)) /\ \A c \in Cancellers : CancelRefs(c)

\* There is a last number in each task flow.
Taken(f) == {tasks[r].seq : r \in TasksOf(f)} \cup {0}
HasLast  == \A f \in Nat : \E n \in Taken(f) : \A m \in Taken(f) : n >= m

\* Who holds the lock of a task flow is alone, has a number that follows all
\* others, and what he inserts is the next revision.
Holds(a) == Launching(a, "updated")
LockHeld ==
    \A a \in Actors : Holds(a) =>
        /\ \A m \in Taken(tx[a].flow) : tx[a].seq > m
        /\ \A b \in Actors : Holds(b) /\ tx[b].flow = tx[a].flow => a = b
        /\ tx[a].op = "create" => tx[a].flow = Len(flows) + 1

IInv == Domains /\ Refs /\ HasLast /\ LockHeld /\ SequencesUnique

-----------------------------------------------------------------------------
(* Lemmas about the operators.                                             *)

LEMMA AggregateIsStatus ==
    ASSUME NEW S \in SUBSET (Active \cup Ended), NEW current, NEW managed
    PROVE  Aggregate(S, current, managed) \in Statuses
  BY DEF Aggregate, Statuses, Active, Ended

\* Where there is a last number, the next one follows all.
LEMMA NextFollows ==
    ASSUME Domains, HasLast, NEW f \in Nat
    PROVE  /\ NextSequence(f) \in Nat
           /\ \A m \in Taken(f) : NextSequence(f) > m
  <1>1. Taken(f) \subseteq Nat
    BY DEF Domains, Numbered, Taken, TasksOf, NoTask
  <1>2. PICK n \in Taken(f) : \A m \in Taken(f) : n >= m
    BY DEF HasLast
  <1>3. /\ Max(Taken(f)) \in Taken(f)
        /\ \A m \in Taken(f) : Max(Taken(f)) >= m
    BY <1>2 DEF Max
  <1>4. NextSequence(f) = Max(Taken(f)) + 1
    BY DEF NextSequence, Taken
  <1> QED  BY <1>1, <1>3, <1>4

LEMMA TxTyped ==
    ASSUME NEW pc \in Phases, NEW op \in Kinds, NEW r \in RunIds, NEW f \in Nat,
           NEW to \in Targets, NEW seen \in Seen
    PROVE  Tx(pc, op, r, f, to, seen) \in Txs
  BY DEF Tx, Txs

LEMMA NamesTyped ==
    /\ "none" \in RunIds /\ "none" \in Targets /\ "none" \in Seen
    /\ Runs \subseteq RunIds /\ Ran \subseteq Targets /\ Statuses \subseteq Seen
    /\ Ran \subseteq Statuses
    /\ "running" \in Ran /\ "cancelled" \in Ran
    /\ "idle" \in Phases /\ "read" \in Phases /\ "updated" \in Phases
    /\ "locked" \in Phases /\ "computed" \in Phases
    /\ "none" \in Kinds /\ "join" \in Kinds /\ "create" \in Kinds /\ "change" \in Kinds
    /\ "idle" \in Passes /\ "marked" \in Passes /\ "looping" \in Passes
    /\ "done" \in Passes /\ "failed" \in Passes
  BY DEF Phases, Kinds, Passes, RunIds, Targets, Seen, Ran, Statuses, Active, Ended

LEMMA IdleTyped == TxIdle \in Txs
  BY NamesTyped DEF TxIdle, Tx, Txs

\* Writing the status of a task flow, or inserting a revision.
LEMMA FlowSet ==
    ASSUME NEW s \in Seq(Statuses), NEW f, NEW status \in Statuses
    PROVE  /\ [s EXCEPT ![f] = status] \in Seq(Statuses)
           /\ Len([s EXCEPT ![f] = status]) = Len(s)
  <1>1. s \in [1..Len(s) -> Statuses] /\ Len(s) \in Nat
    OBVIOUS
  <1>2. [s EXCEPT ![f] = status] \in [1..Len(s) -> Statuses]
    BY <1>1
  <1> QED  BY <1>1, <1>2

LEMMA FlowAppend ==
    ASSUME NEW s \in Seq(Statuses), NEW status \in Statuses
    PROVE  /\ Append(s, status) \in Seq(Statuses)
           /\ Len(Append(s, status)) = Len(s) + 1
  OBVIOUS

\* Replacing a transaction, or a cancellation, by one.
LEMMA TxSet ==
    ASSUME tx \in [Actors -> Txs], NEW a \in Actors, NEW t \in Txs, tx' = [tx EXCEPT ![a] = t]
    PROVE  tx' \in [Actors -> Txs]
  OBVIOUS

LEMMA CancelSet ==
    ASSUME cancel \in [Cancellers -> Cancels], NEW c \in Cancellers, NEW k \in Cancels,
           cancel' = [cancel EXCEPT ![c] = k]
    PROVE  cancel' \in [Cancellers -> Cancels]
  OBVIOUS

-----------------------------------------------------------------------------
(* What every step does.                                                   *)

LEMMA DomainsStep ==
    ASSUME IInv, [Next]_vars
    PROVE  Domains'
  <1>0. /\ flows \in Seq(Statuses) /\ tasks \in [Runs -> {NoTask} \cup Numbered]
        /\ tx \in [Actors -> Txs] /\ cancel \in [Cancellers -> Cancels]
        /\ Domains /\ Refs /\ HasLast
    BY DEF IInv, Domains
  <1>a. Runs \subseteq Actors /\ Cancellers \subseteq Actors
    BY DEF Actors
  <1>1. CASE UNCHANGED vars
    BY <1>0, <1>1 DEF vars, Domains
  <1>2. ASSUME NEW r \in Runs, Launch(r)
        PROVE  Domains'
    <2> DEFINE op == IF Latest > 0 /\ flows[Latest] \in Active THEN "join" ELSE "create"
               f  == IF op = "join" THEN Latest ELSE Latest + 1
    <2>1. f \in Nat /\ op \in Kinds
      BY <1>0, NamesTyped DEF Latest
    <2>2. UNCHANGED <<flows, tasks, cancel>> /\ tx' = [tx EXCEPT ![r] = TxLaunch(op, r, f)]
      BY <1>2 DEF Launch
    <2> HIDE DEF op, f
    <2>3. TxLaunch(op, r, f) \in Txs
      BY <2>1, TxTyped, NamesTyped DEF TxLaunch
    <2>4. tx' \in [Actors -> Txs]
      BY <1>0, <1>a, <2>2, <2>3, TxSet
    <2> QED  BY <1>0, <2>2, <2>4 DEF Domains
  <1>3. ASSUME NEW r \in Runs, NEW f \in DOMAIN flows, LaunchInto(r, f)
        PROVE  Domains'
    <2>1. f \in Nat
      BY <1>0
    <2>2. TxLaunch("join", r, f) \in Txs
      BY <2>1, TxTyped, NamesTyped DEF TxLaunch
    <2>3. UNCHANGED <<flows, tasks, cancel>> /\ tx' = [tx EXCEPT ![r] = TxLaunch("join", r, f)]
      BY <1>3 DEF LaunchInto
    <2>4. tx' \in [Actors -> Txs]
      BY <1>0, <1>a, <2>2, <2>3, TxSet
    <2> QED  BY <1>0, <2>3, <2>4 DEF Domains
  <1>4. ASSUME NEW r \in Runs, LaunchUpdate(r)
        PROVE  Domains'
    <2> DEFINE t == [tx[r] EXCEPT !.pc = "updated", !.seq = NextSequence(tx[r].flow)]
    <2>1. tx[r] \in Txs /\ tx[r].flow \in Nat
      BY <1>0, <1>a DEF Txs
    <2>2. NextSequence(tx[r].flow) \in Nat
      BY <1>0, <2>1, NextFollows
    <2>3. t \in Txs
      BY <2>1, <2>2, NamesTyped DEF Txs
    <2>4. /\ UNCHANGED <<flows, tasks, cancel>>
          /\ tx' = [tx EXCEPT ![r] = t] \/ tx' = [tx EXCEPT ![r] = TxIdle]
      BY <1>4 DEF LaunchUpdate, End
    <2> HIDE DEF t
    <2>5. tx' \in [Actors -> Txs]
      BY <1>0, <1>a, <2>3, <2>4, IdleTyped, TxSet
    <2> QED  BY <1>0, <2>4, <2>5 DEF Domains
  <1>5. ASSUME NEW r \in Runs, LaunchCommit(r)
        PROVE  Domains'
    <2> DEFINE k == [flow |-> tx[r].flow, seq |-> tx[r].seq, status |-> "running"]
    <2>1. tx[r].flow \in Nat \ {0} /\ tx[r].seq \in Nat
      <3>1. tx[r].flow \in Nat /\ tx[r].seq \in Nat
        <4>1. tx[r] \in Txs
          BY <1>0, <1>a
        <4> QED  BY <4>1 DEF Txs
      <3>2. tx[r].flow \in 1..Len(flows) + 1
        <4>1. TxRefs(r)
          BY <1>0, <1>a DEF Refs
        <4>2. tx[r].op \in {"join", "create"}
          BY <1>5 DEF LaunchCommit, Launching
        <4> QED  BY <4>1, <4>2 DEF TxRefs
      <3>3. Len(flows) \in Nat
        BY <1>0
      <3> QED  BY <3>1, <3>2, <3>3
    <2>2. k \in Numbered
      BY <2>1, NamesTyped DEF Numbered
    <2>3. /\ flows' = Append(flows, "running")
             \/ flows' = [flows EXCEPT ![tx[r].flow] = "running"]
          /\ tasks' = [tasks EXCEPT ![r] = k]
          /\ tx' = [tx EXCEPT ![r] = TxIdle] /\ cancel' = cancel
      BY <1>5 DEF LaunchCommit, End
    <2> HIDE DEF k
    <2>4. flows' \in Seq(Statuses)
      <3>1. "running" \in Statuses
        BY NamesTyped
      <3>2. Append(flows, "running") \in Seq(Statuses)
        BY <1>0, <3>1, FlowAppend
      <3>3. [flows EXCEPT ![tx[r].flow] = "running"] \in Seq(Statuses)
        BY <1>0, <3>1, FlowSet
      <3> QED  BY <2>3, <3>2, <3>3
    <2>5. tasks' \in [Runs -> {NoTask} \cup Numbered]
      BY <1>0, <2>2, <2>3
    <2>6. tx' \in [Actors -> Txs]
      BY <1>0, <1>a, <2>3, IdleTyped, TxSet
    <2> QED  BY <1>0, <2>3, <2>4, <2>5, <2>6 DEF Domains
  <1>6. ASSUME NEW r \in Runs, NEW to \in Ran, ChangeBegin(r, to)
        PROVE  Domains'
    <2> DEFINE t == TxChange("locked", r, tasks[r].flow, to, flows[tasks[r].flow])
    <2>1. tasks[r] # NoTask
      BY <1>6 DEF ChangeBegin, Moves, NoTask
    <2>2. tasks[r].flow \in Nat /\ flows[tasks[r].flow] \in Statuses
      BY <1>0, <2>1 DEF Refs, TaskRefs, Exists, Numbered
    <2>3. t \in Txs
      BY <2>2, TxTyped, NamesTyped DEF TxChange
    <2>4. UNCHANGED <<flows, tasks, cancel>> /\ tx' = [tx EXCEPT ![r] = t]
      BY <1>6 DEF ChangeBegin
    <2> HIDE DEF t
    <2>5. tx' \in [Actors -> Txs]
      BY <1>0, <1>a, <2>3, <2>4, TxSet
    <2> QED  BY <1>0, <2>4, <2>5 DEF Domains
  <1>7. ASSUME NEW r \in Runs, Abort(r)
        PROVE  Domains'
    <2>1. UNCHANGED <<flows, tasks, cancel>> /\ tx' = [tx EXCEPT ![r] = TxIdle]
      BY <1>7 DEF Abort, End
    <2>2. tx' \in [Actors -> Txs]
      BY <1>0, <1>a, <2>1, IdleTyped, TxSet
    <2> QED  BY <1>0, <2>1, <2>2 DEF Domains
  <1>8. ASSUME NEW c \in Cancellers, NEW f \in DOMAIN flows, CancelMark(c, f)
        PROVE  Domains'
    <2> DEFINE k == [pc |-> "marked", flow |-> f, todo |-> {}, asked |-> ActiveIn(f)]
    <2>1. k \in Cancels
      BY <1>0, NamesTyped DEF Cancels, ActiveIn, TasksOf
    <2>2. /\ flows' = [flows EXCEPT ![f] = "cancelled"]
          /\ cancel' = [cancel EXCEPT ![c] = k] /\ UNCHANGED <<tasks, tx>>
      BY <1>8 DEF CancelMark
    <2> HIDE DEF k
    <2>3. cancel' \in [Cancellers -> Cancels]
      BY <1>0, <2>1, <2>2, CancelSet
    <2>4. flows' \in Seq(Statuses)
      BY <1>0, <2>2, NamesTyped
    <2> QED  BY <1>0, <2>2, <2>3, <2>4 DEF Domains
  <1>9. ASSUME NEW c \in Cancellers, CancelList(c)
        PROVE  Domains'
    <2> DEFINE k == [cancel[c] EXCEPT !.pc = "looping", !.todo = Cancellable(cancel[c].flow)]
    <2>1. Cancellable(cancel[c].flow) \subseteq Runs
      BY DEF Cancellable, ActiveIn, TasksOf
    <2>2. k \in Cancels
      BY <1>0, <2>1, NamesTyped DEF Cancels
    <2>3. UNCHANGED <<flows, tasks, tx>> /\ cancel' = [cancel EXCEPT ![c] = k]
      BY <1>9 DEF CancelList
    <2> HIDE DEF k
    <2>4. cancel' \in [Cancellers -> Cancels]
      BY <1>0, <2>2, <2>3, CancelSet
    <2> QED  BY <1>0, <2>3, <2>4 DEF Domains
  <1>10. ASSUME NEW c \in Cancellers, NEW r \in Runs, CancelRead(c, r)
         PROVE  Domains'
    <2> DEFINE t == TxChange("read", r, cancel[c].flow, "cancelled", tasks[r].status)
               k == [cancel[c] EXCEPT !.todo = @ \ {r}]
    <2>1. tasks[r] # NoTask /\ cancel[c].flow \in Nat
      BY <1>0, <1>10 DEF CancelRead, Refs, CancelRefs, Cancels
    <2>2. t \in Txs
      BY <1>0, <2>1, TxTyped, NamesTyped DEF TxChange, Numbered
    <2>3. k \in Cancels
      BY <1>0 DEF Cancels
    <2>4. /\ UNCHANGED <<flows, tasks>>
          /\ \/ cancel' = [cancel EXCEPT ![c] = k] /\ tx' = tx
             \/ cancel' = cancel /\ tx' = [tx EXCEPT ![c] = t]
      BY <1>10 DEF CancelRead
    <2> HIDE DEF t, k
    <2>5. cancel' \in [Cancellers -> Cancels]
      BY <1>0, <2>3, <2>4, CancelSet
    <2>6. tx' \in [Actors -> Txs]
      BY <1>0, <1>a, <2>2, <2>4, TxSet
    <2> QED  BY <1>0, <2>4, <2>5, <2>6 DEF Domains
  <1>11. ASSUME NEW c \in Cancellers, CancelLock(c)
         PROVE  Domains'
    <2> DEFINE t == [tx[c] EXCEPT !.pc = "locked", !.seen = flows[tx[c].flow]]
               k == [cancel[c] EXCEPT !.todo = @ \ {tx[c].run}]
    <2>1. flows[tx[c].flow] \in Statuses
      BY <1>0, <1>a, <1>11 DEF CancelLock, Changing, Refs, TxRefs, Exists
    <2>2. t \in Txs
      BY <1>0, <1>a, <2>1, NamesTyped DEF Txs
    <2>3. k \in Cancels
      BY <1>0 DEF Cancels
    <2>4. /\ UNCHANGED <<flows, tasks>>
          /\ \/ cancel' = cancel /\ tx' = [tx EXCEPT ![c] = t]
             \/ cancel' = [cancel EXCEPT ![c] = k] /\ tx' = [tx EXCEPT ![c] = TxIdle]
      BY <1>11 DEF CancelLock, End
    <2> HIDE DEF t, k
    <2>5. cancel' \in [Cancellers -> Cancels]
      BY <1>0, <2>3, <2>4, CancelSet
    <2>6. tx' \in [Actors -> Txs]
      BY <1>0, <1>a, <2>2, <2>4, IdleTyped, TxSet
    <2> QED  BY <1>0, <2>4, <2>5, <2>6 DEF Domains
  <1>12. ASSUME NEW c \in Cancellers, CancelReturn(c) \/ CancelFails(c)
         PROVE  Domains'
    <2> DEFINE k == [cancel[c] EXCEPT !.pc = "done"]
               n == [cancel[c] EXCEPT !.pc = "failed", !.todo = {}]
    <2>1. k \in Cancels /\ n \in Cancels
      BY <1>0, NamesTyped DEF Cancels
    <2>2. /\ UNCHANGED <<flows, tasks>>
          /\ cancel' = [cancel EXCEPT ![c] = k] \/ cancel' = [cancel EXCEPT ![c] = n]
          /\ tx' = tx \/ tx' = [tx EXCEPT ![c] = TxIdle]
      BY <1>12 DEF CancelReturn, CancelFails, End
    <2> HIDE DEF k, n
    <2>3. cancel' \in [Cancellers -> Cancels]
      BY <1>0, <2>1, <2>2, CancelSet
    <2>4. tx' \in [Actors -> Txs]
      BY <1>0, <1>a, <2>2, IdleTyped, TxSet
    <2> QED  BY <1>0, <2>2, <2>3, <2>4 DEF Domains
  <1>13. ASSUME NEW a \in Actors, ChangeAggregate(a)
         PROVE  Domains'
    <2> DEFINE status == Aggregate(Siblings(a), tx[a].seen, HasManagedChildren(tx[a].flow))
               t == [tx[a] EXCEPT !.pc = "computed", !.seen = status]
    <2>1. tx[a].to \in Ran /\ tx[a].flow # 0
      BY <1>0, <1>13 DEF ChangeAggregate, Changing, Refs, TxRefs, Exists, Ran
    <2>2. \A q \in TasksOf(tx[a].flow) : tasks[q].status \in Ran
      BY <1>0, <2>1 DEF TasksOf, Numbered, NoTask
    <2>3. Siblings(a) \subseteq Active \cup Ended
      BY <2>1, <2>2 DEF Siblings, Ran
    <2>4. status \in Statuses
      BY <2>3, AggregateIsStatus
    <2>5. /\ UNCHANGED <<flows, tasks, cancel>>
          /\ tx' = [tx EXCEPT ![a] = t]
      BY <1>13 DEF ChangeAggregate
    <2> HIDE DEF status
    <2>6. t \in Txs
      BY <1>0, <2>4, NamesTyped DEF Txs
    <2> HIDE DEF t
    <2>7. tx' \in [Actors -> Txs]
      BY <1>0, <2>5, <2>6, TxSet
    <2> QED  BY <1>0, <2>5, <2>7 DEF Domains
  <1>14. ASSUME NEW a \in Actors, ChangeCommit(a)
         PROVE  Domains'
    <2> DEFINE k == [tasks[tx[a].run] EXCEPT !.status = tx[a].to]
               n == [cancel[a] EXCEPT !.todo = @ \ {tx[a].run}]
    <2>1. /\ tx[a].run \in Runs /\ tasks[tx[a].run] \in Numbered
          /\ tx[a].to \in Ran /\ tx[a].seen \in Statuses
      BY <1>0, <1>14 DEF ChangeCommit, Changing, Refs, TxRefs, Ran
    <2>2. k \in Numbered
      BY <2>1 DEF Numbered
    <2>3. a \in Cancellers => n \in Cancels
      BY <1>0 DEF Cancels
    <2>4. /\ flows' = [flows EXCEPT ![tx[a].flow] = tx[a].seen]
          /\ tasks' = [tasks EXCEPT ![tx[a].run] = k]
          /\ cancel' = IF a \in Cancellers THEN [cancel EXCEPT ![a] = n] ELSE cancel
          /\ tx' = [tx EXCEPT ![a] = TxIdle]
      BY <1>14 DEF ChangeCommit, End
    <2> HIDE DEF k, n
    <2>5. flows' \in Seq(Statuses)
      BY <1>0, <2>1, <2>4, FlowSet
    <2>6. tasks' \in [Runs -> {NoTask} \cup Numbered]
      BY <1>0, <2>1, <2>2, <2>4
    <2>7. cancel' \in [Cancellers -> Cancels]
      BY <1>0, <2>3, <2>4, CancelSet
    <2>8. tx' \in [Actors -> Txs]
      BY <1>0, <2>4, IdleTyped, TxSet
    <2> QED  BY <2>5, <2>6, <2>7, <2>8 DEF Domains
  <1> QED  BY <1>1, <1>2, <1>3, <1>4, <1>5, <1>6, <1>7, <1>8, <1>9, <1>10, <1>11, <1>12,
              <1>13, <1>14 DEF Next, RunStep, CancelStep, Ran

-----------------------------------------------------------------------------
(* What refers to something goes on referring to it.                       *)

\* No task is lost or moved, and only runs of S get one.
Grown(S) ==
    /\ Len(flows') >= Len(flows)
    /\ \A q \in Runs : tasks[q] # NoTask =>
          tasks'[q] # NoTask /\ tasks'[q].flow = tasks[q].flow /\ tasks'[q].seq = tasks[q].seq
    /\ \A q \in Runs \ S : tasks[q] = NoTask => tasks'[q] = NoTask

LEMMA LengthIsNat ==
    ASSUME Domains
    PROVE  Len(flows) \in Nat
  BY DEF Domains

LEMMA UnchangedGrown ==
    ASSUME Domains, UNCHANGED <<flows, tasks>>
    PROVE  Grown({})
  BY LengthIsNat DEF Grown

LEMMA OldTasks ==
    ASSUME Domains, Domains', TaskRefs, Grown({})
    PROVE  TaskRefs'
  <1>1. Len(flows) \in Nat /\ Len(flows') \in Nat
    BY LengthIsNat, Domains' DEF Domains
  <1>2. ASSUME NEW q \in Runs, tasks'[q] # NoTask
        PROVE  tasks'[q].flow \in 1..Len(flows')
    <2>1. tasks[q] # NoTask /\ tasks'[q].flow = tasks[q].flow
      BY <1>2 DEF Grown
    <2>2. tasks[q].flow \in 1..Len(flows)
      BY <2>1 DEF TaskRefs, Exists
    <2> QED  BY <1>1, <2>1, <2>2 DEF Grown
  <1> QED  BY <1>2 DEF TaskRefs, Exists

LEMMA OldTx ==
    ASSUME Domains, Domains', NEW S, Grown(S),
           NEW b \in Actors, TxRefs(b), b \notin S, tx'[b] = tx[b]
    PROVE  TxRefs(b)'
  <1>1. Len(flows) \in Nat /\ Len(flows') \in Nat /\ Len(flows') >= Len(flows)
    BY LengthIsNat, Domains' DEF Domains, Grown
  <1>2. tx[b].op = "change" => /\ tx[b].flow \in 1..Len(flows')
                               /\ tx[b].run \in Runs /\ tasks'[tx[b].run] # NoTask
    BY <1>1 DEF TxRefs, Exists, Grown
  <1>3. tx[b].op \in {"join", "create"} => /\ b \in Runs /\ tasks'[b] = NoTask
                                           /\ tx[b].flow \in 1..(Len(flows') + 1)
    BY <1>1 DEF TxRefs, Grown
  <1>4. tx[b].op = "join" => tx[b].flow \in 1..Len(flows')
    BY <1>1 DEF TxRefs, Exists
  <1> QED  BY <1>2, <1>3, <1>4 DEF TxRefs, Changing, Exists

LEMMA OldCancel ==
    ASSUME Domains, Domains', NEW S, Grown(S), NEW c \in Cancellers, CancelRefs(c),
           cancel'[c].pc # "idle" => cancel[c].pc # "idle",
           cancel'[c].flow = cancel[c].flow, cancel'[c].todo \subseteq cancel[c].todo
    PROVE  CancelRefs(c)'
  <1>1. Len(flows) \in Nat /\ Len(flows') \in Nat /\ Len(flows') >= Len(flows)
    BY LengthIsNat, Domains' DEF Domains, Grown
  <1>2. cancel'[c].pc # "idle" => cancel[c].flow \in 1..Len(flows')
    BY <1>1 DEF CancelRefs, Exists
  <1>3. cancel[c].todo \subseteq Runs
    BY DEF Domains, Cancels
  <1>4. \A q \in cancel'[c].todo : tasks'[q] # NoTask
    BY <1>3 DEF CancelRefs, Grown
  <1> QED  BY <1>2, <1>4 DEF CancelRefs, Exists

LEMMA IdleRefs ==
    ASSUME NEW a, tx'[a] = TxIdle
    PROVE  TxRefs(a)'
  BY DEF TxRefs, TxIdle, Tx, Changing

LEMMA Replaced ==
    ASSUME Domains, NEW a \in Actors, NEW t, tx' = [tx EXCEPT ![a] = t]
    PROVE  tx'[a] = t /\ \A b \in Actors \ {a} : tx'[b] = tx[b]
  BY DEF Domains

\* A step of the transaction of a, alone.
LEMMA TxRefsStep ==
    ASSUME Domains, Domains', Refs, UNCHANGED <<flows, tasks, cancel>>,
           NEW a \in Actors, NEW t, tx' = [tx EXCEPT ![a] = t], TxRefs(a)'
    PROVE  Refs'
  <1>1. Grown({})
    BY UnchangedGrown
  <1>2. TaskRefs'
    BY <1>1, OldTasks DEF Refs
  <1>3. ASSUME NEW b \in Actors
        PROVE  TxRefs(b)'
    BY <1>1, Replaced, OldTx DEF Refs
  <1>4. ASSUME NEW c \in Cancellers
        PROVE  CancelRefs(c)'
    BY <1>1, OldCancel DEF Refs
  <1> QED  BY <1>2, <1>3, <1>4 DEF Refs

LEMMA RefsStep ==
    ASSUME IInv, Domains', [Next]_vars
    PROVE  Refs'
  <1>0. /\ Domains /\ Refs /\ TaskRefs
        /\ flows \in Seq(Statuses) /\ Len(flows) \in Nat /\ DOMAIN flows = 1..Len(flows)
        /\ \A a \in Actors : TxRefs(a)
        /\ \A c \in Cancellers : CancelRefs(c)
    BY DEF IInv, Domains, Refs
  <1>a. Runs \subseteq Actors /\ Cancellers \subseteq Actors
    BY DEF Actors
  <1>1. CASE UNCHANGED vars
    <2>1. UNCHANGED <<flows, tasks, tx, cancel>> /\ Grown({})
      BY <1>0, <1>1, UnchangedGrown DEF vars
    <2> QED  BY <1>0, <2>1, OldTasks, OldTx, OldCancel DEF Refs
  <1>2. ASSUME NEW r \in Runs, Launch(r)
        PROVE  Refs'
    <2> DEFINE op == IF Latest > 0 /\ flows[Latest] \in Active THEN "join" ELSE "create"
               f  == IF op = "join" THEN Latest ELSE Latest + 1
    <2>1. \/ op = "join" /\ f \in 1..Len(flows)
          \/ op = "create" /\ f = Len(flows) + 1
      <3>1. CASE op = "join"
        BY <1>0, <3>1 DEF Latest
      <3>2. CASE op # "join"
        BY <1>0, <3>2 DEF Latest
      <3> QED  BY <3>1, <3>2
    <2>2. /\ UNCHANGED <<flows, tasks, cancel>> /\ tasks[r] = NoTask
          /\ tx' = [tx EXCEPT ![r] = TxLaunch(op, r, f)]
      BY <1>2 DEF Launch
    <2> HIDE DEF op, f
    <2>3. tx'[r].op = op /\ tx'[r].flow = f
      <3>1. tx'[r] = TxLaunch(op, r, f)
        BY <1>0, <1>a, <2>2, Replaced
      <3> QED  BY <3>1 DEF TxLaunch, Tx
    <2>4. f \in 1..(Len(flows') + 1) /\ (op = "join" => f \in 1..Len(flows'))
      BY <1>0, <2>1, <2>2
    <2>5. TxRefs(r)'
      BY <2>1, <2>2, <2>3, <2>4 DEF TxRefs, Changing, Exists
    <2> QED  BY <1>0, <1>a, <2>2, <2>5, TxRefsStep
  <1>3. ASSUME NEW r \in Runs, NEW f \in DOMAIN flows, LaunchInto(r, f)
        PROVE  Refs'
    <2>1. /\ UNCHANGED <<flows, tasks, cancel>> /\ tasks[r] = NoTask
          /\ tx' = [tx EXCEPT ![r] = TxLaunch("join", r, f)]
      BY <1>3 DEF LaunchInto
    <2>2. tx'[r].op = "join" /\ tx'[r].flow = f
      <3>1. tx'[r] = TxLaunch("join", r, f)
        BY <1>0, <1>a, <2>1, Replaced
      <3> QED  BY <3>1 DEF TxLaunch, Tx
    <2>3. f \in 1..(Len(flows') + 1) /\ f \in 1..Len(flows')
      BY <1>0, <2>1
    <2>4. TxRefs(r)'
      BY <2>1, <2>2, <2>3 DEF TxRefs, Changing, Exists
    <2> QED  BY <1>0, <1>a, <2>1, <2>4, TxRefsStep
  <1>4. ASSUME NEW r \in Runs, LaunchUpdate(r)
        PROVE  Refs'
    <2> DEFINE t == [tx[r] EXCEPT !.pc = "updated", !.seq = NextSequence(tx[r].flow)]
    <2>1. /\ UNCHANGED <<flows, tasks, cancel>>
          /\ tx[r].op \in {"join", "create"} /\ tx[r] \in Txs
          /\ tx' = [tx EXCEPT ![r] = t] \/ tx' = [tx EXCEPT ![r] = TxIdle]
      BY <1>0, <1>a, <1>4 DEF LaunchUpdate, End, Launching, Domains
    <2>2. t.op = tx[r].op /\ t.flow = tx[r].flow
      BY <2>1 DEF Txs
    <2> HIDE DEF t
    <2>3. CASE tx' = [tx EXCEPT ![r] = t]
      <3>1. tx'[r].op = tx[r].op /\ tx'[r].flow = tx[r].flow
        BY <1>0, <1>a, <2>2, <2>3, Replaced
      <3>2. TxRefs(r)'
        BY <1>0, <1>a, <2>1, <3>1 DEF TxRefs, Changing, Exists
      <3> QED  BY <1>0, <1>a, <2>1, <2>3, <3>2, TxRefsStep
    <2>4. CASE tx' = [tx EXCEPT ![r] = TxIdle]
      <3>1. TxRefs(r)'
        BY <1>0, <1>a, <2>4, Replaced, IdleRefs
      <3> QED  BY <1>0, <1>a, <2>1, <2>4, <3>1, TxRefsStep
    <2> QED  BY <2>1, <2>3, <2>4
  <1>6. ASSUME NEW r \in Runs, NEW to \in Ran, ChangeBegin(r, to)
        PROVE  Refs'
    <2> DEFINE t == TxChange("locked", r, tasks[r].flow, to, flows[tasks[r].flow])
    <2>1. tasks[r] # NoTask
      BY <1>6 DEF ChangeBegin, Moves, NoTask
    <2>2. UNCHANGED <<flows, tasks, cancel>> /\ tx' = [tx EXCEPT ![r] = t]
      BY <1>6 DEF ChangeBegin
    <2>3. /\ t.pc = "locked" /\ t.op = "change" /\ t.run = r
          /\ t.flow = tasks[r].flow /\ t.to = to
      BY DEF TxChange, Tx
    <2> HIDE DEF t
    <2>4. tx'[r] = t
      BY <1>0, <1>a, <2>2, Replaced
    <2>5. TxRefs(r)'
      BY <1>0, <2>1, <2>2, <2>3, <2>4 DEF TxRefs, TaskRefs, Changing, Exists
    <2> QED  BY <1>0, <1>a, <2>2, <2>5, TxRefsStep
  <1>7. ASSUME NEW r \in Runs, Abort(r)
        PROVE  Refs'
    <2>1. UNCHANGED <<flows, tasks, cancel>> /\ tx' = [tx EXCEPT ![r] = TxIdle]
      BY <1>7 DEF Abort, End
    <2>2. TxRefs(r)'
      BY <1>0, <1>a, <2>1, Replaced, IdleRefs
    <2> QED  BY <1>0, <1>a, <2>1, <2>2, TxRefsStep

  <1>5. ASSUME NEW r \in Runs, LaunchCommit(r)
        PROVE  Refs'
    <2> DEFINE k == [flow |-> tx[r].flow, seq |-> tx[r].seq, status |-> "running"]
    <2>1. /\ tasks' = [tasks EXCEPT ![r] = k]
          /\ tx' = [tx EXCEPT ![r] = TxIdle] /\ cancel' = cancel
      BY <1>5 DEF LaunchCommit, End
    <2>2. /\ tx[r].op = "create" => Len(flows') = Len(flows) + 1
          /\ tx[r].op # "create" => Len(flows') = Len(flows)
      BY <1>0, <1>5, NamesTyped, FlowSet, FlowAppend DEF LaunchCommit
    <2>3. /\ tasks[r] = NoTask
          /\ tx[r].flow \in 1..Len(flows')
      BY <1>0, <1>a, <1>5, <2>2 DEF LaunchCommit, Launching, TxRefs, Exists
    <2> HIDE DEF k
    <2>4. tasks'[r] = k /\ \A q \in Runs \ {r} : tasks'[q] = tasks[q]
      BY <1>0, <2>1 DEF Domains
    <2>5. Grown({r})
      BY <1>0, <2>2, <2>3, <2>4 DEF Grown
    <2>6. TaskRefs'
      <3>1. \A q \in Runs \ {r} : tasks'[q] # NoTask => tasks'[q].flow \in 1..Len(flows')
        BY <1>0, <2>2, <2>4 DEF TaskRefs, Exists
      <3>2. tasks'[r].flow \in 1..Len(flows')
        BY <2>3, <2>4 DEF k
      <3> QED  BY <3>1, <3>2 DEF TaskRefs, Exists
    <2>7. ASSUME NEW b \in Actors
          PROVE  TxRefs(b)'
      <3>1. /\ b = r => tx'[b] = TxIdle
            /\ b # r => tx'[b] = tx[b] /\ b \notin {r}
        BY <1>0, <1>a, <2>1, Replaced
      <3> QED  BY <1>0, <2>5, <3>1, IdleRefs, OldTx
    <2>8. ASSUME NEW c \in Cancellers
          PROVE  CancelRefs(c)'
      BY <1>0, <2>1, <2>5, OldCancel
    <2> QED  BY <2>6, <2>7, <2>8 DEF Refs
  <1>8. ASSUME NEW c \in Cancellers, NEW f \in DOMAIN flows, CancelMark(c, f)
        PROVE  Refs'
    <2> DEFINE k == [pc |-> "marked", flow |-> f, todo |-> {}, asked |-> ActiveIn(f)]
    <2>1. /\ flows' = [flows EXCEPT ![f] = "cancelled"]
          /\ cancel' = [cancel EXCEPT ![c] = k] /\ tasks' = tasks /\ tx' = tx
      BY <1>8 DEF CancelMark
    <2>2. Len(flows') = Len(flows) /\ k.flow = f /\ k.todo = {}
      BY <1>0, <2>1, NamesTyped, FlowSet
    <2>3. Grown({})
      BY <1>0, <2>1, <2>2 DEF Grown
    <2> HIDE DEF k
    <2>4. cancel'[c] = k /\ \A d \in Cancellers \ {c} : cancel'[d] = cancel[d]
      BY <1>0, <2>1 DEF Domains
    <2>5. ASSUME NEW d \in Cancellers \ {c}
          PROVE  CancelRefs(d)'
      BY <1>0, <2>3, <2>4, OldCancel
    <2>6. CancelRefs(c)'
      BY <1>0, <2>2, <2>4 DEF CancelRefs, Exists
    <2>7. TaskRefs' /\ \A b \in Actors : TxRefs(b)'
      BY <1>0, <2>1, <2>3, OldTasks, OldTx
    <2> QED  BY <2>5, <2>6, <2>7 DEF Refs
  <1>9. ASSUME NEW c \in Cancellers, CancelList(c)
        PROVE  Refs'
    <2> DEFINE k == [cancel[c] EXCEPT !.pc = "looping", !.todo = Cancellable(cancel[c].flow)]
    <2>1. /\ UNCHANGED <<flows, tasks, tx>> /\ cancel' = [cancel EXCEPT ![c] = k]
          /\ cancel[c].pc = "marked"
      BY <1>9 DEF CancelList
    <2>2. k.flow = cancel[c].flow /\ k.todo = Cancellable(cancel[c].flow)
      BY <1>0 DEF Domains, Cancels
    <2>3. \A q \in Cancellable(cancel[c].flow) : tasks[q] # NoTask
      BY DEF Cancellable, ActiveIn, TasksOf, Active, NoTask
    <2> HIDE DEF k
    <2>4. Grown({})
      BY <1>0, <2>1, UnchangedGrown
    <2>5. cancel'[c] = k /\ \A d \in Cancellers \ {c} : cancel'[d] = cancel[d]
      BY <1>0, <2>1 DEF Domains
    <2>6. ASSUME NEW d \in Cancellers \ {c}
          PROVE  CancelRefs(d)'
      BY <1>0, <2>4, <2>5, OldCancel
    <2>7. CancelRefs(c)'
      BY <1>0, <2>1, <2>2, <2>3, <2>5 DEF CancelRefs, Exists
    <2>8. TaskRefs' /\ \A b \in Actors : TxRefs(b)'
      BY <1>0, <2>1, <2>4, OldTasks, OldTx
    <2> QED  BY <2>6, <2>7, <2>8 DEF Refs
  <1>10. ASSUME NEW c \in Cancellers, NEW r \in Runs, CancelRead(c, r)
         PROVE  Refs'
    <2> DEFINE t == TxChange("read", r, cancel[c].flow, "cancelled", tasks[r].status)
               k == [cancel[c] EXCEPT !.todo = @ \ {r}]
    <2>1. /\ UNCHANGED <<flows, tasks>>
          /\ \/ cancel' = [cancel EXCEPT ![c] = k] /\ tx' = tx
             \/ cancel' = cancel /\ tx' = [tx EXCEPT ![c] = t]
      BY <1>10 DEF CancelRead
    <2>2. tasks[r] # NoTask /\ cancel[c].flow \in 1..Len(flows)
      BY <1>0, <1>10 DEF CancelRead, CancelRefs, Exists
    <2>3. /\ t.pc = "read" /\ t.op = "change" /\ t.run = r
          /\ t.flow = cancel[c].flow /\ t.to = "cancelled"
      BY DEF TxChange, Tx
    <2>4. k.pc = cancel[c].pc /\ k.flow = cancel[c].flow /\ k.todo \subseteq cancel[c].todo
      BY <1>0 DEF Domains, Cancels
    <2> HIDE DEF t, k
    <2>5. Grown({})
      BY <1>0, <2>1, UnchangedGrown
    <2>6. CASE cancel' = [cancel EXCEPT ![c] = k] /\ tx' = tx
      <3>1. cancel'[c] = k /\ \A d \in Cancellers \ {c} : cancel'[d] = cancel[d]
        BY <1>0, <2>6 DEF Domains
      <3>2. ASSUME NEW d \in Cancellers
            PROVE  CancelRefs(d)'
        BY <1>0, <2>4, <2>5, <3>1, OldCancel
      <3>3. TaskRefs' /\ \A b \in Actors : TxRefs(b)'
        BY <1>0, <2>5, <2>6, OldTasks, OldTx
      <3> QED  BY <3>2, <3>3 DEF Refs
    <2>7. CASE cancel' = cancel /\ tx' = [tx EXCEPT ![c] = t]
      <3>1. tx'[c] = t
        BY <1>0, <1>a, <2>7, Replaced
      <3>2. TxRefs(c)'
        BY <2>1, <2>2, <2>3, <3>1, NamesTyped DEF TxRefs, Changing, Exists
      <3> QED  BY <1>0, <1>a, <2>1, <2>7, <3>2, TxRefsStep
    <2> QED  BY <2>1, <2>6, <2>7
  <1>11. ASSUME NEW c \in Cancellers, CancelLock(c)
         PROVE  Refs'
    <2> DEFINE t == [tx[c] EXCEPT !.pc = "locked", !.seen = flows[tx[c].flow]]
               k == [cancel[c] EXCEPT !.todo = @ \ {tx[c].run}]
    <2>1. /\ UNCHANGED <<flows, tasks>> /\ tx[c].op = "change"
          /\ \/ cancel' = cancel /\ tx' = [tx EXCEPT ![c] = t]
             \/ cancel' = [cancel EXCEPT ![c] = k] /\ tx' = [tx EXCEPT ![c] = TxIdle]
      BY <1>11 DEF CancelLock, End, Changing
    <2>2. /\ t.pc = "locked" /\ t.op = tx[c].op /\ t.run = tx[c].run
          /\ t.flow = tx[c].flow /\ t.to = tx[c].to
      BY <1>0, <1>a DEF Domains, Txs
    <2>3. k.pc = cancel[c].pc /\ k.flow = cancel[c].flow /\ k.todo \subseteq cancel[c].todo
      BY <1>0 DEF Domains, Cancels
    <2> HIDE DEF t, k
    <2>4. Grown({})
      BY <1>0, <2>1, UnchangedGrown
    <2>5. CASE cancel' = cancel /\ tx' = [tx EXCEPT ![c] = t]
      <3>1. tx'[c] = t
        BY <1>0, <1>a, <2>5, Replaced
      <3>2. TxRefs(c)
        BY <1>0, <1>a
      <3>3. TxRefs(c)'
        BY <2>1, <2>2, <3>1, <3>2 DEF TxRefs, Changing, Exists
      <3> QED  BY <1>0, <1>a, <2>1, <2>5, <3>3, TxRefsStep
    <2>6. CASE cancel' = [cancel EXCEPT ![c] = k] /\ tx' = [tx EXCEPT ![c] = TxIdle]
      <3>1. cancel'[c] = k /\ \A d \in Cancellers \ {c} : cancel'[d] = cancel[d]
        BY <1>0, <2>6 DEF Domains
      <3>2. ASSUME NEW d \in Cancellers
            PROVE  CancelRefs(d)'
        BY <1>0, <2>3, <2>4, <3>1, OldCancel
      <3>3. ASSUME NEW b \in Actors
            PROVE  TxRefs(b)'
        BY <1>0, <1>a, <2>4, <2>6, Replaced, IdleRefs, OldTx
      <3> QED  BY <1>0, <2>4, <3>2, <3>3, OldTasks DEF Refs
    <2> QED  BY <2>1, <2>5, <2>6
  <1>12. ASSUME NEW c \in Cancellers, CancelReturn(c) \/ CancelFails(c)
         PROVE  Refs'
    <2> DEFINE k == [cancel[c] EXCEPT !.pc = "done"]
               n == [cancel[c] EXCEPT !.pc = "failed", !.todo = {}]
    <2>1. /\ UNCHANGED <<flows, tasks>> /\ cancel[c].pc # "idle"
          /\ cancel' = [cancel EXCEPT ![c] = k] \/ cancel' = [cancel EXCEPT ![c] = n]
          /\ tx' = tx \/ tx' = [tx EXCEPT ![c] = TxIdle]
      BY <1>12 DEF CancelReturn, CancelFails, End
    <2>2. /\ k.flow = cancel[c].flow /\ k.todo \subseteq cancel[c].todo
          /\ n.flow = cancel[c].flow /\ n.todo \subseteq cancel[c].todo
      BY <1>0 DEF Domains, Cancels
    <2> HIDE DEF k, n
    <2>3. Grown({})
      BY <1>0, <2>1, UnchangedGrown
    <2>4. /\ cancel'[c] = k \/ cancel'[c] = n
          /\ \A d \in Cancellers \ {c} : cancel'[d] = cancel[d]
      BY <1>0, <2>1 DEF Domains
    <2>5. ASSUME NEW d \in Cancellers
          PROVE  CancelRefs(d)'
      BY <1>0, <2>1, <2>2, <2>3, <2>4, OldCancel
    <2>6. ASSUME NEW b \in Actors
          PROVE  TxRefs(b)'
      BY <1>0, <1>a, <2>1, <2>3, Replaced, IdleRefs, OldTx
    <2> QED  BY <1>0, <2>3, <2>5, <2>6, OldTasks DEF Refs
  <1>13. ASSUME NEW a \in Actors, ChangeAggregate(a)
         PROVE  Refs'
    <2> DEFINE status == Aggregate(Siblings(a), tx[a].seen, HasManagedChildren(tx[a].flow))
               t == [tx[a] EXCEPT !.pc = "computed", !.seen = status]
    <2>1. /\ UNCHANGED <<flows, tasks, cancel>> /\ tx[a].op = "change"
          /\ tx' = [tx EXCEPT ![a] = t]
      BY <1>13 DEF ChangeAggregate, Changing
    <2>2. tx[a].to \in Ran /\ tx[a].flow # 0
      BY <1>0, <2>1 DEF TxRefs, Exists
    <2>3. \A q \in TasksOf(tx[a].flow) : tasks[q].status \in Ran
      BY <1>0, <2>2 DEF Domains, TasksOf, Numbered, NoTask
    <2>4. Siblings(a) \subseteq Active \cup Ended
      BY <2>2, <2>3 DEF Siblings, Ran
    <2>5. status \in Statuses
      BY <2>4, AggregateIsStatus
    <2> HIDE DEF status
    <2>6. /\ t.op = tx[a].op /\ t.run = tx[a].run /\ t.flow = tx[a].flow
          /\ t.to = tx[a].to /\ t.seen = status
      BY <1>0 DEF Domains, Txs
    <2> HIDE DEF t
    <2>7. tx'[a] = t
      BY <1>0, <2>1, Replaced
    <2>8. TxRefs(a)'
      BY <1>0, <2>1, <2>5, <2>6, <2>7 DEF TxRefs, Changing, Exists
    <2> QED  BY <1>0, <2>1, <2>8, TxRefsStep
  <1>14. ASSUME NEW a \in Actors, ChangeCommit(a)
         PROVE  Refs'
    <2> DEFINE k == [tasks[tx[a].run] EXCEPT !.status = tx[a].to]
               n == [cancel[a] EXCEPT !.todo = @ \ {tx[a].run}]
    <2>1. /\ tx[a].run \in Runs /\ tasks[tx[a].run] \in Numbered /\ tx[a].seen \in Statuses
      BY <1>0, <1>14 DEF ChangeCommit, Changing, TxRefs, Domains
    <2>2. /\ flows' = [flows EXCEPT ![tx[a].flow] = tx[a].seen]
          /\ tasks' = [tasks EXCEPT ![tx[a].run] = k]
          /\ cancel' = IF a \in Cancellers THEN [cancel EXCEPT ![a] = n] ELSE cancel
          /\ tx' = [tx EXCEPT ![a] = TxIdle]
      BY <1>14 DEF ChangeCommit, End
    <2>3. k.flow = tasks[tx[a].run].flow /\ k.seq = tasks[tx[a].run].seq /\ k # NoTask
      BY <2>1 DEF Numbered, NoTask
    <2>4. a \in Cancellers => /\ n.pc = cancel[a].pc /\ n.flow = cancel[a].flow
                              /\ n.todo \subseteq cancel[a].todo
      BY <1>0 DEF Domains, Cancels
    <2> HIDE DEF k, n
    <2>5. Len(flows') = Len(flows)
      BY <1>0, <2>1, <2>2, FlowSet
    <2>6. Grown({})
      <3>1. /\ tasks'[tx[a].run] = k
            /\ \A q \in Runs \ {tx[a].run} : tasks'[q] = tasks[q]
        BY <1>0, <2>1, <2>2 DEF Domains
      <3>2. tasks[tx[a].run] # NoTask
        BY <2>1 DEF Numbered, NoTask
      <3> QED  BY <1>0, <2>1, <2>3, <2>5, <3>1, <3>2 DEF Grown
    <2>7. ASSUME NEW d \in Cancellers
          PROVE  CancelRefs(d)'
      <3>1. /\ d = a => cancel'[d] = n
            /\ d # a => cancel'[d] = cancel[d]
        BY <1>0, <2>2 DEF Domains
      <3> QED  BY <1>0, <2>4, <2>6, <3>1, OldCancel
    <2>8. ASSUME NEW b \in Actors
          PROVE  TxRefs(b)'
      BY <1>0, <2>2, <2>6, Replaced, IdleRefs, OldTx
    <2> QED  BY <1>0, <2>6, <2>7, <2>8, OldTasks DEF Refs
  <1> QED  BY <1>1, <1>2, <1>3, <1>4, <1>5, <1>6, <1>7, <1>8, <1>9, <1>10, <1>11, <1>12,
              <1>13, <1>14 DEF Next, RunStep, CancelStep, Ran

-----------------------------------------------------------------------------
(* The numbers: only a launch takes one, and only the holder of the lock.  *)

Numbers == HasLast /\ LockHeld /\ SequencesUnique

LEMMA SameTaken ==
    ASSUME Grown({}), NEW f
    PROVE  TasksOf(f)' = TasksOf(f) /\ Taken(f)' = Taken(f)
  <1>1. \A q \in Runs : tasks'[q].flow = tasks[q].flow /\ tasks'[q].seq = tasks[q].seq
    BY DEF Grown
  <1> QED  BY <1>1 DEF TasksOf, Taken

LEMMA SameNumbers ==
    ASSUME Grown({}), HasLast, SequencesUnique
    PROVE  HasLast' /\ SequencesUnique'
  <1>1. HasLast'
    BY SameTaken DEF HasLast
  <1>2. \A q \in Runs : /\ tasks'[q].flow = tasks[q].flow /\ tasks'[q].seq = tasks[q].seq
                        /\ tasks'[q] # NoTask => tasks[q] # NoTask
    BY DEF Grown
  <1> QED  BY <1>1, <1>2 DEF SequencesUnique

\* Most steps neither number a task nor make anybody hold a lock.
LEMMA QuietStep ==
    ASSUME Numbers, Grown({}), Len(flows') = Len(flows),
           \A b \in Actors : Holds(b)' => tx'[b] = tx[b]
    PROVE  Numbers'
  <1>1. HasLast' /\ SequencesUnique'
    BY SameNumbers DEF Numbers
  <1>2. ASSUME NEW b \in Actors, Holds(b)'
        PROVE  Holds(b) /\ tx'[b] = tx[b]
    BY <1>2 DEF Holds, Launching
  <1>3. ASSUME NEW a \in Actors, Holds(a)'
        PROVE  /\ \A m \in Taken(tx[a].flow)' : tx'[a].seq > m
               /\ \A b \in Actors : Holds(b)' /\ tx'[b].flow = tx'[a].flow => a = b
               /\ tx'[a].op = "create" => tx'[a].flow = Len(flows') + 1
    <2>1. PICK f : f = tx[a].flow
      OBVIOUS
    <2>2. Holds(a) /\ tx'[a] = tx[a]
      BY <1>2, <1>3
    <2>3. Taken(f)' = Taken(f)
      BY SameTaken
    <2>4. \A m \in Taken(f) : tx[a].seq > m
      BY <2>1, <2>2 DEF Numbers, LockHeld
    <2>5. \A m \in Taken(tx[a].flow)' : tx'[a].seq > m
      BY <2>1, <2>2, <2>3, <2>4
    <2>6. \A b \in Actors : Holds(b)' /\ tx'[b].flow = tx'[a].flow => a = b
      BY <1>2, <2>2 DEF Numbers, LockHeld
    <2> QED  BY <2>2, <2>5, <2>6 DEF Numbers, LockHeld
  <1> QED  BY <1>1, <1>3 DEF Numbers, LockHeld

\* A launch that gets the lock takes the next number.
LEMMA LaunchUpdateStep ==
    ASSUME IInv, NEW r \in Runs, LaunchUpdate(r)
    PROVE  Numbers'
  <1> DEFINE t == [tx[r] EXCEPT !.pc = "updated", !.seq = NextSequence(tx[r].flow)]
  <1>0. /\ Domains /\ HasLast /\ SequencesUnique /\ LockHeld /\ Numbers
        /\ r \in Actors /\ TxRefs(r) /\ tx[r] \in Txs /\ Len(flows) \in Nat
    BY LengthIsNat DEF IInv, Refs, Numbers, Domains, Actors
  <1>1. /\ UNCHANGED <<flows, tasks>> /\ Launching(r, "read") /\ ~FlowLocked(tx[r].flow)
        /\ \/ tx' = [tx EXCEPT ![r] = TxIdle]
           \/ /\ tx' = [tx EXCEPT ![r] = t]
              /\ ~(tx[r].op = "create" /\ tx[r].flow <= Len(flows))
    BY DEF LaunchUpdate, End, Latest
  <1>2. Grown({})
    BY <1>0, <1>1, UnchangedGrown
  <1>3. CASE tx' = [tx EXCEPT ![r] = TxIdle]
    <2>1. tx'[r] = TxIdle /\ \A b \in Actors \ {r} : tx'[b] = tx[b]
      BY <1>0, <1>3, Replaced
    <2>2. ~Holds(r)'
      BY <2>1 DEF Holds, Launching, TxIdle, Tx
    <2> QED  BY <1>0, <1>1, <1>2, <2>1, <2>2, QuietStep
  <1>4. CASE /\ tx' = [tx EXCEPT ![r] = t]
             /\ ~(tx[r].op = "create" /\ tx[r].flow <= Len(flows))
    <2>1. PICK f : f = tx[r].flow
      OBVIOUS
    <2>2. tx'[r] = t /\ \A b \in Actors \ {r} : tx'[b] = tx[b]
      BY <1>0, <1>4, Replaced
    <2>3. t.op = tx[r].op /\ t.flow = f /\ t.seq = NextSequence(f) /\ f \in Nat
      BY <1>0, <2>1 DEF Txs
    <2> HIDE DEF t
    <2>4. \A m \in Taken(f) : NextSequence(f) > m
      BY <1>0, <2>3, NextFollows
    <2>5. \A g : Taken(g)' = Taken(g)
      BY <1>2, SameTaken
    <2>6. ASSUME NEW b \in Actors \ {r}, Holds(b)'
          PROVE  Holds(b) /\ tx'[b] = tx[b] /\ tx[b].flow # f
      BY <1>1, <2>1, <2>2, <2>6 DEF Holds, Launching, FlowLocked
    <2>7. \A m \in Taken(tx[r].flow)' : tx'[r].seq > m
      BY <2>2, <2>3, <2>4, <2>5
    <2>8. tx'[r].op = "create" => tx'[r].flow = Len(flows') + 1
      <3>1. tx[r].op = "create" => f \in 1..(Len(flows) + 1)
        BY <1>0, <2>1 DEF TxRefs
      <3>2. tx[r].op = "create" => f = Len(flows) + 1
        BY <1>0, <1>4, <2>1, <2>3, <3>1
      <3> QED  BY <1>1, <2>2, <2>3, <3>2
    <2>9. ASSUME NEW b \in Actors \ {r}, Holds(b)'
          PROVE  /\ \A m \in Taken(tx[b].flow)' : tx'[b].seq > m
                 /\ tx'[b].op = "create" => tx'[b].flow = Len(flows') + 1
                 /\ tx'[b].flow # tx'[r].flow
                 /\ \A a \in Actors \ {r} : Holds(a)' /\ tx'[a].flow = tx'[b].flow => a = b
      <3>1. PICK g : g = tx[b].flow
        OBVIOUS
      <3>2. \A m \in Taken(g) : tx[b].seq > m
        BY <1>0, <2>6, <2>9, <3>1 DEF LockHeld
      <3>3. \A m \in Taken(tx[b].flow)' : tx'[b].seq > m
        BY <2>5, <2>6, <2>9, <3>1, <3>2
      <3>4. tx[b].op = "create" => tx[b].flow = Len(flows) + 1
        BY <1>0, <2>6, <2>9 DEF LockHeld
      <3>5. \A a \in Actors \ {r} : Holds(a)' /\ tx'[a].flow = tx'[b].flow => a = b
        BY <1>0, <2>6, <2>9 DEF LockHeld
      <3> QED  BY <1>1, <2>2, <2>3, <2>6, <2>9, <3>3, <3>4, <3>5
    <2>10. LockHeld'
      BY <2>7, <2>8, <2>9 DEF LockHeld
    <2> QED  BY <1>0, <1>2, <2>10, SameNumbers DEF Numbers
  <1> QED  BY <1>1, <1>3, <1>4

\* A launch that ends gives its task the number, and the lock back.
LEMMA LaunchCommitStep ==
    ASSUME IInv, NEW r \in Runs, LaunchCommit(r)
    PROVE  Numbers'
  <1> DEFINE k == [flow |-> tx[r].flow, seq |-> tx[r].seq, status |-> "running"]
  <1>0. /\ Domains /\ HasLast /\ SequencesUnique /\ LockHeld
        /\ tasks \in [Runs -> {NoTask} \cup Numbered]
        /\ r \in Actors /\ TxRefs(r) /\ tx[r] \in Txs
        /\ flows \in Seq(Statuses) /\ Len(flows) \in Nat
    BY LengthIsNat DEF IInv, Refs, Domains, Actors
  <1>1. /\ tasks' = [tasks EXCEPT ![r] = k] /\ tx' = [tx EXCEPT ![r] = TxIdle] /\ Holds(r)
    BY DEF LaunchCommit, End, Holds
  <1>2. PICK f, s : f = tx[r].flow /\ s = tx[r].seq
    OBVIOUS
  <1>3. f \in Nat /\ s \in Nat /\ \A m \in Taken(f) : s > m
    BY <1>0, <1>1, <1>2 DEF LockHeld, Txs
  <1>4. tasks[r] = NoTask /\ f # 0
    BY <1>0, <1>1, <1>2 DEF TxRefs, Holds, Launching
  <1>5. /\ tasks'[r].flow = f /\ tasks'[r].seq = s
        /\ \A q \in Runs \ {r} : tasks'[q] = tasks[q]
    BY <1>0, <1>1, <1>2
  <1> HIDE DEF k
  <1>6. tx'[r] = TxIdle /\ \A b \in Actors \ {r} : tx'[b] = tx[b]
    BY <1>0, <1>1, Replaced
  <1>7. Taken(f)' \subseteq Taken(f) \cup {s} /\ s \in Taken(f)'
    BY <1>5 DEF Taken, TasksOf
  <1>8. ASSUME NEW g, g # f
        PROVE  Taken(g)' = Taken(g)
    BY <1>4, <1>5, <1>8 DEF Taken, TasksOf, NoTask
  <1>9. HasLast'
    <2>1. \A m \in Taken(f)' : s >= m
      BY <1>3, <1>7
    <2> QED  BY <1>0, <1>7, <1>8, <2>1 DEF HasLast
  <1>10. SequencesUnique'
    <2>1. \A q \in Runs : tasks[q].flow = f => tasks[q].seq \in Taken(f)
      BY DEF Taken, TasksOf
    <2>2. \A q \in Runs \ {r} : tasks'[q].flow = f => tasks'[q].seq # s
      BY <1>3, <1>5, <2>1
    <2> QED  BY <1>0, <1>5, <2>2 DEF SequencesUnique
  <1>11. ASSUME NEW b \in Actors, Holds(b)'
         PROVE  b # r /\ Holds(b) /\ tx'[b] = tx[b] /\ tx[b].flow # f
    <2>1. b # r
      BY <1>6, <1>11 DEF Holds, Launching, TxIdle, Tx
    <2>2. Holds(b) /\ tx'[b] = tx[b]
      BY <1>6, <1>11, <2>1 DEF Holds, Launching
    <2> QED  BY <1>0, <1>1, <1>2, <2>1, <2>2 DEF LockHeld
  <1>12. /\ tx[r].op = "create" => Len(flows) + 1 = f
         /\ tx[r].op # "create" => Len(flows') = Len(flows)
    <2>1. tx[r].op = "create" => Len(flows) + 1 = f
      BY <1>0, <1>1, <1>2 DEF LockHeld
    <2>2. tx[r].op # "create" => Len(flows') = Len(flows)
      BY <1>0, NamesTyped, FlowSet DEF LaunchCommit
    <2> QED  BY <2>1, <2>2
  <1>13. ASSUME NEW b \in Actors, Holds(b)'
         PROVE  /\ \A m \in Taken(tx[b].flow)' : tx'[b].seq > m
                /\ \A a \in Actors : Holds(a)' /\ tx'[a].flow = tx'[b].flow => b = a
                /\ tx'[b].op = "create" => tx'[b].flow = Len(flows') + 1
    <2>1. PICK g : g = tx[b].flow
      OBVIOUS
    <2>2. Taken(g)' = Taken(g)
      BY <1>8, <1>11, <1>13, <2>1
    <2>3. \A m \in Taken(g) : tx[b].seq > m
      BY <1>0, <1>11, <1>13, <2>1 DEF LockHeld
    <2>4. tx[b].op = "create" => tx[b].flow = Len(flows) + 1
      BY <1>0, <1>11, <1>13 DEF LockHeld
    <2>5. \A a \in Actors : Holds(a)' /\ tx'[a].flow = tx'[b].flow => b = a
      BY <1>0, <1>11, <1>13 DEF LockHeld
    <2> QED  BY <1>11, <1>12, <1>13, <2>1, <2>2, <2>3, <2>4, <2>5
  <1> QED  BY <1>9, <1>10, <1>13 DEF Numbers, LockHeld

\* A transaction goes on, and does not become the holder of a lock.
LEMMA QuietTx ==
    ASSUME IInv, UNCHANGED <<flows, tasks>>, NEW a \in Actors, NEW t,
           tx' = [tx EXCEPT ![a] = t],
           ~(t.op \in {"join", "create"} /\ t.pc = "updated")
    PROVE  Numbers'
  <1>1. Domains /\ Numbers
    BY DEF IInv, Numbers
  <1>2. tx'[a] = t /\ \A b \in Actors \ {a} : tx'[b] = tx[b]
    BY <1>1, Replaced
  <1>3. \A b \in Actors : Holds(b)' => tx'[b] = tx[b]
    BY <1>2 DEF Holds, Launching
  <1> QED  BY <1>1, <1>3, UnchangedGrown, QuietStep

LEMMA NumbersStep ==
    ASSUME IInv, [Next]_vars
    PROVE  Numbers'
  <1>0. /\ Domains /\ Refs /\ Numbers /\ flows \in Seq(Statuses)
        /\ \A a \in Actors : tx[a] \in Txs
    BY DEF IInv, Domains, Numbers
  <1>a. Runs \subseteq Actors /\ Cancellers \subseteq Actors
    BY DEF Actors
  <1>b. ~(TxIdle.op \in {"join", "create"} /\ TxIdle.pc = "updated")
    BY DEF TxIdle, Tx
  <1>1. ASSUME UNCHANGED <<flows, tasks, tx>>
        PROVE  Numbers'
    <2>1. \A b \in Actors : Holds(b)' => tx'[b] = tx[b]
      BY <1>1
    <2> QED  BY <1>0, <1>1, <2>1, UnchangedGrown, QuietStep
  <1>2. ASSUME NEW r \in Runs, Launch(r)
        PROVE  Numbers'
    <2> DEFINE op == IF Latest > 0 /\ flows[Latest] \in Active THEN "join" ELSE "create"
               f  == IF op = "join" THEN Latest ELSE Latest + 1
    <2>1. UNCHANGED <<flows, tasks>> /\ tx' = [tx EXCEPT ![r] = TxLaunch(op, r, f)]
      BY <1>2 DEF Launch
    <2> HIDE DEF op, f
    <2>2. TxLaunch(op, r, f).pc = "read"
      BY DEF TxLaunch, Tx
    <2> QED  BY <1>0, <1>a, <2>1, <2>2, QuietTx
  <1>3. ASSUME NEW r \in Runs, NEW f \in DOMAIN flows, LaunchInto(r, f)
        PROVE  Numbers'
    <2>1. UNCHANGED <<flows, tasks>> /\ tx' = [tx EXCEPT ![r] = TxLaunch("join", r, f)]
      BY <1>3 DEF LaunchInto
    <2>2. TxLaunch("join", r, f).pc = "read"
      BY DEF TxLaunch, Tx
    <2> QED  BY <1>0, <1>a, <2>1, <2>2, QuietTx
  <1>4. ASSUME NEW r \in Runs, NEW to \in Ran, ChangeBegin(r, to)
        PROVE  Numbers'
    <2> DEFINE t == TxChange("locked", r, tasks[r].flow, to, flows[tasks[r].flow])
    <2>1. UNCHANGED <<flows, tasks>> /\ tx' = [tx EXCEPT ![r] = t]
      BY <1>4 DEF ChangeBegin
    <2>2. t.pc = "locked"
      BY DEF TxChange, Tx
    <2> HIDE DEF t
    <2> QED  BY <1>0, <1>a, <2>1, <2>2, QuietTx
  <1>5. ASSUME NEW r \in Runs, Abort(r)
        PROVE  Numbers'
    <2>1. UNCHANGED <<flows, tasks>> /\ tx' = [tx EXCEPT ![r] = TxIdle]
      BY <1>5 DEF Abort, End
    <2> QED  BY <1>a, <1>b, <2>1, QuietTx
  <1>6. ASSUME NEW c \in Cancellers, NEW f \in DOMAIN flows, CancelMark(c, f)
        PROVE  Numbers'
    <2>1. flows' = [flows EXCEPT ![f] = "cancelled"] /\ tasks' = tasks /\ tx' = tx
      BY <1>6 DEF CancelMark
    <2>2. Len(flows') = Len(flows)
      BY <1>0, <2>1, NamesTyped, FlowSet
    <2>3. Grown({})
      BY <1>0, <2>1, <2>2, LengthIsNat DEF Grown
    <2> QED  BY <1>0, <2>1, <2>2, <2>3, QuietStep
  <1>7. ASSUME NEW c \in Cancellers, NEW r \in Runs, CancelRead(c, r)
        PROVE  Numbers'
    <2> DEFINE t == TxChange("read", r, cancel[c].flow, "cancelled", tasks[r].status)
    <2>1. UNCHANGED <<flows, tasks>> /\ (tx' = tx \/ tx' = [tx EXCEPT ![c] = t])
      BY <1>7 DEF CancelRead
    <2>2. t.pc = "read"
      BY DEF TxChange, Tx
    <2> HIDE DEF t
    <2> QED  BY <1>0, <1>1, <1>a, <2>1, <2>2, QuietTx
  <1>8. ASSUME NEW c \in Cancellers, CancelLock(c)
        PROVE  Numbers'
    <2> DEFINE t == [tx[c] EXCEPT !.pc = "locked", !.seen = flows[tx[c].flow]]
    <2>1. /\ UNCHANGED <<flows, tasks>>
          /\ tx' = [tx EXCEPT ![c] = t] \/ tx' = [tx EXCEPT ![c] = TxIdle]
      BY <1>8 DEF CancelLock, End
    <2>2. t.pc = "locked"
      BY <1>0, <1>a DEF Txs
    <2> HIDE DEF t
    <2> QED  BY <1>a, <1>b, <2>1, <2>2, QuietTx
  <1>9. ASSUME NEW c \in Cancellers, CancelList(c) \/ CancelReturn(c)
        PROVE  Numbers'
    BY <1>1, <1>9 DEF CancelList, CancelReturn
  <1>10. ASSUME NEW c \in Cancellers, CancelFails(c)
         PROVE  Numbers'
    <2>1. UNCHANGED <<flows, tasks>> /\ tx' = [tx EXCEPT ![c] = TxIdle]
      BY <1>10 DEF CancelFails, End
    <2> QED  BY <1>a, <1>b, <2>1, QuietTx
  <1>11. ASSUME NEW a \in Actors, ChangeAggregate(a)
         PROVE  Numbers'
    <2> DEFINE status == Aggregate(Siblings(a), tx[a].seen, HasManagedChildren(tx[a].flow))
               t == [tx[a] EXCEPT !.pc = "computed", !.seen = status]
    <2>1. UNCHANGED <<flows, tasks>> /\ tx' = [tx EXCEPT ![a] = t]
      BY <1>11 DEF ChangeAggregate
    <2> HIDE DEF status
    <2>2. t.pc = "computed"
      BY <1>0 DEF Txs
    <2> HIDE DEF t
    <2> QED  BY <2>1, <2>2, QuietTx
  <1>12. ASSUME NEW a \in Actors, ChangeCommit(a)
         PROVE  Numbers'
    <2> DEFINE k == [tasks[tx[a].run] EXCEPT !.status = tx[a].to]
    <2>1. /\ tx[a].run \in Runs /\ tasks[tx[a].run] \in Numbered /\ tx[a].seen \in Statuses
      BY <1>0, <1>12 DEF ChangeCommit, Changing, Refs, TxRefs, Domains
    <2>2. /\ flows' = [flows EXCEPT ![tx[a].flow] = tx[a].seen]
          /\ tasks' = [tasks EXCEPT ![tx[a].run] = k]
          /\ tx' = [tx EXCEPT ![a] = TxIdle]
      BY <1>12 DEF ChangeCommit, End
    <2>3. /\ k.flow = tasks[tx[a].run].flow /\ k.seq = tasks[tx[a].run].seq /\ k # NoTask
          /\ tasks[tx[a].run] # NoTask
      BY <2>1 DEF Numbered, NoTask
    <2> HIDE DEF k
    <2>4. Len(flows') = Len(flows)
      BY <1>0, <2>1, <2>2, FlowSet
    <2>5. /\ tasks'[tx[a].run] = k
          /\ \A q \in Runs \ {tx[a].run} : tasks'[q] = tasks[q]
      BY <1>0, <2>1, <2>2 DEF Domains
    <2>6. Grown({})
      BY <1>0, <2>1, <2>3, <2>4, <2>5, LengthIsNat DEF Grown
    <2>7. tx'[a] = TxIdle /\ \A b \in Actors \ {a} : tx'[b] = tx[b]
      BY <1>0, <2>2, Replaced
    <2>8. \A b \in Actors : Holds(b)' => tx'[b] = tx[b]
      BY <1>b, <2>7 DEF Holds, Launching
    <2> QED  BY <1>0, <2>4, <2>6, <2>8, QuietStep
  <1>13. CASE UNCHANGED vars
    BY <1>1, <1>13 DEF vars
  <1> QED  BY <1>2, <1>3, <1>4, <1>5, <1>6, <1>7, <1>8, <1>9, <1>10, <1>11, <1>12, <1>13,
              LaunchUpdateStep, LaunchCommitStep DEF Next, RunStep, CancelStep, Ran

-----------------------------------------------------------------------------
LEMMA Initially == Init => IInv
  <1> SUFFICES ASSUME Init PROVE IInv
    OBVIOUS
  <1>1. Domains
    <2>1. NoCancel \in Cancels
      BY NamesTyped DEF NoCancel, Cancels
    <2>2. flows \in Seq(Statuses)
      BY DEF Init
    <2> QED  BY <2>1, <2>2, IdleTyped DEF Init, Domains
  <1>2. /\ \A r \in Runs : tasks[r] = NoTask
        /\ \A a \in Actors : tx[a] = TxIdle
        /\ \A c \in Cancellers : cancel[c] = NoCancel
    BY DEF Init
  <1>3. Refs
    BY <1>2 DEF Refs, TaskRefs, TxRefs, CancelRefs, Changing, TxIdle, Tx, NoCancel
  <1>4. \A f : Taken(f) = {0}
    BY <1>2 DEF Taken, TasksOf, NoTask
  <1>5. HasLast
    BY <1>4 DEF HasLast
  <1>6. LockHeld /\ SequencesUnique
    BY <1>2 DEF LockHeld, Holds, Launching, TxIdle, Tx, SequencesUnique
  <1> QED  BY <1>1, <1>3, <1>5, <1>6 DEF IInv

\* Every step keeps the invariant, those that leave the variables alone too.
LEMMA Inductive == IInv /\ [Next]_vars => IInv'
  <1> SUFFICES ASSUME IInv, [Next]_vars PROVE IInv'
    OBVIOUS
  <1>1. Domains'
    BY DomainsStep
  <1>2. Refs'
    BY <1>1, RefsStep
  <1>3. Numbers'
    BY NumbersStep
  <1> QED  BY <1>1, <1>2, <1>3 DEF IInv, Numbers

\* The tasks of a task flow never share a number, however many launches
\* begin at a time: whoever counts the tasks has written the row of the task
\* flow before, and the others wait for it until his task can be counted.
THEOREM Uniqueness == Spec => []SequencesUnique
  <1>1. IInv => SequencesUnique
    BY DEF IInv
  <1> QED  BY Initially, Inductive, <1>1, PTL DEF Spec
-----------------------------------------------------------------------------
(* The status of a task flow tells what its tasks say.                     *)

\* A transaction that is not open says nothing, and what it is at goes with
\* what it does.
Shape(a) ==
    /\ tx[a].pc = "idle" => tx[a] = TxIdle
    /\ tx[a].pc # "idle" => tx[a].op # "none"
    /\ tx[a].pc = "updated" => tx[a].op \in {"join", "create"}
    /\ tx[a].pc \in {"locked", "computed"} => tx[a].op = "change"
    /\ tx[a].pc # "updated" => tx[a].seq = 0

\* A change of status is of a task of the task flow, and who holds the lock
\* of a run is alone to change what has not ended.
Aim(a)   ==
    /\ tx[a].op = "change" => tasks[tx[a].run].flow = tx[a].flow
    /\ Changing(a, "read") => tx[a].seen \in Active
Grips(a) == tx[a].pc \in {"locked", "computed"}
Grip(a)  == Grips(a) =>
    /\ tasks[tx[a].run].status \in Active
    /\ \A b \in Actors : Grips(b) /\ tx[b].run = tx[a].run => a = b
Moving(a) == Shape(a) /\ Aim(a) /\ Grip(a)

\* Of a task flow that no two transactions overlapped on, one at a time is
\* open, and what that one has read is still so.
Solo(a) == \A b \in Open : tx[a].flow = tx[b].flow /\ tx[a].flow \notin overlapped => a = b
Kept(a) == LET f == tx[a].flow IN f \notin overlapped =>
    /\ tx[a].op = "join" => flows[f] \notin {"succeeded", "cancelled"}
    /\ Changing(a, "read") => tasks[tx[a].run].status = tx[a].seen
    /\ Changing(a, "locked") => tx[a].seen = flows[f]
    /\ Changing(a, "computed") =>
          tx[a].seen = Aggregate(Siblings(a), flows[f], HasManagedChildren(f))
Steady(a) == a \in Open => Solo(a) /\ Kept(a)

\* What the status of a task flow says of those of its tasks.
Tells(status, statuses) ==
    /\ status = "running" <=> "running" \in statuses
    /\ status = "waiting" <=> "waiting" \in statuses /\ "running" \notin statuses
    /\ status = "succeeded" <=> statuses = {"succeeded"}
    /\ status \in {"failed", "blocked"} <=> statuses = {"failed"}
StatusesOf(f) == {tasks[r].status : r \in TasksOf(f)}
Truthful(f) == f \notin overlapped /\ flows[f] # "cancelled" => Tells(flows[f], StatusesOf(f))

\* A canceller changes the tasks of the task flow it has marked, and of those
\* it was to end, none is active that it has not still to do.
Cancelling(c) ==
    /\ cancel[c].pc = "idle" => cancel[c].flow = 0 /\ c \notin Open
    /\ c \in Open => /\ cancel[c].pc = "looping"
                     /\ tx[c].op = "change" /\ tx[c].to = "cancelled"
                     /\ tx[c].flow = cancel[c].flow /\ tx[c].run \in cancel[c].todo
    /\ cancel[c].pc # "idle" =>
          \A r \in cancel[c].asked \cup cancel[c].todo : tasks[r].flow = cancel[c].flow
Reaching(c) == cancel[c].flow \notin overlapped =>
    /\ cancel[c].pc = "looping" =>
          \A r \in cancel[c].asked : tasks[r].status \in Ended \/ r \in cancel[c].todo
    /\ cancel[c].pc = "done" => \A r \in cancel[c].asked : tasks[r].status \in Ended

\* Each revision has its tasks, which are numbered from one on.
Founded(f) == TasksOf(f) # {}
Counted ==
    /\ \A r \in Runs : tasks[r] # NoTask =>
          tasks[r].seq \in 1..Cardinality(TasksOf(tasks[r].flow))
    /\ \A a \in Actors : tx[a].seq <= Cardinality(TasksOf(tx[a].flow)) + 1
    /\ overlapped \subseteq Revisions

Story ==
    /\ \A a \in Actors : Moving(a) /\ Steady(a)
    /\ \A f \in DOMAIN flows : Truthful(f) /\ Founded(f)
    /\ \A c \in Cancellers : Cancelling(c) /\ Reaching(c)
    /\ Counted

Telling == IInv /\ Story

\* The kinds of steps: at most one transaction begins, goes on, is dropped or
\* commits, and only a commit or a cancellation's mark writes rows.
Others(a) == \A b \in Actors \ {a} : tx'[b] = tx[b]
Rests     == UNCHANGED <<flows, tasks, tx, overlapped>>
Drops(a)  == Others(a) /\ tx'[a] = TxIdle /\ UNCHANGED <<flows, tasks, overlapped>>

BeginsLaunch(a) ==
    /\ a \in Runs
    /\ tx'[a].op \in {"join", "create"} /\ tx'[a].pc = "read"
    /\ tx'[a].op = "join" => flows[tx'[a].flow] \notin {"succeeded", "cancelled"}
BeginsChange(a) ==
    /\ a \in Runs /\ tx'[a].run = a
    /\ tx'[a].op = "change" /\ tx'[a].pc = "locked"
    /\ tasks[a].status \in Active /\ ~RunLocked(a)
    /\ tx'[a].flow = tasks[a].flow /\ tx'[a].seen = flows[tasks[a].flow]
BeginsCancel(a) ==
    /\ a \in Cancellers /\ cancel[a].pc = "looping" /\ cancel' = cancel
    /\ tx'[a].op = "change" /\ tx'[a].pc = "read" /\ tx'[a].to = "cancelled"
    /\ tx'[a].run \in cancel[a].todo /\ tx'[a].flow = cancel[a].flow
    /\ tx'[a].seen = tasks[tx'[a].run].status /\ tx'[a].seen \in Active
Begins(a) ==
    /\ Others(a) /\ UNCHANGED <<flows, tasks>>
    /\ tx[a].pc = "idle" /\ NoteOverlap(a, tx'[a].flow) /\ tx'[a].seq = 0
    /\ BeginsLaunch(a) \/ BeginsChange(a) \/ BeginsCancel(a)

Queues(a) ==
    /\ Launching(a, "read") /\ tx'[a].pc = "updated"
    /\ tx'[a].seq = NextSequence(tx[a].flow)
Locks(a) ==
    /\ Changing(a, "read") /\ tx'[a].pc = "locked" /\ ~RunLocked(tx[a].run)
    /\ tasks[tx[a].run].status = tx[a].seen
    /\ tx'[a].seq = tx[a].seq /\ tx'[a].seen = flows[tx[a].flow]
Sums(a) ==
    /\ Changing(a, "locked") /\ tx'[a].pc = "computed" /\ tx'[a].seq = tx[a].seq
    /\ tx'[a].seen = Aggregate(Siblings(a), tx[a].seen, HasManagedChildren(tx[a].flow))
Goes(a) ==
    /\ Others(a) /\ UNCHANGED <<flows, tasks, overlapped>>
    /\ tx'[a].op = tx[a].op /\ tx'[a].run = tx[a].run
    /\ tx'[a].flow = tx[a].flow /\ tx'[a].to = tx[a].to
    /\ Queues(a) \/ Locks(a) \/ Sums(a)

\* A commit writes one task of the task flow and its status.
CommitsLaunch(r) ==
    /\ Others(r) /\ tx'[r] = TxIdle /\ overlapped' = overlapped /\ cancel' = cancel
    /\ r \in Runs /\ Holds(r)
    /\ tx[r].op = "create" => flows' = Append(flows, "running")
    /\ tx[r].op = "join" => flows' = [flows EXCEPT ![tx[r].flow] = "running"]
    /\ tasks'[r] = [flow |-> tx[r].flow, seq |-> tx[r].seq, status |-> "running"]
    /\ \A q \in Runs \ {r} : tasks'[q] = tasks[q]
CommitsChange(a) ==
    /\ Others(a) /\ tx'[a] = TxIdle /\ overlapped' = overlapped
    /\ Changing(a, "computed")
    /\ flows' = [flows EXCEPT ![tx[a].flow] = tx[a].seen]
    /\ tasks'[tx[a].run].status = tx[a].to
    /\ tasks'[tx[a].run].flow = tasks[tx[a].run].flow
    /\ tasks'[tx[a].run].seq = tasks[tx[a].run].seq
    /\ \A q \in Runs \ {tx[a].run} : tasks'[q] = tasks[q]
Marks(c, f) ==
    /\ UNCHANGED <<tasks, tx>> /\ NoteOverlap(c, f) /\ cancel[c].pc = "idle"
    /\ flows' = [flows EXCEPT ![f] = "cancelled"]

LEMMA CommitKind ==
    ASSUME IInv, NEW a \in Actors, ChangeCommit(a)
    PROVE  CommitsChange(a)
  <1>0. /\ Domains /\ tx[a] \in Txs /\ TxRefs(a)
        /\ tasks \in [Runs -> {NoTask} \cup Numbered]
    BY DEF IInv, Domains, Refs
  <1> DEFINE k == [tasks[tx[a].run] EXCEPT !.status = tx[a].to]
  <1>1. /\ tx' = [tx EXCEPT ![a] = TxIdle] /\ overlapped' = overlapped
        /\ Changing(a, "computed")
        /\ flows' = [flows EXCEPT ![tx[a].flow] = tx[a].seen]
        /\ tasks' = [tasks EXCEPT ![tx[a].run] = k]
    BY DEF ChangeCommit, End
  <1>2. tx[a].run \in Runs /\ tasks[tx[a].run] \in Numbered
    BY <1>0, <1>1 DEF TxRefs, Changing
  <1>3. /\ k.status = tx[a].to /\ k.flow = tasks[tx[a].run].flow
        /\ k.seq = tasks[tx[a].run].seq
    BY <1>2 DEF Numbered
  <1> HIDE DEF k
  <1>4. /\ tasks'[tx[a].run] = k
        /\ \A q \in Runs \ {tx[a].run} : tasks'[q] = tasks[q]
    BY <1>0, <1>1, <1>2
  <1>5. tx'[a] = TxIdle /\ Others(a)
    BY <1>0, <1>1, Replaced DEF Others
  <1> QED  BY <1>1, <1>3, <1>4, <1>5 DEF CommitsChange

LEMMA StepKinds ==
    ASSUME IInv, [Next]_vars
    PROVE  \/ Rests
           \/ \E a \in Actors : Begins(a) \/ Goes(a) \/ Drops(a)
           \/ \E a \in Actors : CommitsLaunch(a) \/ CommitsChange(a)
           \/ \E c \in Cancellers, f \in DOMAIN flows : Marks(c, f)
  <1>0. /\ Domains /\ Refs /\ Runs \subseteq Actors /\ Cancellers \subseteq Actors
        /\ \A a \in Actors : tx[a] \in Txs /\ TxRefs(a)
        /\ tasks \in [Runs -> {NoTask} \cup Numbered] /\ flows \in Seq(Statuses)
    BY DEF IInv, Domains, Refs, Actors
  <1>1. CASE UNCHANGED vars
    BY <1>1 DEF Rests, vars
  <1>2. ASSUME NEW r \in Runs, Launch(r)
        PROVE  Begins(r)
    <2> DEFINE op == IF Latest > 0 /\ flows[Latest] \in Active THEN "join" ELSE "create"
               f  == IF op = "join" THEN Latest ELSE Latest + 1
    <2>1. /\ UNCHANGED <<flows, tasks>> /\ tx' = [tx EXCEPT ![r] = TxLaunch(op, r, f)]
          /\ NoteOverlap(r, f) /\ r \notin Open
      BY <1>2 DEF Launch, MayOpen
    <2>2. op \in {"join", "create"} /\ (op = "join" => flows[f] \notin {"succeeded", "cancelled"})
      BY DEF Active
    <2> HIDE DEF op, f
    <2>3. tx'[r] = TxLaunch(op, r, f) /\ Others(r)
      BY <1>0, <2>1, Replaced DEF Others
    <2>4. tx'[r].op = op /\ tx'[r].pc = "read" /\ tx'[r].flow = f /\ tx'[r].seq = 0
      BY <2>3 DEF TxLaunch, Tx
    <2>5. BeginsLaunch(r)
      BY <2>2, <2>4 DEF BeginsLaunch
    <2> QED  BY <1>0, <2>1, <2>3, <2>4, <2>5 DEF Begins, Open
  <1>3. ASSUME NEW r \in Runs, NEW f \in DOMAIN flows, LaunchInto(r, f)
        PROVE  Begins(r)
    <2>1. /\ UNCHANGED <<flows, tasks>> /\ tx' = [tx EXCEPT ![r] = TxLaunch("join", r, f)]
          /\ NoteOverlap(r, f) /\ r \notin Open /\ flows[f] \notin {"succeeded", "cancelled"}
      BY <1>3 DEF LaunchInto, MayOpen, Accepts
    <2>3. tx'[r] = TxLaunch("join", r, f) /\ Others(r)
      BY <1>0, <2>1, Replaced DEF Others
    <2>4. tx'[r].op = "join" /\ tx'[r].pc = "read" /\ tx'[r].flow = f /\ tx'[r].seq = 0
      BY <2>3 DEF TxLaunch, Tx
    <2>5. BeginsLaunch(r)
      BY <2>1, <2>4 DEF BeginsLaunch
    <2> QED  BY <1>0, <2>1, <2>3, <2>4, <2>5 DEF Begins, Open
  <1>4. ASSUME NEW r \in Runs, LaunchUpdate(r)
        PROVE  Goes(r) \/ Drops(r)
    <2> DEFINE t == [tx[r] EXCEPT !.pc = "updated", !.seq = NextSequence(tx[r].flow)]
    <2>1. /\ UNCHANGED <<flows, tasks, overlapped>> /\ Launching(r, "read")
          /\ tx' = [tx EXCEPT ![r] = t] \/ tx' = [tx EXCEPT ![r] = TxIdle]
      BY <1>4 DEF LaunchUpdate, End
    <2>2. /\ t.op = tx[r].op /\ t.run = tx[r].run /\ t.flow = tx[r].flow /\ t.to = tx[r].to
          /\ t.pc = "updated" /\ t.seq = NextSequence(tx[r].flow)
      BY <1>0 DEF Txs
    <2> HIDE DEF t
    <2>3. Others(r) /\ (tx'[r] = t \/ tx'[r] = TxIdle)
      BY <1>0, <2>1, Replaced DEF Others
    <2> QED  BY <2>1, <2>2, <2>3 DEF Goes, Queues, Drops
  <1>5. ASSUME NEW r \in Runs, LaunchCommit(r)
        PROVE  CommitsLaunch(r)
    <2> DEFINE k == [flow |-> tx[r].flow, seq |-> tx[r].seq, status |-> "running"]
    <2>1. /\ tasks' = [tasks EXCEPT ![r] = k] /\ tx' = [tx EXCEPT ![r] = TxIdle]
          /\ Holds(r) /\ UNCHANGED <<cancel, overlapped>>
          /\ tx[r].op = "create" => flows' = Append(flows, "running")
          /\ tx[r].op = "join" => flows' = [flows EXCEPT ![tx[r].flow] = "running"]
      BY <1>5 DEF LaunchCommit, End, Holds
    <2>2. tx'[r] = TxIdle /\ Others(r)
      BY <1>0, <2>1, Replaced DEF Others
    <2> HIDE DEF k
    <2>3. tasks'[r] = k /\ \A q \in Runs \ {r} : tasks'[q] = tasks[q]
      BY <1>0, <2>1
    <2> QED  BY <2>1, <2>2, <2>3 DEF CommitsLaunch, k
  <1>6. ASSUME NEW r \in Runs, NEW to \in Ran, ChangeBegin(r, to)
        PROVE  Begins(r)
    <2> DEFINE t == TxChange("locked", r, tasks[r].flow, to, flows[tasks[r].flow])
    <2>1. /\ UNCHANGED <<flows, tasks>> /\ tx' = [tx EXCEPT ![r] = t]
          /\ NoteOverlap(r, tasks[r].flow) /\ r \notin Open /\ ~RunLocked(r)
      BY <1>6 DEF ChangeBegin, MayOpen
    <2>2. tasks[r].status \in Active
      BY <1>6 DEF ChangeBegin, Moves, Active
    <2>3. tx'[r] = t /\ Others(r)
      BY <1>0, <2>1, Replaced DEF Others
    <2>4. /\ tx'[r].op = "change" /\ tx'[r].pc = "locked" /\ tx'[r].run = r /\ tx'[r].seq = 0
          /\ tx'[r].flow = tasks[r].flow /\ tx'[r].seen = flows[tasks[r].flow]
      BY <2>3 DEF TxChange, Tx
    <2> HIDE DEF t
    <2>5. BeginsChange(r)
      BY <2>1, <2>2, <2>4 DEF BeginsChange
    <2> QED  BY <1>0, <2>1, <2>3, <2>4, <2>5 DEF Begins, Open
  <1>7. ASSUME NEW r \in Runs, Abort(r)
        PROVE  Drops(r)
    <2>1. UNCHANGED <<flows, tasks, overlapped>> /\ tx' = [tx EXCEPT ![r] = TxIdle]
      BY <1>7 DEF Abort, End
    <2> QED  BY <1>0, <2>1, Replaced DEF Drops, Others
  <1>8. ASSUME NEW c \in Cancellers, NEW f \in DOMAIN flows, CancelMark(c, f)
        PROVE  Marks(c, f)
    BY <1>8 DEF CancelMark, Marks
  <1>9. ASSUME NEW c \in Cancellers, NEW r \in Runs, CancelRead(c, r)
        PROVE  Rests \/ Begins(c)
    <2> DEFINE t == TxChange("read", r, cancel[c].flow, "cancelled", tasks[r].status)
    <2>1. /\ UNCHANGED <<flows, tasks>> /\ cancel[c].pc = "looping" /\ tx[c].pc = "idle"
          /\ r \in cancel[c].todo
      BY <1>9 DEF CancelRead
    <2>2. CASE tasks[r].status \in Ended
      BY <1>9, <2>2 DEF CancelRead, Rests
    <2>3. CASE tasks[r].status \notin Ended
      <3>1. /\ tx' = [tx EXCEPT ![c] = t] /\ NoteOverlap(c, cancel[c].flow)
            /\ cancel' = cancel
        BY <1>9, <2>3 DEF CancelRead
      <3>2. tasks[r] # NoTask
        BY <1>0, <2>1 DEF Refs, CancelRefs
      <3>3. tasks[r].status \in Active
        BY <1>0, <2>3, <3>2 DEF Numbered, Ran
      <3>4. tx'[c] = t /\ Others(c)
        BY <1>0, <3>1, Replaced DEF Others
      <3>5. /\ tx'[c].op = "change" /\ tx'[c].pc = "read" /\ tx'[c].run = r /\ tx'[c].seq = 0
            /\ tx'[c].flow = cancel[c].flow /\ tx'[c].seen = tasks[r].status
            /\ tx'[c].to = "cancelled"
        BY <3>4 DEF TxChange, Tx
      <3> HIDE DEF t
      <3>6. BeginsCancel(c)
        BY <2>1, <3>1, <3>3, <3>5 DEF BeginsCancel
      <3> QED  BY <1>0, <2>1, <3>1, <3>4, <3>5, <3>6 DEF Begins
    <2> QED  BY <2>2, <2>3
  <1>10. ASSUME NEW c \in Cancellers, CancelLock(c)
         PROVE  Goes(c) \/ Drops(c)
    <2> DEFINE t == [tx[c] EXCEPT !.pc = "locked", !.seen = flows[tx[c].flow]]
    <2>1. /\ UNCHANGED <<flows, tasks, overlapped>> /\ Changing(c, "read")
          /\ ~RunLocked(tx[c].run)
          /\ \/ tx' = [tx EXCEPT ![c] = t] /\ tasks[tx[c].run].status = tx[c].seen
             \/ tx' = [tx EXCEPT ![c] = TxIdle]
      BY <1>10 DEF CancelLock, End
    <2>2. /\ t.op = tx[c].op /\ t.run = tx[c].run /\ t.flow = tx[c].flow /\ t.to = tx[c].to
          /\ t.pc = "locked" /\ t.seq = tx[c].seq /\ t.seen = flows[tx[c].flow]
      BY <1>0 DEF Txs
    <2> HIDE DEF t
    <2>3. /\ Others(c)
          /\ \/ tx'[c] = t /\ tasks[tx[c].run].status = tx[c].seen
             \/ tx'[c] = TxIdle
      BY <1>0, <2>1, Replaced DEF Others
    <2> QED  BY <2>1, <2>2, <2>3 DEF Goes, Locks, Drops
  <1>11. ASSUME NEW c \in Cancellers, CancelList(c) \/ CancelReturn(c)
         PROVE  Rests
    BY <1>11 DEF CancelList, CancelReturn, Rests
  <1>12. ASSUME NEW c \in Cancellers, CancelFails(c)
         PROVE  Drops(c)
    <2>1. UNCHANGED <<flows, tasks, overlapped>> /\ tx' = [tx EXCEPT ![c] = TxIdle]
      BY <1>12 DEF CancelFails, End
    <2> QED  BY <1>0, <2>1, Replaced DEF Drops, Others
  <1>13. ASSUME NEW a \in Actors, ChangeAggregate(a)
         PROVE  Goes(a)
    <2> DEFINE status == Aggregate(Siblings(a), tx[a].seen, HasManagedChildren(tx[a].flow))
               t == [tx[a] EXCEPT !.pc = "computed", !.seen = status]
    <2>1. /\ UNCHANGED <<flows, tasks, overlapped>> /\ tx' = [tx EXCEPT ![a] = t]
          /\ Changing(a, "locked")
      BY <1>13 DEF ChangeAggregate
    <2> HIDE DEF status
    <2>2. /\ t.op = tx[a].op /\ t.run = tx[a].run /\ t.flow = tx[a].flow /\ t.to = tx[a].to
          /\ t.pc = "computed" /\ t.seq = tx[a].seq /\ t.seen = status
      BY <1>0 DEF Txs
    <2> HIDE DEF t
    <2>3. Others(a) /\ tx'[a] = t
      BY <1>0, <2>1, Replaced DEF Others
    <2> QED  BY <2>1, <2>2, <2>3 DEF Goes, Sums, status
  <1>14. ASSUME NEW a \in Actors, ChangeCommit(a)
         PROVE  CommitsChange(a)
    BY <1>14, CommitKind
  <1> QED  BY <1>0, <1>1, <1>2, <1>3, <1>4, <1>5, <1>6, <1>7, <1>8, <1>9, <1>10, <1>11, <1>12,
              <1>13, <1>14 DEF Next, RunStep, CancelStep, Ran

\* A transaction goes on as it was when others leave its task alone and do
\* not lock its run.
LEMMA OldMoving ==
    ASSUME NEW a \in Actors, Moving(a), tx'[a] = tx[a],
           tx[a].op = "change" => tasks'[tx[a].run].flow = tasks[tx[a].run].flow,
           Grips(a) => tasks'[tx[a].run].status = tasks[tx[a].run].status,
           Grips(a) => \A b \in Actors \ {a} : Grips(b)' /\ tx'[b].run = tx[a].run
                           => Grips(b) /\ tx[b].run = tx[a].run
    PROVE  Moving(a)'
  <1>1. Shape(a)' /\ Aim(a)'
    BY DEF Moving, Shape, Aim, Changing
  <1>2. Grip(a)'
    BY DEF Moving, Grip, Grips
  <1> QED  BY <1>1, <1>2 DEF Moving

LEMMA IdleMoving ==
    ASSUME NEW a \in Actors, tx'[a] = TxIdle
    PROVE  Moving(a)' /\ ~Grips(a)'
  BY DEF Moving, Shape, Aim, Grip, Grips, Changing, TxIdle, Tx

LEMMA MovingStep ==
    ASSUME Telling, [Next]_vars
    PROVE  \A a \in Actors : Moving(a)'
  <1>0. /\ IInv /\ \A a \in Actors : Moving(a) /\ TxRefs(a)
        /\ \A c \in Cancellers : Cancelling(c)
    BY DEF Telling, Story, IInv, Refs
  <1>1. ASSUME UNCHANGED <<tasks, tx>>
        PROVE  \A a \in Actors : Moving(a)'
    BY <1>0, <1>1 DEF Moving, Shape, Aim, Grip, Grips, Changing
  <1>2. ASSUME NEW b \in Actors, Begins(b)
        PROVE  \A a \in Actors : Moving(a)'
    <2>1. Others(b) /\ tasks' = tasks /\ tx[b].pc = "idle" /\ tx'[b].seq = 0
      BY <1>2 DEF Begins
    <2>2. CASE BeginsLaunch(b)
      <3>1. Moving(b)' /\ ~Grips(b)'
        BY <2>1, <2>2 DEF BeginsLaunch, Moving, Shape, Aim, Grip, Grips, Changing
      <3> QED  BY <1>0, <2>1, <3>1, OldMoving DEF Others, Grips
    <2>3. CASE BeginsChange(b)
      <3>1. \A a \in Actors : Grips(a) => tx[a].run # b
        BY <2>3 DEF BeginsChange, RunLocked, Grips
      <3>2. \A a \in Actors \ {b} : ~(Grips(a)' /\ tx'[a].run = b)
        BY <2>1, <3>1 DEF Others, Grips
      <3>3. Shape(b)' /\ Aim(b)'
        BY <2>1, <2>3 DEF BeginsChange, Shape, Aim, Changing
      <3>4. Grip(b)'
        BY <2>1, <2>3, <3>2 DEF BeginsChange, Grip, Grips
      <3>5. ASSUME NEW a \in Actors \ {b}
            PROVE  Moving(a)'
        <4>1. Grips(a) => tx'[b].run # tx[a].run
          BY <2>3, <3>1 DEF BeginsChange
        <4> QED  BY <1>0, <2>1, <4>1, OldMoving DEF Others, Grips
      <3> QED  BY <3>3, <3>4, <3>5 DEF Moving
    <2>4. CASE BeginsCancel(b)
      <3>1. tx'[b].flow = tasks[tx'[b].run].flow
        BY <1>0, <2>4 DEF BeginsCancel, Cancelling
      <3>2. Moving(b)' /\ ~Grips(b)'
        BY <2>1, <2>4, <3>1 DEF BeginsCancel, Moving, Shape, Aim, Grip, Grips, Changing
      <3> QED  BY <1>0, <2>1, <3>2, OldMoving DEF Others, Grips
    <2> QED  BY <1>2, <2>2, <2>3, <2>4 DEF Begins
  <1>3. ASSUME NEW b \in Actors, Goes(b)
        PROVE  \A a \in Actors : Moving(a)'
    <2>1. /\ Others(b) /\ tasks' = tasks /\ tx'[b].op = tx[b].op /\ tx'[b].run = tx[b].run
          /\ tx'[b].flow = tx[b].flow /\ tx'[b].to = tx[b].to
      BY <1>3 DEF Goes
    <2>2. CASE Queues(b)
      <3>1. Moving(b)' /\ ~Grips(b)'
        BY <2>1, <2>2 DEF Queues, Launching, Moving, Shape, Aim, Grip, Grips, Changing
      <3> QED  BY <1>0, <2>1, <3>1, OldMoving DEF Others, Grips
    <2>3. CASE Locks(b)
      <3>1. \A a \in Actors : Grips(a) => tx[a].run # tx[b].run
        BY <2>3 DEF Locks, RunLocked, Grips
      <3>2. \A a \in Actors \ {b} : ~(Grips(a)' /\ tx'[a].run = tx[b].run)
        BY <2>1, <3>1 DEF Others, Grips
      <3>3. Shape(b)' /\ Aim(b)'
        BY <1>0, <2>1, <2>3 DEF Locks, Moving, Shape, Aim, Changing
      <3>4. tasks[tx[b].run].status \in Active
        BY <1>0, <2>3 DEF Locks, Moving, Aim
      <3>5. Grip(b)'
        BY <2>1, <2>3, <3>2, <3>4 DEF Grip, Grips
      <3>6. ASSUME NEW a \in Actors \ {b}
            PROVE  Moving(a)'
        <4>1. Grips(a) => tx'[b].run # tx[a].run
          BY <2>1, <3>1
        <4> QED  BY <1>0, <2>1, <4>1, OldMoving DEF Others, Grips
      <3> QED  BY <3>3, <3>5, <3>6 DEF Moving
    <2>4. CASE Sums(b)
      <3>1. Grips(b) /\ Moving(b)
        BY <1>0, <2>4 DEF Sums, Changing, Grips
      <3>2. Shape(b)' /\ Aim(b)'
        BY <2>1, <2>4, <3>1 DEF Sums, Moving, Shape, Aim, Changing
      <3>3. \A a \in Actors : Grips(a)' => Grips(a) /\ tx'[a].run = tx[a].run
        BY <2>1, <3>1 DEF Others, Grips
      <3>4. Grip(b)'
        BY <2>1, <3>1, <3>3 DEF Moving, Grip
      <3>5. ASSUME NEW a \in Actors \ {b}
            PROVE  Moving(a)'
        BY <1>0, <2>1, <3>3, OldMoving DEF Others
      <3> QED  BY <3>2, <3>4, <3>5 DEF Moving
    <2> QED  BY <1>3, <2>2, <2>3, <2>4 DEF Goes
  <1>4. ASSUME NEW b \in Actors, Drops(b)
        PROVE  \A a \in Actors : Moving(a)'
    <2>1. Others(b) /\ tx'[b] = TxIdle /\ tasks' = tasks
      BY <1>4 DEF Drops
    <2>2. Moving(b)' /\ ~Grips(b)'
      BY <2>1, IdleMoving
    <2> QED  BY <1>0, <2>1, <2>2, OldMoving DEF Others, Grips
  <1>5. ASSUME NEW b \in Actors, CommitsLaunch(b)
        PROVE  \A a \in Actors : Moving(a)'
    <2>1. /\ Others(b) /\ tx'[b] = TxIdle /\ tasks[b] = NoTask
          /\ \A q \in Runs \ {b} : tasks'[q] = tasks[q]
      BY <1>0, <1>5 DEF CommitsLaunch, Holds, Launching, TxRefs
    <2>2. Moving(b)' /\ ~Grips(b)'
      BY <2>1, IdleMoving
    <2>3. ASSUME NEW a \in Actors \ {b}
          PROVE  Moving(a)'
      <3>1. tx[a].op = "change" => tasks'[tx[a].run] = tasks[tx[a].run]
        BY <1>0, <2>1 DEF TxRefs
      <3>2. Grips(a) => tx[a].op = "change"
        BY <1>0 DEF Moving, Shape, Grips
      <3> QED  BY <1>0, <2>1, <2>2, <3>1, <3>2, OldMoving DEF Others, Grips
    <2> QED  BY <2>2, <2>3
  <1>6. ASSUME NEW b \in Actors, CommitsChange(b)
        PROVE  \A a \in Actors : Moving(a)'
    <2>1. /\ Others(b) /\ tx'[b] = TxIdle /\ Grips(b)
          /\ tasks'[tx[b].run].flow = tasks[tx[b].run].flow
          /\ \A q \in Runs \ {tx[b].run} : tasks'[q] = tasks[q]
      BY <1>6 DEF CommitsChange, Changing, Grips
    <2>2. Moving(b)' /\ ~Grips(b)'
      BY <2>1, IdleMoving
    <2>3. ASSUME NEW a \in Actors \ {b}
          PROVE  Moving(a)'
      <3>1. tx[a].op = "change" => tx[a].run \in Runs
        BY <1>0 DEF TxRefs
      <3>2. Grips(a) => tx[a].op = "change" /\ tx[a].run # tx[b].run
        BY <1>0, <2>1 DEF Moving, Shape, Grip, Grips
      <3>3. tx[a].op = "change" => tasks'[tx[a].run].flow = tasks[tx[a].run].flow
        BY <2>1, <3>1
      <3>4. Grips(a) => tasks'[tx[a].run].status = tasks[tx[a].run].status
        BY <2>1, <3>1, <3>2
      <3> QED  BY <1>0, <2>1, <2>2, <3>3, <3>4, OldMoving DEF Others, Grips
    <2> QED  BY <2>2, <2>3
  <1> QED  BY <1>0, <1>1, <1>2, <1>3, <1>4, <1>5, <1>6, StepKinds DEF Rests, Marks

\* The rows of a task flow that nobody writes.
Untouched(f) ==
    /\ flows'[f] = flows[f]
    /\ \A r \in Runs : tasks[r].flow = f \/ tasks'[r].flow = f => tasks'[r] = tasks[r]

LEMMA OverlapsGrow ==
    ASSUME IInv, [Next]_vars
    PROVE  overlapped \subseteq overlapped'
  BY StepKinds DEF Rests, Begins, NoteOverlap, Goes, Drops, CommitsLaunch, CommitsChange, Marks

\* A commit writes the rows of its task flow only.
LEMMA Elsewhere ==
    ASSUME Telling, NEW f \in DOMAIN flows, NEW b \in Actors,
           CommitsLaunch(b) \/ CommitsChange(b), tx[b].flow # f
    PROVE  Untouched(f)
  <1>0. /\ f \in 1..Len(flows) /\ Len(flows) \in Nat /\ flows \in Seq(Statuses)
        /\ Moving(b) /\ TxRefs(b)
    BY LengthIsNat DEF Telling, Story, IInv, Refs, Domains
  <1>1. CASE CommitsLaunch(b)
    <2>1. tx[b].op \in {"join", "create"} /\ tasks[b] = NoTask
      BY <1>0, <1>1 DEF CommitsLaunch, Holds, Launching, TxRefs
    <2>2. tx[b].op = "create" => flows'[f] = flows[f]
      <3>1. tx[b].op = "create" => flows' = Append(flows, "running")
        BY <1>1 DEF CommitsLaunch
      <3> QED  BY <1>0, <3>1
    <2>3. tx[b].op = "join" => flows'[f] = flows[f]
      <3>1. tx[b].op = "join" => flows' = [flows EXCEPT ![tx[b].flow] = "running"]
        BY <1>1 DEF CommitsLaunch
      <3> QED  BY <1>0, <3>1
    <2>4. tasks'[b].flow = tx[b].flow /\ \A q \in Runs \ {b} : tasks'[q] = tasks[q]
      BY <1>1 DEF CommitsLaunch
    <2>5. tasks[b].flow # f
      BY <1>0, <2>1 DEF NoTask
    <2> QED  BY <2>1, <2>2, <2>3, <2>4, <2>5 DEF Untouched
  <1>2. CASE CommitsChange(b)
    <2>1. tasks[tx[b].run].flow = tx[b].flow
      BY <1>0, <1>2 DEF CommitsChange, Changing, Moving, Aim
    <2>2. flows'[f] = flows[f]
      BY <1>0, <1>2 DEF CommitsChange
    <2>3. /\ tasks'[tx[b].run].flow = tx[b].flow
          /\ \A q \in Runs \ {tx[b].run} : tasks'[q] = tasks[q]
      BY <1>2, <2>1 DEF CommitsChange
    <2> QED  BY <2>1, <2>2, <2>3 DEF Untouched
  <1> QED  BY <1>1, <1>2

\* While a transaction on it is open, only another one's overlapping it writes
\* the rows of a task flow.
LEMMA OpenFrame ==
    ASSUME Telling, [Next]_vars, NEW a \in Actors, a \in Open, a \in Open',
           tx[a].flow \in DOMAIN flows, tx[a].flow \notin overlapped'
    PROVE  Untouched(tx[a].flow)
  <1> DEFINE f == tx[a].flow
  <1>0. /\ IInv /\ f \in DOMAIN flows /\ Cancellers \subseteq Actors
        /\ \A c \in Cancellers : Cancelling(c)
    BY DEF Telling, Story, Actors
  <1>1. \A b \in Open : tx[b].flow = f => a = b
    BY OverlapsGrow DEF Telling, Story, Steady, Solo
  <1> HIDE DEF f
  <1>2. ASSUME NEW b \in Actors, CommitsLaunch(b) \/ CommitsChange(b)
        PROVE  Untouched(f)
    <2>1. /\ tx[b].pc # "idle" /\ tx'[b].pc = "idle"
      BY <1>2 DEF CommitsLaunch, Holds, Launching, CommitsChange, Changing, TxIdle, Tx
    <2>2. tx[b].flow # f
      BY <1>1, <2>1 DEF Open
    <2> QED  BY <1>0, <1>2, <2>2, Elsewhere
  <1>3. ASSUME NEW c \in Cancellers, NEW g \in DOMAIN flows, Marks(c, g)
        PROVE  Untouched(f)
    <2>1. a # c
      BY <1>0, <1>3 DEF Marks, Cancelling
    <2>2. g # f
      BY <1>3, <2>1 DEF Marks, NoteOverlap, f
    <2> QED  BY <1>0, <1>3, <2>2 DEF Marks, Untouched
  <1>4. ASSUME NEW b \in Actors, Rests \/ Begins(b) \/ Goes(b) \/ Drops(b)
        PROVE  Untouched(f)
    <2>1. flows' = flows /\ tasks' = tasks
      BY <1>4 DEF Rests, Begins, Goes, Drops
    <2> QED  BY <2>1 DEF Untouched
  <1>5. Untouched(f)
    BY <1>0, <1>2, <1>3, <1>4, StepKinds
  <1> QED  BY <1>5 DEF f

\* What the rows of a task flow determine.
LEMMA UntouchedSame ==
    ASSUME NEW f, Untouched(f)
    PROVE  /\ TasksOf(f)' = TasksOf(f) /\ StatusesOf(f)' = StatusesOf(f)
           /\ HasManagedChildren(f)' = HasManagedChildren(f)
  <1>1. TasksOf(f)' = TasksOf(f) /\ \A r \in TasksOf(f) : tasks'[r] = tasks[r]
    BY DEF Untouched, TasksOf
  <1> QED  BY <1>1 DEF StatusesOf, HasManagedChildren

\* What a transaction has read stays so while it rests.
LEMMA KeptOpen ==
    ASSUME Telling, [Next]_vars, NEW a \in Actors, a \in Open, tx'[a] = tx[a],
           tx[a].flow \notin overlapped'
    PROVE  Kept(a)'
  <1>1. /\ Kept(a) /\ TxRefs(a) /\ Moving(a) /\ tx[a].flow \notin overlapped
        /\ Len(flows) \in Nat /\ DOMAIN flows = 1..Len(flows)
    BY OverlapsGrow, LengthIsNat DEF Telling, Story, Steady, IInv, Refs, Domains
  <1>2. CASE tx[a].op = "create"
    BY <1>2 DEF Kept, Changing
  <1>3. CASE tx[a].op = "none"
    BY <1>3 DEF Kept, Changing
  <1>4. CASE tx[a].op \in {"join", "change"}
    <2>1. tx[a].flow \in DOMAIN flows
      BY <1>1, <1>4 DEF TxRefs, Exists
    <2>2. PICK f : f = tx[a].flow
      OBVIOUS
    <2>3. Untouched(f)
      BY <2>1, <2>2, OpenFrame DEF Open
    <2>4. /\ TasksOf(f)' = TasksOf(f)
          /\ HasManagedChildren(f)' = HasManagedChildren(f)
      BY <2>3, UntouchedSame
    <2>5. flows'[f] = flows[f] /\ \A r \in TasksOf(f) : tasks'[r] = tasks[r]
      BY <2>3 DEF Untouched, TasksOf
    <2>6. Siblings(a)' = Siblings(a)
      BY <2>2, <2>4, <2>5 DEF Siblings
    <2>7. tx[a].op = "change" => tasks'[tx[a].run] = tasks[tx[a].run]
      BY <1>1, <2>2, <2>5 DEF Moving, Aim, TxRefs, TasksOf
    <2>8. tx'[a].flow = f /\ HasManagedChildren(tx[a].flow)' = HasManagedChildren(tx[a].flow)
      <3>1. tx'[a].flow = f
        BY <2>2
      <3>2. TasksOf(tx[a].flow)' = TasksOf(f)'
        BY <3>1 DEF TasksOf
      <3>3. HasManagedChildren(tx[a].flow)' = HasManagedChildren(f)'
        BY <3>2 DEF HasManagedChildren
      <3> QED  BY <2>2, <2>4, <3>1, <3>3
    <2> QED  BY <1>1, <2>2, <2>4, <2>5, <2>6, <2>7, <2>8 DEF Kept, Changing
  <1>5. tx[a].op \in Kinds
    BY DEF Telling, IInv, Domains, Txs
  <1> QED  BY <1>2, <1>3, <1>4, <1>5 DEF Kinds

\* Two transactions open on a task flow have overlapped.
LEMMA SoloStep ==
    ASSUME Telling, [Next]_vars, NEW a \in Actors, a \in Open'
    PROVE  Solo(a)'
  <1>0. /\ IInv /\ \A x \in Open : Solo(x)
        /\ overlapped \subseteq overlapped'
    BY OverlapsGrow DEF Telling, Story, Steady, Open
  <1>1. ASSUME NEW x \in Actors, NEW y \in Actors, x \in Open, y \in Open,
               tx'[x].flow = tx[x].flow, tx'[y].flow = tx[y].flow,
               tx'[x].flow = tx'[y].flow, tx'[x].flow \notin overlapped'
        PROVE  x = y
    BY <1>0, <1>1 DEF Solo
  <1>2. ASSUME NEW x \in Actors, Begins(x), NEW y \in Actors \ {x}, y \in Open'
        PROVE  tx'[x].flow = tx'[y].flow => tx'[x].flow \in overlapped'
    BY <1>2 DEF Begins, Others, NoteOverlap, Open
  <1>3. ASSUME \A y \in Actors : y \in Open' => y \in Open /\ tx'[y].flow = tx[y].flow
        PROVE  Solo(a)'
    BY <1>1, <1>3 DEF Solo, Open
  <1>4. ASSUME NEW x \in Actors, Begins(x)
        PROVE  Solo(a)'
    <2>1. \A y \in Actors \ {x} : y \in Open' => y \in Open /\ tx'[y].flow = tx[y].flow
      BY <1>4 DEF Begins, Others, Open
    <2>2. ASSUME NEW y \in Actors, y \in Open', tx'[a].flow = tx'[y].flow,
                 tx'[a].flow \notin overlapped'
          PROVE  a = y
      <3>1. CASE a # x /\ y # x
        BY <1>1, <2>1, <2>2, <3>1
      <3>2. CASE a = x \/ y = x
        BY <1>2, <1>4, <2>2, <3>2
      <3> QED  BY <3>1, <3>2
    <2> QED  BY <2>2 DEF Solo, Open
  <1>5. ASSUME NEW x \in Actors, Goes(x)
        PROVE  Solo(a)'
    <2>1. tx[x].pc # "idle" /\ tx'[x].flow = tx[x].flow /\ Others(x)
      BY <1>5 DEF Goes, Queues, Launching, Locks, Sums, Changing
    <2> QED  BY <1>3, <2>1 DEF Others, Open
  <1>6. ASSUME NEW x \in Actors, Others(x), tx'[x] = TxIdle
        PROVE  Solo(a)'
    <2>1. x \notin Open'
      BY <1>6 DEF Open, TxIdle, Tx
    <2> QED  BY <1>3, <1>6, <2>1 DEF Others, Open
  <1>7. ASSUME tx' = tx
        PROVE  Solo(a)'
    BY <1>3, <1>7 DEF Open
  <1> QED  BY <1>0, <1>4, <1>5, <1>6, <1>7, StepKinds
           DEF Rests, Drops, CommitsLaunch, CommitsChange, Marks

\* What a transaction has just read is so.
LEMMA KeptStep ==
    ASSUME Telling, [Next]_vars, NEW a \in Actors, a \in Open'
    PROVE  Kept(a)'
  <1>0. /\ IInv /\ \A x \in Open : Kept(x)
        /\ overlapped \subseteq overlapped'
    BY OverlapsGrow DEF Telling, Story, Steady, Open
  <1>1. CASE a \in Open /\ tx'[a] = tx[a]
    BY <1>1, KeptOpen DEF Kept
  <1>2. CASE Begins(a)
    <2>1. flows' = flows /\ tasks' = tasks
      BY <1>2 DEF Begins
    <2>2. CASE BeginsLaunch(a)
      BY <2>1, <2>2 DEF BeginsLaunch, Kept, Changing
    <2>3. CASE BeginsChange(a)
      BY <2>1, <2>3 DEF BeginsChange, Kept, Changing
    <2>4. CASE BeginsCancel(a)
      BY <2>1, <2>4 DEF BeginsCancel, Kept, Changing
    <2> QED  BY <1>2, <2>2, <2>3, <2>4 DEF Begins
  <1>3. CASE Goes(a)
    <2>1. /\ flows' = flows /\ tasks' = tasks /\ tx'[a].op = tx[a].op /\ tx'[a].run = tx[a].run
          /\ tx'[a].flow = tx[a].flow /\ tx'[a].to = tx[a].to /\ overlapped' = overlapped
      BY <1>3 DEF Goes
    <2>2. CASE Queues(a)
      <3>1. Kept(a)
        BY <1>0, <2>2 DEF Queues, Launching, Open
      <3> QED  BY <2>1, <2>2, <3>1 DEF Queues, Launching, Kept, Changing
    <2>3. CASE Locks(a)
      BY <2>1, <2>3 DEF Locks, Kept, Changing
    <2>4. CASE Sums(a)
      <3>1. tx[a].flow \notin overlapped => tx[a].seen = flows[tx[a].flow]
        BY <1>0, <2>4 DEF Sums, Changing, Kept, Open
      <3>2. /\ tx'[a].pc = "computed" /\ tx'[a].op = "change"
            /\ tx'[a].seen = Aggregate(Siblings(a), tx[a].seen, HasManagedChildren(tx[a].flow))
        BY <2>1, <2>4 DEF Sums, Changing
      <3>3. Siblings(a)' = Siblings(a)
        BY <2>1 DEF Siblings, TasksOf
      <3>4. TasksOf(tx[a].flow)' = TasksOf(tx[a].flow)
        BY <2>1 DEF TasksOf
      <3>5. HasManagedChildren(tx[a].flow)' = HasManagedChildren(tx[a].flow)
        BY <3>4 DEF HasManagedChildren
      <3> QED  BY <2>1, <3>1, <3>2, <3>3, <3>5 DEF Kept, Changing
    <2> QED  BY <1>3, <2>2, <2>3, <2>4 DEF Goes
  <1>4. CASE a \in Open /\ tx'[a] = TxIdle
    BY <1>4 DEF Open, TxIdle, Tx
  <1>5. ASSUME NEW x \in Actors, Others(x), tx'[x] = TxIdle
        PROVE  Kept(a)'
    <2>1. x # a
      BY <1>5 DEF Open, TxIdle, Tx
    <2> QED  BY <1>1, <1>5, <2>1 DEF Others, Open
  <1>6. ASSUME NEW x \in Actors, Begins(x) \/ Goes(x)
        PROVE  Kept(a)'
    <2>1. CASE x = a
      BY <1>2, <1>3, <1>6, <2>1
    <2>2. CASE x # a
      <3>1. tx'[a] = tx[a]
        BY <1>6, <2>2 DEF Begins, Goes, Others
      <3> QED  BY <1>1, <3>1 DEF Open
    <2> QED  BY <2>1, <2>2
  <1>7. ASSUME tx' = tx
        PROVE  Kept(a)'
    BY <1>1, <1>7 DEF Open
  <1> QED  BY <1>0, <1>5, <1>6, <1>7, StepKinds
           DEF Rests, Drops, CommitsLaunch, CommitsChange, Marks

\* aggregateAutomationFlowStatus tells what the statuses say, unless it says
\* that the task flow is cancelled.
LEMMA AggregateTells ==
    ASSUME NEW S \in SUBSET Ran, S # {}, NEW current, NEW managed,
           Aggregate(S, current, managed) # "cancelled"
    PROVE  Tells(Aggregate(S, current, managed), S)
  <1>1. CASE "running" \in S
    <2>1. Aggregate(S, current, managed) = "running"
      BY <1>1 DEF Aggregate, Active
    <2>2. S # {"succeeded"} /\ S # {"failed"}
      BY <1>1
    <2> QED  BY <1>1, <2>1, <2>2 DEF Tells
  <1>2. CASE "running" \notin S /\ "waiting" \in S
    <2>1. Aggregate(S, current, managed) = "waiting"
      BY <1>2 DEF Aggregate, Active
    <2>2. S # {"succeeded"} /\ S # {"failed"}
      BY <1>2
    <2> QED  BY <1>2, <2>1, <2>2 DEF Tells
  <1>3. CASE S \cap Active = {}
    <2>1. /\ "running" \notin S /\ "waiting" \notin S
          /\ S \subseteq {"succeeded", "failed", "cancelled"}
      BY <1>3 DEF Ran, Active, Ended
    <2> DEFINE v == Aggregate(S, current, managed)
    <2>2. CASE "failed" \in S
      <3>1. S # {"succeeded"}
        BY <2>2
      <3>2. v \in {"partial", "blocked", "failed"} /\ (v = "partial" <=> S # {"failed"})
        BY <1>3, <2>1, <2>2 DEF Aggregate
      <3> QED  BY <2>1, <3>1, <3>2 DEF Tells
    <2>3. CASE "failed" \notin S
      <3>1. v = "succeeded" /\ "cancelled" \notin S
        BY <1>3, <2>1, <2>3 DEF Aggregate
      <3>2. S = {"succeeded"} /\ S # {"failed"}
        BY <2>1, <2>3, <3>1
      <3> QED  BY <2>1, <3>1, <3>2 DEF Tells
    <2> QED  BY <2>2, <2>3
  <1> QED  BY <1>1, <1>2, <1>3 DEF Active

\* A task stays in its task flow, and as it ended.
LEMMA TasksStay ==
    ASSUME Telling, [Next]_vars, NEW r \in Runs, tasks[r] # NoTask
    PROVE  /\ tasks'[r].flow = tasks[r].flow /\ tasks'[r].seq = tasks[r].seq
           /\ tasks[r].status \in Ended => tasks'[r].status = tasks[r].status
  <1>0. IInv /\ \A a \in Actors : TxRefs(a) /\ Moving(a)
    BY DEF Telling, Story, IInv, Refs
  <1>1. ASSUME NEW b \in Actors, CommitsLaunch(b)
        PROVE  tasks'[r] = tasks[r]
    BY <1>0, <1>1 DEF CommitsLaunch, Holds, Launching, TxRefs
  <1>2. ASSUME NEW b \in Actors, CommitsChange(b), r = tx[b].run
        PROVE  tasks'[r].flow = tasks[r].flow /\ tasks'[r].seq = tasks[r].seq
               /\ tasks[r].status \notin Ended
    BY <1>0, <1>2 DEF CommitsChange, Changing, Moving, Grip, Grips, Active, Ended
  <1>3. ASSUME NEW b \in Actors, CommitsChange(b), r # tx[b].run
        PROVE  tasks'[r] = tasks[r]
    BY <1>3 DEF CommitsChange
  <1>4. ASSUME NEW b \in Actors, Begins(b) \/ Goes(b) \/ Drops(b)
        PROVE  tasks' = tasks
    BY <1>4 DEF Begins, Goes, Drops
  <1> QED  BY <1>0, <1>1, <1>2, <1>3, <1>4, StepKinds DEF Rests, Marks

\* Every commit is of a task flow that exists by then.
LEMMA CommitFlow ==
    ASSUME Telling, NEW b \in Actors, CommitsLaunch(b) \/ CommitsChange(b)
    PROVE  /\ tx[b].flow \in DOMAIN flows' /\ tx[b].flow # 0
           /\ \A f \in DOMAIN flows' : f # tx[b].flow => f \in DOMAIN flows
           /\ CommitsLaunch(b) => flows'[tx[b].flow] = "running"
           /\ CommitsChange(b) => flows'[tx[b].flow] = tx[b].seen /\ Grips(b)
           /\ b \in Open
  <1>0. /\ flows \in Seq(Statuses) /\ Len(flows) \in Nat /\ DOMAIN flows = 1..Len(flows)
        /\ TxRefs(b) /\ LockHeld
    BY LengthIsNat DEF Telling, Story, IInv, Refs, Domains
  <1>1. CASE CommitsLaunch(b)
    <2>1. /\ tx[b].op \in {"join", "create"} /\ tx[b].pc = "updated" /\ Holds(b)
      BY <1>1 DEF CommitsLaunch, Holds, Launching
    <2>2. CASE tx[b].op = "create"
      <3>1. tx[b].flow = Len(flows) + 1 /\ flows' = Append(flows, "running")
        BY <1>0, <1>1, <2>1, <2>2 DEF LockHeld, CommitsLaunch
      <3>2. /\ DOMAIN flows' = 1..(Len(flows) + 1) /\ flows'[Len(flows) + 1] = "running"
        BY <1>0, <3>1
      <3> QED  BY <1>0, <1>1, <2>1, <3>1, <3>2 DEF Open, CommitsChange, Changing
    <2>3. CASE tx[b].op = "join"
      <3>1. flows' = [flows EXCEPT ![tx[b].flow] = "running"] /\ tx[b].flow \in 1..Len(flows)
        BY <1>0, <1>1, <2>3 DEF CommitsLaunch, TxRefs, Exists
      <3>2. DOMAIN flows' = DOMAIN flows /\ flows'[tx[b].flow] = "running"
        BY <1>0, <3>1
      <3> QED  BY <1>0, <1>1, <2>1, <3>1, <3>2 DEF Open, CommitsChange, Changing
    <2> QED  BY <2>1, <2>2, <2>3
  <1>2. CASE CommitsChange(b)
    <2>1. /\ flows' = [flows EXCEPT ![tx[b].flow] = tx[b].seen] /\ tx[b].flow \in 1..Len(flows)
          /\ Grips(b) /\ b \in Open /\ ~Holds(b)
      BY <1>0, <1>2 DEF CommitsChange, Changing, TxRefs, Exists, Grips, Open, Holds, Launching
    <2>3. ~CommitsLaunch(b)
      BY <2>1 DEF CommitsLaunch
    <2>2. DOMAIN flows' = DOMAIN flows /\ flows'[tx[b].flow] = tx[b].seen
      BY <1>0, <2>1
    <2> QED  BY <1>0, <2>1, <2>2, <2>3
  <1> QED  BY <1>1, <1>2

\* The tasks that a commit leaves a task flow with.
LEMMA CommitTasks ==
    ASSUME Telling, NEW b \in Actors, CommitsLaunch(b) \/ CommitsChange(b),
           NEW g, g = tx[b].flow
    PROVE  /\ CommitsLaunch(b) => TasksOf(g)' = TasksOf(g) \cup {b} /\ b \in Runs \ TasksOf(g)
           /\ CommitsLaunch(b) => "running" \in StatusesOf(g)'
           /\ CommitsChange(b) => TasksOf(g)' = TasksOf(g) /\ StatusesOf(g)' = Siblings(b)
           /\ CommitsChange(b) => Siblings(b) # {} /\ Siblings(b) \subseteq Ran
  <1>0. /\ TxRefs(b) /\ Moving(b) /\ g # 0 /\ tasks \in [Runs -> {NoTask} \cup Numbered]
    BY CommitFlow DEF Telling, Story, IInv, Refs, Domains
  <1>1. g = tx[b].flow
    OBVIOUS
  <1>2. CASE CommitsLaunch(b)
    <2>1. /\ b \in Runs /\ tasks[b].flow # g
          /\ tasks'[b].flow = g /\ tasks'[b].status = "running"
          /\ \A q \in Runs \ {b} : tasks'[q] = tasks[q]
      BY <1>0, <1>1, <1>2 DEF CommitsLaunch, Holds, Launching, TxRefs, NoTask
    <2>2. TasksOf(g)' = TasksOf(g) \cup {b} /\ b \notin TasksOf(g)
      BY <2>1 DEF TasksOf
    <2>3. "running" \in StatusesOf(g)'
      BY <2>1, <2>2 DEF StatusesOf
    <2>4. ~CommitsChange(b)
      BY <1>2 DEF CommitsLaunch, Holds, Launching, CommitsChange, Changing
    <2> QED  BY <1>1, <2>1, <2>2, <2>3, <2>4
  <1>3. CASE CommitsChange(b)
    <2>1. /\ tx[b].run \in Runs /\ tasks[tx[b].run].flow = g /\ tx[b].to \in Ran
          /\ tasks'[tx[b].run].flow = g /\ tasks'[tx[b].run].status = tx[b].to
          /\ \A q \in Runs \ {tx[b].run} : tasks'[q] = tasks[q]
      BY <1>0, <1>1, <1>3 DEF CommitsChange, Changing, Moving, Aim, TxRefs
    <2>2. TasksOf(g)' = TasksOf(g) /\ tx[b].run \in TasksOf(g)
      BY <2>1 DEF TasksOf
    <2>3. \A q \in TasksOf(g) : tasks'[q].status = IF q = tx[b].run THEN tx[b].to ELSE tasks[q].status
      BY <2>1 DEF TasksOf
    <2>4. StatusesOf(g)' = Siblings(b)
      BY <1>1, <2>2, <2>3 DEF StatusesOf, Siblings
    <2>5. \A q \in TasksOf(g) : tasks[q].status \in Ran
      BY <1>0, <1>1 DEF TasksOf, Numbered, NoTask
    <2>6. Siblings(b) # {} /\ Siblings(b) \subseteq Ran
      BY <1>1, <2>1, <2>2, <2>5 DEF Siblings
    <2>7. ~CommitsLaunch(b)
      BY <1>3 DEF CommitsLaunch, Holds, Launching, CommitsChange, Changing
    <2> QED  BY <1>1, <2>2, <2>4, <2>6, <2>7
  <1> QED  BY <1>2, <1>3

LEMMA TruthStep ==
    ASSUME Telling, [Next]_vars, NEW f \in DOMAIN flows'
    PROVE  Truthful(f)' /\ Founded(f)'
  <1>0. /\ IInv /\ \A g \in DOMAIN flows : Truthful(g) /\ Founded(g)
        /\ overlapped \subseteq overlapped' /\ \A a \in Open : Kept(a)
    BY OverlapsGrow DEF Telling, Story, Steady, Open
  <1>1. ASSUME f \in DOMAIN flows, Untouched(f)
        PROVE  Truthful(f)' /\ Founded(f)'
    <2>1. TasksOf(f)' = TasksOf(f) /\ StatusesOf(f)' = StatusesOf(f) /\ flows'[f] = flows[f]
      BY <1>1, UntouchedSame DEF Untouched
    <2> QED  BY <1>0, <1>1, <2>1 DEF Truthful, Founded
  <1>2. ASSUME flows' = flows, tasks' = tasks
        PROVE  Truthful(f)' /\ Founded(f)'
    BY <1>1, <1>2 DEF Untouched
  <1>3. ASSUME NEW b \in Actors, CommitsLaunch(b) \/ CommitsChange(b)
        PROVE  Truthful(f)' /\ Founded(f)'
    <2>1. CASE tx[b].flow # f
      <3>1. f \in DOMAIN flows
        BY <1>3, <2>1, CommitFlow
      <3> QED  BY <1>1, <1>3, <2>1, <3>1, Elsewhere
    <2>2. CASE tx[b].flow = f /\ CommitsLaunch(b)
      <3>1. /\ flows'[f] = "running" /\ "running" \in StatusesOf(f)'
            /\ TasksOf(f)' = TasksOf(f) \cup {b}
        BY <2>2, CommitFlow, CommitTasks
      <3>2. Founded(f)'
        BY <3>1 DEF Founded
      <3>3. StatusesOf(f)' # {"succeeded"} /\ StatusesOf(f)' # {"failed"}
        BY <3>1
      <3>4. Tells(flows'[f], StatusesOf(f)')
        BY <3>1, <3>3 DEF Tells
      <3> QED  BY <3>2, <3>4 DEF Truthful, Tells
    <2>3. CASE tx[b].flow = f /\ CommitsChange(b)
      <3>1. /\ flows'[f] = tx[b].seen /\ StatusesOf(f)' = Siblings(b) /\ TasksOf(f)' = TasksOf(f)
            /\ Siblings(b) # {} /\ Siblings(b) \in SUBSET Ran /\ b \in Open
        BY <2>3, CommitFlow, CommitTasks
      <3>2. f \in DOMAIN flows
        BY <1>0, <2>3 DEF IInv, Refs, TxRefs, CommitsChange, Changing, Exists, Domains
      <3>3. f \notin overlapped' =>
               tx[b].seen = Aggregate(Siblings(b), flows[f], HasManagedChildren(f))
        BY <1>0, <2>3, <3>1 DEF Kept, CommitsChange
      <3>4. f \notin overlapped' /\ tx[b].seen # "cancelled" => Tells(tx[b].seen, Siblings(b))
        BY <3>1, <3>3, AggregateTells
      <3>5. Truthful(f)'
        BY <3>1, <3>4 DEF Truthful, Tells
      <3>6. Founded(f)'
        BY <1>0, <3>1, <3>2 DEF Founded
      <3> QED  BY <3>5, <3>6
    <2> QED  BY <1>3, <2>1, <2>2, <2>3
  <1>4. ASSUME NEW c \in Cancellers, NEW g \in DOMAIN flows, Marks(c, g)
        PROVE  Truthful(f)' /\ Founded(f)'
    <2>1. /\ flows' = [flows EXCEPT ![g] = "cancelled"] /\ tasks' = tasks
          /\ flows \in Seq(Statuses)
      BY <1>0, <1>4 DEF Marks, IInv, Domains
    <2>2. f \in DOMAIN flows
      BY <2>1
    <2>3. CASE f = g
      <3>1. flows'[f] = "cancelled"
        BY <2>1, <2>2, <2>3
      <3>2. TasksOf(f)' = TasksOf(f)
        BY <2>1 DEF TasksOf
      <3> QED  BY <1>0, <2>2, <3>1, <3>2 DEF Truthful, Founded
    <2>4. CASE f # g
      BY <1>1, <2>1, <2>2, <2>4 DEF Untouched
    <2> QED  BY <2>3, <2>4
  <1>5. ASSUME NEW b \in Actors, Begins(b) \/ Goes(b) \/ Drops(b)
        PROVE  flows' = flows /\ tasks' = tasks
    BY <1>5 DEF Begins, Goes, Drops
  <1> QED  BY <1>0, <1>2, <1>3, <1>4, <1>5, StepKinds DEF Rests

-----------------------------------------------------------------------------
(* Cancellations.                                                          *)

\* Who is cancelling does only that.
LEMMA CancellerTx ==
    ASSUME Telling, [Next]_vars, NEW c \in Cancellers, c \in Open', c \notin Open
    PROVE  BeginsCancel(c)
  <1>0. c \in Actors /\ c \notin Runs
    BY ActorsAssumption DEF Actors
  <1>1. ASSUME NEW a \in Actors, Begins(a), a = c
        PROVE  BeginsCancel(c)
    BY <1>0, <1>1 DEF Begins, BeginsLaunch, BeginsChange
  <1>2. ASSUME NEW a \in Actors, Others(a), a # c
        PROVE  FALSE
    BY <1>0, <1>2 DEF Others, Open
  <1>3. ASSUME NEW a \in Actors, tx[a].pc # "idle", a = c
        PROVE  FALSE
    BY <1>3 DEF Open
  <1>4. ASSUME NEW a \in Actors, tx'[a] = TxIdle, a = c
        PROVE  FALSE
    BY <1>4 DEF Open, TxIdle, Tx
  <1>5. ASSUME tx' = tx
        PROVE  FALSE
    BY <1>5 DEF Open
  <1>6. ASSUME NEW a \in Actors, Goes(a)
        PROVE  Others(a) /\ tx[a].pc # "idle"
    BY <1>6 DEF Goes, Queues, Launching, Locks, Sums, Changing
  <1>7. ASSUME NEW a \in Actors, Begins(a)
        PROVE  Others(a)
    BY <1>7 DEF Begins
  <1>8. ASSUME NEW a \in Actors, Drops(a) \/ CommitsLaunch(a) \/ CommitsChange(a)
        PROVE  Others(a) /\ tx'[a] = TxIdle
    BY <1>8 DEF Drops, CommitsLaunch, CommitsChange
  <1>9. IInv
    BY DEF Telling
  <1> QED  BY <1>1, <1>2, <1>3, <1>4, <1>5, <1>6, <1>7, <1>8, <1>9, StepKinds DEF Rests, Marks

LEMMA CancellerGoesOn ==
    ASSUME Telling, [Next]_vars, NEW c \in Cancellers, c \in Open', c \in Open
    PROVE  /\ tx'[c].op = tx[c].op /\ tx'[c].to = tx[c].to
           /\ tx'[c].flow = tx[c].flow /\ tx'[c].run = tx[c].run
  <1>0. c \in Actors /\ IInv
    BY DEF Actors, Telling
  <1>1. ASSUME tx' = tx
        PROVE  tx'[c] = tx[c]
    BY <1>1
  <1>2. ASSUME NEW a \in Actors, Begins(a)
        PROVE  tx'[c] = tx[c]
    BY <1>0, <1>2 DEF Begins, Others, Open
  <1>3. ASSUME NEW a \in Actors, Drops(a) \/ CommitsLaunch(a) \/ CommitsChange(a)
        PROVE  tx'[c] = tx[c]
    BY <1>0, <1>3 DEF Drops, CommitsLaunch, CommitsChange, Others, Open, TxIdle, Tx
  <1>4. ASSUME NEW a \in Actors, Goes(a)
        PROVE  /\ tx'[c].op = tx[c].op /\ tx'[c].to = tx[c].to
               /\ tx'[c].flow = tx[c].flow /\ tx'[c].run = tx[c].run
    BY <1>0, <1>4 DEF Goes, Others
  <1> QED  BY <1>0, <1>1, <1>2, <1>3, <1>4, StepKinds DEF Rests, Marks

\* What happens to a cancellation.
LEMMA CancelKinds ==
    ASSUME IInv, [Next]_vars, NEW c \in Cancellers
    PROVE  \/ cancel'[c] = cancel[c]
           \/ \E f \in DOMAIN flows : CancelMark(c, f)
           \/ CancelList(c) \/ (\E r \in Runs : CancelRead(c, r))
           \/ CancelLock(c) \/ CancelReturn(c) \/ CancelFails(c) \/ ChangeCommit(c)
  <1>1. cancel \in [Cancellers -> Cancels]
    BY DEF IInv, Domains
  <1>2. ASSUME NEW d \in Cancellers, CancelStep(d), d # c
        PROVE  cancel'[c] = cancel[c]
    BY <1>1, <1>2 DEF CancelStep, CancelMark, CancelList, CancelRead, CancelLock, CancelReturn,
                      CancelFails
  <1>3. ASSUME NEW r \in Runs, RunStep(r)
        PROVE  cancel' = cancel
    BY <1>3 DEF RunStep, Launch, LaunchInto, LaunchUpdate, LaunchCommit, ChangeBegin, Abort
  <1>4. ASSUME NEW a \in Actors, ChangeAggregate(a) \/ ChangeCommit(a), a # c
        PROVE  cancel'[c] = cancel[c]
    BY <1>1, <1>4 DEF ChangeAggregate, ChangeCommit
  <1>5. ASSUME ChangeAggregate(c)
        PROVE  cancel' = cancel
    BY <1>5 DEF ChangeAggregate
  <1>6. ASSUME CancelStep(c)
        PROVE  \/ \E f \in DOMAIN flows : CancelMark(c, f)
               \/ CancelList(c) \/ (\E r \in Runs : CancelRead(c, r))
               \/ CancelLock(c) \/ CancelReturn(c) \/ CancelFails(c)
    BY <1>6 DEF CancelStep
  <1> QED  BY <1>2, <1>3, <1>4, <1>5, <1>6 DEF Next, vars

\* The tasks that a cancellation has to end, or was to, are of its task flow.
LEMMA CancelledTasks ==
    ASSUME Telling, NEW c \in Cancellers, cancel[c].pc # "idle",
           NEW r \in cancel[c].asked \cup cancel[c].todo
    PROVE  /\ r \in Runs /\ tasks[r] # NoTask /\ tasks[r].flow = cancel[c].flow
           /\ tasks[r].status \in Active \cup Ended
  <1>1. /\ CancelRefs(c) /\ Cancelling(c) /\ cancel[c] \in Cancels /\ Len(flows) \in Nat
        /\ tasks \in [Runs -> {NoTask} \cup Numbered]
    BY LengthIsNat DEF Telling, Story, IInv, Refs, Domains
  <1>2. r \in Runs /\ cancel[c].flow \in 1..Len(flows)
    BY <1>1 DEF Cancels, CancelRefs, Exists
  <1>3. tasks[r].flow = cancel[c].flow
    BY <1>1 DEF Cancelling
  <1>4. tasks[r] # NoTask
    BY <1>1, <1>2, <1>3 DEF NoTask
  <1> QED  BY <1>1, <1>2, <1>3, <1>4 DEF Numbered, Ran

LEMMA CancellingStep ==
    ASSUME Telling, [Next]_vars, NEW c \in Cancellers
    PROVE  Cancelling(c)'
  <1>0. /\ c \in Actors /\ Cancelling(c) /\ IInv /\ cancel \in [Cancellers -> Cancels]
        /\ cancel[c] \in Cancels
        /\ (tx' = [tx EXCEPT ![c] = TxIdle] => c \notin Open')
    <2>1. c \in Actors /\ Domains
      BY DEF Telling, Actors, IInv
    <2>2. TxIdle.pc = "idle"
      BY DEF TxIdle, Tx
    <2>3. tx' = [tx EXCEPT ![c] = TxIdle] => c \notin Open'
      BY <2>1, <2>2, Replaced DEF Open
    <2> QED  BY <2>1, <2>3 DEF Telling, Story, IInv, Domains
  <1>1. ASSUME cancel[c].pc # "idle", NEW r \in cancel[c].asked \cup cancel[c].todo
        PROVE  tasks'[r].flow = cancel[c].flow
    BY <1>1, CancelledTasks, TasksStay
  <1>2. CASE cancel'[c] = cancel[c]
    <2>1. CASE c \in Open' /\ c \notin Open
      <3>1. BeginsCancel(c)
        BY <2>1, CancellerTx
      <3> QED  BY <1>1, <1>2, <3>1 DEF BeginsCancel, Cancelling
    <2>2. CASE c \in Open' /\ c \in Open
      BY <1>0, <1>1, <1>2, <2>2, CancellerGoesOn DEF Cancelling
    <2>3. CASE c \notin Open'
      BY <1>0, <1>1, <1>2, <2>3 DEF Cancelling
    <2> QED  BY <2>1, <2>2, <2>3
  <1>3. ASSUME NEW f \in DOMAIN flows, CancelMark(c, f)
        PROVE  Cancelling(c)'
    <2> DEFINE k == [pc |-> "marked", flow |-> f, todo |-> {}, asked |-> ActiveIn(f)]
    <2>1. /\ cancel'[c] = k /\ tasks' = tasks /\ tx' = tx /\ cancel[c].pc = "idle"
      BY <1>0, <1>3 DEF CancelMark
    <2>2. /\ cancel'[c].pc = "marked" /\ cancel'[c].flow = f
          /\ cancel'[c].todo = {} /\ cancel'[c].asked \subseteq TasksOf(f)
      BY <2>1 DEF ActiveIn
    <2> HIDE DEF k
    <2>3. c \notin Open'
      BY <1>0, <2>1 DEF Cancelling, Open
    <2> QED  BY <2>1, <2>2, <2>3 DEF Cancelling, TasksOf
  <1>4. CASE CancelList(c)
    <2> DEFINE k == [cancel[c] EXCEPT !.pc = "looping", !.todo = Cancellable(cancel[c].flow)]
    <2>1. cancel'[c] = k /\ tasks' = tasks /\ tx' = tx /\ cancel[c].pc = "marked"
      BY <1>0, <1>4 DEF CancelList
    <2>2. /\ cancel'[c].pc = "looping" /\ cancel'[c].flow = cancel[c].flow
          /\ cancel'[c].todo \subseteq TasksOf(cancel[c].flow)
          /\ cancel'[c].asked = cancel[c].asked
      BY <1>0, <2>1 DEF Cancels, Cancellable, ActiveIn
    <2> HIDE DEF k
    <2>3. c \notin Open'
      BY <1>0, <2>1 DEF Cancelling, Open
    <2> QED  BY <1>0, <2>1, <2>2, <2>3 DEF Cancelling, TasksOf
  <1>5. ASSUME cancel[c].pc = "looping", c \notin Open', NEW q,
               cancel' = [cancel EXCEPT ![c].todo = @ \ {q}]
        PROVE  Cancelling(c)'
    <2>1. /\ cancel'[c].pc = cancel[c].pc /\ cancel'[c].flow = cancel[c].flow
          /\ cancel'[c].todo \subseteq cancel[c].todo /\ cancel'[c].asked = cancel[c].asked
      BY <1>0, <1>5 DEF Cancels
    <2> QED  BY <1>1, <1>5, <2>1 DEF Cancelling
  <1>6. ASSUME NEW r \in Runs, CancelRead(c, r)
        PROVE  Cancelling(c)'
    <2>1. CASE cancel' = cancel
      BY <1>2, <2>1
    <2>2. CASE cancel' # cancel
      <3>1. /\ cancel[c].pc = "looping" /\ tx[c].pc = "idle" /\ tx' = tx
            /\ cancel' = [cancel EXCEPT ![c].todo = @ \ {r}]
        BY <1>6, <2>2 DEF CancelRead
      <3>2. c \notin Open'
        BY <3>1 DEF Open
      <3> QED  BY <1>5, <3>1, <3>2
    <2> QED  BY <2>1, <2>2
  <1>7. CASE CancelLock(c)
    <2>1. CASE cancel' = cancel
      BY <1>2, <2>1
    <2>2. CASE cancel' # cancel
      <3>1. /\ tx' = [tx EXCEPT ![c] = TxIdle] /\ tx[c].pc = "read"
            /\ cancel' = [cancel EXCEPT ![c].todo = @ \ {tx[c].run}]
        BY <1>7, <2>2 DEF CancelLock, End, Changing
      <3>2. c \notin Open' /\ cancel[c].pc = "looping"
        BY <1>0, <3>1 DEF Open, Cancelling
      <3> QED  BY <1>5, <3>1, <3>2
    <2> QED  BY <2>1, <2>2
  <1>8. CASE ChangeCommit(c)
    <2>1. /\ tx' = [tx EXCEPT ![c] = TxIdle] /\ tx[c].pc = "computed"
          /\ cancel' = [cancel EXCEPT ![c].todo = @ \ {tx[c].run}]
      BY <1>8 DEF ChangeCommit, End, Changing
    <2>2. c \notin Open' /\ cancel[c].pc = "looping"
      BY <1>0, <2>1 DEF Open, Cancelling
    <2> QED  BY <1>5, <2>1, <2>2
  <1>9. CASE CancelReturn(c)
    <2>1. /\ tasks' = tasks /\ tx' = tx /\ cancel[c].pc = "looping" /\ cancel[c].todo = {}
          /\ cancel' = [cancel EXCEPT ![c].pc = "done"]
      BY <1>9 DEF CancelReturn
    <2>2. c \notin Open'
      BY <1>0, <2>1 DEF Cancelling, Open
    <2>3. /\ cancel'[c].pc = "done" /\ cancel'[c].flow = cancel[c].flow
          /\ cancel'[c].todo = cancel[c].todo /\ cancel'[c].asked = cancel[c].asked
      BY <1>0, <2>1 DEF Cancels
    <2> QED  BY <1>1, <2>1, <2>2, <2>3 DEF Cancelling
  <1>10. CASE CancelFails(c)
    <2> DEFINE k == [cancel[c] EXCEPT !.pc = "failed", !.todo = {}]
    <2>1. /\ tasks' = tasks /\ tx' = [tx EXCEPT ![c] = TxIdle]
          /\ cancel[c].pc # "idle" /\ cancel'[c] = k
      BY <1>0, <1>10 DEF CancelFails, End
    <2>2. /\ cancel'[c].pc = "failed" /\ cancel'[c].flow = cancel[c].flow
          /\ cancel'[c].todo = {} /\ cancel'[c].asked = cancel[c].asked
      BY <1>0, <2>1 DEF Cancels
    <2> HIDE DEF k
    <2>3. c \notin Open'
      BY <1>0, <2>1
    <2> QED  BY <1>1, <2>1, <2>2, <2>3 DEF Cancelling
  <1> QED  BY <1>0, <1>2, <1>3, <1>4, <1>6, <1>7, <1>8, <1>9, <1>10, CancelKinds

LEMMA ReachingStep ==
    ASSUME Telling, [Next]_vars, NEW c \in Cancellers
    PROVE  Reaching(c)'
  <1>0. /\ c \in Actors /\ Cancelling(c) /\ Reaching(c) /\ IInv
        /\ cancel \in [Cancellers -> Cancels] /\ cancel[c] \in Cancels
        /\ overlapped \subseteq overlapped'
    BY OverlapsGrow DEF Telling, Story, Actors, IInv, Domains
  <1>1. ASSUME cancel[c].pc # "idle", NEW r \in cancel[c].asked \cup cancel[c].todo,
               tasks[r].status \in Ended
        PROVE  tasks'[r].status \in Ended
    BY <1>1, CancelledTasks, TasksStay
  <1>2. CASE cancel'[c] = cancel[c]
    BY <1>0, <1>1, <1>2 DEF Reaching
  <1>3. ASSUME NEW f \in DOMAIN flows, CancelMark(c, f)
        PROVE  Reaching(c)'
    <2>1. cancel'[c].pc = "marked"
      BY <1>0, <1>3 DEF CancelMark
    <2> QED  BY <2>1 DEF Reaching
  <1>4. CASE CancelList(c)
    <2> DEFINE k == [cancel[c] EXCEPT !.pc = "looping", !.todo = Cancellable(cancel[c].flow)]
    <2>1. cancel'[c] = k /\ tasks' = tasks /\ cancel[c].pc = "marked"
      BY <1>0, <1>4 DEF CancelList
    <2>2. /\ cancel'[c].pc = "looping" /\ cancel'[c].asked = cancel[c].asked
          /\ cancel'[c].todo = ActiveIn(cancel[c].flow)
      BY <1>0, <2>1 DEF Cancels, Cancellable
    <2> HIDE DEF k
    <2>3. ASSUME NEW r \in cancel[c].asked
          PROVE  tasks[r].status \in Ended \/ r \in ActiveIn(cancel[c].flow)
      BY <2>1, CancelledTasks DEF ActiveIn, TasksOf
    <2> QED  BY <2>1, <2>2, <2>3 DEF Reaching
  <1>5. ASSUME cancel[c].pc = "looping", NEW q,
               cancel' = [cancel EXCEPT ![c].todo = @ \ {q}],
               cancel[c].flow \notin overlapped' /\ q \in cancel[c].asked
                   => tasks'[q].status \in Ended
        PROVE  Reaching(c)'
    <2>1. /\ cancel'[c].pc = cancel[c].pc /\ cancel'[c].flow = cancel[c].flow
          /\ cancel'[c].todo = cancel[c].todo \ {q} /\ cancel'[c].asked = cancel[c].asked
      BY <1>0, <1>5 DEF Cancels
    <2> QED  BY <1>0, <1>1, <1>5, <2>1 DEF Reaching
  <1>6. ASSUME NEW r \in Runs, CancelRead(c, r)
        PROVE  Reaching(c)'
    <2>1. CASE cancel' = cancel
      BY <1>2, <2>1
    <2>2. CASE cancel' # cancel
      <3>1. /\ cancel[c].pc = "looping" /\ tasks' = tasks /\ tasks[r].status \in Ended
            /\ cancel' = [cancel EXCEPT ![c].todo = @ \ {r}]
        BY <1>6, <2>2 DEF CancelRead
      <3> QED  BY <1>5, <3>1
    <2> QED  BY <2>1, <2>2
  <1>7. CASE CancelLock(c)
    <2>1. CASE cancel' = cancel
      BY <1>2, <2>1
    <2>2. CASE cancel' # cancel
      <3>1. /\ Changing(c, "read") /\ tasks' = tasks
            /\ tasks[tx[c].run].status # tx[c].seen
            /\ cancel' = [cancel EXCEPT ![c].todo = @ \ {tx[c].run}]
        BY <1>7, <2>2 DEF CancelLock
      <3>2. c \in Open
        BY <1>0, <3>1 DEF Open, Changing
      <3>3. Kept(c) /\ tx[c].flow = cancel[c].flow /\ cancel[c].pc = "looping"
        BY <1>0, <3>2 DEF Cancelling, Telling, Story, Steady
      <3>4. cancel[c].flow \in overlapped'
        BY <1>0, <3>1, <3>3 DEF Kept
      <3> QED  BY <1>5, <3>1, <3>3, <3>4
    <2> QED  BY <2>1, <2>2
  <1>8. CASE ChangeCommit(c)
    <2>1. /\ tx[c].pc = "computed" /\ CommitsChange(c)
          /\ cancel' = [cancel EXCEPT ![c].todo = @ \ {tx[c].run}]
      <3>1. /\ tx[c].pc = "computed" /\ tx[c].op = "change"
            /\ cancel' = [cancel EXCEPT ![c].todo = @ \ {tx[c].run}]
        BY <1>8 DEF ChangeCommit, Changing
      <3> QED  BY <1>0, <1>8, <3>1, CommitKind
    <2>2. cancel[c].pc = "looping" /\ tx[c].to = "cancelled"
      BY <1>0, <2>1 DEF Open, Cancelling
    <2>3. tasks'[tx[c].run].status \in Ended
      BY <2>1, <2>2 DEF CommitsChange, Ended
    <2> QED  BY <1>5, <2>1, <2>2, <2>3
  <1>9. CASE CancelReturn(c)
    <2>1. /\ tasks' = tasks /\ cancel[c].pc = "looping" /\ cancel[c].todo = {}
          /\ cancel' = [cancel EXCEPT ![c].pc = "done"]
      BY <1>9 DEF CancelReturn
    <2>3. /\ cancel'[c].pc = "done" /\ cancel'[c].flow = cancel[c].flow
          /\ cancel'[c].asked = cancel[c].asked
      BY <1>0, <2>1 DEF Cancels
    <2> QED  BY <1>0, <2>1, <2>3 DEF Reaching
  <1>10. CASE CancelFails(c)
    <2>1. cancel'[c].pc = "failed"
      BY <1>0, <1>10 DEF CancelFails, Cancels
    <2> QED  BY <2>1 DEF Reaching
  <1> QED  BY <1>0, <1>2, <1>3, <1>4, <1>6, <1>7, <1>8, <1>9, <1>10, CancelKinds

-----------------------------------------------------------------------------
(* How many there may be.                                                  *)

LEMMA Finite ==
    /\ IsFiniteSet(Runs) /\ Cardinality(Runs) \in Nat
    /\ \A T \in SUBSET Runs : /\ IsFiniteSet(T) /\ Cardinality(T) \in Nat
                              /\ Cardinality(T) <= Cardinality(Runs)
                              /\ \A S \in SUBSET T : Cardinality(S) <= Cardinality(T)
  <1>1. IsFiniteSet(Runs)
    BY ActorsAssumption
  <1>2. Cardinality(Runs) \in Nat
    BY <1>1, FS_CardinalityType
  <1>3. ASSUME NEW T \in SUBSET Runs
        PROVE  /\ IsFiniteSet(T) /\ Cardinality(T) \in Nat
               /\ Cardinality(T) <= Cardinality(Runs)
               /\ \A S \in SUBSET T : Cardinality(S) <= Cardinality(T)
    <2>1. IsFiniteSet(T) /\ Cardinality(T) <= Cardinality(Runs)
      BY <1>1, FS_Subset
    <2>2. Cardinality(T) \in Nat
      BY <2>1, FS_CardinalityType
    <2>3. \A S \in SUBSET T : Cardinality(S) <= Cardinality(T)
      BY <2>1, FS_Subset
    <2> QED  BY <2>1, <2>2, <2>3
  <1> QED  BY <1>1, <1>2, <1>3

\* While a run has no task, fewer than all have one.
LEMMA OneLeft ==
    ASSUME NEW T \in SUBSET Runs, NEW r \in Runs \ T
    PROVE  Cardinality(T) + 1 <= Cardinality(Runs)
  <1>1. IsFiniteSet(T) /\ Cardinality(T) \in Nat /\ r \notin T
    BY Finite
  <1>2. Cardinality(T \cup {r}) = Cardinality(T) + 1
    BY <1>1, FS_AddElement
  <1>3. T \cup {r} \in SUBSET Runs
    OBVIOUS
  <1> QED  BY <1>2, <1>3, Finite

\* Each revision has a task of its own.
LEMMA FlowsBounded ==
    ASSUME Telling
    PROVE  /\ Len(flows) \in Nat /\ Len(flows) <= Cardinality(Runs)
           /\ \A r \in Runs : tasks[r] = NoTask => Len(flows) + 1 <= Cardinality(Runs)
  <1> DEFINE T == {r \in Runs : tasks[r] # NoTask}
             g == [f \in 1..Len(flows) |-> CHOOSE r \in Runs : tasks[r].flow = f]
  <1>0. /\ Len(flows) \in Nat /\ DOMAIN flows = 1..Len(flows)
        /\ \A f \in DOMAIN flows : Founded(f)
    BY LengthIsNat DEF Telling, Story, IInv, Domains
  <1>1. ASSUME NEW f \in 1..Len(flows)
        PROVE  g[f] \in T /\ tasks[g[f]].flow = f
    <2>1. \E r \in Runs : tasks[r].flow = f
      BY <1>0 DEF Founded, TasksOf
    <2>2. g[f] \in Runs /\ tasks[g[f]].flow = f
      BY <2>1
    <2> QED  BY <2>2 DEF NoTask
  <1>2. g \in Injection(1..Len(flows), T)
    <2>1. g \in [1..Len(flows) -> T]
      BY <1>1
    <2>2. \A e, f \in 1..Len(flows) : g[e] = g[f] => e = f
      BY <1>1
    <2> HIDE DEF g, T
    <2> QED  BY <2>1, <2>2 DEF Injection, IsInjective
  <1>3. T \in SUBSET Runs
    OBVIOUS
  <1>4. IsFiniteSet(T) /\ Cardinality(T) \in Nat /\ Cardinality(T) <= Cardinality(Runs)
    BY <1>3, Finite
  <1>5. \A r \in Runs : tasks[r] = NoTask => Cardinality(T) + 1 <= Cardinality(Runs)
    BY <1>3, OneLeft
  <1> HIDE DEF g, T
  <1>6. Cardinality(1..Len(flows)) <= Cardinality(T)
    BY <1>2, <1>4, FS_Injection
  <1>7. Cardinality(1..Len(flows)) = Len(flows)
    BY <1>0, FS_Interval
  <1> QED  BY <1>0, <1>4, <1>5, <1>6, <1>7, Finite

\* A transaction is on a revision there may be.
LEMMA TxBounded ==
    ASSUME Telling, NEW a \in Actors
    PROVE  /\ tx[a].flow \in Revisions \cup {0} /\ (a \in Open => tx[a].flow \in Revisions)
           /\ tx[a].seq \in Revisions \cup {0}
  <1>0. /\ tx[a] \in Txs /\ TxRefs(a) /\ Shape(a) /\ tasks \in [Runs -> {NoTask} \cup Numbered]
        /\ tx[a].seq <= Cardinality(TasksOf(tx[a].flow)) + 1
        /\ Len(flows) \in Nat /\ Len(flows) <= Cardinality(Runs) /\ Cardinality(Runs) \in Nat
        /\ \A r \in Runs : tasks[r] = NoTask => Len(flows) + 1 <= Cardinality(Runs)
    BY FlowsBounded, Finite DEF Telling, Story, IInv, Refs, Domains, Moving, Counted
  <1>1. CASE tx[a].op = "none"
    <2>1. tx[a] = TxIdle /\ a \notin Open
      BY <1>0, <1>1 DEF Shape, Open
    <2> QED  BY <2>1 DEF TxIdle, Tx
  <1>2. CASE tx[a].op = "change"
    <2>1. tx[a].flow \in 1..Len(flows) /\ tx[a].seq = 0
      BY <1>0, <1>2 DEF TxRefs, Exists, Shape
    <2> QED  BY <1>0, <2>1 DEF Revisions
  <1>3. CASE tx[a].op \in {"join", "create"}
    <2>1. a \in Runs /\ tasks[a] = NoTask /\ tx[a].flow \in 1..(Len(flows) + 1)
      BY <1>0, <1>3 DEF TxRefs
    <2>2. tx[a].flow \in Revisions
      BY <1>0, <2>1 DEF Revisions
    <2>3. TasksOf(tx[a].flow) \in SUBSET Runs /\ a \in Runs \ TasksOf(tx[a].flow)
      BY <1>0, <2>1 DEF TasksOf, NoTask
    <2>4. Cardinality(TasksOf(tx[a].flow)) + 1 <= Cardinality(Runs)
      BY <2>3, OneLeft
    <2>5. tx[a].seq \in Nat /\ Cardinality(TasksOf(tx[a].flow)) \in Nat
      BY <1>0, <2>3, Finite DEF Txs
    <2> QED  BY <1>0, <2>2, <2>4, <2>5 DEF Revisions
  <1> QED  BY <1>0, <1>1, <1>2, <1>3 DEF Txs, Kinds

\* A task flow keeps its tasks.
LEMMA TasksGrow ==
    ASSUME Telling, [Next]_vars, NEW f \in Nat \ {0}
    PROVE  /\ TasksOf(f) \subseteq TasksOf(f)'
           /\ Cardinality(TasksOf(f)) \in Nat /\ Cardinality(TasksOf(f)') \in Nat
           /\ Cardinality(TasksOf(f)) <= Cardinality(TasksOf(f)')
  <1>1. TasksOf(f) \subseteq TasksOf(f)'
    BY TasksStay DEF TasksOf, NoTask
  <1>2. TasksOf(f)' \in SUBSET Runs /\ TasksOf(f) \in SUBSET Runs
    BY DEF TasksOf
  <1> QED  BY <1>1, <1>2, Finite

\* The next number counts the tasks.
LEMMA NextBounded ==
    ASSUME Telling, NEW f \in Nat \ {0}
    PROVE  NextSequence(f) <= Cardinality(TasksOf(f)) + 1
  <1>0. /\ Domains /\ HasLast /\ Counted /\ Cardinality(TasksOf(f)) \in Nat
        /\ tasks \in [Runs -> {NoTask} \cup Numbered]
    BY Finite DEF Telling, Story, IInv, Domains, TasksOf
  <1>1. PICK n \in Taken(f) : \A m \in Taken(f) : n >= m
    BY <1>0 DEF HasLast
  <1>2. /\ Max(Taken(f)) \in Taken(f)
        /\ \A m \in Taken(f) : Max(Taken(f)) >= m
    BY <1>1 DEF Max
  <1>3. NextSequence(f) = Max(Taken(f)) + 1
    BY DEF NextSequence, Taken
  <1>4. \A m \in Taken(f) : m \in Nat /\ m <= Cardinality(TasksOf(f))
    <2>1. ASSUME NEW r \in TasksOf(f)
          PROVE  tasks[r].seq \in Nat /\ tasks[r].seq <= Cardinality(TasksOf(f))
      <3>1. tasks[r] # NoTask /\ tasks[r].flow = f /\ r \in Runs
        BY DEF TasksOf, NoTask
      <3> QED  BY <1>0, <3>1 DEF Counted
    <2> QED  BY <1>0, <2>1 DEF Taken
  <1> QED  BY <1>0, <1>2, <1>3, <1>4

LEMMA CountedStep ==
    ASSUME Telling, [Next]_vars
    PROVE  Counted'
  <1>0. /\ IInv /\ Counted /\ LockHeld /\ Len(flows) \in Nat
        /\ \A a \in Actors : TxRefs(a) /\ tx[a] \in Txs
        /\ tasks \in [Runs -> {NoTask} \cup Numbered]
        /\ \A a \in Actors : Shape(a)
    BY LengthIsNat DEF Telling, Story, IInv, Refs, Domains, Moving
  <1>a. IInv' /\ tasks' \in [Runs -> {NoTask} \cup Numbered] /\ \A a \in Actors : tx'[a] \in Txs
    BY <1>0, Inductive DEF IInv, Domains
  <1>1. ASSUME NEW r \in Runs, tasks[r] # NoTask
        PROVE  tasks'[r].seq \in 1..Cardinality(TasksOf(tasks[r].flow)')
    <2>1. PICK f : f = tasks[r].flow
      OBVIOUS
    <2>2. f \in Nat \ {0} /\ tasks[r].seq \in 1..Cardinality(TasksOf(f))
      BY <1>0, <1>1, <2>1 DEF Counted, Numbered
    <2>3. tasks'[r].flow = f /\ tasks'[r].seq = tasks[r].seq
      BY <1>1, <2>1, TasksStay
    <2>4. /\ Cardinality(TasksOf(f)) \in Nat /\ Cardinality(TasksOf(f)') \in Nat
          /\ Cardinality(TasksOf(f)) <= Cardinality(TasksOf(f)')
      BY <2>2, TasksGrow
    <2>5. tasks'[r].seq \in 1..Cardinality(TasksOf(f)')
      BY <2>2, <2>3, <2>4
    <2> QED  BY <2>3, <2>5 DEF TasksOf
  <1>2. ASSUME NEW b \in Actors, CommitsLaunch(b)
        PROVE  tasks'[b].seq \in 1..Cardinality(TasksOf(tasks[b].flow)')
    <2>1. PICK f : f = tx[b].flow
      OBVIOUS
    <2>2. TasksOf(f)' = TasksOf(f) \cup {b} /\ b \in Runs \ TasksOf(f)
      BY <1>2, <2>1, CommitTasks
    <2>3. IsFiniteSet(TasksOf(f)) /\ Cardinality(TasksOf(f)) \in Nat
      BY Finite DEF TasksOf
    <2>4. Cardinality(TasksOf(f)') = Cardinality(TasksOf(f)) + 1
      BY <2>2, <2>3, FS_AddElement
    <2>5. tx[b].seq > 0 /\ tx[b].seq \in Nat /\ tx[b].seq <= Cardinality(TasksOf(f)) + 1
      <3>1. 0 \in Taken(f)
        BY DEF Taken
      <3> QED  BY <1>0, <1>2, <2>1, <3>1 DEF LockHeld, CommitsLaunch, Counted, Txs
    <2>6. tasks'[b].flow = f /\ tasks'[b].seq = tx[b].seq
      BY <1>2, <2>1 DEF CommitsLaunch
    <2>7. tasks'[b].seq \in 1..Cardinality(TasksOf(f)')
      BY <2>3, <2>4, <2>5, <2>6
    <2> QED  BY <2>6, <2>7 DEF TasksOf
  <1>3. ASSUME NEW r \in Runs, tasks[r] = NoTask, tasks'[r] # NoTask
        PROVE  CommitsLaunch(r)
    <2>1. ASSUME NEW b \in Actors, CommitsLaunch(b)
          PROVE  r = b
      BY <1>3, <2>1 DEF CommitsLaunch
    <2>2. ASSUME NEW b \in Actors, CommitsChange(b)
          PROVE  FALSE
      BY <1>0, <1>3, <2>2 DEF CommitsChange, Changing, TxRefs
    <2>3. ASSUME NEW b \in Actors, Begins(b) \/ Goes(b) \/ Drops(b)
          PROVE  tasks' = tasks
      BY <2>3 DEF Begins, Goes, Drops
    <2> QED  BY <1>0, <1>3, <2>1, <2>2, <2>3, StepKinds DEF Rests, Marks
  <1>4. \A r \in Runs : tasks'[r] # NoTask =>
            tasks'[r].seq \in 1..Cardinality(TasksOf(tasks[r].flow)')
    BY <1>1, <1>2, <1>3 DEF Actors
  <1>5. ASSUME NEW a \in Actors
        PROVE  tx'[a].seq <= Cardinality(TasksOf(tx[a].flow)') + 1
    <2>1. PICK g : g = tx'[a].flow
      OBVIOUS
    <2>2. Cardinality(TasksOf(g)') \in Nat
      <3>1. TasksOf(g)' \in SUBSET Runs
        BY DEF TasksOf
      <3> QED  BY <3>1, Finite
    <2>3. TasksOf(g)' = TasksOf(tx[a].flow)'
      BY <2>1 DEF TasksOf
    <2>4. CASE tx'[a].seq = 0
      BY <2>2, <2>3, <2>4
    <2>5. CASE tx'[a] = tx[a] /\ tx[a].seq # 0
      <3>1. g \in Nat \ {0}
        BY <1>0, <2>1, <2>5 DEF Shape, TxRefs, Txs
      <3>2. Cardinality(TasksOf(g)) <= Cardinality(TasksOf(g)') /\ Cardinality(TasksOf(g)) \in Nat
        BY <3>1, TasksGrow
      <3>3. tx[a].seq \in Nat /\ tx[a].seq <= Cardinality(TasksOf(g)) + 1
        BY <1>0, <2>1, <2>5 DEF Counted, Txs
      <3> QED  BY <2>2, <2>3, <2>5, <3>2, <3>3
    <2>6. CASE Goes(a) /\ Queues(a)
      <3>1. g \in Nat \ {0} /\ tx'[a].seq = NextSequence(g)
        BY <1>0, <2>1, <2>6 DEF Goes, Queues, Launching, TxRefs
      <3>2. Cardinality(TasksOf(g)) <= Cardinality(TasksOf(g)') /\ Cardinality(TasksOf(g)) \in Nat
        BY <3>1, TasksGrow
      <3>3. NextSequence(g) <= Cardinality(TasksOf(g)) + 1
        BY <3>1, NextBounded
      <3>4. NextSequence(g) \in Nat
        BY <1>a, <3>1 DEF Txs
      <3> QED  BY <2>2, <2>3, <3>1, <3>2, <3>3, <3>4
    <2>7. ASSUME NEW b \in Actors, Begins(b) \/ Goes(b) \/ Drops(b) \/ CommitsLaunch(b)
                                   \/ CommitsChange(b)
          PROVE  tx'[a].seq = 0 \/ tx'[a] = tx[a] \/ (Goes(a) /\ Queues(a))
      <3>1. CASE a # b
        BY <2>7, <3>1 DEF Begins, Goes, Drops, CommitsLaunch, CommitsChange, Others
      <3>2. CASE a = b /\ Begins(b)
        BY <3>2 DEF Begins
      <3>3. CASE a = b /\ tx'[b] = TxIdle
        BY <3>3 DEF TxIdle, Tx
      <3>4. CASE a = b /\ Goes(b)
        <4>1. CASE Locks(b) \/ Sums(b)
          BY <1>0, <3>4, <4>1 DEF Locks, Sums, Changing, Shape
        <4> QED  BY <3>4, <4>1 DEF Goes
      <3> QED  BY <2>7, <3>1, <3>2, <3>3, <3>4 DEF Drops, CommitsLaunch, CommitsChange
    <2>8. tx'[a].seq = 0 \/ tx'[a] = tx[a] \/ (Goes(a) /\ Queues(a))
      BY <1>0, <2>7, StepKinds DEF Rests, Marks
    <2> QED  BY <2>4, <2>5, <2>6, <2>8
  <1>6. overlapped' \subseteq Revisions
    <2>1. \A a \in Open : tx[a].flow \in Revisions
      BY TxBounded DEF Open
    <2>2. ASSUME NEW b, NEW f, NoteOverlap(b, f)
          PROVE  overlapped' \subseteq Revisions
      BY <1>0, <2>1, <2>2 DEF NoteOverlap, Counted
    <2>3. ASSUME NEW b \in Actors, Begins(b)
          PROVE  overlapped' \subseteq Revisions
      BY <2>2, <2>3 DEF Begins
    <2>4. ASSUME NEW b, NEW f, Marks(b, f)
          PROVE  overlapped' \subseteq Revisions
      BY <2>2, <2>4 DEF Marks
    <2>5. overlapped' = overlapped => overlapped' \subseteq Revisions
      BY <1>0 DEF Counted
    <2> QED  BY <1>0, <2>3, <2>4, <2>5, StepKinds
             DEF Rests, Goes, Drops, CommitsLaunch, CommitsChange
  <1> QED  BY <1>4, <1>5, <1>6 DEF Counted

-----------------------------------------------------------------------------
LEMMA TellingInitially == Init => Telling
  <1> SUFFICES ASSUME Init PROVE Telling
    OBVIOUS
  <1>1. /\ \A r \in Runs : tasks[r] = NoTask
        /\ \A a \in Actors : tx[a] = TxIdle
        /\ \A c \in Cancellers : cancel[c] = NoCancel
        /\ flows = << >> /\ overlapped = {}
        /\ Cancellers \subseteq Actors
    BY DEF Init, Actors
  <1>2. \A a \in Actors : Moving(a)
    BY <1>1 DEF Moving, Shape, Aim, Grip, Grips, Changing, TxIdle, Tx
  <1>3. \A a \in Actors : Steady(a)
    BY <1>1 DEF Steady, Open, TxIdle, Tx
  <1>4. \A f \in DOMAIN flows : Truthful(f) /\ Founded(f)
    BY <1>1
  <1>5. \A c \in Cancellers : Cancelling(c) /\ Reaching(c)
    BY <1>1 DEF Cancelling, Reaching, Open, TxIdle, Tx, NoCancel
  <1>6. Counted
    <2>1. \A a \in Actors : tx[a].seq <= Cardinality(TasksOf(tx[a].flow)) + 1
      <3>1. ASSUME NEW a \in Actors
            PROVE  tx[a].seq <= Cardinality(TasksOf(tx[a].flow)) + 1
        <4>1. Cardinality(TasksOf(tx[a].flow)) \in Nat
          BY Finite DEF TasksOf
        <4> QED  BY <1>1, <4>1 DEF TxIdle, Tx
      <3> QED  BY <3>1
    <2> QED  BY <1>1, <2>1 DEF Counted
  <1> QED  BY <1>2, <1>3, <1>4, <1>5, <1>6, Initially DEF Telling, Story

LEMMA TellingInductive == Telling /\ [Next]_vars => Telling'
  <1> SUFFICES ASSUME Telling, [Next]_vars PROVE Telling'
    OBVIOUS
  <1>1. IInv'
    BY Inductive DEF Telling
  <1>2. \A a \in Actors : Steady(a)'
    BY SoloStep, KeptStep DEF Steady, Open
  <1>3. \A f \in DOMAIN flows' : Truthful(f)' /\ Founded(f)'
    BY TruthStep
  <1> QED  BY <1>1, <1>2, <1>3, MovingStep, CancellingStep, ReachingStep, CountedStep
           DEF Telling, Story

\* What the run checks follows.
LEMMA TellingTells == Telling => FlowTellsTasks
  <1> SUFFICES ASSUME Telling PROVE FlowTellsTasks
    OBVIOUS
  <1>0. /\ Domains /\ TaskRefs /\ Counted /\ Len(flows) \in Nat
        /\ Len(flows) <= Cardinality(Runs) /\ Cardinality(Runs) \in Nat
        /\ \A a \in Actors : TxRefs(a) /\ tx[a] \in Txs /\ Aim(a)
        /\ \A c \in Cancellers : CancelRefs(c) /\ cancel[c] \in Cancels /\ Cancelling(c)
    BY FlowsBounded, Finite DEF Telling, Story, IInv, Refs, Domains, Moving
  <1>1. ASSUME NEW r \in Runs
        PROVE  tasks[r] \in {NoTask} \cup [flow : Revisions, seq : Revisions,
                                           status : Active \cup Ended]
    <2>1. CASE tasks[r] = NoTask
      BY <2>1
    <2>2. CASE tasks[r] # NoTask
      <3>1. tasks[r] \in Numbered /\ tasks[r].flow \in 1..Len(flows)
        BY <1>0, <2>2 DEF Domains, TaskRefs, Exists
      <3>2. TasksOf(tasks[r].flow) \in SUBSET Runs
        BY DEF TasksOf
      <3>3. /\ Cardinality(TasksOf(tasks[r].flow)) \in Nat
            /\ Cardinality(TasksOf(tasks[r].flow)) <= Cardinality(Runs)
        BY <3>2, Finite
      <3>4. tasks[r].seq \in 1..Cardinality(TasksOf(tasks[r].flow))
        BY <1>0, <2>2 DEF Counted
      <3>5. tasks[r].flow \in Revisions /\ tasks[r].seq \in Revisions
        BY <1>0, <3>1, <3>3, <3>4 DEF Revisions
      <3> QED  BY <3>1, <3>5 DEF Numbered, Ran
    <2> QED  BY <2>1, <2>2
  <1>2. ASSUME NEW a \in Actors
        PROVE  tx[a] \in [pc : {"idle", "read", "updated", "locked", "computed"},
                          op : {"none", "join", "create", "change"}, run : Runs \cup {"none"},
                          flow : Revisions \cup {0}, seq : Revisions \cup {0},
                          to : Active \cup Ended \cup {"none"}, seen : Statuses \cup {"none"}]
    <2>1. tx[a].flow \in Revisions \cup {0} /\ tx[a].seq \in Revisions \cup {0}
      BY TxBounded
    <2> QED  BY <1>0, <2>1 DEF Txs, Phases, Kinds, RunIds, Targets, Ran, Seen
  <1>3. ASSUME NEW c \in Cancellers
        PROVE  cancel[c] \in [pc : {"idle", "marked", "looping", "done", "failed"},
                              flow : Revisions \cup {0}, todo : SUBSET Runs,
                              asked : SUBSET Runs]
    <2>1. cancel[c].flow \in Revisions \cup {0}
      BY <1>0 DEF Cancelling, CancelRefs, Exists, Revisions
    <2> QED  BY <1>0, <2>1 DEF Cancels, Passes
  <1>4. TypeOK
    BY <1>0, <1>1, <1>2, <1>3 DEF TypeOK, Domains, Counted
  <1>5. StatusTruthful
    BY DEF StatusTruthful, Quiet, Telling, Story, Truthful, Tells, StatusesOf
  <1>6. CancelReaches
    BY DEF CancelReaches, Telling, Story, Reaching
  <1> QED  BY <1>4, <1>5, <1>6 DEF FlowTellsTasks

\* Who writes a task flow that is closed cancels it.
LEMMA ClosedStep ==
    ASSUME Telling, [Next]_vars, NEW f \in DOMAIN flows, Closed(f), f \notin overlapped'
    PROVE  /\ flows'[f] \in {flows[f], "cancelled"}
           /\ \A r \in Runs : tasks'[r].flow = f => tasks[r].flow = f
  <1>0. /\ IInv /\ flows \in Seq(Statuses) /\ f \in 1..Len(flows) /\ LockHeld
        /\ \A a \in Open : Kept(a) /\ a \in Actors
        /\ \A a \in Actors : TxRefs(a) /\ Moving(a)
        /\ f \notin overlapped /\ Len(flows) \in Nat
    BY OverlapsGrow, LengthIsNat DEF Telling, Story, Steady, Open, IInv, Domains, Refs
  <1>1. ASSUME Untouched(f)
        PROVE  /\ flows'[f] \in {flows[f], "cancelled"}
               /\ \A r \in Runs : tasks'[r].flow = f => tasks[r].flow = f
    BY <1>1 DEF Untouched
  <1>2. ASSUME NEW b \in Actors, CommitsLaunch(b)
        PROVE  tx[b].flow # f
    <2>1. b \in Open /\ Holds(b)
      BY <1>2, CommitFlow DEF CommitsLaunch
    <2>2. CASE tx[b].op = "join"
      BY <1>0, <2>1, <2>2 DEF Kept, Closed
    <2>3. CASE tx[b].op = "create"
      BY <1>0, <2>1, <2>3 DEF LockHeld
    <2> QED  BY <2>1, <2>2, <2>3 DEF Holds, Launching
  <1>3. ASSUME NEW b \in Actors, CommitsChange(b)
        PROVE  tx[b].flow # f
    <2>1. /\ tasks[tx[b].run].flow = tx[b].flow /\ tasks[tx[b].run].status \in Active
          /\ tx[b].run \in Runs
      BY <1>0, <1>3 DEF CommitsChange, Changing, TxRefs, Moving, Aim, Grip, Grips
    <2> QED  BY <2>1 DEF Closed, ActiveIn, TasksOf
  <1>4. ASSUME NEW c \in Cancellers, NEW g \in DOMAIN flows, Marks(c, g)
        PROVE  /\ flows'[f] \in {flows[f], "cancelled"}
               /\ \A r \in Runs : tasks'[r].flow = f => tasks[r].flow = f
    BY <1>0, <1>4 DEF Marks
  <1>5. ASSUME NEW b \in Actors, Begins(b) \/ Goes(b) \/ Drops(b)
        PROVE  flows' = flows /\ tasks' = tasks
    BY <1>5 DEF Begins, Goes, Drops
  <1>6. flows' = flows /\ tasks' = tasks => Untouched(f)
    BY DEF Untouched
  <1> QED  BY <1>0, <1>1, <1>2, <1>3, <1>4, <1>5, <1>6, Elsewhere, StepKinds DEF Rests

\* A task flow and its tasks tell the same story: of a revision that no two
\* transactions overlapped on, the status is what those of its tasks say, and a
\* cancellation that returned has ended what was active.  What a transaction
\* has read of it is still so when it writes, since another one that wrote
\* meanwhile would have been open at the same time.
THEOREM Telltale == Spec => []FlowTellsTasks
  <1> QED  BY TellingInitially, TellingInductive, TellingTells, PTL DEF Spec

\* A task flow that has succeeded, or was cancelled and is at rest, gets no
\* further task and becomes nothing but cancelled: a launch is refused
\* (assertAutomationTaskFlowCanAcceptNewRun) or joins one that is open, and a
\* change of status is of a task that is active.
THEOREM Closing == Spec => ClosedStaysClosed
  <1>1. Telling /\ [Next]_vars =>
           [\A f \in DOMAIN flows : Closed(f) /\ f \notin overlapped' =>
               /\ flows'[f] \in {flows[f], "cancelled"}
               /\ \A r \in Runs : tasks'[r].flow = f => tasks[r].flow = f]_vars
    BY ClosedStep
  <1> QED  BY TellingInitially, TellingInductive, <1>1, PTL DEF Spec, ClosedStaysClosed

=============================================================================
