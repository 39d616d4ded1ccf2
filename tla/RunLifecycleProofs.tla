------------------------- MODULE RunLifecycleProofs -------------------------
(***************************************************************************)
(* Safety of RunLifecycle for any number of ticks, decisions,              *)
(* cancellations, executions and approval nodes.  The inductive invariant  *)
(* is IInv; what makes it inductive is HasRead in TypeOK: the row a        *)
(* transaction holds was never terminal, so a terminal row fails Applies.  *)
(***************************************************************************)
EXTENDS RunLifecycle, SequenceTheorems, TLAPS

IInv == TypeOK /\ FinishedRecorded /\ WaitingHasRequest /\ DecidedWorkIsRecorded

-----------------------------------------------------------------------------
(* Lemmas about rows and sequences.                                        *)

\* A row says in its wait and work fields what its status needs, no more.
LEMMA RowShape ==
    ASSUME NEW r \in Rows
    PROVE  /\ r.status \in Statuses
           /\ r.work \in Works
           /\ r.node \in Nodes \cup {NoNode}
           /\ r.wait \in {"none", "timer", "approval"}
           /\ r.wait # "none" <=> r.status = "waiting"
           /\ r.wait = "approval" => r.node \in Nodes
           /\ r.work.branch # "none" => r.status = "running"
  BY SMTT(30) DEF Rows, ClosedRow, RunningRow, Suspensions, Row, Works, Work, NoWork,
         Statuses, Terminal, Decisions, Branches

\* The rows the operations write are rows.
LEMMA RowsBuilt ==
    /\ \A s \in {"absent"} \cup Terminal : ClosedRow(s) \in Rows
    /\ \A w \in Works : RunningRow(w) \in Rows
    /\ Suspensions \subseteq Rows
    /\ \A b \in Branches, n \in Nodes \cup {NoNode} : Work(b, n) \in Works
  BY DEF Rows, Works, Work

\* Appending keeps what was there and puts the new elements behind it.
LEMMA Appended ==
    ASSUME NEW S, NEW s \in Seq(S), NEW t \in Seq(S)
    PROVE  /\ s \o t \in Seq(S)
           /\ \A i \in DOMAIN s : i \in DOMAIN (s \o t) /\ (s \o t)[i] = s[i]
           /\ \A i \in DOMAIN t : Len(s) + i \in DOMAIN (s \o t)
                                  /\ (s \o t)[Len(s) + i] = t[i]
  <1>1. DOMAIN s = 1..Len(s) /\ DOMAIN t = 1..Len(t)
        /\ Len(s) \in Nat /\ Len(t) \in Nat
    BY LenProperties
  <1>2. /\ s \o t \in Seq(S)
        /\ Len(s \o t) = Len(s) + Len(t)
        /\ \A i \in 1 .. Len(s) + Len(t) : (s \o t)[i] =
                 IF i <= Len(s) THEN s[i] ELSE t[i - Len(s)]
    BY ConcatProperties
  <1>3. DOMAIN (s \o t) = 1 .. Len(s) + Len(t)
    BY <1>2, LenProperties
  <1> QED  BY <1>1, <1>2, <1>3

\* Resolving a request leaves a table of requests.
LEMMA ResolveType ==
    ASSUME reqs \in Seq(RequestRows), NEW n,
           NEW st \in {"pending", "timed_out", "cancelled"} \cup Decisions
    PROVE  Resolve(n, st) \in Seq(RequestRows)
  <1> DEFINE latest == CHOOSE i \in PendingRows(n) :
                           \A j \in PendingRows(n) : j <= i
             changed == [reqs EXCEPT ![latest].status = st]
  <1>1. CASE latest \in DOMAIN reqs
    <2>1. latest \in 1..Len(reqs)
      BY <1>1, LenProperties
    <2>2. reqs[latest] \in RequestRows
      BY <2>1, ElementOfSeq
    <2>3. [reqs[latest] EXCEPT !.status = st] \in RequestRows
      BY <2>2 DEF RequestRows
    <2>4. [reqs EXCEPT ![latest] = [reqs[latest] EXCEPT !.status = st]] \in Seq(RequestRows)
      BY <2>1, <2>3, ExceptSeq
    <2> QED  BY <2>4 DEF Resolve
  <1>2. CASE latest \notin DOMAIN reqs
    <2>1. changed = reqs
      <3>1. \E m \in Nat : DOMAIN reqs = 1..m
        BY LenProperties
      <3>2. reqs = [i \in DOMAIN reqs |-> reqs[i]]
        BY LenProperties
      <3> QED  BY <1>2, <3>2
    <2> QED  BY <2>1 DEF Resolve
  <1> QED  BY <1>1, <1>2

-----------------------------------------------------------------------------
(* What a step writes.                                                     *)

\* A commit of events and a row as some operation makes it: the status moves
\* along an edge of the contract, the events say what happened, a suspension
\* that applies brings its request, and a transaction whose update does not
\* apply has changed requests only if it read the run waiting.
Write(a, events, row) ==
    /\ Commit(a, events, row)
    /\ HasRead(a) /\ tx[a].pc = "write"
    /\ \/ row.status \in {"failed", "cancelled"}
       \/ tx[a].row.status = "waiting" /\ row.status = "running"
       \/ tx[a].row.status = "running" /\ row.status \in {"waiting", "succeeded"}
    /\ row.status \in Terminal => \E i \in DOMAIN events : events[i] = Finished(row.status)
    /\ row.work.branch \in Decisions =>
           \E i \in DOMAIN events : events[i] = Recorded(row.work.branch, row.work.node)
    /\ reqs' \in Seq(RequestRows)
    /\ WaitsOn(row) /\ Applies(a) => reqs' = CreateRequest(row.node)
    /\ reqs' # reqs => Applies(a) \/ tx[a].row.status = "waiting"

SomeWrite == \E a \in Actors, events \in Seq(Events), row \in Rows : Write(a, events, row)

\* The end of an execution is a write.
LEMMA FinalizeWrites ==
    ASSUME TypeOK, NEW e \in Executors, Finalize(e)
    PROVE  SomeWrite
  <1>1. PICK o \in Endings \cup Suspensions :
            /\ Commit(e, <<OutcomeEvent(o)>>, o)
            /\ reqs' = IF Applies(e) /\ o.wait = "approval"
                       THEN CreateRequest(o.node) ELSE reqs
    BY DEF Finalize
  <1>2. e \in Actors /\ HasRead(e) /\ tx[e].pc = "write" /\ tx[e].row.status = "running"
    BY <1>1 DEF TypeOK, Actors, Commit, HasRead
  <1>3. o \in Rows /\ o.status \in {"succeeded", "failed", "waiting"} /\ o.work = NoWork
    <2>1. o \in Rows
      BY RowsBuilt DEF Endings, Terminal
    <2>2. o.status \in {"succeeded", "failed", "waiting"} /\ o.work = NoWork
      BY DEF Endings, Suspensions, ClosedRow, Row
    <2> QED  BY <2>1, <2>2
  <1>4. OutcomeEvent(o) \in Events
    BY <1>3, RowShape DEF OutcomeEvent, Finished, Event, Events, EventTypes, Statuses, Terminal
  <1>5. <<OutcomeEvent(o)>> \in Seq(Events) /\ DOMAIN <<OutcomeEvent(o)>> = {1}
    BY <1>4
  <1>6. o.status \in Terminal => <<OutcomeEvent(o)>>[1] = Finished(o.status)
    BY DEF OutcomeEvent, Terminal
  <1>7. WaitsOn(o) => reqs' = CreateRequest(o.node) \/ ~Applies(e)
    BY <1>1 DEF WaitsOn
  <1>8. reqs' \in Seq(RequestRows)
    <2>1. CASE o.wait = "approval"
      <3>1. [node |-> o.node, status |-> "pending"] \in RequestRows
        BY <1>3, <2>1, RowShape DEF RequestRows
      <3>2. CreateRequest(o.node) \in Seq(RequestRows)
        BY <3>1 DEF TypeOK, CreateRequest
      <3> QED  BY <1>1, <3>2 DEF TypeOK
    <2> QED  BY <1>1, <2>1 DEF TypeOK
  <1>9. o.work.branch \notin Decisions
    BY <1>3 DEF NoWork, Work, Decisions
  <1> QED  BY <1>1, <1>2, <1>3, <1>5, <1>6, <1>7, <1>8, <1>9 DEF SomeWrite, Write

\* So is marking the run failed.
LEMMA MarkFailedWrites ==
    ASSUME TypeOK, NEW e \in Executors, MarkFailed(e)
    PROVE  SomeWrite
  <1> DEFINE row == ClosedRow("failed")
             events == <<Finished("failed")>>
  <1>1. Commit(e, events, row) /\ UNCHANGED reqs
    BY DEF MarkFailed
  <1>2. e \in Actors /\ HasRead(e) /\ tx[e].pc = "write" /\ reqs \in Seq(RequestRows)
    BY <1>1 DEF TypeOK, Actors, Commit
  <1>3. row \in Rows /\ row.status = "failed" /\ row.work = NoWork
    BY RowsBuilt DEF Terminal, ClosedRow, Row
  <1>4. events \in Seq(Events) /\ DOMAIN events = {1} /\ events[1] = Finished("failed")
    BY DEF Finished, Event, Events, EventTypes, Statuses, Terminal
  <1>5. row.work.branch \notin Decisions /\ ~WaitsOn(row)
    BY <1>3 DEF NoWork, Work, Decisions, WaitsOn
  <1> HIDE DEF row, events
  <1>6. Write(e, events, row)
    BY <1>1, <1>2, <1>3, <1>4, <1>5 DEF Write
  <1> QED  BY <1>2, <1>3, <1>4, <1>6 DEF SomeWrite

\* So is a cancellation.
LEMMA CancelWrites ==
    ASSUME TypeOK, NEW c \in Cancellers, Cancel(c)
    PROVE  SomeWrite
  <1> DEFINE row == ClosedRow("cancelled")
             events == <<Finished("cancelled")>>
             r == tx[c].row
  <1>1. /\ Commit(c, events, row)
        /\ reqs' = IF r.wait = "approval" THEN Resolve(r.node, "cancelled") ELSE reqs
    BY DEF Cancel
  <1>2. c \in Actors /\ HasRead(c) /\ tx[c].pc = "write" /\ reqs \in Seq(RequestRows)
        /\ r \in Rows
    BY <1>1 DEF TypeOK, Actors, Requests, Commit, Transactions
  <1>3. row \in Rows /\ row.status = "cancelled" /\ row.work = NoWork
    BY RowsBuilt DEF Terminal, ClosedRow, Row
  <1>4. events \in Seq(Events) /\ DOMAIN events = {1} /\ events[1] = Finished("cancelled")
    BY DEF Finished, Event, Events, EventTypes, Statuses, Terminal
  <1>5. row.work.branch \notin Decisions /\ ~WaitsOn(row)
    BY <1>3 DEF NoWork, Work, Decisions, WaitsOn
  <1>6. reqs' \in Seq(RequestRows)
    BY <1>1, <1>2, ResolveType
  <1>7. reqs' # reqs => r.status = "waiting"
    BY <1>1, <1>2, RowShape
  <1> HIDE DEF row, events
  <1>8. Write(c, events, row)
    BY <1>1, <1>2, <1>3, <1>4, <1>5, <1>6, <1>7 DEF Write
  <1> QED  BY <1>2, <1>3, <1>4, <1>8 DEF SomeWrite

\* So is a decision, a reviewer's or that of a timeout.
LEMMA DecisionWrites ==
    ASSUME TypeOK, NEW a \in Tickers \cup Reviewers, NEW say \in Decisions,
           NEW st \in {"timed_out"} \cup Decisions,
           tx[a].row.wait = "approval",
           Commit(a, DecisionEvents(tx[a].row, say), DecisionRow(tx[a].row, say)),
           reqs' = Resolve(tx[a].row.node, st)
    PROVE  SomeWrite
  <1> DEFINE r == tx[a].row
             row == DecisionRow(r, say)
             events == DecisionEvents(r, say)
  <1>1. /\ a \in Actors /\ HasRead(a) /\ tx[a].pc = "write" /\ r \in Rows
        /\ r.status = "waiting" /\ r.node \in Nodes
    BY RowShape DEF TypeOK, Actors, Requests, Commit, Transactions
  <1>2. /\ Recorded(say, r.node) \in Events /\ Resumed \in Events
        /\ Finished("failed") \in Events
    BY <1>1 DEF Recorded, Resumed, Finished, Event, Events, EventTypes, Statuses,
                Terminal, Decisions
  <1>3. /\ events \in Seq(Events) /\ DOMAIN events = {1, 2}
        /\ events[1] = Recorded(say, r.node)
        /\ Fails(r, say) => events[2] = Finished("failed")
    BY <1>2 DEF DecisionEvents
  <1>4. row \in Rows
    BY <1>1, RowsBuilt DEF DecisionRow, Terminal, Branches, Decisions
  <1>5. /\ row.status = IF Fails(r, say) THEN "failed" ELSE "running"
        /\ row.work = IF Fails(r, say) THEN NoWork ELSE Work(say, r.node)
    BY DEF DecisionRow, ClosedRow, RunningRow, Row
  <1>6. reqs' \in Seq(RequestRows)
    BY <1>1, ResolveType DEF TypeOK
  <1>7. row.status \in Terminal => events[2] = Finished(row.status)
    BY <1>3, <1>5 DEF Terminal
  <1>8. row.work.branch \in Decisions =>
            events[1] = Recorded(row.work.branch, row.work.node)
    BY <1>3, <1>5 DEF NoWork, Work, Decisions
  <1>9. row.status \in {"failed", "running"} /\ ~WaitsOn(row)
    BY <1>5 DEF WaitsOn
  <1> HIDE DEF row, events
  <1>10. Write(a, events, row)
    BY <1>1, <1>3, <1>4, <1>6, <1>7, <1>8, <1>9 DEF Write, row, events
  <1> QED  BY <1>1, <1>3, <1>4, <1>10 DEF SomeWrite

\* So is the resumption of a suspended run.
LEMMA ResumeWrites ==
    ASSUME TypeOK, NEW t \in Tickers, Resume(t)
    PROVE  SomeWrite
  <1> DEFINE r == tx[t].row
  <1>1. CASE r.wait = "approval"
    BY <1>1, DecisionWrites DEF Resume, Decisions
  <1>2. CASE r.wait # "approval"
    <2> DEFINE row == RunningRow(Work("timer", NoNode))
               events == <<Resumed>>
    <2>1. Commit(t, events, row) /\ UNCHANGED reqs
      BY <1>2 DEF Resume
    <2>2. t \in Actors /\ HasRead(t) /\ tx[t].pc = "write" /\ reqs \in Seq(RequestRows)
      BY <2>1 DEF TypeOK, Actors, Commit
    <2>3. r.status = "waiting"
      BY <2>2 DEF HasRead
    <2>4. row \in Rows
      BY RowsBuilt DEF Branches
    <2>5. row.status = "running" /\ row.work = Work("timer", NoNode)
      BY DEF RunningRow, Row
    <2>6. row.work.branch \notin Decisions /\ ~WaitsOn(row)
      BY <2>5 DEF Work, Decisions, WaitsOn
    <2>7. events \in Seq(Events)
      BY DEF Resumed, Event, Events, EventTypes
    <2> HIDE DEF row, events
    <2>8. Write(t, events, row)
      BY <2>1, <2>2, <2>3, <2>5, <2>6 DEF Write, Terminal
    <2> QED  BY <2>2, <2>4, <2>7, <2>8 DEF SomeWrite
  <1> QED  BY <1>1, <1>2

\* So is the decision of a reviewer.
LEMMA DecideWrites ==
    ASSUME TypeOK, NEW d \in Reviewers, Decide(d)
    PROVE  SomeWrite
  <1>1. d \in Actors /\ tx[d].pc = "write" /\ tx[d] \in Transactions
    BY DEF TypeOK, Actors, Requests, Decide, Commit
  <1>2. tx[d].row.wait = "approval" /\ tx[d].say \in Decisions
    BY <1>1 DEF TypeOK, HasRead, WaitsOn
  <1> QED  BY <1>2, DecisionWrites DEF Decide

\* Nothing else changes the run, its log or its requests, except its start.
LEMMA StepWrites ==
    ASSUME TypeOK, [Next]_vars
    PROVE  UNCHANGED <<run, log, reqs>> \/ Start \/ SomeWrite
  <1>1. CASE UNCHANGED vars
    BY <1>1 DEF vars
  <1>2. CASE Start
    BY <1>2
  <1>3. ASSUME NEW a \in Actors, ReadLast(a)
        PROVE  UNCHANGED <<run, log, reqs>>
    BY <1>3 DEF ReadLast
  <1>4. ASSUME NEW e \in Executors, ExecStep(e)
        PROVE  UNCHANGED <<run, log, reqs>> \/ SomeWrite
    BY <1>4, FinalizeWrites, MarkFailedWrites
       DEF ExecStep, ExecStart, ExecEnd, ExecThrow, ExecBegin, FinalizeCollides,
           MarkFailedCollides
  <1>5. ASSUME NEW t \in Tickers, TickStep(t)
        PROVE  UNCHANGED <<run, log, reqs>> \/ SomeWrite
    BY <1>5, ResumeWrites DEF TickStep, TickList, ResumeBegin, ResumeCollides
  <1>6. ASSUME NEW d \in Reviewers, DecideStep(d)
        PROVE  UNCHANGED <<run, log, reqs>> \/ SomeWrite
    BY <1>6, DecideWrites DEF DecideStep, DecideBegin
  <1>7. ASSUME NEW c \in Cancellers, CancelStep(c)
        PROVE  UNCHANGED <<run, log, reqs>> \/ SomeWrite
    BY <1>7, CancelWrites DEF CancelStep, CancelBegin
  <1>8. ASSUME NEW a \in Requests, RequestCollides(a)
        PROVE  UNCHANGED <<run, log, reqs>>
    BY <1>8 DEF RequestCollides
  <1>9. CASE Crash
    BY <1>9 DEF Crash
  <1> QED  BY <1>1, <1>2, <1>3, <1>4, <1>5, <1>6, <1>7, <1>8, <1>9 DEF Next

\* A write keeps the log and adds its events, and writes its row if it applies.
LEMMA WriteEffect ==
    ASSUME TypeOK, NEW a \in Actors, NEW events \in Seq(Events), NEW row \in Rows,
           Write(a, events, row)
    PROVE  /\ run' \in Rows /\ log' \in Seq(Events) /\ reqs' \in Seq(RequestRows)
           /\ run' = IF Applies(a) THEN row ELSE run
           /\ \A e : Logged(e) => Logged(e)'
           /\ \A i \in DOMAIN events : Logged(events[i])'
  <1>1. log \in Seq(Events) /\ log' = log \o events
    BY DEF TypeOK, Write, Commit
  <1>2. /\ log' \in Seq(Events)
        /\ \A i \in DOMAIN log : i \in DOMAIN log' /\ log'[i] = log[i]
        /\ \A i \in DOMAIN events : Len(log) + i \in DOMAIN log'
                                    /\ log'[Len(log) + i] = events[i]
    BY <1>1, Appended
  <1> QED  BY <1>2 DEF TypeOK, Write, Commit, Logged

-----------------------------------------------------------------------------
(* Type correctness.                                                       *)

LEMMA InitType == Init => TypeOK
  <1> SUFFICES ASSUME Init PROVE TypeOK
    OBVIOUS
  <1>1. ClosedRow("absent") \in Rows /\ NoWork \in Works
    BY RowsBuilt DEF NoWork, Branches
  <1>2. TxIdle \in Transactions /\ ExecIdle \in Executions
    BY <1>1 DEF TxIdle, Transactions, ExecIdle, Executions
  <1>3. \A a \in Actors : HasRead(a)
    BY DEF Init, HasRead, TxIdle
  <1>4. echoed \in BOOLEAN
    BY Zenon DEF Init
  <1> QED  BY <1>1, <1>2, <1>3, <1>4, BoundsAssumption DEF Init, TypeOK

\* What a step may make of a transaction: begin, list, read the run as it is,
\* read the last sequence, end.
TxMoves(a) ==
    \/ tx'[a] = tx[a]
    \/ tx'[a] \in {TxIdle, TxDone}
    \/ tx'[a] = [tx[a] EXCEPT !.pc = "listed"]
    \/ tx[a].pc = "read" /\ tx'[a] = [tx[a] EXCEPT !.pc = "write", !.last = Len(log)]
    \/ \E say \in Decisions \cup {"none"} :
          /\ tx'[a] = [pc |-> "read", row |-> run, last |-> 0, say |-> say]
          /\ run.status \in {"running", "waiting"}
          /\ a \in Executors => run.status = "running"
          /\ a \in Tickers   => run.status = "waiting"
          /\ a \in Reviewers => WaitsOn(run) /\ say \in Decisions

LEMMA MovesKeepTypes ==
    ASSUME TypeOK, NEW a \in Actors, TxMoves(a)
    PROVE  tx'[a] \in Transactions /\ HasRead(a)'
  <1>1. tx[a] \in Transactions /\ HasRead(a) /\ run \in Rows /\ Len(log) \in Nat
    BY LenProperties DEF TypeOK
  <1>2. TxIdle \in Transactions /\ TxDone \in Transactions
    BY RowsBuilt DEF TxIdle, TxDone, Transactions
  <1>3. CASE tx'[a] = tx[a]
    BY <1>1, <1>3 DEF HasRead
  <1>4. CASE tx'[a] \in {TxIdle, TxDone}
    BY <1>2, <1>4 DEF HasRead, TxIdle, TxDone
  <1>5. CASE tx'[a] = [tx[a] EXCEPT !.pc = "listed"]
    BY <1>1, <1>5 DEF HasRead, Transactions
  <1>6. CASE tx[a].pc = "read" /\ tx'[a] = [tx[a] EXCEPT !.pc = "write", !.last = Len(log)]
    BY <1>1, <1>6 DEF HasRead, Transactions
  <1>7. ASSUME NEW say \in Decisions \cup {"none"},
               tx'[a] = [pc |-> "read", row |-> run, last |-> 0, say |-> say],
               run.status \in {"running", "waiting"},
               a \in Executors => run.status = "running",
               a \in Tickers   => run.status = "waiting",
               a \in Reviewers => WaitsOn(run) /\ say \in Decisions
        PROVE  tx'[a] \in Transactions /\ HasRead(a)'
    BY <1>1, <1>7 DEF HasRead, Transactions, WaitsOn
  <1> QED  BY <1>3, <1>4, <1>5, <1>6, <1>7 DEF TxMoves

\* Every step moves the transactions so, and no execution gets other work than
\* that of the run.
LEMMA StepMoves ==
    ASSUME TypeOK, [Next]_vars
    PROVE  /\ tx' \in [Actors -> Transactions]
           /\ \A a \in Actors : HasRead(a)'
           /\ exec' \in [Executors -> Executions]
           /\ \A e \in Executors : exec'[e].work \in {exec[e].work, NoWork, run.work}
           /\ parks' \in 0..MaxParks /\ crashes' \in 0..MaxCrashes
  <1> DEFINE TxGoal   == tx' = [a \in Actors |-> tx'[a]] /\ \A a \in Actors : TxMoves(a)
             ExecGoal == /\ exec' \in [Executors -> Executions]
                         /\ \A e \in Executors :
                                exec'[e].work \in {exec[e].work, NoWork, run.work}
             Bounds   == parks' \in 0..MaxParks /\ crashes' \in 0..MaxCrashes
  <1> SUFFICES TxGoal /\ ExecGoal /\ Bounds
    BY MovesKeepTypes
  <1>0. /\ tx \in [Actors -> Transactions] /\ exec \in [Executors -> Executions]
        /\ parks \in 0..MaxParks /\ crashes \in 0..MaxCrashes
        /\ MaxParks \in Nat /\ MaxCrashes \in Nat
        /\ run \in Rows /\ run.work \in Works
        /\ ExecIdle \in Executions /\ ExecIdle.work = NoWork
    BY BoundsAssumption, RowShape, RowsBuilt
       DEF TypeOK, ExecIdle, Executions, NoWork, Branches
  <1>1. CASE UNCHANGED vars
    BY <1>0, <1>1 DEF vars, TxMoves
  <1>2. Spawn => ExecGoal
    BY <1>0 DEF Spawn, Executions
  <1>3. \A row : SpawnIfRunning(row) => ExecGoal
    BY <1>0, <1>2 DEF SpawnIfRunning
  <1>4. CASE Start
    BY <1>0, <1>2, <1>4 DEF Start, TxMoves
  <1>5. ASSUME NEW a \in Actors, ReadLast(a)
        PROVE  TxGoal /\ ExecGoal /\ Bounds
    BY <1>0, <1>5 DEF ReadLast, TxMoves
  <1>6. ASSUME NEW e \in Executors, ExecStep(e)
        PROVE  TxGoal /\ ExecGoal /\ Bounds
    <2>0. e \in Actors /\ e \notin Tickers /\ e \notin Reviewers
      BY ActorsAssumption DEF Actors, Requests
    <2>1. CASE ExecStart(e)
      BY <1>0, <2>0, <2>1 DEF ExecStart, TxMoves, Executions
    <2>2. CASE ExecEnd(e)
      BY <1>0, <2>0, <2>2 DEF ExecEnd, TxMoves, Executions
    <2>3. CASE ExecThrow(e)
      BY <1>0, <2>0, <2>3 DEF ExecThrow, TxMoves, Executions
    <2>4. CASE ExecBegin(e)
      BY <1>0, <2>0, <2>4 DEF ExecBegin, ReadRow, TxMoves
    <2>5. CASE Finalize(e)
      <3>1. parks' \in {parks, parks + 1} /\ (parks' = parks \/ parks < MaxParks)
        <4>1. PICK o \in Endings \cup (IF parks < MaxParks THEN Suspensions ELSE {}) :
                  parks' = IF o.status = "waiting" THEN parks + 1 ELSE parks
          BY <2>5 DEF Finalize
        <4>2. o \in Endings => o.status # "waiting"
          BY DEF Endings, ClosedRow, Row
        <4> QED  BY <4>1, <4>2
      <3>2. /\ tx' = [tx EXCEPT ![e] = TxIdle] /\ exec' = [exec EXCEPT ![e] = ExecIdle]
            /\ UNCHANGED crashes
        BY <2>5 DEF Finalize
      <3>3. TxGoal /\ ExecGoal
        BY <1>0, <2>0, <3>2 DEF TxMoves
      <3>4. Bounds
        BY <1>0, <3>1, <3>2
      <3> QED  BY <3>3, <3>4
    <2>6. CASE FinalizeCollides(e)
      BY <1>0, <2>0, <2>6 DEF FinalizeCollides, TxMoves, Executions
    <2>7. CASE MarkFailed(e)
      BY <1>0, <2>0, <2>7 DEF MarkFailed, TxMoves
    <2>8. CASE MarkFailedCollides(e)
      BY <1>0, <2>0, <2>8 DEF MarkFailedCollides, TxMoves
    <2> QED  BY <1>6, <2>1, <2>2, <2>3, <2>4, <2>5, <2>6, <2>7, <2>8 DEF ExecStep
  <1>7. ASSUME NEW t \in Tickers, TickStep(t)
        PROVE  TxGoal /\ ExecGoal /\ Bounds
    <2>0. t \in Actors /\ t \notin Executors /\ t \notin Reviewers
      BY ActorsAssumption DEF Actors, Requests
    <2>1. CASE TickList(t)
      BY <1>0, <2>0, <2>1 DEF TickList, TxMoves
    <2>2. CASE ResumeBegin(t)
      BY <1>0, <1>3, <2>0, <2>2 DEF ResumeBegin, ReadRow, TxMoves, Decisions
    <2>3. CASE Resume(t)
      BY <1>0, <1>3, <2>0, <2>3 DEF Resume, TxMoves
    <2>4. CASE ResumeCollides(t)
      BY <1>0, <2>0, <2>4 DEF ResumeCollides, TxMoves
    <2> QED  BY <1>7, <2>1, <2>2, <2>3, <2>4 DEF TickStep
  <1>8. ASSUME NEW d \in Reviewers, DecideStep(d)
        PROVE  TxGoal /\ ExecGoal /\ Bounds
    <2>0. d \in Actors /\ d \notin Executors /\ d \notin Tickers
      BY ActorsAssumption DEF Actors, Requests
    <2>1. ASSUME NEW say \in Decisions, DecideBegin(d, say)
          PROVE  TxGoal /\ ExecGoal /\ Bounds
      BY <1>0, <2>0, <2>1 DEF DecideBegin, ReadRow, TxMoves, WaitsOn
    <2>2. CASE Decide(d)
      BY <1>0, <1>3, <2>0, <2>2 DEF Decide, TxMoves
    <2> QED  BY <1>8, <2>1, <2>2 DEF DecideStep
  <1>9. ASSUME NEW c \in Cancellers, CancelStep(c)
        PROVE  TxGoal /\ ExecGoal /\ Bounds
    <2>0. c \in Actors /\ c \notin Executors /\ c \notin Tickers /\ c \notin Reviewers
      BY ActorsAssumption DEF Actors, Requests
    <2>1. CASE CancelBegin(c)
      <3>1. run.status \notin Terminal /\ run.status # "absent" =>
                run.status \in {"running", "waiting"}
        BY <1>0, RowShape DEF Statuses
      <3> QED  BY <1>0, <2>0, <2>1, <3>1 DEF CancelBegin, ReadRow, TxMoves
    <2>2. CASE Cancel(c)
      BY <1>0, <2>0, <2>2 DEF Cancel, TxMoves
    <2> QED  BY <1>9, <2>1, <2>2 DEF CancelStep
  <1>10. ASSUME NEW a \in Requests, RequestCollides(a)
         PROVE  TxGoal /\ ExecGoal /\ Bounds
    BY <1>0, <1>10 DEF RequestCollides, TxMoves, Actors
  <1>11. CASE Crash
    BY <1>0, <1>11 DEF Crash, TxMoves
  <1> QED  BY <1>1, <1>4, <1>5, <1>6, <1>7, <1>8, <1>9, <1>10, <1>11 DEF Next

\* An echo once heard is remembered.
LEMMA EchoType == echoed \in BOOLEAN /\ [Next]_vars => echoed' \in BOOLEAN
  <1> SUFFICES ASSUME echoed \in BOOLEAN, [Next]_vars PROVE echoed' \in BOOLEAN
    OBVIOUS
  <1>1. ASSUME NEW row, SpawnIfRunning(row) PROVE echoed' \in BOOLEAN
    BY Zenon, <1>1 DEF SpawnIfRunning
  <1>2. ASSUME NEW e \in Executors, ExecStep(e) PROVE echoed' = echoed
    BY <1>2 DEF ExecStep, ExecStart, ExecEnd, ExecThrow, ExecBegin, Finalize,
                FinalizeCollides, MarkFailed, MarkFailedCollides
  <1>3. ASSUME NEW t \in Tickers, TickStep(t) PROVE echoed' \in BOOLEAN
    <2>1. echoed' = echoed \/ \E row : SpawnIfRunning(row)
      BY Zenon, <1>3 DEF TickStep, TickList, ResumeBegin, Resume, ResumeCollides
    <2> QED  BY Zenon, <1>1, <2>1
  <1>4. ASSUME NEW d \in Reviewers, DecideStep(d) PROVE echoed' \in BOOLEAN
    <2>1. echoed' = echoed \/ \E row : SpawnIfRunning(row)
      BY Zenon, <1>4 DEF DecideStep, DecideBegin, Decide
    <2> QED  BY Zenon, <1>1, <2>1
  <1>5. ASSUME NEW c \in Cancellers, CancelStep(c) PROVE echoed' = echoed
    BY <1>5 DEF CancelStep, CancelBegin, Cancel
  <1>6. CASE Start \/ Crash \/ UNCHANGED vars
             \/ (\E a \in Actors : ReadLast(a)) \/ (\E a \in Requests : RequestCollides(a))
    <2>1. echoed' = echoed
      BY <1>6 DEF Start, Crash, vars, ReadLast, RequestCollides
    <2> QED  BY Zenon, <2>1
  <1> QED  BY Zenon, <1>2, <1>3, <1>4, <1>5, <1>6 DEF Next

LEMMA StepType == TypeOK /\ [Next]_vars => TypeOK'
  <1> SUFFICES ASSUME TypeOK, [Next]_vars PROVE TypeOK'
    OBVIOUS
  <1>0. echoed' \in BOOLEAN
    BY Zenon, EchoType DEF TypeOK
  <1>1. CASE UNCHANGED <<run, log, reqs>>
    BY <1>0, <1>1, StepMoves DEF TypeOK
  <1>2. CASE Start
    <2>1. run' \in Rows
      BY <1>2, RowsBuilt DEF Start, Branches
    <2>2. log' \in Seq(Events)
      <3> DEFINE q == Event("run.queued", "", NoNode)
                 s == Event("run.started", "", NoNode)
      <3>1. q \in Events /\ s \in Events
        BY DEF Event, Events, EventTypes
      <3>2. log' = log \o <<q, s>>
        BY <1>2 DEF Start
      <3> HIDE DEF q, s
      <3>3. <<q, s>> \in Seq(Events)
        BY <3>1
      <3> QED  BY <3>2, <3>3, Appended DEF TypeOK
    <2> QED  BY <1>0, <1>2, <2>1, <2>2, StepMoves DEF TypeOK, Start
  <1>3. CASE SomeWrite
    BY <1>0, <1>3, WriteEffect, StepMoves DEF TypeOK, SomeWrite
  <1> QED  BY <1>1, <1>2, <1>3, StepWrites

\* In every reachable state the row is one of the shapes its status allows,
\* the log and the requests are well formed, and an open transaction of each
\* kind holds a row in the state that kind is about.
THEOREM TypeCorrect == Spec => []TypeOK
  <1> QED  BY InitType, StepType, PTL DEF Spec

-----------------------------------------------------------------------------
(* The safety properties.                                                  *)

\* A status a write has applied is one its events record; a run the write did
\* not apply to keeps the record it had.
LEMMA FinishedStep == TypeOK /\ FinishedRecorded /\ [Next]_vars => FinishedRecorded'
  <1> SUFFICES ASSUME TypeOK, FinishedRecorded, [Next]_vars, run'.status \in Terminal
               PROVE  Logged(Finished(run.status))'
    BY DEF FinishedRecorded
  <1>1. CASE UNCHANGED <<run, log, reqs>>
    BY <1>1 DEF FinishedRecorded, Logged
  <1>2. CASE Start
    BY <1>2 DEF Start, RunningRow, Row, Terminal
  <1>3. CASE SomeWrite
    <2>1. PICK a \in Actors, events \in Seq(Events), row \in Rows : Write(a, events, row)
      BY <1>3 DEF SomeWrite
    <2>2. CASE Applies(a)
      BY <2>1, <2>2, WriteEffect DEF Write, Logged
    <2>3. CASE ~Applies(a)
      BY <2>1, <2>3, WriteEffect DEF FinishedRecorded
    <2> QED  BY <2>2, <2>3
  <1> QED  BY <1>1, <1>2, <1>3, StepWrites

\* A write that makes the run wait for an approval brings the request; one that
\* leaves it waiting has not touched the requests.
LEMMA WaitingStep == TypeOK /\ WaitingHasRequest /\ [Next]_vars => WaitingHasRequest'
  <1> SUFFICES ASSUME TypeOK, WaitingHasRequest, [Next]_vars, WaitsOn(run')
               PROVE  (PendingRows(run.node) # {})'
    BY DEF WaitingHasRequest
  <1>1. CASE UNCHANGED <<run, log, reqs>>
    BY <1>1 DEF WaitingHasRequest, PendingRows
  <1>2. CASE Start
    BY <1>2 DEF Start, RunningRow, Row, WaitsOn
  <1>3. CASE SomeWrite
    <2>1. PICK a \in Actors, events \in Seq(Events), row \in Rows : Write(a, events, row)
      BY <1>3 DEF SomeWrite
    <2>2. CASE Applies(a)
      <3> DEFINE new == [node |-> row.node, status |-> "pending"]
      <3>1. run' = row /\ reqs' = Append(reqs, new) /\ reqs \in Seq(RequestRows)
        BY <2>1, <2>2, WriteEffect DEF Write, CreateRequest, TypeOK
      <3>2. Len(reqs) + 1 \in DOMAIN reqs' /\ reqs'[Len(reqs) + 1] = new
        BY <3>1
      <3> QED  BY <3>1, <3>2 DEF PendingRows
    <2>3. CASE ~Applies(a)
      <3>1. run' = run /\ reqs' = reqs
        BY <2>1, <2>3, WriteEffect DEF Write, Applies, WaitsOn
      <3> QED  BY <3>1 DEF WaitingHasRequest, PendingRows
    <2> QED  BY <2>2, <2>3
  <1> QED  BY <1>1, <1>2, <1>3, StepWrites

\* Work from the branch of a decision comes with the record of the decision,
\* and executions only take the work of the run.
LEMMA DecidedStep ==
    TypeOK /\ DecidedWorkIsRecorded /\ [Next]_vars => DecidedWorkIsRecorded'
  <1> DEFINE Ok(w) == w.branch \in Decisions => Logged(Recorded(w.branch, w.node))
  <1> SUFFICES ASSUME TypeOK, DecidedWorkIsRecorded, [Next]_vars
               PROVE  Ok(run.work)' /\ \A e \in Executors : Ok(exec[e].work)'
    BY DEF DecidedWorkIsRecorded
  <1>1. Ok(run.work) /\ Ok(NoWork) /\ \A e \in Executors : Ok(exec[e].work)
    BY DEF DecidedWorkIsRecorded, NoWork, Work, Decisions
  <1>2. (\A x : Logged(x) => Logged(x)') /\ Ok(run.work)'
    <2>1. CASE UNCHANGED <<run, log, reqs>>
      BY <1>1, <2>1 DEF Logged
    <2>2. CASE Start
      <3> DEFINE q == Event("run.queued", "", NoNode)
                 s == Event("run.started", "", NoNode)
      <3>1. run'.work.branch \notin Decisions /\ log' = log \o <<q, s>>
        BY <2>2 DEF Start, RunningRow, Row, Work, Decisions
      <3>2. q \in Events /\ s \in Events
        BY DEF Event, Events, EventTypes
      <3> HIDE DEF q, s
      <3>3. <<q, s>> \in Seq(Events)
        BY <3>2
      <3> QED  BY <3>1, <3>3, Appended DEF Logged, TypeOK
    <2>3. CASE SomeWrite
      <3>1. PICK a \in Actors, events \in Seq(Events), row \in Rows : Write(a, events, row)
        BY <2>3 DEF SomeWrite
      <3>2. \A x : Logged(x) => Logged(x)'
        BY <3>1, WriteEffect
      <3>3. CASE Applies(a)
        BY <3>1, <3>2, <3>3, WriteEffect DEF Write, Logged
      <3>4. CASE ~Applies(a)
        BY <1>1, <3>1, <3>2, <3>4, WriteEffect
      <3> QED  BY <3>2, <3>3, <3>4
    <2> QED  BY <2>1, <2>2, <2>3, StepWrites
  <1>3. ASSUME NEW e \in Executors
        PROVE  Ok(exec[e].work)'
    BY <1>1, <1>2, <1>3, StepMoves
  <1> QED  BY <1>2, <1>3

LEMMA InitInv == Init => IInv
  <1> SUFFICES ASSUME Init PROVE IInv
    OBVIOUS
  <1>1. run.status = "absent" /\ run.work = NoWork
    BY DEF Init, ClosedRow, Row
  <1>2. \A e \in Executors : exec[e].work = NoWork
    BY DEF Init, ExecIdle
  <1> QED  BY <1>1, <1>2, InitType DEF IInv, FinishedRecorded, WaitingHasRequest, WaitsOn,
              DecidedWorkIsRecorded, NoWork, Work, Decisions, Terminal

LEMMA StepInv == IInv /\ [Next]_vars => IInv'
  BY StepType, FinishedStep, WaitingStep, DecidedStep DEF IInv

LEMMA Invariance == Spec => []IInv
  BY InitInv, StepInv, PTL DEF Spec

\* However the actors race, the log of a finished run has a run.finished event
\* with the status that the row has.
THEOREM FinishedIsRecorded == Spec => []FinishedRecorded
  <1>1. IInv => FinishedRecorded
    BY DEF IInv
  <1> QED  BY <1>1, Invariance, PTL

\* A run that waits for an approval always has a pending request of its node.
THEOREM WaitingIsRequested == Spec => []WaitingHasRequest
  <1>1. IInv => WaitingHasRequest
    BY DEF IInv
  <1> QED  BY <1>1, Invariance, PTL

\* No execution starts from the branch of a decision that is not in the log.
THEOREM DecidedIsRecorded == Spec => []DecidedWorkIsRecorded
  <1>1. IInv => DecidedWorkIsRecorded
    BY DEF IInv
  <1> QED  BY <1>1, Invariance, PTL

\* No step changes the row of a finished run: a write was made by a transaction
\* that read the run running or waiting, so it does not apply.
THEOREM FinalIsFinal == Spec => TerminalIsFinal
  <1>1. IInv /\ [Next]_vars => [run.status \in Terminal => run' = run]_run
    <2> SUFFICES ASSUME IInv, [Next]_vars, run.status \in Terminal
                 PROVE  run' = run
      OBVIOUS
    <2>1. CASE Start
      BY <2>1 DEF Start, Terminal
    <2>2. CASE SomeWrite
      <3>1. PICK a \in Actors, events \in Seq(Events), row \in Rows : Write(a, events, row)
        BY <2>2 DEF SomeWrite
      <3>2. ~Applies(a)
        BY <3>1 DEF Write, HasRead, Applies, Terminal
      <3> QED  BY <3>1, <3>2, WriteEffect DEF IInv
    <2> QED  BY <2>1, <2>2, StepWrites DEF IInv
  <1> QED  BY <1>1, Invariance, PTL DEF Spec, TerminalIsFinal

-----------------------------------------------------------------------------
(* One execution at a time.                                                *)

\* While nobody has executed a run that others had resumed: at most one slot is
\* taken, and none while the run waits.
OneAtATime ==
    ~echoed =>
        /\ \A e, f \in Executors : exec[e].pc # "idle" /\ exec[f].pc # "idle" => e = f
        /\ run.status \in {"absent", "waiting"} => \A e \in Executors : exec[e].pc = "idle"

\* A free slot is taken while every other is free.
LEMMA SpawnAlone ==
    ASSUME TypeOK, Spawn, \A e \in Executors : exec[e].pc = "idle"
    PROVE  \A e, f \in Executors : exec'[e].pc # "idle" /\ exec'[f].pc # "idle" => e = f
  BY DEF Spawn, TypeOK

\* A decision or a resumption that executes the run has brought it out of its
\* suspension, or is an echo.
LEMMA AnswerAlone ==
    ASSUME TypeOK, OneAtATime, ~echoed', NEW a \in Tickers \cup Reviewers,
           tx[a].pc = "write", SpawnIfRunning(run'), echoed => echoed',
           run' = (IF Applies(a) THEN run' ELSE run),
           Applies(a) => run'.status \notin {"absent", "waiting"}
    PROVE  OneAtATime'
  <1> DEFINE Apart == \A e, f \in Executors :
                          exec[e].pc # "idle" /\ exec[f].pc # "idle" => e = f
             Idle  == \A e \in Executors : exec[e].pc = "idle"
  <1>0. /\ ~echoed /\ Apart /\ (run.status \in {"absent", "waiting"} => Idle)
        /\ a \in Actors
    BY DEF OneAtATime, Actors, Requests
  <1>1. tx[a].row.status = "waiting"
    BY <1>0 DEF TypeOK, HasRead, WaitsOn
  <1>2. CASE Applies(a)
    <2>1. Idle
      BY <1>0, <1>1, <1>2 DEF Applies
    <2>2. Apart'
      BY <1>0, <2>1, SpawnAlone DEF SpawnIfRunning
    <2> QED  BY <1>2, <2>2 DEF OneAtATime
  <1>3. CASE ~Applies(a)
    <2>1. run' = run
      BY <1>3
    <2>2. run.status # "running"
      BY <2>1 DEF SpawnIfRunning
    <2>3. exec' = exec
      BY <2>1, <2>2 DEF SpawnIfRunning
    <2> QED  BY <1>0, <2>1, <2>3 DEF OneAtATime
  <1> QED  BY <1>2, <1>3

\* Whatever ticks, decisions, cancellations and crashes do, it is inductive.
LEMMA OneStep == TypeOK /\ OneAtATime /\ [Next]_vars => OneAtATime'
  <1> SUFFICES ASSUME TypeOK, OneAtATime, [Next]_vars, ~echoed'
               PROVE  OneAtATime'
    BY DEF OneAtATime
  <1> DEFINE Idle  == \A e \in Executors : exec[e].pc = "idle"
             Apart == \A e, f \in Executors :
                          exec[e].pc # "idle" /\ exec[f].pc # "idle" => e = f
  <1>0. /\ tx \in [Actors -> Transactions] /\ exec \in [Executors -> Executions]
        /\ ~echoed => Apart /\ (run.status \in {"absent", "waiting"} => Idle)
    BY DEF OneAtATime, TypeOK
  <1>1. CASE UNCHANGED vars
    BY <1>0, <1>1 DEF vars, OneAtATime
  <1>2. CASE Start
    <2>1. run.status = "absent" /\ run'.status = "running" /\ Spawn /\ ~echoed
      BY <1>2 DEF Start, RunningRow, Row
    <2>2. Idle
      BY <1>0, <2>1
    <2>3. Apart'
      BY <2>1, <2>2, SpawnAlone
    <2> QED  BY <2>1, <2>3 DEF OneAtATime
  <1>3. ASSUME NEW a \in Actors, ReadLast(a) PROVE OneAtATime'
    BY <1>0, <1>3 DEF ReadLast, OneAtATime
  <1>4. ASSUME NEW e \in Executors, ExecStep(e) PROVE OneAtATime'
    <2>0. e \in Actors /\ ~echoed
      BY <1>4 DEF Actors, ExecStep, ExecStart, ExecEnd, ExecThrow, ExecBegin, Finalize,
                  FinalizeCollides, MarkFailed, MarkFailedCollides
    <2>1. exec[e].pc # "idle" /\ \A f \in Executors : exec'[f].pc # "idle" => f = e
      <3>1. exec[e].pc # "idle"
        BY <1>4 DEF ExecStep, ExecStart, ExecEnd, ExecThrow, ExecBegin, Finalize,
                    FinalizeCollides, MarkFailed, MarkFailedCollides
      <3>2. \A f \in Executors : f # e => exec'[f] = exec[f]
        BY <1>0, <1>4 DEF ExecStep, ExecStart, ExecEnd, ExecThrow, ExecBegin, Finalize,
                    FinalizeCollides, MarkFailed, MarkFailedCollides
      <3> QED  BY <1>0, <2>0, <3>1, <3>2
    <2>2. run.status \notin {"absent", "waiting"}
      BY <1>0, <2>0, <2>1
    <2>3. CASE run' = run
      BY <2>1, <2>2, <2>3 DEF OneAtATime
    <2>4. CASE run' # run
      <3>1. Finalize(e) \/ MarkFailed(e)
        BY <1>4, <2>4 DEF ExecStep, ExecStart, ExecEnd, ExecThrow, ExecBegin,
                  FinalizeCollides, MarkFailedCollides
      <3>2. exec' = [exec EXCEPT ![e] = ExecIdle]
        BY <3>1 DEF Finalize, MarkFailed
      <3>3. exec'[e].pc = "idle"
        BY <1>0, <3>2 DEF ExecIdle
      <3> QED  BY <2>1, <3>3 DEF OneAtATime
    <2> QED  BY <2>3, <2>4
  <1>5. ASSUME NEW t \in Tickers, TickStep(t) PROVE OneAtATime'
    <2>1. CASE TickList(t)
      BY <1>0, <2>1 DEF TickList, OneAtATime
    <2>2. CASE ResumeBegin(t)
      <3>1. run' = run /\ exec' = exec /\ echoed' = echoed
        BY <2>2 DEF ResumeBegin, SpawnIfRunning
      <3> QED  BY <1>0, <3>1 DEF OneAtATime
    <2>3. CASE Resume(t)
      <3>1. /\ tx[t].pc = "write" /\ SpawnIfRunning(run') /\ (echoed => echoed')
            /\ run' = IF Applies(t) THEN run' ELSE run
        BY <2>3 DEF Resume, Commit, SpawnIfRunning
      <3>2. Applies(t) => run'.status \notin {"absent", "waiting"}
        BY <2>3 DEF Resume, Commit, DecisionRow, ClosedRow, RunningRow, Row
      <3> QED  BY <3>1, <3>2, AnswerAlone
    <2>4. CASE ResumeCollides(t)
      BY <1>0, <2>4 DEF ResumeCollides, OneAtATime
    <2> QED  BY <1>5, <2>1, <2>2, <2>3, <2>4 DEF TickStep
  <1>6. ASSUME NEW d \in Reviewers, DecideStep(d) PROVE OneAtATime'
    <2>1. ASSUME NEW say \in Decisions, DecideBegin(d, say) PROVE OneAtATime'
      BY <1>0, <2>1 DEF DecideBegin, OneAtATime
    <2>2. CASE Decide(d)
      <3>1. /\ tx[d].pc = "write" /\ SpawnIfRunning(run') /\ (echoed => echoed')
            /\ run' = IF Applies(d) THEN run' ELSE run
        BY <2>2 DEF Decide, Commit, SpawnIfRunning
      <3>2. Applies(d) => run'.status \notin {"absent", "waiting"}
        BY <2>2 DEF Decide, Commit, DecisionRow, ClosedRow, RunningRow, Row
      <3> QED  BY <3>1, <3>2, AnswerAlone
    <2> QED  BY <1>6, <2>1, <2>2 DEF DecideStep
  <1>7. ASSUME NEW c \in Cancellers, CancelStep(c) PROVE OneAtATime'
    <2>1. exec' = exec /\ echoed' = echoed
      BY <1>7 DEF CancelStep, CancelBegin, Cancel
    <2>2. run' = run \/ run'.status = "cancelled"
      BY <1>7 DEF CancelStep, CancelBegin, Cancel, Commit, ClosedRow, Row
    <2> QED  BY <1>0, <2>1, <2>2 DEF OneAtATime
  <1>8. ASSUME NEW a \in Requests, RequestCollides(a) PROVE OneAtATime'
    BY <1>0, <1>8 DEF RequestCollides, OneAtATime
  <1>9. CASE Crash
    BY <1>9 DEF Crash, ExecIdle, OneAtATime
  <1> QED  BY <1>1, <1>2, <1>3, <1>4, <1>5, <1>6, <1>7, <1>8, <1>9 DEF Next

\* For any number of overlapping ticks, of reviewers, cancellations, executions
\* and crashes: two executions of the run at a time are due to a tick or a
\* decision that executed a run which somebody else had resumed.
THEOREM OneExecution == Spec => []SingleExecution
  <1>1. Init => OneAtATime
    BY DEF Init, OneAtATime, ExecIdle
  <1>2. TypeOK /\ OneAtATime /\ [Next]_vars => OneAtATime'
    BY OneStep
  <1>3. OneAtATime => SingleExecution
    BY DEF OneAtATime, SingleExecution, Executing
  <1> QED  BY <1>1, <1>2, <1>3, TypeCorrect, PTL DEF Spec

-----------------------------------------------------------------------------
(* The refinement of RunContract.                                          *)

\* Under the invariant the open requests are just the node waited on.
LEMMA StepRefines ==
    IInv /\ [Next]_vars => [Contract!Next]_(Contract!vars)
  <1> SUFFICES ASSUME IInv, [Next]_vars
               PROVE  Contract!Next \/ UNCHANGED <<run.status, OpenRequests>>
    BY DEF Contract!vars
  <1>1. IInv'
    BY StepInv
  <1>2. /\ OpenRequests  = IF WaitsOn(run)  THEN {run.node}  ELSE {}
        /\ OpenRequests' = IF WaitsOn(run') THEN {run'.node} ELSE {}
    BY <1>1 DEF IInv, WaitingHasRequest, OpenRequests, WaitsOn, PendingRows
  <1>3. CASE run' = run
    BY <1>2, <1>3
  <1>4. CASE Start
    <2>1. run.status = "absent" /\ run'.status = "running"
      BY <1>4 DEF Start, RunningRow, Row
    <2> QED  BY <1>2, <2>1 DEF WaitsOn, Contract!Next, Contract!Start
  <1>5. CASE SomeWrite
    <2>1. PICK a \in Actors, events \in Seq(Events), row \in Rows : Write(a, events, row)
      BY <1>5 DEF SomeWrite
    <2>2. CASE Applies(a)
      <3>1. run' = row /\ run.status = tx[a].row.status /\ run.status \in {"running", "waiting"}
        BY <2>1, <2>2, WriteEffect DEF IInv, Write, HasRead, Applies
      <3>2. CASE row.status = "waiting"
        <4>1. run.status = "running"
          BY <2>1, <3>1, <3>2 DEF Write
        <4>2. OpenRequests' \in {{}} \cup {{n} : n \in Nodes}
          BY <1>2, <3>1, RowShape DEF WaitsOn
        <4> QED  BY <3>1, <3>2, <4>1, <4>2 DEF Contract!Next, Contract!Suspend
      <3>3. CASE row.status # "waiting"
        <4>1. OpenRequests' = {}
          BY <1>2, <3>1, <3>3 DEF WaitsOn
        <4> QED  BY <2>1, <3>1, <3>3, <4>1
                 DEF Write, Contract!Next, Contract!Continue, Contract!Succeed,
                     Contract!FailOrCancel
      <3> QED  BY <3>2, <3>3
    <2>3. CASE ~Applies(a)
      BY <1>3, <2>1, <2>3, WriteEffect DEF IInv
    <2> QED  BY <2>2, <2>3
  <1> QED  BY <1>3, <1>4, <1>5, StepWrites DEF IInv

\* The row and the request table together keep the promise of RunContract: the
\* status takes no shortcut, and a request stays open just as long as the run
\* waits on its node.
THEOREM Refinement == Spec => ImplementsContract
  <1>1. Init => Contract!Init
    BY DEF Init, ClosedRow, Row, OpenRequests, WaitsOn, Contract!Init
  <1> QED  BY <1>1, Invariance, StepRefines, PTL DEF Spec, ImplementsContract, Contract!Spec
=============================================================================
