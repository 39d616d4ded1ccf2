---------------------------- MODULE InboundProofs ----------------------------
(***************************************************************************)
(* What comes in from outside and launches flows: videos of a channel      *)
(* (YouTubeIngestion) and messages of a conversation (ChannelBridge).      *)
(*                                                                         *)
(* A row of an ingestion tells what its run has come to, no approval is    *)
(* shown that nobody has given, and a subscription launches a video once:  *)
(* for any videos, notifications, requests, runs and crashes.  Every call  *)
(* of the gateway client can be settled, and a message that is heard       *)
(* launches each flow once: for any sockets, calls, messages, flows and    *)
(* handlers.  The two share nothing but this module.                       *)
(***************************************************************************)
EXTENDS YouTubeIngestion, ChannelBridge, FiniteSetTheorems, TLAPS

-----------------------------------------------------------------------------
(* YouTubeIngestion: what its invariant is made of.                        *)

\* The domains of the variables, by name.
RowDomain  == [status : RowStatuses, article : {"pending", "drafted", "approved", "failed"},
               run : Runs \cup {NoRun}]
RunDomain  == [status : RunStatuses, approved : BOOLEAN, from : {"none", "feed", "hand"}]
SyncDomain == [pc : {"idle", "due", "read"}, of : SUBSET Videos,
               status : RunStatuses, approved : BOOLEAN]
OpDomain   == [pc : {"idle", "read", "launch", "link", "done"},
               video : Videos \cup {"none"}, linked : BOOLEAN, run : Runs \cup {NoRun}]
Domains ==
    /\ changes \in 0 .. MaxChanges /\ clean \in BOOLEAN
    /\ row \in [Videos -> RowDomain]
    /\ run \in [Runs -> RunDomain]
    /\ exec \in [Runs -> {"none", "linked", "plain"}]
    /\ sync \in [Runs -> [Callers -> SyncDomain]]
    /\ op \in [Actors -> OpDomain]

Launches(a)  == op[a].pc \in {"read", "launch", "link"}
Dealt(r, c)  == sync[r][c].pc # "idle"

\* Who launches has a video, and then a run.
Holds(a) ==
    /\ Launches(a) => op[a].video \in Videos
    /\ op[a].pc = "link" => op[a].run \in Runs

\* Nobody knows of a run that is not there.
Unknown(r) ==
    run[r].status = "absent" =>
        /\ exec[r] = "none" /\ (\A c \in Callers : ~Dealt(r, c))
        /\ \A v \in Videos : row[v].run # r
        /\ \A a \in Actors : op[a].pc = "link" => op[a].run # r

\* Nothing is known of a video that has no row.
Blank == \A v \in Videos : row[v].status = "none" => row[v] = NoRow

\* An approval that was read has been given, and stays given.
Given(r) == run[r].status = "succeeded" /\ run[r].approved
Proven   == \A r \in Runs, c \in Callers : sync[r][c].approved => Given(r)

Known == (\A a \in Actors : Holds(a)) /\ (\A r \in Runs : Unknown(r))
         /\ Blank /\ Proven /\ ApprovedIsReal

\* One launch at a time; by hand, with nothing else under way; by a
\* notification, of a video that has no run.
Alone  == \A a, b \in Actors : Launches(a) /\ Launches(b) => a = b
ByHand == \A a \in Manuals : Launches(a) =>
              \A r \in Runs : exec[r] = "none" /\ \A c \in Callers : ~Dealt(r, c)
ByFeed == \A a \in Feeds : op[a].pc \in {"launch", "link"} => row[op[a].video].run = NoRun
Started(a) == op[a].pc = "link" =>
    LET r == op[a].run IN
    /\ run[r].status = "running" /\ exec[r] = "none"
    /\ \A c \in Callers : ~Dealt(r, c)
    /\ \A v \in Videos : row[v].run # r
Launched == Alone /\ ByHand /\ ByFeed /\ \A a \in Actors : Started(a)

\* A synchronisation has read what the run has come to and still is.
Settled(r, c) ==
    /\ Dealt(r, c) => run[r].status \in {"waiting", "succeeded", "failed"}
    /\ sync[r][c].pc = "read" =>
          /\ sync[r][c].status = run[r].status
          /\ \A v \in Videos : v \in sync[r][c].of <=> row[v].run = r
          /\ sync[r][c].approved <=> run[r].approved /\ run[r].status = "succeeded"
Synced == \A r \in Runs : exec[r] # "plain" /\ \A c \in Callers : Settled(r, c)

\* A row tells what its run has come to, or will be told.
Agrees(v)  == Patch(row[v], run[row[v].run].status, run[row[v].run].approved) = row[v]
Awaits(v)  == \/ exec[row[v].run] = "linked"
              \/ \E c \in Callers : Dealt(row[v].run, c)
              \/ \E a \in Manuals : Launches(a) /\ op[a].video = v
Telling    == \A v \in Videos : row[v].run # NoRun /\ row[v].status # "failed"
                                => Agrees(v) \/ Awaits(v)

\* For each run that a notification has started there is a video it was for.
FromFeed == {r \in Runs : run[r].from = "feed"}
Taken    == {v \in Videos : \/ row[v].run # NoRun
                            \/ \E a \in Actors : op[a].pc = "link" /\ op[a].video = v}
Counted  == Cardinality(FromFeed) <= Cardinality(Taken)

Orderly == clean => Launched /\ Synced /\ Telling /\ Counted

IInv == Domains /\ Known /\ Orderly
-----------------------------------------------------------------------------
(* Domains.                                                                *)

LEMMA Names ==
    /\ RowStatuses = {"none", "detected", "queued", "running", "article_drafted",
                      "approved", "failed"}
    /\ RunStatuses = {"absent", "running", "waiting", "succeeded", "failed"}
    /\ Callers = {"exec", "user"} /\ NoRun \notin Runs /\ Runs \subseteq Nat
    /\ Feeds \subseteq Actors /\ Manuals \subseteq Actors
    /\ \A a \in Actors : a \in Feeds <=> a \notin Manuals
    /\ "exec" \in Callers /\ "user" \in Callers
  BY ActorsAssumption, RunsAssumption DEF RowStatuses, RunStatuses, Ended, Callers, NoRun, Runs, Actors

LEMMA ConstantDomains ==
    /\ OpIdle \in OpDomain /\ OpIdle.pc = "idle" /\ OpIdle.run = NoRun
    /\ SyncIdle \in SyncDomain /\ SyncIdle.pc = "idle" /\ SyncIdle.approved = FALSE
    /\ NoRow \in RowDomain /\ NoRow.run = NoRun /\ NoRow.status = "none" /\ NoRow.article = "pending"
    /\ NoneRun \in RunDomain /\ NoneRun.status = "absent" /\ NoneRun.from = "none"
    /\ NoneRun.approved = FALSE
  BY Names DEF OpIdle, OpDomain, SyncIdle, SyncDomain, NoRow, RowDomain, NoneRun, RunDomain

LEMMA OverIsOver ==
    ASSUME NEW a \in Actors
    PROVE  Over(a) \in OpDomain /\ Over(a).pc \in {"idle", "done"}
  BY ConstantDomains DEF Over, OpIdle, OpDomain

LEMMA EndingTyped ==
    ASSUME NEW old \in RunDomain, NEW status \in RunStatuses
    PROVE  /\ Ending(old, status) \in RunDomain /\ Ending(old, status).status = status
           /\ Ending(old, status).from = old.from
           /\ Ending(old, status).approved <=> old.approved /\ status # "failed"
  <1>1. (old.approved /\ status # "failed") \in BOOLEAN
    OBVIOUS
  <1> QED  BY <1>1 DEF Ending, RunDomain

\* What a synchronisation makes of a row, which it makes but once.
LEMMA Patched ==
    ASSUME NEW old \in RowDomain, NEW status \in RunStatuses, NEW approved \in BOOLEAN
    PROVE  LET new == Patch(old, status, approved) IN
           /\ new \in RowDomain /\ new.run = old.run
           /\ new.status # "none"
           /\ Patch(new, status, approved) = new
           /\ new.article = "approved" => (status = "succeeded" /\ approved) \/ old.article = "approved"
  <1>0. old.status \in RowStatuses
    BY DEF RowDomain
  <1>1. CASE status = "waiting" \/ (status = "succeeded" /\ ~approved)
    <2> DEFINE new == [old EXCEPT !.status = "article_drafted", !.article = "drafted"]
    <2>1. Patch(old, status, approved) = new
      BY <1>1 DEF Patch
    <2>2. Patch(new, status, approved) = [new EXCEPT !.status = "article_drafted", !.article = "drafted"]
      BY <1>1 DEF Patch
    <2> QED  BY <2>1, <2>2, Names DEF RowDomain
  <1>2. CASE status = "succeeded" /\ approved
    <2> DEFINE new == [old EXCEPT !.status = "approved", !.article = "approved"]
    <2>1. Patch(old, status, approved) = new
      BY <1>2 DEF Patch
    <2>2. Patch(new, status, approved) = [new EXCEPT !.status = "approved", !.article = "approved"]
      BY <1>2 DEF Patch
    <2> QED  BY <1>2, <2>1, <2>2, Names DEF RowDomain
  <1>3. CASE status = "running"
    <2> DEFINE new == [old EXCEPT !.status = "running"]
    <2>1. Patch(old, status, approved) = new
      BY <1>3 DEF Patch
    <2>2. Patch(new, status, approved) = [new EXCEPT !.status = "running"]
      BY <1>3 DEF Patch
    <2> QED  BY <2>1, <2>2, Names DEF RowDomain
  <1>4. CASE status \in {"failed", "absent"}
    <2> DEFINE new == [old EXCEPT !.status = "failed", !.article = "failed"]
    <2>1. Patch(old, status, approved) = new
      BY <1>4 DEF Patch
    <2>2. Patch(new, status, approved) = [new EXCEPT !.status = "failed", !.article = "failed"]
      BY <1>4 DEF Patch
    <2> QED  BY <2>1, <2>2, Names DEF RowDomain
  <1> QED  BY <1>1, <1>2, <1>3, <1>4, Names

\* A notification that names a video again goes on with it.
LEMMA AfterIs ==
    ASSUME Domains, NEW a \in Actors, NEW again \in BOOLEAN
    PROVE  /\ After(a, again) \in OpDomain
           /\ IF again THEN After(a, again).pc = "launch" /\ After(a, again).video = op[a].video
              ELSE After(a, again).pc \in {"idle", "done"}
  <1>1. op[a] \in OpDomain
    BY DEF Domains
  <1>2. [op[a] EXCEPT !.pc = "launch", !.run = NoRun] \in OpDomain
    BY <1>1, Names DEF OpDomain
  <1>3. op[a].video = [op[a] EXCEPT !.pc = "launch", !.run = NoRun].video
        /\ [op[a] EXCEPT !.pc = "launch", !.run = NoRun].pc = "launch"
    BY <1>1 DEF OpDomain
  <1>4. CASE again
    BY <1>2, <1>3, <1>4 DEF After
  <1>5. CASE ~again
    BY <1>5, OverIsOver DEF After
  <1> QED  BY <1>4, <1>5

\* The fields of what the variables hold.
LEMMA Fields ==
    ASSUME Domains
    PROVE  /\ \A v \in Videos : /\ row[v] \in RowDomain /\ row[v].run \in Runs \cup {NoRun}
                                /\ row[v].status \in RowStatuses
           /\ \A r \in Runs : /\ run[r] \in RunDomain /\ run[r].status \in RunStatuses
                              /\ run[r].approved \in BOOLEAN
                              /\ exec[r] \in {"none", "linked", "plain"}
           /\ \A r \in Runs, c \in Callers : /\ sync[r][c] \in SyncDomain
                                             /\ sync[r][c].status \in RunStatuses
                                             /\ sync[r][c].approved \in BOOLEAN
                                             /\ sync[r][c].of \subseteq Videos
           /\ \A a \in Actors : op[a] \in OpDomain
  <1>1. \A v \in Videos : row[v] \in RowDomain
    BY DEF Domains
  <1>2. \A r \in Runs : run[r] \in RunDomain /\ exec[r] \in {"none", "linked", "plain"}
    BY DEF Domains
  <1>3. \A r \in Runs : sync[r] \in [Callers -> SyncDomain]
    BY DEF Domains
  <1>4. \A r \in Runs, c \in Callers : sync[r][c] \in SyncDomain
    BY <1>3
  <1>5. \A a \in Actors : op[a] \in OpDomain
    BY DEF Domains
  <1> QED  BY <1>1, <1>2, <1>4, <1>5 DEF RowDomain, RunDomain, SyncDomain

LEMMA DomainsInit == Init => Domains
  <1> SUFFICES ASSUME Init  PROVE Domains
    OBVIOUS
  <1>1. changes \in 0 .. MaxChanges /\ clean \in BOOLEAN
    BY RunsAssumption DEF Init
  <1> QED  BY <1>1, ConstantDomains DEF Init, Domains

\* A statement of a request.
LEMMA Goes ==
    ASSUME Domains, NEW a \in Actors, NEW o \in OpDomain, Go(a, o)
    PROVE  /\ op' \in [Actors -> OpDomain] /\ op'[a] = o
           /\ \A b \in Actors \ {a} : op'[b] = op[b]
  BY DEF Domains, Go

LEMMA Sets ==
    ASSUME Domains, NEW r \in Runs, NEW c \in Callers, NEW s \in SyncDomain,
           sync' = [sync EXCEPT ![r][c] = s]
    PROVE  /\ sync' \in [Runs -> [Callers -> SyncDomain]] /\ sync'[r][c] = s
           /\ \A q \in Runs, d \in Callers : <<q, d>> # <<r, c>> => sync'[q][d] = sync[q][d]
  <1>1. /\ sync' = [sync EXCEPT ![r] = [sync[r] EXCEPT ![c] = s]]
        /\ sync \in [Runs -> [Callers -> SyncDomain]] /\ sync[r] \in [Callers -> SyncDomain]
    BY DEF Domains
  <1> DEFINE g == [sync[r] EXCEPT ![c] = s]
  <1>2. g \in [Callers -> SyncDomain] /\ g[c] = s /\ \A d \in Callers \ {c} : g[d] = sync[r][d]
    BY <1>1
  <1> HIDE DEF g
  <1>3. sync' = [sync EXCEPT ![r] = g]
    BY <1>1 DEF g
  <1>4. sync' \in [Runs -> [Callers -> SyncDomain]] /\ sync'[r] = g
        /\ \A q \in Runs \ {r} : sync'[q] = sync[q]
    BY <1>1, <1>2, <1>3
  <1> QED  BY <1>2, <1>4

LEMMA DueIs ==
    ASSUME Domains, NEW r \in Runs, NEW c \in Callers, Due(r, c)
    PROVE  /\ sync' \in [Runs -> [Callers -> SyncDomain]]
           /\ sync'[r][c].pc = "due" /\ sync'[r][c].approved = FALSE
           /\ \A q \in Runs, d \in Callers : <<q, d>> # <<r, c>> => sync'[q][d] = sync[q][d]
  <1> DEFINE s == [SyncIdle EXCEPT !.pc = "due"]
  <1>1. s \in SyncDomain /\ s.pc = "due" /\ s.approved = FALSE
    BY ConstantDomains DEF SyncDomain
  <1>2. sync' = [sync EXCEPT ![r][c] = s]
    BY DEF Due
  <1> HIDE DEF s
  <1> QED  BY <1>1, <1>2, Sets

LEMMA Rows ==
    ASSUME Domains, NEW v \in Videos, NEW x \in RowDomain, row' = [row EXCEPT ![v] = x]
    PROVE  /\ row' \in [Videos -> RowDomain] /\ row'[v] = x
           /\ \A w \in Videos \ {v} : row'[w] = row[w]
  BY DEF Domains

LEMMA RunsIs ==
    ASSUME Domains, NEW r \in Runs, NEW x \in RunDomain, run' = [run EXCEPT ![r] = x]
    PROVE  /\ run' \in [Runs -> RunDomain] /\ run'[r] = x
           /\ \A q \in Runs \ {r} : run'[q] = run[q]
  BY DEF Domains

LEMMA ExecIs ==
    ASSUME Domains, NEW r \in Runs, NEW x \in {"none", "linked", "plain"},
           exec' = [exec EXCEPT ![r] = x]
    PROVE  /\ exec' \in [Runs -> {"none", "linked", "plain"}] /\ exec'[r] = x
           /\ \A q \in Runs \ {r} : exec'[q] = exec[q]
  BY DEF Domains

LEMMA Quiescent ==
    ASSUME Domains
    PROVE  /\ (Launching = {}) <=> \A a \in Actors : ~Launches(a)
           /\ \A r \in Runs : Syncing(r) <=> \E c \in Callers : Dealt(r, c)
  <1>1. \A a \in Actors : op[a].pc \in {"idle", "read", "launch", "link", "done"}
    BY Fields DEF OpDomain
  <1>2. \A a \in Actors : a \in Launching <=> Launches(a)
    BY <1>1 DEF Launching, Launches
  <1>3. Launching \subseteq Actors
    BY DEF Launching
  <1>4. (Launching = {}) <=> \A a \in Actors : ~Launches(a)
    BY <1>2, <1>3
  <1> QED  BY <1>4 DEF Syncing, Dealt

-----------------------------------------------------------------------------
(* What each step does.                                                    *)

FeedReadEffect(a, v) ==
    /\ op[a].pc = "idle"
    /\ op'[a].pc = "read" /\ op'[a].video = v
    /\ \A b \in Actors \ {a} : op'[b] = op[b]
    /\ clean' => clean /\ \A b \in Actors : ~Launches(b)
    /\ UNCHANGED <<row, run, exec, sync>>

LEMMA FeedReadDoes ==
    ASSUME Domains, NEW a \in Feeds, NEW v \in Videos, FeedRead(a, v)
    PROVE  Domains' /\ FeedReadEffect(a, v)
  <1>0. a \in Actors /\ Linked \in BOOLEAN
    BY Names DEF Linked
  <1> DEFINE o == [OpIdle EXCEPT !.pc = "read", !.video = v, !.linked = Linked]
  <1>1. o \in OpDomain /\ o.pc = "read" /\ o.video = v
    BY <1>0, ConstantDomains DEF OpDomain, OpIdle
  <1>2. Go(a, o) /\ op[a].pc = "idle"
    BY DEF FeedRead
  <1> HIDE DEF o
  <1>3. /\ op' \in [Actors -> OpDomain] /\ op'[a] = o
        /\ \A b \in Actors \ {a} : op'[b] = op[b]
    BY <1>0, <1>1, <1>2, Goes
  <1>4. clean' \in BOOLEAN /\ (clean' => clean /\ \A b \in Actors : ~Launches(b))
    BY Quiescent DEF FeedRead, Domains
  <1> QED  BY <1>1, <1>2, <1>3, <1>4 DEF FeedRead, Domains, FeedReadEffect

FeedUpsertEffect(a) ==
    /\ op[a].pc = "read" /\ op[a].video \in Videos
    /\ row[op[a].video].status # "none" => row'[op[a].video] = row[op[a].video]
    /\ row'[op[a].video].run = row[op[a].video].run
    /\ row'[op[a].video].article = row[op[a].video].article
    /\ row'[op[a].video].status # "none"
    /\ \A w \in Videos \ {op[a].video} : row'[w] = row[w]
    /\ \/ /\ op'[a].pc = "launch" /\ op'[a].video = op[a].video
          /\ row[op[a].video].run = NoRun
       \/ op'[a].pc = "idle"
    /\ \A b \in Actors \ {a} : op'[b] = op[b]
    /\ UNCHANGED <<run, exec, sync, clean>>

LEMMA FeedUpsertDoes ==
    ASSUME Domains, Blank, NEW a \in Feeds, FeedUpsert(a), Holds(a)
    PROVE  Domains' /\ FeedUpsertEffect(a)
  <1>0. a \in Actors /\ op[a].video \in Videos
    BY Names DEF FeedUpsert, Holds, Launches
  <1> PICK v \in Videos : v = op[a].video
    BY <1>0
  <1>1. op[a] \in OpDomain /\ row[v] \in RowDomain /\ op[a].pc = "read"
    BY <1>0, Fields DEF FeedUpsert
  <1> DEFINE x == [NoRow EXCEPT !.status = IF op[a].linked THEN "queued" ELSE "detected"]
             o == [op[a] EXCEPT !.pc = "launch"]
  <1>2. x \in RowDomain /\ x.run = NoRun /\ x.article = "pending" /\ x.status # "none"
    BY ConstantDomains, Names DEF RowDomain, NoRow
  <1>3. o \in OpDomain /\ o.pc = "launch" /\ o.video = v
    BY <1>1 DEF OpDomain
  <1>4. IF row[v].status # "none" THEN row' = row ELSE row' = [row EXCEPT ![v] = x]
    BY DEF FeedUpsert
  <1>5. (Go(a, o) /\ row[v].run = NoRun) \/ Go(a, OpIdle)
    BY DEF FeedUpsert, MayLaunch
  <1>6. row[v].status = "none" => row[v].run = NoRun /\ row[v].article = "pending"
    BY ConstantDomains DEF Blank
  <1> HIDE DEF x, o
  <1>7. /\ row' \in [Videos -> RowDomain]
        /\ row[v].status = "none" => row'[v] = x
        /\ row[v].status # "none" => row'[v] = row[v]
        /\ \A w \in Videos \ {v} : row'[w] = row[w]
    <2>1. CASE row[v].status # "none"
      BY <2>1, <1>4 DEF Domains
    <2>2. CASE row[v].status = "none"
      BY <2>2, <1>2, <1>4, Rows
    <2> QED  BY <2>1, <2>2
  <1>8. /\ op' \in [Actors -> OpDomain]
        /\ \/ op'[a] = o /\ row[v].run = NoRun
           \/ op'[a] = OpIdle
        /\ \A b \in Actors \ {a} : op'[b] = op[b]
    BY <1>0, <1>3, <1>5, Goes, ConstantDomains
  <1>9. Domains'
    BY <1>7, <1>8 DEF FeedUpsert, Domains
  <1> QED  BY <1>1, <1>2, <1>3, <1>6, <1>7, <1>8, <1>9, ConstantDomains DEF FeedUpsert, FeedUpsertEffect

ManualUpsertEffect(a, v) ==
    /\ op[a].pc = "idle"
    /\ row'[v].run = row[v].run /\ row'[v].article = "pending" /\ row'[v].status = "queued"
    /\ \A w \in Videos \ {v} : row'[w] = row[w]
    /\ op'[a].pc = "launch" /\ op'[a].video = v
    /\ \A b \in Actors \ {a} : op'[b] = op[b]
    /\ clean' => /\ clean /\ \A b \in Actors : ~Launches(b)
                 /\ \A r \in Runs : exec[r] = "none" /\ \A c \in Callers : ~Dealt(r, c)
    /\ UNCHANGED <<run, exec, sync>>

LEMMA ManualUpsertDoes ==
    ASSUME Domains, NEW a \in Manuals, NEW v \in Videos, ManualUpsert(a, v)
    PROVE  Domains' /\ ManualUpsertEffect(a, v)
  <1>0. a \in Actors /\ row[v] \in RowDomain
    BY Names, Fields
  <1> DEFINE x == [row[v] EXCEPT !.status = "queued", !.article = "pending"]
             o == [OpIdle EXCEPT !.pc = "launch", !.video = v]
  <1>1. x \in RowDomain /\ x.run = row[v].run /\ x.article = "pending" /\ x.status = "queued"
    BY <1>0, Names DEF RowDomain
  <1>2. o \in OpDomain /\ o.pc = "launch" /\ o.video = v
    BY ConstantDomains DEF OpDomain, OpIdle
  <1>3. row' = [row EXCEPT ![v] = x]
    BY DEF ManualUpsert
  <1>4. Go(a, o) /\ op[a].pc = "idle"
    BY DEF ManualUpsert
  <1> HIDE DEF x, o
  <1>5. /\ row' \in [Videos -> RowDomain] /\ row'[v] = x
        /\ \A w \in Videos \ {v} : row'[w] = row[w]
    BY <1>1, <1>3, Rows
  <1>6. /\ op' \in [Actors -> OpDomain] /\ op'[a] = o
        /\ \A b \in Actors \ {a} : op'[b] = op[b]
    BY <1>0, <1>2, <1>4, Goes
  <1>7. clean' \in BOOLEAN
        /\ (clean' => /\ clean /\ \A b \in Actors : ~Launches(b)
                      /\ \A r \in Runs : exec[r] = "none" /\ \A c \in Callers : ~Dealt(r, c))
    BY Quiescent DEF ManualUpsert, Domains, Quiet
  <1> QED  BY <1>1, <1>2, <1>4, <1>5, <1>6, <1>7 DEF ManualUpsert, Domains, ManualUpsertEffect

StartRunEffect(a) ==
    /\ op[a].pc = "launch"
    /\ \E r \in Runs :
          /\ run[r].status = "absent" /\ run'[r].status = "running"
          /\ ~run'[r].approved
          /\ run'[r].from = (IF a \in Feeds THEN "feed" ELSE "hand")
          /\ \A q \in Runs \ {r} : run'[q] = run[q]
          /\ op'[a].pc = "link" /\ op'[a].video = op[a].video /\ op'[a].run = r
    /\ \A b \in Actors \ {a} : op'[b] = op[b]
    /\ UNCHANGED <<row, exec, sync, clean>>

LEMMA StartRunDoes ==
    ASSUME Domains, NEW a \in Actors, StartRun(a)
    PROVE  Domains' /\ StartRunEffect(a)
  <1>1. PICK r \in Runs :
          /\ \A q \in Runs : run[q].status = "absent" <=> q >= r
          /\ run' = [run EXCEPT ![r] = [NoneRun EXCEPT !.status = "running",
                        !.from = IF a \in Feeds THEN "feed" ELSE "hand"]]
          /\ Go(a, [op[a] EXCEPT !.pc = "link", !.run = r])
    BY DEF StartRun
  <1>2. run[r].status = "absent"
    BY <1>1, Names
  <1> DEFINE x == [NoneRun EXCEPT !.status = "running",
                        !.from = IF a \in Feeds THEN "feed" ELSE "hand"]
             o == [op[a] EXCEPT !.pc = "link", !.run = r]
  <1>3. /\ x \in RunDomain /\ x.status = "running" /\ ~x.approved
        /\ x.from = (IF a \in Feeds THEN "feed" ELSE "hand")
    BY ConstantDomains, Names DEF RunDomain, NoneRun
  <1>4. op[a] \in OpDomain
    BY Fields
  <1>5. o \in OpDomain /\ o.pc = "link" /\ o.video = op[a].video /\ o.run = r
    BY <1>4 DEF OpDomain
  <1>6. run' = [run EXCEPT ![r] = x] /\ Go(a, o)
    BY <1>1
  <1> HIDE DEF x, o
  <1>7. /\ run' \in [Runs -> RunDomain] /\ run'[r] = x
        /\ \A q \in Runs \ {r} : run'[q] = run[q]
    BY <1>3, <1>6, RunsIs
  <1>8. /\ op' \in [Actors -> OpDomain] /\ op'[a] = o
        /\ \A b \in Actors \ {a} : op'[b] = op[b]
    BY <1>5, <1>6, Goes
  <1>9. UNCHANGED <<changes, row, exec, sync, crashes, clean>> /\ op[a].pc = "launch"
    BY DEF StartRun
  <1>10. Domains'
    BY <1>7, <1>8, <1>9 DEF Domains
  <1> QED  BY <1>2, <1>3, <1>5, <1>7, <1>8, <1>9, <1>10 DEF StartRunEffect

LinkRunEffect(a) ==
    /\ op[a].pc = "link" /\ op[a].video \in Videos /\ op[a].run \in Runs
    /\ row'[op[a].video].run = op[a].run
    /\ row'[op[a].video].article = row[op[a].video].article
    /\ row'[op[a].video].status = "running"
    /\ \A w \in Videos \ {op[a].video} : row'[w] = row[w]
    /\ exec'[op[a].run] = "linked"
    /\ \A q \in Runs \ {op[a].run} : exec'[q] = exec[q]
    /\ op'[a].pc \in {"idle", "done"} \/ (op'[a].pc = "launch" /\ op'[a].video = op[a].video)
    /\ \A b \in Actors \ {a} : op'[b] = op[b]
    /\ clean' => clean /\ op'[a].pc # "launch"
    /\ UNCHANGED <<run, sync>>

LEMMA LinkRunDoes ==
    ASSUME Domains, NEW a \in Actors, NEW again \in BOOLEAN, LinkRun(a, again), Holds(a)
    PROVE  Domains' /\ LinkRunEffect(a)
  <1>1. op[a].pc = "link" /\ op[a].video \in Videos /\ op[a].run \in Runs
    BY DEF LinkRun, Holds, Launches
  <1> PICK v \in Videos, r \in Runs : v = op[a].video /\ r = op[a].run
    BY <1>1
  <1> DEFINE x == [row[v] EXCEPT !.status = "running", !.run = r]
  <1>2. row[v] \in RowDomain
    BY Fields
  <1>3. x \in RowDomain /\ x.status = "running" /\ x.run = r /\ x.article = row[v].article
    BY <1>2, Names DEF RowDomain
  <1>4. row' = [row EXCEPT ![v] = x] /\ exec' = [exec EXCEPT ![r] = "linked"]
        /\ Go(a, After(a, again)) /\ clean' = (clean /\ ~again)
    BY DEF LinkRun
  <1> HIDE DEF x
  <1>5. /\ row' \in [Videos -> RowDomain] /\ row'[v] = x
        /\ \A w \in Videos \ {v} : row'[w] = row[w]
    BY <1>3, <1>4, Rows
  <1>6. /\ exec' \in [Runs -> {"none", "linked", "plain"}] /\ exec'[r] = "linked"
        /\ \A q \in Runs \ {r} : exec'[q] = exec[q]
    BY <1>4, ExecIs
  <1>7. /\ op' \in [Actors -> OpDomain] /\ op'[a] = After(a, again)
        /\ \A b \in Actors \ {a} : op'[b] = op[b]
    BY <1>4, AfterIs, Goes
  <1>8. Domains'
    BY <1>5, <1>6, <1>7 DEF LinkRun, Domains
  <1>9. /\ op'[a].pc \in {"idle", "done"} \/ (op'[a].pc = "launch" /\ op'[a].video = op[a].video)
        /\ clean' => clean /\ op'[a].pc # "launch"
    <2>1. IF again THEN op'[a].pc = "launch" /\ op'[a].video = op[a].video
          ELSE op'[a].pc \in {"idle", "done"}
      BY <1>7, AfterIs
    <2> QED  BY <1>4, <2>1
  <1> QED  BY <1>1, <1>3, <1>5, <1>6, <1>7, <1>8, <1>9 DEF LinkRun, LinkRunEffect

LaunchFailsEffect(a) ==
    /\ op[a].pc \in {"launch", "link"} /\ op[a].video \in Videos
    /\ row'[op[a].video].run = row[op[a].video].run
    /\ row'[op[a].video].article = "failed"
    /\ row'[op[a].video].status = "failed"
    /\ \A w \in Videos \ {op[a].video} : row'[w] = row[w]
    /\ op'[a].pc \in {"idle", "done"} \/ (op'[a].pc = "launch" /\ op'[a].video = op[a].video)
    /\ \A b \in Actors \ {a} : op'[b] = op[b]
    /\ clean' => clean /\ op[a].pc = "launch" /\ op'[a].pc # "launch"
    /\ UNCHANGED <<run, exec, sync>>

LEMMA LaunchFailsDoes ==
    ASSUME Domains, NEW a \in Actors, NEW again \in BOOLEAN, LaunchFails(a, again), Holds(a)
    PROVE  Domains' /\ LaunchFailsEffect(a)
  <1>1. op[a].pc \in {"launch", "link"} /\ op[a].video \in Videos
    BY DEF LaunchFails, Holds, Launches
  <1> PICK v \in Videos : v = op[a].video
    BY <1>1
  <1> DEFINE x == [row[v] EXCEPT !.status = "failed", !.article = "failed"]
  <1>2. row[v] \in RowDomain
    BY Fields
  <1>3. x \in RowDomain /\ x.status = "failed" /\ x.run = row[v].run /\ x.article = "failed"
    BY <1>2, Names DEF RowDomain
  <1>4. row' = [row EXCEPT ![v] = x] /\ Go(a, After(a, again))
    BY DEF LaunchFails
  <1> HIDE DEF x
  <1>5. /\ row' \in [Videos -> RowDomain] /\ row'[v] = x
        /\ \A w \in Videos \ {v} : row'[w] = row[w]
    BY <1>3, <1>4, Rows
  <1>7. /\ op' \in [Actors -> OpDomain] /\ op'[a] = After(a, again)
        /\ \A b \in Actors \ {a} : op'[b] = op[b]
    BY <1>4, AfterIs, Goes
  <1>8. Domains' /\ (clean' => clean /\ op[a].pc = "launch" /\ ~again)
    BY <1>5, <1>7 DEF LaunchFails, Domains
  <1>9. /\ op'[a].pc \in {"idle", "done"} \/ (op'[a].pc = "launch" /\ op'[a].video = op[a].video)
        /\ clean' => clean /\ op[a].pc = "launch" /\ op'[a].pc # "launch"
    <2>1. IF again THEN op'[a].pc = "launch" /\ op'[a].video = op[a].video
          ELSE op'[a].pc \in {"idle", "done"}
      BY <1>7, AfterIs
    <2> QED  BY <1>8, <2>1
  <1> QED  BY <1>1, <1>3, <1>5, <1>7, <1>8, <1>9 DEF LaunchFails, LaunchFailsEffect

ExecEndsEffect(r, status) ==
    /\ exec[r] # "none" /\ exec'[r] = "none"
    /\ \A q \in Runs \ {r} : exec'[q] = exec[q] /\ run'[q] = run[q]
    /\ \/ run[r].status # "running" /\ run'[r] = run[r]
       \/ run[r].status = "running" /\ run'[r].status = status /\ run'[r].from = run[r].from
    /\ \/ exec[r] = "linked" /\ sync'[r]["exec"].pc = "due" /\ ~sync'[r]["exec"].approved
       \/ exec[r] # "linked" /\ sync'[r]["exec"] = sync[r]["exec"]
    /\ \A q \in Runs, d \in Callers : <<q, d>> # <<r, "exec">> => sync'[q][d] = sync[q][d]
    /\ UNCHANGED <<row, op, clean>>

LEMMA ExecEndsDoes ==
    ASSUME Domains, NEW r \in Runs, NEW status \in {"waiting", "succeeded", "failed"},
           ExecEnds(r, status)
    PROVE  Domains' /\ ExecEndsEffect(r, status)
  <1>1. run[r] \in RunDomain /\ status \in RunStatuses
    BY Fields, Names
  <1> DEFINE x == Ending(run[r], status)
  <1>2. x \in RunDomain /\ x.status = status /\ x.from = run[r].from
    BY <1>1, EndingTyped
  <1>3. /\ IF run[r].status = "running" THEN run' = [run EXCEPT ![r] = x] ELSE run' = run
        /\ exec' = [exec EXCEPT ![r] = "none"] /\ exec[r] # "none"
        /\ IF exec[r] = "linked" THEN Due(r, "exec") ELSE sync' = sync
    BY DEF ExecEnds
  <1> HIDE DEF x
  <1>4. /\ run' \in [Runs -> RunDomain]
        /\ \A q \in Runs \ {r} : run'[q] = run[q]
        /\ \/ run[r].status # "running" /\ run'[r] = run[r]
           \/ run[r].status = "running" /\ run'[r] = x
    <2>1. CASE run[r].status = "running"
      BY <2>1, <1>2, <1>3, RunsIs
    <2>2. CASE run[r].status # "running"
      BY <2>2, <1>3 DEF Domains
    <2> QED  BY <2>1, <2>2
  <1>5. /\ exec' \in [Runs -> {"none", "linked", "plain"}] /\ exec'[r] = "none"
        /\ \A q \in Runs \ {r} : exec'[q] = exec[q]
    BY <1>3, ExecIs
  <1>6. /\ sync' \in [Runs -> [Callers -> SyncDomain]]
        /\ \/ exec[r] = "linked" /\ sync'[r]["exec"].pc = "due" /\ ~sync'[r]["exec"].approved
           \/ exec[r] # "linked" /\ sync'[r]["exec"] = sync[r]["exec"]
        /\ \A q \in Runs, d \in Callers : <<q, d>> # <<r, "exec">> => sync'[q][d] = sync[q][d]
    <2>1. CASE exec[r] = "linked"
      BY <2>1, <1>3, DueIs, Names
    <2>2. CASE exec[r] # "linked"
      BY <2>2, <1>3 DEF Domains
    <2> QED  BY <2>1, <2>2
  <1>7. Domains' /\ UNCHANGED <<row, op, clean>>
    BY <1>4, <1>5, <1>6 DEF ExecEnds, Domains
  <1> QED  BY <1>2, <1>3, <1>4, <1>5, <1>6, <1>7 DEF ExecEndsEffect

TickEffect(r) ==
    /\ run[r].status = "waiting" /\ run'[r].status = "running"
    /\ \A q \in Runs \ {r} : run'[q] = run[q] /\ exec'[q] = exec[q]
    /\ UNCHANGED <<row, sync, op>> /\ ~clean'

LEMMA TickDoes ==
    ASSUME Domains, NEW r \in Runs, Tick(r)
    PROVE  Domains' /\ TickEffect(r)
  <1>1. run[r] \in RunDomain
    BY Fields
  <1> DEFINE x == [run[r] EXCEPT !.status = "running"]
  <1>2. x \in RunDomain /\ x.status = "running"
    BY <1>1, Names DEF RunDomain
  <1>3. run' = [run EXCEPT ![r] = x] /\ exec' = [exec EXCEPT ![r] = "plain"]
    BY DEF Tick
  <1> HIDE DEF x
  <1>4. /\ run' \in [Runs -> RunDomain] /\ run'[r] = x
        /\ \A q \in Runs \ {r} : run'[q] = run[q]
    BY <1>2, <1>3, RunsIs
  <1>5. /\ exec' \in [Runs -> {"none", "linked", "plain"}]
        /\ \A q \in Runs \ {r} : exec'[q] = exec[q]
    BY <1>3, ExecIs
  <1> QED  BY <1>2, <1>4, <1>5 DEF Tick, Domains, TickEffect

\* What a decision or a cancellation may come to.
GoesOn(r) ==
    /\ run[r].status = "waiting" /\ run'[r].status = "running" /\ run'[r].from = run[r].from
    /\ exec'[r] = "linked" /\ UNCHANGED sync
Stops(r) ==
    /\ \/ run[r].status \in {"running", "waiting"} /\ run'[r].status = "failed"
             /\ ~run'[r].approved /\ run'[r].from = run[r].from
       \/ run[r].status \in {"succeeded", "failed"} /\ run'[r] = run[r]
    /\ sync'[r]["user"].pc = "due" /\ ~sync'[r]["user"].approved
    /\ \A q \in Runs, d \in Callers : <<q, d>> # <<r, "user">> => sync'[q][d] = sync[q][d]
    /\ exec'[r] = exec[r]

LEMMA StopsWhen ==
    ASSUME Domains, NEW r \in Runs, Due(r, "user"), exec' = exec,
           \/ /\ run[r].status \in {"running", "waiting"}
              /\ run' = [run EXCEPT ![r] = Ending(@, "failed")]
           \/ run[r].status \in {"succeeded", "failed"} /\ run' = run
    PROVE  /\ Stops(r) /\ \A q \in Runs \ {r} : run'[q] = run[q]
           /\ sync' \in [Runs -> [Callers -> SyncDomain]] /\ run' \in [Runs -> RunDomain]
  <1>1. run[r] \in RunDomain /\ "failed" \in RunStatuses
    BY Fields, Names
  <1> DEFINE x == Ending(run[r], "failed")
  <1>2. x \in RunDomain /\ x.status = "failed" /\ x.from = run[r].from /\ ~x.approved
    BY <1>1, EndingTyped
  <1>3. \/ run[r].status \in {"running", "waiting"} /\ run' = [run EXCEPT ![r] = x]
        \/ run[r].status \in {"succeeded", "failed"} /\ run' = run
    OBVIOUS
  <1> HIDE DEF x
  <1>4. /\ run' \in [Runs -> RunDomain] /\ \A q \in Runs \ {r} : run'[q] = run[q]
        /\ \/ run[r].status \in {"running", "waiting"} /\ run'[r] = x
           \/ run[r].status \in {"succeeded", "failed"} /\ run'[r] = run[r]
    <2>1. CASE run[r].status \in {"running", "waiting"} /\ run' = [run EXCEPT ![r] = x]
      BY <2>1, <1>2, RunsIs
    <2>2. CASE run[r].status \in {"succeeded", "failed"} /\ run' = run
      BY <2>2 DEF Domains
    <2> QED  BY <2>1, <2>2, <1>3
  <1>5. /\ sync' \in [Runs -> [Callers -> SyncDomain]]
        /\ sync'[r]["user"].pc = "due" /\ ~sync'[r]["user"].approved
        /\ \A q \in Runs, d \in Callers : <<q, d>> # <<r, "user">> => sync'[q][d] = sync[q][d]
    BY DueIs, Names
  <1> QED  BY <1>2, <1>4, <1>5 DEF Stops

DecideEffect(r) ==
    /\ run[r].status = "waiting"
    /\ GoesOn(r) \/ Stops(r)
    /\ \A q \in Runs \ {r} : run'[q] = run[q] /\ exec'[q] = exec[q]
    /\ UNCHANGED <<row, op>>
    /\ clean' => /\ clean /\ \A a \in Actors : ~Launches(a)
                 /\ \A c \in Callers : ~Dealt(r, c)

LEMMA DecideDoes ==
    ASSUME Domains, NEW r \in Runs, NEW approves \in BOOLEAN, Decide(r, approves)
    PROVE  Domains' /\ DecideEffect(r)
  <1>1. run[r] \in RunDomain /\ run[r].status = "waiting"
    BY Fields DEF Decide
  <1>2. clean' \in BOOLEAN
        /\ (clean' => /\ clean /\ \A a \in Actors : ~Launches(a)
                      /\ \A c \in Callers : ~Dealt(r, c))
    BY Quiescent DEF Decide, Domains
  <1>3. CASE /\ run' = [run EXCEPT ![r].status = "running", ![r].approved = @ \/ approves]
             /\ exec' = [exec EXCEPT ![r] = "linked"]
             /\ UNCHANGED sync
    <2> DEFINE x == [run[r] EXCEPT !.status = "running", !.approved = run[r].approved \/ approves]
    <2>0. (run[r].approved \/ approves) \in BOOLEAN
      OBVIOUS
    <2>1. x \in RunDomain /\ x.status = "running" /\ x.from = run[r].from
      BY <1>1, <2>0, Names DEF RunDomain
    <2>2. run' = [run EXCEPT ![r] = x]
      BY <1>3
    <2> HIDE DEF x
    <2>3. /\ run' \in [Runs -> RunDomain] /\ run'[r] = x
          /\ \A q \in Runs \ {r} : run'[q] = run[q]
      BY <2>1, <2>2, RunsIs
    <2>4. /\ exec' \in [Runs -> {"none", "linked", "plain"}] /\ exec'[r] = "linked"
          /\ \A q \in Runs \ {r} : exec'[q] = exec[q]
      BY <1>3, ExecIs
    <2>5. Domains'
      BY <1>2, <1>3, <2>3, <2>4 DEF Decide, Domains
    <2> QED  BY <1>1, <1>2, <1>3, <2>1, <2>3, <2>4, <2>5 DEF Decide, GoesOn, DecideEffect
  <1>4. CASE /\ run' = [run EXCEPT ![r] = Ending(@, "failed")] /\ Due(r, "user") /\ UNCHANGED exec
    <2>1. /\ Stops(r) /\ \A q \in Runs \ {r} : run'[q] = run[q]
          /\ sync' \in [Runs -> [Callers -> SyncDomain]] /\ run' \in [Runs -> RunDomain]
      BY <1>1, <1>4, StopsWhen
    <2>2. Domains'
      BY <1>2, <1>4, <2>1 DEF Decide, Domains
    <2> QED  BY <1>1, <1>2, <1>4, <2>1, <2>2 DEF Decide, DecideEffect
  <1> QED  BY <1>3, <1>4 DEF Decide, DecideEffect

CancelEffect(r) ==
    /\ Stops(r)
    /\ \A q \in Runs \ {r} : run'[q] = run[q]
    /\ UNCHANGED <<row, exec, op>>
    /\ clean' => /\ clean /\ \A a \in Actors : ~Launches(a)
                 /\ \A c \in Callers : ~Dealt(r, c)

LEMMA CancelDoes ==
    ASSUME Domains, NEW r \in Runs, Cancel(r)
    PROVE  Domains' /\ CancelEffect(r)
  <1>1. run[r] \in RunDomain /\ run[r].status \in RunStatuses /\ run[r].status # "absent"
    BY Fields DEF Cancel
  <1>2. clean' \in BOOLEAN
        /\ (clean' => /\ clean /\ \A a \in Actors : ~Launches(a)
                      /\ \A c \in Callers : ~Dealt(r, c))
    BY Quiescent DEF Cancel, Domains
  <1>3. \/ /\ run[r].status \in {"running", "waiting"}
           /\ run' = [run EXCEPT ![r] = Ending(@, "failed")]
        \/ run[r].status \in {"succeeded", "failed"} /\ run' = run
    BY <1>1, Names DEF Cancel, Ended
  <1>4. Due(r, "user") /\ UNCHANGED <<changes, row, exec, op, crashes>>
    BY DEF Cancel
  <1>5. /\ Stops(r) /\ \A q \in Runs \ {r} : run'[q] = run[q]
        /\ sync' \in [Runs -> [Callers -> SyncDomain]] /\ run' \in [Runs -> RunDomain]
    BY <1>3, <1>4, StopsWhen
  <1> QED  BY <1>2, <1>4, <1>5 DEF Domains, CancelEffect

SyncReadEffect(r, c) ==
    /\ sync[r][c].pc = "due"
    /\ \/ /\ sync'[r][c].pc = "idle" /\ ~sync'[r][c].approved
          /\ \A v \in Videos : row[v].run # r
       \/ /\ sync'[r][c].pc = "read" /\ sync'[r][c].status = run[r].status
          /\ sync'[r][c].approved <=> Given(r)
          /\ \A v \in Videos : v \in sync'[r][c].of <=> row[v].run = r
    /\ \A q \in Runs, d \in Callers : <<q, d>> # <<r, c>> => sync'[q][d] = sync[q][d]
    /\ UNCHANGED <<row, run, exec, op, clean>>

LEMMA SyncReadDoes ==
    ASSUME Domains, NEW r \in Runs, NEW c \in Callers, SyncRead(r, c)
    PROVE  Domains' /\ SyncReadEffect(r, c)
  <1>1. run[r].status \in RunStatuses /\ run[r].approved \in BOOLEAN
    BY Fields
  <1> DEFINE of == {v \in Videos : row[v].run = r}
             b == run[r].approved /\ run[r].status = "succeeded"
             x == [pc |-> "read", of |-> of, status |-> run[r].status, approved |-> b]
  <1>2. of \subseteq Videos /\ \A v \in Videos : v \in of <=> row[v].run = r
    OBVIOUS
  <1>3. b \in BOOLEAN /\ (b <=> Given(r))
    BY <1>1 DEF Given
  <1>4. sync' = [sync EXCEPT ![r][c] = IF of = {} THEN SyncIdle ELSE x] /\ sync[r][c].pc = "due"
    BY DEF SyncRead
  <1> HIDE DEF b, of
  <1>5. x \in SyncDomain /\ x.pc = "read" /\ x.of = of /\ x.status = run[r].status
        /\ x.approved = b
    BY <1>1, <1>2, <1>3 DEF SyncDomain
  <1> HIDE DEF x
  <1>6. /\ sync' \in [Runs -> [Callers -> SyncDomain]]
        /\ \/ of = {} /\ sync'[r][c] = SyncIdle
           \/ sync'[r][c] = x
        /\ \A q \in Runs, d \in Callers : <<q, d>> # <<r, c>> => sync'[q][d] = sync[q][d]
    <2>1. CASE of = {}
      <3>1. sync' = [sync EXCEPT ![r][c] = SyncIdle]
        BY <1>4, <2>1
      <3> QED  BY <2>1, <3>1, ConstantDomains, Sets
    <2>2. CASE of # {}
      <3>1. sync' = [sync EXCEPT ![r][c] = x]
        BY <1>4, <2>2
      <3> QED  BY <3>1, <1>5, Sets
    <2> QED  BY <2>1, <2>2
  <1>7. Domains' /\ UNCHANGED <<row, run, exec, op, clean>>
    BY <1>6 DEF SyncRead, Domains
  <1> QED  BY <1>2, <1>3, <1>4, <1>5, <1>6, <1>7, ConstantDomains DEF SyncReadEffect

SyncWriteEffect(r, c) ==
    /\ sync[r][c].pc = "read"
    /\ \A v \in Videos :
          \/ /\ v \in sync[r][c].of
             /\ row'[v] = Patch(row[v], sync[r][c].status, sync[r][c].approved)
          \/ v \notin sync[r][c].of /\ row'[v] = row[v]
    /\ sync'[r][c].pc = "idle" /\ ~sync'[r][c].approved
    /\ \A q \in Runs, d \in Callers : <<q, d>> # <<r, c>> => sync'[q][d] = sync[q][d]
    /\ UNCHANGED <<run, exec, op, clean>>

LEMMA SyncWriteDoes ==
    ASSUME Domains, NEW r \in Runs, NEW c \in Callers, SyncWrite(r, c)
    PROVE  Domains' /\ SyncWriteEffect(r, c)
  <1>1. /\ sync' = [sync EXCEPT ![r][c] = SyncIdle] /\ sync[r][c].pc = "read"
        /\ row' = [v \in Videos |->
             IF v \in sync[r][c].of THEN Patch(row[v], sync[r][c].status, sync[r][c].approved)
             ELSE row[v]]
        /\ UNCHANGED <<changes, run, exec, op, crashes, clean>>
    BY DEF SyncWrite
  <1>2. /\ sync' \in [Runs -> [Callers -> SyncDomain]] /\ sync'[r][c] = SyncIdle
        /\ \A q \in Runs, d \in Callers : <<q, d>> # <<r, c>> => sync'[q][d] = sync[q][d]
    BY <1>1, ConstantDomains, Sets
  <1>3. \A v \in Videos : /\ row[v] \in RowDomain
                          /\ Patch(row[v], sync[r][c].status, sync[r][c].approved) \in RowDomain
    BY Fields, Patched
  <1>4. row' \in [Videos -> RowDomain]
    BY <1>1, <1>3
  <1>5. Domains'
    BY <1>1, <1>2, <1>4 DEF Domains
  <1> QED  BY <1>1, <1>2, <1>5, ConstantDomains DEF SyncWriteEffect

CrashEffect ==
    /\ ~clean' /\ UNCHANGED <<row, run>>
    /\ \A r \in Runs : exec'[r] = "none"
    /\ \A r \in Runs, c \in Callers : sync'[r][c].pc = "idle" /\ ~sync'[r][c].approved
    /\ \A a \in Actors : op'[a].pc \in {"idle", "done"}

LEMMA CrashDoes ==
    ASSUME Domains, Crash
    PROVE  Domains' /\ CrashEffect
  <1>1. \A a \in Actors : op'[a] \in OpDomain /\ op'[a].pc \in {"idle", "done"}
    BY OverIsOver, ConstantDomains DEF Crash
  <1>2. op' \in [Actors -> OpDomain]
    BY <1>1 DEF Crash
  <1>3. sync' \in [Runs -> [Callers -> SyncDomain]] /\ \A r \in Runs, c \in Callers : sync'[r][c] = SyncIdle
    BY ConstantDomains DEF Crash
  <1>4. exec' \in [Runs -> {"none", "linked", "plain"}] /\ \A r \in Runs : exec'[r] = "none"
    BY DEF Crash
  <1> QED  BY <1>1, <1>2, <1>3, <1>4, ConstantDomains DEF Crash, Domains, CrashEffect

-----------------------------------------------------------------------------
(* What is known.                                                          *)

LEMMA KnownKept ==
    ASSUME Known, \A a \in Actors : Holds(a)', \A r \in Runs : Unknown(r)', Blank',
           \A r \in Runs : Given(r) => Given(r)',
           \A r \in Runs, c \in Callers : sync'[r][c].approved => sync[r][c].approved \/ Given(r),
           \A v \in Videos : row'[v].article = "approved" =>
               row[v].article = "approved" \/ \E r \in Runs : Given(r)
    PROVE  Known'
  <1>1. Proven'
    BY DEF Known, Proven
  <1>2. ApprovedIsReal'
    BY DEF Known, ApprovedIsReal, Given
  <1> QED  BY <1>1, <1>2 DEF Known

LEMMA FeedReadKnows ==
    ASSUME Domains, Known, NEW a \in Feeds, NEW v \in Videos, FeedRead(a, v)
    PROVE  Known'
  <1>0. Blank /\ (\A b \in Actors : Holds(b)) /\ \A q \in Runs : Unknown(q)
    BY DEF Known
  <1>d. FeedReadEffect(a, v)
    BY <1>0, FeedReadDoes, Names
  <1>1. \A b \in Actors : Holds(b)'
    BY <1>0, <1>d, Names DEF FeedReadEffect, Holds, Launches
  <1>2. \A q \in Runs : Unknown(q)'
    BY <1>0, <1>d, Names DEF FeedReadEffect, Unknown, Dealt
  <1>3. Blank'
    BY <1>0, <1>d, Names DEF FeedReadEffect, Blank
  <1>4. \A q \in Runs : Given(q) => Given(q)'
    BY <1>0, <1>d, Names DEF FeedReadEffect, Given
  <1>5. \A q \in Runs, d \in Callers : sync'[q][d].approved => sync[q][d].approved \/ Given(q)
    BY <1>0, <1>d, Names DEF FeedReadEffect
  <1>6. \A w \in Videos : row'[w].article = "approved" =>
            row[w].article = "approved" \/ \E q \in Runs : Given(q)
    BY <1>0, <1>d, Names DEF FeedReadEffect
  <1> QED  BY <1>1, <1>2, <1>3, <1>4, <1>5, <1>6, KnownKept

LEMMA FeedUpsertKnows ==
    ASSUME Domains, Known, NEW a \in Feeds, FeedUpsert(a)
    PROVE  Known'
  <1>0. Blank /\ (\A b \in Actors : Holds(b)) /\ \A q \in Runs : Unknown(q)
    BY DEF Known
  <1>d. FeedUpsertEffect(a)
    BY <1>0, FeedUpsertDoes, Names
  <1>1. \A b \in Actors : Holds(b)'
    BY <1>0, <1>d, Names DEF FeedUpsertEffect, Holds, Launches
  <1>2. \A q \in Runs : Unknown(q)'
    BY <1>0, <1>d, Names DEF FeedUpsertEffect, Unknown, Dealt
  <1>3. Blank'
    BY <1>0, <1>d, Names DEF FeedUpsertEffect, Blank
  <1>4. \A q \in Runs : Given(q) => Given(q)'
    BY <1>0, <1>d, Names DEF FeedUpsertEffect, Given
  <1>5. \A q \in Runs, d \in Callers : sync'[q][d].approved => sync[q][d].approved \/ Given(q)
    BY <1>0, <1>d, Names DEF FeedUpsertEffect
  <1>6. \A w \in Videos : row'[w].article = "approved" =>
            row[w].article = "approved" \/ \E q \in Runs : Given(q)
    BY <1>0, <1>d, Names DEF FeedUpsertEffect
  <1> QED  BY <1>1, <1>2, <1>3, <1>4, <1>5, <1>6, KnownKept

LEMMA ManualUpsertKnows ==
    ASSUME Domains, Known, NEW a \in Manuals, NEW v \in Videos, ManualUpsert(a, v)
    PROVE  Known'
  <1>0. Blank /\ (\A b \in Actors : Holds(b)) /\ \A q \in Runs : Unknown(q)
    BY DEF Known
  <1>d. ManualUpsertEffect(a, v)
    BY <1>0, ManualUpsertDoes, Names
  <1>1. \A b \in Actors : Holds(b)'
    BY <1>0, <1>d, Names DEF ManualUpsertEffect, Holds, Launches
  <1>2. \A q \in Runs : Unknown(q)'
    <2>1. \A w \in Videos : row'[w].run = row[w].run
      BY <1>d DEF ManualUpsertEffect
    <2> QED  BY <1>0, <1>d, <2>1 DEF ManualUpsertEffect, Unknown, Dealt
  <1>3. Blank'
    BY <1>0, <1>d, Names DEF ManualUpsertEffect, Blank
  <1>4. \A q \in Runs : Given(q) => Given(q)'
    BY <1>0, <1>d, Names DEF ManualUpsertEffect, Given
  <1>5. \A q \in Runs, d \in Callers : sync'[q][d].approved => sync[q][d].approved \/ Given(q)
    BY <1>0, <1>d, Names DEF ManualUpsertEffect
  <1>6. \A w \in Videos : row'[w].article = "approved" =>
            row[w].article = "approved" \/ \E q \in Runs : Given(q)
    BY <1>0, <1>d, Names DEF ManualUpsertEffect
  <1> QED  BY <1>1, <1>2, <1>3, <1>4, <1>5, <1>6, KnownKept

LEMMA StartRunKnows ==
    ASSUME Domains, Known, NEW a \in Actors, StartRun(a)
    PROVE  Known'
  <1>0. Blank /\ (\A b \in Actors : Holds(b)) /\ \A q \in Runs : Unknown(q)
    BY DEF Known
  <1>d. StartRunEffect(a)
    BY <1>0, StartRunDoes, Names
  <1>1. \A b \in Actors : Holds(b)'
    BY <1>0, <1>d, Names DEF StartRunEffect, Holds, Launches
  <1>2. \A q \in Runs : Unknown(q)'
    BY <1>0, <1>d, Names DEF StartRunEffect, Unknown, Dealt
  <1>3. Blank'
    BY <1>0, <1>d, Names DEF StartRunEffect, Blank
  <1>4. \A q \in Runs : Given(q) => Given(q)'
    BY <1>0, <1>d, Names DEF StartRunEffect, Given
  <1>5. \A q \in Runs, d \in Callers : sync'[q][d].approved => sync[q][d].approved \/ Given(q)
    BY <1>0, <1>d, Names DEF StartRunEffect
  <1>6. \A w \in Videos : row'[w].article = "approved" =>
            row[w].article = "approved" \/ \E q \in Runs : Given(q)
    BY <1>0, <1>d, Names DEF StartRunEffect
  <1> QED  BY <1>1, <1>2, <1>3, <1>4, <1>5, <1>6, KnownKept

LEMMA LinkRunKnows ==
    ASSUME Domains, Known, NEW a \in Actors, NEW again \in BOOLEAN, LinkRun(a, again)
    PROVE  Known'
  <1>0. Blank /\ (\A b \in Actors : Holds(b)) /\ \A q \in Runs : Unknown(q)
    BY DEF Known
  <1>d. LinkRunEffect(a)
    BY <1>0, LinkRunDoes, Names
  <1>1. \A b \in Actors : Holds(b)'
    BY <1>0, <1>d, Names DEF LinkRunEffect, Holds, Launches
  <1>2. \A q \in Runs : Unknown(q)'
    BY <1>0, <1>d, Names DEF LinkRunEffect, Unknown, Dealt
  <1>3. Blank'
    BY <1>0, <1>d, Names DEF LinkRunEffect, Blank
  <1>4. \A q \in Runs : Given(q) => Given(q)'
    BY <1>0, <1>d, Names DEF LinkRunEffect, Given
  <1>5. \A q \in Runs, d \in Callers : sync'[q][d].approved => sync[q][d].approved \/ Given(q)
    BY <1>0, <1>d, Names DEF LinkRunEffect
  <1>6. \A w \in Videos : row'[w].article = "approved" =>
            row[w].article = "approved" \/ \E q \in Runs : Given(q)
    BY <1>0, <1>d, Names DEF LinkRunEffect
  <1> QED  BY <1>1, <1>2, <1>3, <1>4, <1>5, <1>6, KnownKept

LEMMA LaunchFailsKnows ==
    ASSUME Domains, Known, NEW a \in Actors, NEW again \in BOOLEAN, LaunchFails(a, again)
    PROVE  Known'
  <1>0. Blank /\ (\A b \in Actors : Holds(b)) /\ \A q \in Runs : Unknown(q)
    BY DEF Known
  <1>d. LaunchFailsEffect(a)
    BY <1>0, LaunchFailsDoes, Names
  <1>1. \A b \in Actors : Holds(b)'
    BY <1>0, <1>d, Names DEF LaunchFailsEffect, Holds, Launches
  <1>2. \A q \in Runs : Unknown(q)'
    <2>1. \A w \in Videos : row'[w].run = row[w].run
      BY <1>d DEF LaunchFailsEffect
    <2> QED  BY <1>0, <1>d, <2>1 DEF LaunchFailsEffect, Unknown, Dealt
  <1>3. Blank'
    BY <1>0, <1>d, Names DEF LaunchFailsEffect, Blank
  <1>4. \A q \in Runs : Given(q) => Given(q)'
    BY <1>0, <1>d, Names DEF LaunchFailsEffect, Given
  <1>5. \A q \in Runs, d \in Callers : sync'[q][d].approved => sync[q][d].approved \/ Given(q)
    BY <1>0, <1>d, Names DEF LaunchFailsEffect
  <1>6. \A w \in Videos : row'[w].article = "approved" =>
            row[w].article = "approved" \/ \E q \in Runs : Given(q)
    BY <1>0, <1>d, Names DEF LaunchFailsEffect
  <1> QED  BY <1>1, <1>2, <1>3, <1>4, <1>5, <1>6, KnownKept

LEMMA ExecEndsKnows ==
    ASSUME Domains, Known, NEW r \in Runs, NEW status \in {"waiting", "succeeded", "failed"},
           ExecEnds(r, status)
    PROVE  Known'
  <1>0. Blank /\ (\A b \in Actors : Holds(b)) /\ \A q \in Runs : Unknown(q)
    BY DEF Known
  <1>d. ExecEndsEffect(r, status)
    BY <1>0, ExecEndsDoes, Names
  <1>1. \A b \in Actors : Holds(b)'
    BY <1>0, <1>d, Names DEF ExecEndsEffect, Holds, Launches
  <1>2. \A q \in Runs : Unknown(q)'
    BY <1>0, <1>d, Names DEF ExecEndsEffect, Unknown, Dealt
  <1>3. Blank'
    BY <1>0, <1>d, Names DEF ExecEndsEffect, Blank
  <1>4. \A q \in Runs : Given(q) => Given(q)'
    BY <1>0, <1>d, Names DEF ExecEndsEffect, Given
  <1>5. \A q \in Runs, d \in Callers : sync'[q][d].approved => sync[q][d].approved \/ Given(q)
    BY <1>0, <1>d, Names DEF ExecEndsEffect
  <1>6. \A w \in Videos : row'[w].article = "approved" =>
            row[w].article = "approved" \/ \E q \in Runs : Given(q)
    BY <1>0, <1>d, Names DEF ExecEndsEffect
  <1> QED  BY <1>1, <1>2, <1>3, <1>4, <1>5, <1>6, KnownKept

LEMMA TickKnows ==
    ASSUME Domains, Known, NEW r \in Runs, Tick(r)
    PROVE  Known'
  <1>0. Blank /\ (\A b \in Actors : Holds(b)) /\ \A q \in Runs : Unknown(q)
    BY DEF Known
  <1>d. TickEffect(r)
    BY <1>0, TickDoes, Names
  <1>1. \A b \in Actors : Holds(b)'
    BY <1>0, <1>d, Names DEF TickEffect, Holds, Launches
  <1>2. \A q \in Runs : Unknown(q)'
    BY <1>0, <1>d, Names DEF TickEffect, Unknown, Dealt
  <1>3. Blank'
    BY <1>0, <1>d, Names DEF TickEffect, Blank
  <1>4. \A q \in Runs : Given(q) => Given(q)'
    BY <1>0, <1>d, Names DEF TickEffect, Given
  <1>5. \A q \in Runs, d \in Callers : sync'[q][d].approved => sync[q][d].approved \/ Given(q)
    BY <1>0, <1>d, Names DEF TickEffect
  <1>6. \A w \in Videos : row'[w].article = "approved" =>
            row[w].article = "approved" \/ \E q \in Runs : Given(q)
    BY <1>0, <1>d, Names DEF TickEffect
  <1> QED  BY <1>1, <1>2, <1>3, <1>4, <1>5, <1>6, KnownKept

LEMMA DecideKnows ==
    ASSUME Domains, Known, NEW r \in Runs, NEW approves \in BOOLEAN, Decide(r, approves)
    PROVE  Known'
  <1>0. Blank /\ (\A b \in Actors : Holds(b)) /\ \A q \in Runs : Unknown(q)
    BY DEF Known
  <1>d. DecideEffect(r)
    BY <1>0, DecideDoes, Names
  <1>1. \A b \in Actors : Holds(b)'
    BY <1>0, <1>d, Names DEF DecideEffect, Holds, Launches
  <1>2. \A q \in Runs : Unknown(q)'
    BY <1>0, <1>d, Names DEF DecideEffect, Unknown, Dealt, GoesOn, Stops
  <1>3. Blank'
    BY <1>0, <1>d, Names DEF DecideEffect, Blank
  <1>4. \A q \in Runs : Given(q) => Given(q)'
    BY <1>0, <1>d, Names DEF DecideEffect, Given, GoesOn, Stops
  <1>5. \A q \in Runs, d \in Callers : sync'[q][d].approved => sync[q][d].approved \/ Given(q)
    BY <1>0, <1>d, Names DEF DecideEffect, GoesOn, Stops
  <1>6. \A w \in Videos : row'[w].article = "approved" =>
            row[w].article = "approved" \/ \E q \in Runs : Given(q)
    BY <1>0, <1>d, Names DEF DecideEffect
  <1> QED  BY <1>1, <1>2, <1>3, <1>4, <1>5, <1>6, KnownKept

LEMMA CancelKnows ==
    ASSUME Domains, Known, NEW r \in Runs, Cancel(r)
    PROVE  Known'
  <1>0. Blank /\ (\A b \in Actors : Holds(b)) /\ \A q \in Runs : Unknown(q)
    BY DEF Known
  <1>d. CancelEffect(r)
    BY <1>0, CancelDoes, Names
  <1>1. \A b \in Actors : Holds(b)'
    BY <1>0, <1>d, Names DEF CancelEffect, Holds, Launches
  <1>2. \A q \in Runs : Unknown(q)'
    BY <1>0, <1>d, Names DEF CancelEffect, Unknown, Dealt, Stops
  <1>3. Blank'
    BY <1>0, <1>d, Names DEF CancelEffect, Blank
  <1>4. \A q \in Runs : Given(q) => Given(q)'
    BY <1>0, <1>d, Names DEF CancelEffect, Given, Stops
  <1>5. \A q \in Runs, d \in Callers : sync'[q][d].approved => sync[q][d].approved \/ Given(q)
    BY <1>0, <1>d, Names DEF CancelEffect, Stops
  <1>6. \A w \in Videos : row'[w].article = "approved" =>
            row[w].article = "approved" \/ \E q \in Runs : Given(q)
    BY <1>0, <1>d, Names DEF CancelEffect
  <1> QED  BY <1>1, <1>2, <1>3, <1>4, <1>5, <1>6, KnownKept

LEMMA SyncReadKnows ==
    ASSUME Domains, Known, NEW r \in Runs, NEW c \in Callers, SyncRead(r, c)
    PROVE  Known'
  <1>0. Blank /\ (\A b \in Actors : Holds(b)) /\ \A q \in Runs : Unknown(q)
    BY DEF Known
  <1>d. SyncReadEffect(r, c)
    BY <1>0, SyncReadDoes, Names
  <1>1. \A b \in Actors : Holds(b)'
    BY <1>0, <1>d, Names DEF SyncReadEffect, Holds, Launches
  <1>2. \A q \in Runs : Unknown(q)'
    BY <1>0, <1>d, Names DEF SyncReadEffect, Unknown, Dealt
  <1>3. Blank'
    BY <1>0, <1>d, Names DEF SyncReadEffect, Blank
  <1>4. \A q \in Runs : Given(q) => Given(q)'
    BY <1>0, <1>d, Names DEF SyncReadEffect, Given
  <1>5. \A q \in Runs, d \in Callers : sync'[q][d].approved => sync[q][d].approved \/ Given(q)
    BY <1>0, <1>d, Names DEF SyncReadEffect
  <1>6. \A w \in Videos : row'[w].article = "approved" =>
            row[w].article = "approved" \/ \E q \in Runs : Given(q)
    BY <1>0, <1>d, Names DEF SyncReadEffect
  <1> QED  BY <1>1, <1>2, <1>3, <1>4, <1>5, <1>6, KnownKept

LEMMA SyncWriteKnows ==
    ASSUME Domains, Known, NEW r \in Runs, NEW c \in Callers, SyncWrite(r, c)
    PROVE  Known'
  <1>0. Blank /\ Proven /\ (\A b \in Actors : Holds(b)) /\ \A q \in Runs : Unknown(q)
    BY DEF Known
  <1>d. SyncWriteEffect(r, c)
    BY SyncWriteDoes
  <1> DEFINE status == sync[r][c].status
             approved == sync[r][c].approved
  <1>a. \A w \in Videos :
          /\ row[w] \in RowDomain /\ status \in RunStatuses /\ approved \in BOOLEAN
          /\ row'[w] = row[w] \/ row'[w] = Patch(row[w], status, approved)
    BY <1>d, Fields DEF SyncWriteEffect
  <1>b. \A w \in Videos :
          /\ row'[w].run = row[w].run
          /\ row'[w].status # "none" \/ row'[w] = row[w]
          /\ row'[w].article = "approved" => row[w].article = "approved" \/ approved
    BY <1>a, Patched
  <1>1. \A b \in Actors : Holds(b)'
    BY <1>0, <1>d, Names DEF SyncWriteEffect, Holds, Launches
  <1>2. \A q \in Runs : Unknown(q)'
    <2>1. \A q \in Runs, d \in Callers : Dealt(q, d)' => Dealt(q, d)
      BY <1>d DEF SyncWriteEffect, Dealt
    <2>2. UNCHANGED <<run, exec, op>>
      BY <1>d DEF SyncWriteEffect
    <2> QED  BY <1>0, <1>b, <2>1, <2>2 DEF Unknown
  <1>3. Blank'
    BY <1>0, <1>b DEF Blank
  <1>4. \A q \in Runs : Given(q) => Given(q)'
    BY <1>d DEF SyncWriteEffect, Given
  <1>5. \A q \in Runs, d \in Callers : sync'[q][d].approved => sync[q][d].approved \/ Given(q)
    BY <1>d DEF SyncWriteEffect
  <1>6. \A w \in Videos : row'[w].article = "approved" =>
            row[w].article = "approved" \/ \E q \in Runs : Given(q)
    BY <1>0, <1>b DEF Proven
  <1> QED  BY <1>1, <1>2, <1>3, <1>4, <1>5, <1>6, KnownKept

LEMMA CrashKnows ==
    ASSUME Domains, Known, Crash
    PROVE  Known'
  <1>0. Blank /\ (\A b \in Actors : Holds(b)) /\ \A q \in Runs : Unknown(q)
    BY DEF Known
  <1>d. CrashEffect
    BY <1>0, CrashDoes, Names
  <1>1. \A b \in Actors : Holds(b)'
    BY <1>0, <1>d, Names DEF CrashEffect, Holds, Launches
  <1>2. \A q \in Runs : Unknown(q)'
    BY <1>0, <1>d, Names DEF CrashEffect, Unknown, Dealt
  <1>3. Blank'
    BY <1>0, <1>d, Names DEF CrashEffect, Blank
  <1>4. \A q \in Runs : Given(q) => Given(q)'
    BY <1>0, <1>d, Names DEF CrashEffect, Given
  <1>5. \A q \in Runs, d \in Callers : sync'[q][d].approved => sync[q][d].approved \/ Given(q)
    BY <1>0, <1>d, Names DEF CrashEffect
  <1>6. \A w \in Videos : row'[w].article = "approved" =>
            row[w].article = "approved" \/ \E q \in Runs : Given(q)
    BY <1>0, <1>d, Names DEF CrashEffect
  <1> QED  BY <1>1, <1>2, <1>3, <1>4, <1>5, <1>6, KnownKept

-----------------------------------------------------------------------------
(* What is orderly.                                                        *)

LEMMA Finite ==
    ASSUME NEW S, S \subseteq Videos \/ S \subseteq Runs
    PROVE  IsFiniteSet(S) /\ Cardinality(S) \in Nat
  <1>1. IsFiniteSet(Runs)
    BY FS_Interval, RunsAssumption DEF Runs
  <1> QED  BY <1>1, FS_Subset, FS_CardinalityType, VideosAssumption

LEMMA Subsets == FromFeed \subseteq Runs /\ Taken \subseteq Videos
  BY DEF FromFeed, Taken

LEMMA CountedKept ==
    ASSUME Counted, FromFeed' \subseteq FromFeed, Taken \subseteq Taken'
    PROVE  Counted'
  <1>1. /\ FromFeed \subseteq Runs /\ FromFeed' \subseteq Runs
        /\ Taken \subseteq Videos /\ Taken' \subseteq Videos
    BY Subsets DEF FromFeed, Taken
  <1>2. /\ IsFiniteSet(FromFeed) /\ IsFiniteSet(Taken')
        /\ Cardinality(FromFeed) \in Nat /\ Cardinality(FromFeed') \in Nat
        /\ Cardinality(Taken) \in Nat /\ Cardinality(Taken') \in Nat
    BY <1>1, Finite
  <1>3. /\ Cardinality(FromFeed') <= Cardinality(FromFeed)
        /\ Cardinality(Taken) <= Cardinality(Taken')
    BY <1>2, FS_Subset
  <1> QED  BY <1>2, <1>3 DEF Counted

\* A row tells its run as before, or is told anew.
LEMMA TellingKept ==
    ASSUME Telling,
           \A v \in Videos : row'[v].run # NoRun /\ row'[v].status # "failed" =>
               \/ /\ row'[v] = row[v] /\ run'[row[v].run] = run[row[v].run]
                  /\ Awaits(v) => Awaits(v)'
               \/ Agrees(v)' \/ Awaits(v)'
    PROVE  Telling'
  <1> SUFFICES ASSUME NEW v \in Videos, row'[v].run # NoRun, row'[v].status # "failed",
                      row'[v] = row[v], run'[row[v].run] = run[row[v].run],
                      Awaits(v) => Awaits(v)'
               PROVE  Agrees(v)' \/ Awaits(v)'
    BY DEF Telling
  <1>1. Agrees(v) \/ Awaits(v)
    BY DEF Telling
  <1>2. Agrees(v) => Agrees(v)'
    BY DEF Agrees
  <1> QED  BY <1>1, <1>2

\* Approvals matter of a run that has succeeded only.
LEMMA PatchAlike ==
    ASSUME NEW old, NEW status, NEW a \in BOOLEAN, NEW b \in BOOLEAN,
           status = "succeeded" => (a <=> b)
    PROVE  Patch(old, status, a) = Patch(old, status, b)
  <1>1. CASE status = "succeeded"
    BY <1>1 DEF Patch
  <1>2. CASE status # "succeeded"
    BY <1>2 DEF Patch
  <1> QED  BY <1>1, <1>2

LEMMA FeedReadOrders ==
    ASSUME Domains, Known, Orderly, NEW a \in Feeds, NEW v \in Videos, FeedRead(a, v), clean'
    PROVE  Launched' /\ Synced' /\ Telling' /\ Counted'
  <1>0. Blank /\ (\A b \in Actors : Holds(b)) /\ \A q \in Runs : Unknown(q)
    BY DEF Known
  <1>d. FeedReadEffect(a, v)
    BY <1>0, FeedReadDoes, Names
  <1>1. /\ Alone /\ ByHand /\ ByFeed /\ (\A b \in Actors : Started(b))
        /\ Synced /\ Telling /\ Counted
    BY <1>d DEF FeedReadEffect, Orderly, Launched
  <1>2. Alone'
    BY <1>0, <1>1, <1>d, Names DEF FeedReadEffect, Alone, Launches
  <1>3. ByHand'
    BY <1>0, <1>1, <1>d, Names DEF FeedReadEffect, Alone, ByHand, Launches, Dealt
  <1>4. ByFeed'
    BY <1>0, <1>1, <1>d, Names DEF FeedReadEffect, Alone, ByFeed, Launches, Holds
  <1>5. \A b \in Actors : Started(b)'
    BY <1>0, <1>1, <1>d, Names DEF FeedReadEffect, Alone, Started, Launches, Dealt, Unknown
  <1>6. Synced'
    BY <1>0, <1>1, <1>d, Names DEF FeedReadEffect, Synced, Settled, Dealt, Unknown
  <1>7. Telling'
    <2> SUFFICES ASSUME NEW w \in Videos, row'[w].run # NoRun, row'[w].status # "failed"
                 PROVE  \/ /\ row'[w] = row[w] /\ run'[row[w].run] = run[row[w].run]
                           /\ Awaits(w) => Awaits(w)'
                        \/ Agrees(w)' \/ Awaits(w)'
      BY <1>1, TellingKept
    <2> QED  BY <1>0, <1>1, <1>d, Names, Fields DEF FeedReadEffect, Awaits, Launches, Dealt, Unknown, Synced
  <1>8. Counted'
    <2>1. FromFeed' \subseteq FromFeed
      BY <1>0, <1>d DEF FeedReadEffect, FromFeed
    <2>2. Taken \subseteq Taken'
      BY <1>0, <1>d, Names DEF FeedReadEffect, Taken
    <2> QED  BY <1>1, <2>1, <2>2, CountedKept
  <1> QED  BY <1>2, <1>3, <1>4, <1>5, <1>6, <1>7, <1>8 DEF Launched

LEMMA FeedUpsertOrders ==
    ASSUME Domains, Known, Orderly, NEW a \in Feeds, FeedUpsert(a), clean'
    PROVE  Launched' /\ Synced' /\ Telling' /\ Counted'
  <1>0. Blank /\ (\A b \in Actors : Holds(b)) /\ \A q \in Runs : Unknown(q)
    BY DEF Known
  <1>d. FeedUpsertEffect(a)
    BY <1>0, FeedUpsertDoes, Names
  <1>1. /\ Alone /\ ByHand /\ ByFeed /\ (\A b \in Actors : Started(b))
        /\ Synced /\ Telling /\ Counted
    BY <1>d DEF FeedUpsertEffect, Orderly, Launched
  <1>2. Alone'
    BY <1>0, <1>1, <1>d, Names DEF FeedUpsertEffect, Alone, Launches
  <1>3. ByHand'
    BY <1>0, <1>1, <1>d, Names DEF FeedUpsertEffect, Alone, ByHand, Launches, Dealt
  <1>4. ByFeed'
    BY <1>0, <1>1, <1>d, Names DEF FeedUpsertEffect, Alone, ByFeed, Launches, Holds
  <1>5. \A b \in Actors : Started(b)'
    BY <1>0, <1>1, <1>d, Names DEF FeedUpsertEffect, Alone, Started, Launches, Dealt, Unknown
  <1>6. Synced'
    BY <1>0, <1>1, <1>d, Names DEF FeedUpsertEffect, Synced, Settled, Dealt, Unknown
  <1>7. Telling'
    <2> SUFFICES ASSUME NEW w \in Videos, row'[w].run # NoRun, row'[w].status # "failed"
                 PROVE  \/ /\ row'[w] = row[w] /\ run'[row[w].run] = run[row[w].run]
                           /\ Awaits(w) => Awaits(w)'
                        \/ Agrees(w)' \/ Awaits(w)'
      BY <1>1, TellingKept
    <2>1. row'[w] = row[w]
      BY <1>0, <1>d, ConstantDomains DEF FeedUpsertEffect, Blank
    <2>2. Awaits(w) => Awaits(w)'
      BY <1>d, <2>1, Names DEF FeedUpsertEffect, Awaits, Launches, Dealt
    <2> QED  BY <1>d, <2>1, <2>2 DEF FeedUpsertEffect
  <1>8. Counted'
    <2>1. FromFeed' \subseteq FromFeed
      BY <1>0, <1>d DEF FeedUpsertEffect, FromFeed
    <2>2. Taken \subseteq Taken'
      BY <1>0, <1>d, Names DEF FeedUpsertEffect, Taken
    <2> QED  BY <1>1, <2>1, <2>2, CountedKept
  <1> QED  BY <1>2, <1>3, <1>4, <1>5, <1>6, <1>7, <1>8 DEF Launched

LEMMA ManualUpsertOrders ==
    ASSUME Domains, Known, Orderly, NEW a \in Manuals, NEW v \in Videos, ManualUpsert(a, v), clean'
    PROVE  Launched' /\ Synced' /\ Telling' /\ Counted'
  <1>0. Blank /\ (\A b \in Actors : Holds(b)) /\ \A q \in Runs : Unknown(q)
    BY DEF Known
  <1>d. ManualUpsertEffect(a, v)
    BY <1>0, ManualUpsertDoes, Names
  <1>1. /\ Alone /\ ByHand /\ ByFeed /\ (\A b \in Actors : Started(b))
        /\ Synced /\ Telling /\ Counted
    BY <1>d DEF ManualUpsertEffect, Orderly, Launched
  <1>2. Alone'
    BY <1>0, <1>1, <1>d, Names DEF ManualUpsertEffect, Alone, Launches
  <1>3. ByHand'
    BY <1>0, <1>1, <1>d, Names DEF ManualUpsertEffect, Alone, ByHand, Launches, Dealt
  <1>4. ByFeed'
    BY <1>0, <1>1, <1>d, Names DEF ManualUpsertEffect, Alone, ByFeed, Launches, Holds
  <1>5. \A b \in Actors : Started(b)'
    BY <1>0, <1>1, <1>d, Names DEF ManualUpsertEffect, Alone, Started, Launches, Dealt, Unknown
  <1>6. Synced'
    BY <1>0, <1>1, <1>d, Names DEF ManualUpsertEffect, Synced, Settled, Dealt, Unknown
  <1>7. Telling'
    <2> SUFFICES ASSUME NEW w \in Videos, row'[w].run # NoRun, row'[w].status # "failed"
                 PROVE  \/ /\ row'[w] = row[w] /\ run'[row[w].run] = run[row[w].run]
                           /\ Awaits(w) => Awaits(w)'
                        \/ Agrees(w)' \/ Awaits(w)'
      BY <1>1, TellingKept
    <2> QED  BY <1>0, <1>1, <1>d, Names, Fields DEF ManualUpsertEffect, Awaits, Launches, Dealt, Unknown, Synced
  <1>8. Counted'
    <2>1. FromFeed' \subseteq FromFeed
      BY <1>0, <1>d DEF ManualUpsertEffect, FromFeed
    <2>2. Taken \subseteq Taken'
      BY <1>0, <1>d, Names DEF ManualUpsertEffect, Taken
    <2> QED  BY <1>1, <2>1, <2>2, CountedKept
  <1> QED  BY <1>2, <1>3, <1>4, <1>5, <1>6, <1>7, <1>8 DEF Launched

LEMMA StartRunOrders ==
    ASSUME Domains, Known, Orderly, NEW a \in Actors, StartRun(a), clean'
    PROVE  Launched' /\ Synced' /\ Telling' /\ Counted'
  <1>0. Blank /\ (\A b \in Actors : Holds(b)) /\ \A q \in Runs : Unknown(q)
    BY DEF Known
  <1>d. StartRunEffect(a)
    BY <1>0, StartRunDoes, Names
  <1>r. PICK r \in Runs :
           /\ run[r].status = "absent" /\ run'[r].status = "running"
           /\ ~run'[r].approved
           /\ run'[r].from = (IF a \in Feeds THEN "feed" ELSE "hand")
           /\ \A q \in Runs \ {r} : run'[q] = run[q]
           /\ op'[a].pc = "link" /\ op'[a].video = op[a].video /\ op'[a].run = r
    BY <1>d DEF StartRunEffect
  <1>u. /\ exec[r] = "none" /\ (\A c \in Callers : ~Dealt(r, c))
        /\ \A v \in Videos : row[v].run # r
    BY <1>0, <1>r DEF Unknown
  <1>f. /\ UNCHANGED <<row, exec, sync, clean>> /\ op[a].pc = "launch"
        /\ \A b \in Actors \ {a} : op'[b] = op[b]
    BY <1>d DEF StartRunEffect
  <1>1. /\ Alone /\ ByHand /\ ByFeed /\ (\A b \in Actors : Started(b))
        /\ Synced /\ Telling /\ Counted
    BY <1>d DEF StartRunEffect, Orderly, Launched
  <1>2. Alone'
    BY <1>0, <1>1, <1>d, Names DEF StartRunEffect, Alone, Launches
  <1>3. ByHand'
    BY <1>0, <1>1, <1>d, Names DEF StartRunEffect, Alone, ByHand, Launches, Dealt
  <1>4. ByFeed'
    BY <1>0, <1>1, <1>d, Names DEF StartRunEffect, Alone, ByFeed, Launches, Holds
  <1>5. \A b \in Actors : Started(b)'
    BY <1>0, <1>1, <1>d, Names DEF StartRunEffect, Alone, Started, Launches, Dealt, Unknown
  <1>6. Synced'
    <2>1. ASSUME NEW q \in Runs, NEW c \in Callers
          PROVE  exec'[q] # "plain" /\ Settled(q, c)'
      <3>1. exec[q] # "plain" /\ Settled(q, c)
        BY <1>1 DEF Synced
      <3>2. CASE q = r
        BY <1>f, <1>u, <3>1, <3>2 DEF Settled, Dealt
      <3>3. CASE q # r
        BY <1>f, <1>r, <3>1, <3>3 DEF Settled, Dealt
      <3> QED  BY <3>2, <3>3
    <2> QED  BY <2>1, Names DEF Synced
  <1>7. Telling'
    <2> SUFFICES ASSUME NEW w \in Videos, row'[w].run # NoRun, row'[w].status # "failed"
                 PROVE  \/ /\ row'[w] = row[w] /\ run'[row[w].run] = run[row[w].run]
                           /\ Awaits(w) => Awaits(w)'
                        \/ Agrees(w)' \/ Awaits(w)'
      BY <1>1, TellingKept
    <2>1. row[w].run \in Runs \ {r}
      BY <1>f, <1>u, Fields
    <2>2. Awaits(w) => Awaits(w)'
      BY <1>f, <1>r, Names DEF Awaits, Launches, Dealt
    <2> QED  BY <1>f, <1>r, <2>1, <2>2
  <1>8. Counted'
    <2>1. CASE a \notin Feeds
      <3>1. FromFeed' \subseteq FromFeed
        BY <1>r, <2>1 DEF FromFeed
      <3>2. Taken \subseteq Taken'
        BY <1>f, <1>r DEF Taken
      <3> QED  BY <1>1, <3>1, <3>2, CountedKept
    <2>2. CASE a \in Feeds
      <3> DEFINE v == op[a].video
      <3>1. v \in Videos /\ v \notin Taken
        BY <1>0, <1>1, <1>f, <2>2 DEF Holds, Launches, ByFeed, Alone, Taken
      <3>2. FromFeed' \subseteq FromFeed \cup {r} /\ Taken \cup {v} \subseteq Taken'
        BY <1>f, <1>r, <3>1 DEF FromFeed, Taken
      <3> HIDE DEF v
      <3>3. /\ FromFeed \cup {r} \subseteq Runs /\ FromFeed' \subseteq Runs
            /\ Taken \cup {v} \subseteq Videos /\ Taken' \subseteq Videos
        BY <3>1, Subsets DEF FromFeed, Taken
      <3>4. /\ IsFiniteSet(FromFeed) /\ IsFiniteSet(Taken)
            /\ IsFiniteSet(FromFeed \cup {r}) /\ IsFiniteSet(Taken')
            /\ Cardinality(FromFeed) \in Nat /\ Cardinality(FromFeed') \in Nat
            /\ Cardinality(Taken) \in Nat /\ Cardinality(Taken') \in Nat
            /\ Cardinality(FromFeed \cup {r}) \in Nat
        BY <3>3, Finite
      <3>5. Cardinality(FromFeed \cup {r}) <= Cardinality(FromFeed) + 1
        BY <3>4, FS_AddElement
      <3>6. Cardinality(Taken \cup {v}) = Cardinality(Taken) + 1
        BY <3>1, <3>4, FS_AddElement
      <3>7. /\ Cardinality(FromFeed') <= Cardinality(FromFeed \cup {r})
            /\ Cardinality(Taken \cup {v}) <= Cardinality(Taken')
        BY <3>2, <3>4, FS_Subset
      <3> QED  BY <1>1, <3>4, <3>5, <3>6, <3>7 DEF Counted
    <2> QED  BY <2>1, <2>2
  <1> QED  BY <1>2, <1>3, <1>4, <1>5, <1>6, <1>7, <1>8 DEF Launched

LEMMA LinkRunOrders ==
    ASSUME Domains, Known, Orderly, NEW a \in Actors, NEW again \in BOOLEAN, LinkRun(a, again), clean'
    PROVE  Launched' /\ Synced' /\ Telling' /\ Counted'
  <1>0. Blank /\ (\A b \in Actors : Holds(b)) /\ \A q \in Runs : Unknown(q)
    BY DEF Known
  <1>d. LinkRunEffect(a)
    BY <1>0, LinkRunDoes, Names
  <1>1. /\ Alone /\ ByHand /\ ByFeed /\ (\A b \in Actors : Started(b))
        /\ Synced /\ Telling /\ Counted
    BY <1>d DEF LinkRunEffect, Orderly, Launched
  <1>2. Alone'
    BY <1>0, <1>1, <1>d, Names DEF LinkRunEffect, Alone, Launches
  <1>3. ByHand'
    BY <1>0, <1>1, <1>d, Names DEF LinkRunEffect, Alone, ByHand, Launches, Dealt
  <1>4. ByFeed'
    BY <1>0, <1>1, <1>d, Names DEF LinkRunEffect, Alone, ByFeed, Launches, Holds
  <1>5. \A b \in Actors : Started(b)'
    BY <1>0, <1>1, <1>d, Names DEF LinkRunEffect, Alone, Started, Launches, Dealt, Unknown
  <1>6. Synced'
    <2>1. ASSUME NEW q \in Runs, NEW c \in Callers
          PROVE  exec'[q] # "plain" /\ Settled(q, c)'
      <3>1. exec[q] # "plain" /\ Settled(q, c)
        BY <1>1 DEF Synced
      <3>2. exec'[q] # "plain"
        BY <1>d, <3>1 DEF LinkRunEffect
      <3>3. UNCHANGED <<run, sync>>
        BY <1>d DEF LinkRunEffect
      <3>4. CASE ~Dealt(q, c)
        BY <3>2, <3>3, <3>4 DEF Settled, Dealt
      <3>5. CASE Dealt(q, c)
        <4>1. q # op[a].run
          BY <1>1, <1>d, <3>5 DEF LinkRunEffect, Started
        <4>2. row[op[a].video].run # q
          BY <1>1, <1>d, <3>5, Names DEF LinkRunEffect, ByHand, ByFeed, Launches
        <4>3. \A v \in Videos : row'[v].run = q <=> row[v].run = q
          BY <1>d, <4>1, <4>2 DEF LinkRunEffect
        <4> QED  BY <3>1, <3>2, <3>3, <3>5, <4>3 DEF Settled, Dealt
      <3> QED  BY <3>2, <3>4, <3>5
    <2> QED  BY <2>1, Names DEF Synced
  <1>7. Telling'
    <2> SUFFICES ASSUME NEW w \in Videos, row'[w].run # NoRun, row'[w].status # "failed"
                 PROVE  \/ /\ row'[w] = row[w] /\ run'[row[w].run] = run[row[w].run]
                           /\ Awaits(w) => Awaits(w)'
                        \/ Agrees(w)' \/ Awaits(w)'
      BY <1>1, TellingKept
    <2>1. CASE w = op[a].video
      BY <1>d, <2>1 DEF LinkRunEffect, Awaits
    <2>2. CASE w # op[a].video
      <3>1. row'[w] = row[w] /\ run' = run /\ sync' = sync
        BY <1>d, <2>2 DEF LinkRunEffect
      <3>2. exec[row[w].run] = "linked" => exec'[row[w].run] = "linked"
        BY <1>d, <3>1, Fields DEF LinkRunEffect
      <3>3. \A b \in Manuals : Launches(b) /\ op[b].video = w => Launches(b)' /\ op'[b].video = w
        BY <1>d, <2>2, Names DEF LinkRunEffect, Launches
      <3> QED  BY <3>1, <3>2, <3>3 DEF Awaits, Dealt
    <2> QED  BY <2>1, <2>2
  <1>8. Counted'
    <2>1. FromFeed' \subseteq FromFeed
      BY <1>0, <1>d DEF LinkRunEffect, FromFeed
    <2>2. Taken \subseteq Taken'
      BY <1>0, <1>d, Names DEF LinkRunEffect, Taken
    <2> QED  BY <1>1, <2>1, <2>2, CountedKept
  <1> QED  BY <1>2, <1>3, <1>4, <1>5, <1>6, <1>7, <1>8 DEF Launched

LEMMA LaunchFailsOrders ==
    ASSUME Domains, Known, Orderly, NEW a \in Actors, NEW again \in BOOLEAN, LaunchFails(a, again), clean'
    PROVE  Launched' /\ Synced' /\ Telling' /\ Counted'
  <1>0. Blank /\ (\A b \in Actors : Holds(b)) /\ \A q \in Runs : Unknown(q)
    BY DEF Known
  <1>d. LaunchFailsEffect(a)
    BY <1>0, LaunchFailsDoes, Names
  <1>1. /\ Alone /\ ByHand /\ ByFeed /\ (\A b \in Actors : Started(b))
        /\ Synced /\ Telling /\ Counted
    BY <1>d DEF LaunchFailsEffect, Orderly, Launched
  <1>2. Alone'
    BY <1>0, <1>1, <1>d, Names DEF LaunchFailsEffect, Alone, Launches
  <1>3. ByHand'
    BY <1>0, <1>1, <1>d, Names DEF LaunchFailsEffect, Alone, ByHand, Launches, Dealt
  <1>4. ByFeed'
    BY <1>0, <1>1, <1>d, Names DEF LaunchFailsEffect, Alone, ByFeed, Launches, Holds
  <1>5. \A b \in Actors : Started(b)'
    BY <1>0, <1>1, <1>d, Names DEF LaunchFailsEffect, Alone, Started, Launches, Dealt, Unknown
  <1>6. Synced'
    BY <1>0, <1>1, <1>d, Names DEF LaunchFailsEffect, Synced, Settled, Dealt, Unknown
  <1>7. Telling'
    <2> SUFFICES ASSUME NEW w \in Videos, row'[w].run # NoRun, row'[w].status # "failed"
                 PROVE  \/ /\ row'[w] = row[w] /\ run'[row[w].run] = run[row[w].run]
                           /\ Awaits(w) => Awaits(w)'
                        \/ Agrees(w)' \/ Awaits(w)'
      BY <1>1, TellingKept
    <2> QED  BY <1>0, <1>1, <1>d, Names, Fields DEF LaunchFailsEffect, Awaits, Launches, Dealt, Unknown, Synced
  <1>8. Counted'
    <2>1. FromFeed' \subseteq FromFeed
      BY <1>0, <1>d DEF LaunchFailsEffect, FromFeed
    <2>2. Taken \subseteq Taken'
      BY <1>0, <1>d, Names DEF LaunchFailsEffect, Taken
    <2> QED  BY <1>1, <2>1, <2>2, CountedKept
  <1> QED  BY <1>2, <1>3, <1>4, <1>5, <1>6, <1>7, <1>8 DEF Launched

LEMMA ExecEndsOrders ==
    ASSUME Domains, Known, Orderly, NEW r \in Runs, NEW status \in {"waiting", "succeeded", "failed"},
           ExecEnds(r, status), clean'
    PROVE  Launched' /\ Synced' /\ Telling' /\ Counted'
  <1>0. Blank /\ (\A b \in Actors : Holds(b)) /\ \A q \in Runs : Unknown(q)
    BY DEF Known
  <1>d. ExecEndsEffect(r, status)
    BY <1>0, ExecEndsDoes, Names
  <1>1. /\ Alone /\ ByHand /\ ByFeed /\ (\A b \in Actors : Started(b))
        /\ Synced /\ Telling /\ Counted
    BY <1>d DEF ExecEndsEffect, Orderly, Launched
  <1>2. Alone'
    BY <1>0, <1>1, <1>d, Names DEF ExecEndsEffect, Alone, Launches
  <1>3. ByHand'
    BY <1>0, <1>1, <1>d, Names DEF ExecEndsEffect, Alone, ByHand, Launches, Dealt
  <1>4. ByFeed'
    BY <1>0, <1>1, <1>d, Names DEF ExecEndsEffect, Alone, ByFeed, Launches, Holds
  <1>5. \A b \in Actors : Started(b)'
    <2> SUFFICES ASSUME NEW b \in Actors  PROVE Started(b)'
      OBVIOUS
    <2>1. Started(b) /\ Holds(b) /\ op' = op /\ row' = row
      BY <1>0, <1>1, <1>d DEF ExecEndsEffect
    <2>2. CASE op[b].pc = "link"
      <3>1. op[b].run \in Runs /\ op[b].run # r
        BY <1>d, <2>1, <2>2 DEF ExecEndsEffect, Started, Holds
      <3>2. /\ run'[op[b].run] = run[op[b].run] /\ exec'[op[b].run] = exec[op[b].run]
            /\ \A c \in Callers : sync'[op[b].run][c] = sync[op[b].run][c]
        BY <1>d, <3>1 DEF ExecEndsEffect
      <3> QED  BY <2>1, <3>1, <3>2 DEF Started, Dealt
    <2> QED  BY <2>1, <2>2 DEF Started
  <1>6. Synced'
    <2>1. ASSUME NEW q \in Runs, NEW c \in Callers
          PROVE  exec'[q] # "plain" /\ Settled(q, c)'
      <3>1. exec[q] # "plain" /\ Settled(q, c) /\ UNCHANGED row
        BY <1>1, <1>d DEF Synced, ExecEndsEffect
      <3>2. exec'[q] # "plain"
        BY <1>d, <3>1 DEF ExecEndsEffect
      <3>3. CASE q # r
        <4>1. run'[q] = run[q] /\ sync'[q][c] = sync[q][c]
          BY <1>d, <3>3 DEF ExecEndsEffect
        <4> QED  BY <3>1, <3>2, <4>1 DEF Settled, Dealt
      <3>4. CASE q = r /\ c = "exec"
        <4>1. exec[r] = "linked"
          BY <1>d, <3>1, <3>4, Fields DEF ExecEndsEffect
        <4>2. sync'[r]["exec"].pc = "due"
          BY <1>d, <4>1 DEF ExecEndsEffect
        <4>3. run[r].status # "absent" /\ run[r].status \in RunStatuses
          BY <1>0, <4>1, Fields DEF Unknown
        <4>4. run'[r].status \in {"waiting", "succeeded", "failed"}
          BY <1>d, <4>3, Names DEF ExecEndsEffect
        <4> QED  BY <3>2, <3>4, <4>2, <4>4 DEF Settled, Dealt
      <3>5. CASE q = r /\ c = "user"
        <4>1. sync'[r]["user"] = sync[r]["user"]
          BY <1>d, <3>5 DEF ExecEndsEffect
        <4>2. run'[r] = run[r] \/ ~Dealt(r, "user")
          BY <1>d, <3>1, <3>5 DEF ExecEndsEffect, Settled
        <4> QED  BY <3>1, <3>2, <3>5, <4>1, <4>2 DEF Settled, Dealt
      <3> QED  BY <3>2, <3>3, <3>4, <3>5, Names
    <2> QED  BY <2>1, Names DEF Synced
  <1>7. Telling'
    <2> SUFFICES ASSUME NEW w \in Videos, row'[w].run # NoRun, row'[w].status # "failed"
                 PROVE  \/ /\ row'[w] = row[w] /\ run'[row[w].run] = run[row[w].run]
                           /\ Awaits(w) => Awaits(w)'
                        \/ Agrees(w)' \/ Awaits(w)'
      BY <1>1, TellingKept
    <2>0. UNCHANGED <<row, op>>
      BY <1>d DEF ExecEndsEffect
    <2>1. CASE row[w].run = r
      <3>1. sync'[r]["exec"].pc = "due"
        BY <1>1, <1>d, Fields DEF ExecEndsEffect, Synced
      <3> QED  BY <2>0, <2>1, <3>1, Names DEF Awaits, Dealt
    <2>2. CASE row[w].run # r
      <3>1. row[w].run \in Runs \ {r}
        BY <2>0, <2>2, Fields
      <3>2. /\ run'[row[w].run] = run[row[w].run] /\ exec'[row[w].run] = exec[row[w].run]
            /\ \A c \in Callers : sync'[row[w].run][c] = sync[row[w].run][c]
        BY <1>d, <3>1 DEF ExecEndsEffect
      <3> QED  BY <2>0, <3>2 DEF Awaits, Dealt, Launches
    <2> QED  BY <2>1, <2>2
  <1>8. Counted'
    <2>1. FromFeed' \subseteq FromFeed
      BY <1>0, <1>d DEF ExecEndsEffect, FromFeed
    <2>2. Taken \subseteq Taken'
      BY <1>0, <1>d, Names DEF ExecEndsEffect, Taken
    <2> QED  BY <1>1, <2>1, <2>2, CountedKept
  <1> QED  BY <1>2, <1>3, <1>4, <1>5, <1>6, <1>7, <1>8 DEF Launched

LEMMA DecideOrders ==
    ASSUME Domains, Known, Orderly, NEW r \in Runs, NEW approves \in BOOLEAN, Decide(r, approves), clean'
    PROVE  Launched' /\ Synced' /\ Telling' /\ Counted'
  <1>0. Blank /\ (\A b \in Actors : Holds(b)) /\ \A q \in Runs : Unknown(q)
    BY DEF Known
  <1>d. DecideEffect(r)
    BY <1>0, DecideDoes, Names
  <1>1. /\ Alone /\ ByHand /\ ByFeed /\ (\A b \in Actors : Started(b))
        /\ Synced /\ Telling /\ Counted
    BY <1>d DEF DecideEffect, Orderly, Launched
  <1>2. Alone'
    BY <1>0, <1>1, <1>d, Names DEF DecideEffect, Alone, Launches
  <1>3. ByHand'
    BY <1>0, <1>1, <1>d, Names DEF DecideEffect, Alone, ByHand, Launches, Dealt, GoesOn, Stops
  <1>4. ByFeed'
    BY <1>0, <1>1, <1>d, Names DEF DecideEffect, Alone, ByFeed, Launches, Holds
  <1>5. \A b \in Actors : Started(b)'
    BY <1>0, <1>1, <1>d, Names DEF DecideEffect, Alone, Started, Launches, Dealt, Unknown, GoesOn, Stops
  <1>6. Synced'
    BY <1>0, <1>1, <1>d, Names DEF DecideEffect, Synced, Settled, Dealt, Unknown, GoesOn, Stops
  <1>7. Telling'
    <2> SUFFICES ASSUME NEW w \in Videos, row'[w].run # NoRun, row'[w].status # "failed"
                 PROVE  \/ /\ row'[w] = row[w] /\ run'[row[w].run] = run[row[w].run]
                           /\ Awaits(w) => Awaits(w)'
                        \/ Agrees(w)' \/ Awaits(w)'
      BY <1>1, TellingKept
    <2> QED  BY <1>0, <1>1, <1>d, Names, Fields DEF DecideEffect, Awaits, Launches, Dealt, Unknown, Synced, GoesOn, Stops
  <1>8. Counted'
    <2>1. FromFeed' \subseteq FromFeed
      BY <1>0, <1>d DEF DecideEffect, FromFeed, GoesOn, Stops
    <2>2. Taken \subseteq Taken'
      BY <1>0, <1>d, Names DEF DecideEffect, Taken
    <2> QED  BY <1>1, <2>1, <2>2, CountedKept
  <1> QED  BY <1>2, <1>3, <1>4, <1>5, <1>6, <1>7, <1>8 DEF Launched

LEMMA CancelOrders ==
    ASSUME Domains, Known, Orderly, NEW r \in Runs, Cancel(r), clean'
    PROVE  Launched' /\ Synced' /\ Telling' /\ Counted'
  <1>0. Blank /\ (\A b \in Actors : Holds(b)) /\ \A q \in Runs : Unknown(q)
    BY DEF Known
  <1>d. CancelEffect(r)
    BY <1>0, CancelDoes, Names
  <1>1. /\ Alone /\ ByHand /\ ByFeed /\ (\A b \in Actors : Started(b))
        /\ Synced /\ Telling /\ Counted
    BY <1>d DEF CancelEffect, Orderly, Launched
  <1>2. Alone'
    BY <1>0, <1>1, <1>d, Names DEF CancelEffect, Alone, Launches
  <1>3. ByHand'
    BY <1>0, <1>1, <1>d, Names DEF CancelEffect, Alone, ByHand, Launches, Dealt, Stops
  <1>4. ByFeed'
    BY <1>0, <1>1, <1>d, Names DEF CancelEffect, Alone, ByFeed, Launches, Holds
  <1>5. \A b \in Actors : Started(b)'
    BY <1>0, <1>1, <1>d, Names DEF CancelEffect, Alone, Started, Launches, Dealt, Unknown, Stops
  <1>6. Synced'
    BY <1>0, <1>1, <1>d, Names DEF CancelEffect, Synced, Settled, Dealt, Unknown, Stops
  <1>7. Telling'
    <2> SUFFICES ASSUME NEW w \in Videos, row'[w].run # NoRun, row'[w].status # "failed"
                 PROVE  \/ /\ row'[w] = row[w] /\ run'[row[w].run] = run[row[w].run]
                           /\ Awaits(w) => Awaits(w)'
                        \/ Agrees(w)' \/ Awaits(w)'
      BY <1>1, TellingKept
    <2>0. UNCHANGED <<row, exec, op>>
      BY <1>d DEF CancelEffect
    <2>1. CASE row[w].run = r
      <3>1. sync'[r]["user"].pc = "due"
        BY <1>d DEF CancelEffect, Stops
      <3> QED  BY <2>0, <2>1, <3>1, Names DEF Awaits, Dealt
    <2>2. CASE row[w].run # r
      <3>1. row[w].run \in Runs \ {r}
        BY <2>0, <2>2, Fields
      <3>2. /\ run'[row[w].run] = run[row[w].run]
            /\ \A c \in Callers : sync'[row[w].run][c] = sync[row[w].run][c]
        BY <1>d, <3>1 DEF CancelEffect, Stops
      <3> QED  BY <2>0, <3>2 DEF Awaits, Dealt, Launches
    <2> QED  BY <2>1, <2>2
  <1>8. Counted'
    <2>1. FromFeed' \subseteq FromFeed
      BY <1>0, <1>d DEF CancelEffect, FromFeed, Stops
    <2>2. Taken \subseteq Taken'
      BY <1>0, <1>d, Names DEF CancelEffect, Taken
    <2> QED  BY <1>1, <2>1, <2>2, CountedKept
  <1> QED  BY <1>2, <1>3, <1>4, <1>5, <1>6, <1>7, <1>8 DEF Launched

LEMMA SyncReadOrders ==
    ASSUME Domains, Known, Orderly, NEW r \in Runs, NEW c \in Callers, SyncRead(r, c), clean'
    PROVE  Launched' /\ Synced' /\ Telling' /\ Counted'
  <1>0. Blank /\ (\A b \in Actors : Holds(b)) /\ \A q \in Runs : Unknown(q)
    BY DEF Known
  <1>d. SyncReadEffect(r, c)
    BY <1>0, SyncReadDoes, Names
  <1>1. /\ Alone /\ ByHand /\ ByFeed /\ (\A b \in Actors : Started(b))
        /\ Synced /\ Telling /\ Counted
    BY <1>d DEF SyncReadEffect, Orderly, Launched
  <1>2. Alone'
    BY <1>0, <1>1, <1>d, Names DEF SyncReadEffect, Alone, Launches
  <1>3. ByHand'
    BY <1>0, <1>1, <1>d, Names DEF SyncReadEffect, Alone, ByHand, Launches, Dealt
  <1>4. ByFeed'
    BY <1>0, <1>1, <1>d, Names DEF SyncReadEffect, Alone, ByFeed, Launches, Holds
  <1>5. \A b \in Actors : Started(b)'
    <2> SUFFICES ASSUME NEW b \in Actors  PROVE Started(b)'
      OBVIOUS
    <2>1. Started(b) /\ Holds(b) /\ UNCHANGED <<op, row, run, exec>>
      BY <1>0, <1>1, <1>d DEF SyncReadEffect
    <2>2. CASE op[b].pc = "link"
      <3>1. op[b].run \in Runs /\ op[b].run # r
        BY <1>d, <2>1, <2>2 DEF SyncReadEffect, Started, Holds, Dealt
      <3>2. \A d \in Callers : sync'[op[b].run][d] = sync[op[b].run][d]
        BY <1>d, <3>1 DEF SyncReadEffect
      <3> QED  BY <2>1, <3>1, <3>2 DEF Started, Dealt
    <2> QED  BY <2>1, <2>2 DEF Started
  <1>6. Synced'
    <2>1. ASSUME NEW q \in Runs, NEW d \in Callers
          PROVE  exec'[q] # "plain" /\ Settled(q, d)'
      <3>1. exec[q] # "plain" /\ Settled(q, d) /\ UNCHANGED <<row, run, exec>>
        BY <1>1, <1>d DEF Synced, SyncReadEffect
      <3>2. CASE <<q, d>> # <<r, c>>
        <4>1. sync'[q][d] = sync[q][d]
          BY <1>d, <3>2 DEF SyncReadEffect
        <4> QED  BY <3>1, <4>1 DEF Settled, Dealt
      <3>3. CASE q = r /\ d = c
        <4>1. run[r].status \in {"waiting", "succeeded", "failed"}
          BY <1>d, <3>1, <3>3 DEF SyncReadEffect, Settled, Dealt
        <4>2. CASE sync'[r][c].pc = "idle"
          BY <3>1, <3>3, <4>2 DEF Settled, Dealt
        <4>3. CASE sync'[r][c].pc # "idle"
          BY <1>d, <3>1, <3>3, <4>1, <4>3 DEF SyncReadEffect, Settled, Dealt, Given
        <4> QED  BY <4>2, <4>3
      <3> QED  BY <3>2, <3>3
    <2> QED  BY <2>1, Names DEF Synced
  <1>7. Telling'
    <2> SUFFICES ASSUME NEW w \in Videos, row'[w].run # NoRun, row'[w].status # "failed"
                 PROVE  \/ /\ row'[w] = row[w] /\ run'[row[w].run] = run[row[w].run]
                           /\ Awaits(w) => Awaits(w)'
                        \/ Agrees(w)' \/ Awaits(w)'
      BY <1>1, TellingKept
    <2>0. UNCHANGED <<row, run, exec, op>>
      BY <1>d DEF SyncReadEffect
    <2>1. CASE row[w].run = r
      <3>1. sync'[r][c].pc = "read"
        BY <1>d, <2>1 DEF SyncReadEffect
      <3> QED  BY <2>0, <2>1, <3>1 DEF Awaits, Dealt
    <2>2. CASE row[w].run # r
      <3>1. row[w].run \in Runs \ {r}
        BY <2>0, <2>2, Fields
      <3>2. \A d \in Callers : sync'[row[w].run][d] = sync[row[w].run][d]
        BY <1>d, <3>1 DEF SyncReadEffect
      <3> QED  BY <2>0, <3>2 DEF Awaits, Dealt, Launches
    <2> QED  BY <2>1, <2>2
  <1>8. Counted'
    <2>1. FromFeed' \subseteq FromFeed
      BY <1>0, <1>d DEF SyncReadEffect, FromFeed
    <2>2. Taken \subseteq Taken'
      BY <1>0, <1>d, Names DEF SyncReadEffect, Taken
    <2> QED  BY <1>1, <2>1, <2>2, CountedKept
  <1> QED  BY <1>2, <1>3, <1>4, <1>5, <1>6, <1>7, <1>8 DEF Launched

LEMMA SyncWriteOrders ==
    ASSUME Domains, Known, Orderly, NEW r \in Runs, NEW c \in Callers, SyncWrite(r, c), clean'
    PROVE  Launched' /\ Synced' /\ Telling' /\ Counted'
  <1>0. Blank /\ (\A b \in Actors : Holds(b)) /\ \A q \in Runs : Unknown(q)
    BY DEF Known
  <1>d. SyncWriteEffect(r, c)
    BY <1>0, SyncWriteDoes, Names
  <1>f. UNCHANGED <<run, exec, op, clean>>
    BY <1>d DEF SyncWriteEffect
  <1>r. \A w \in Videos : row'[w].run = row[w].run
    <2>1. \A w \in Videos :
            /\ row[w] \in RowDomain /\ sync[r][c].status \in RunStatuses
            /\ sync[r][c].approved \in BOOLEAN
      BY Fields
    <2>2. \A w \in Videos : Patch(row[w], sync[r][c].status, sync[r][c].approved).run = row[w].run
      BY <2>1, Patched
    <2> QED  BY <1>d, <2>2 DEF SyncWriteEffect
  <1>1. /\ Alone /\ ByHand /\ ByFeed /\ (\A b \in Actors : Started(b))
        /\ Synced /\ Telling /\ Counted
    BY <1>d DEF SyncWriteEffect, Orderly, Launched
  <1>2. Alone'
    BY <1>0, <1>1, <1>d, Names DEF SyncWriteEffect, Alone, Launches
  <1>3. ByHand'
    <2>1. \A q \in Runs, d \in Callers : ~Dealt(q, d) => ~Dealt(q, d)'
      BY <1>d DEF SyncWriteEffect, Dealt
    <2> QED  BY <1>1, <1>f, <2>1 DEF ByHand, Launches
  <1>4. ByFeed'
    <2>1. \A b \in Feeds : op[b].pc \in {"launch", "link"} => op[b].video \in Videos
      BY <1>0, Names DEF Holds, Launches
    <2> QED  BY <1>1, <1>f, <1>r, <2>1 DEF ByFeed
  <1>5. \A b \in Actors : Started(b)'
    <2> SUFFICES ASSUME NEW b \in Actors  PROVE Started(b)'
      OBVIOUS
    <2>1. Started(b) /\ Holds(b)
      BY <1>0, <1>1
    <2>2. \A q \in Runs, d \in Callers : ~Dealt(q, d) => ~Dealt(q, d)'
      BY <1>d DEF SyncWriteEffect, Dealt
    <2> QED  BY <1>f, <1>r, <2>1, <2>2 DEF Started, Holds
  <1>6. Synced'
    <2>1. ASSUME NEW q \in Runs, NEW d \in Callers
          PROVE  exec'[q] # "plain" /\ Settled(q, d)'
      <3>1. exec[q] # "plain" /\ Settled(q, d)
        BY <1>1 DEF Synced
      <3>2. sync'[q][d] = sync[q][d] \/ sync'[q][d].pc = "idle"
        BY <1>d DEF SyncWriteEffect
      <3>3. CASE sync'[q][d] = sync[q][d]
        BY <1>f, <1>r, <3>1, <3>3 DEF Settled, Dealt
      <3>4. CASE sync'[q][d].pc = "idle"
        BY <1>f, <3>1, <3>4 DEF Settled, Dealt
      <3> QED  BY <3>2, <3>3, <3>4
    <2> QED  BY <2>1, Names DEF Synced
  <1>7. Telling'
    <2> SUFFICES ASSUME NEW w \in Videos, row'[w].run # NoRun, row'[w].status # "failed"
                 PROVE  \/ /\ row'[w] = row[w] /\ run'[row[w].run] = run[row[w].run]
                           /\ Awaits(w) => Awaits(w)'
                        \/ Agrees(w)' \/ Awaits(w)'
      BY <1>1, TellingKept
    <2>0. row[w].run \in Runs /\ row'[w].run = row[w].run
      BY <1>r, Fields
    <2>a. /\ sync[r][c].pc = "read" /\ sync[r][c].status = run[r].status
          /\ \A v \in Videos : v \in sync[r][c].of <=> row[v].run = r
          /\ sync[r][c].approved <=> run[r].approved /\ run[r].status = "succeeded"
      BY <1>1, <1>d DEF SyncWriteEffect, Synced, Settled
    <2>1. CASE row[w].run = r
      <3> DEFINE s == sync[r][c].status
                 p == sync[r][c].approved
                 q == run[r].approved
      <3>1. row[w] \in RowDomain /\ s \in RunStatuses /\ p \in BOOLEAN /\ q \in BOOLEAN
        BY Fields
      <3>2. row'[w] = Patch(row[w], s, p)
        BY <1>d, <2>1, <2>a DEF SyncWriteEffect
      <3>3. Patch(row'[w], s, p) = row'[w]
        BY <3>1, <3>2, Patched
      <3>4. Patch(row'[w], s, q) = Patch(row'[w], s, p)
        BY <2>a, <3>1, PatchAlike
      <3> QED  BY <1>f, <2>0, <2>1, <2>a, <3>3, <3>4 DEF Agrees
    <2>2. CASE row[w].run # r
      <3>1. row'[w] = row[w]
        BY <1>d, <2>2, <2>a DEF SyncWriteEffect
      <3>2. \A d \in Callers : sync'[row[w].run][d] = sync[row[w].run][d]
        BY <1>d, <2>0, <2>2 DEF SyncWriteEffect
      <3> QED  BY <1>f, <3>1, <3>2 DEF Awaits, Dealt, Launches
    <2> QED  BY <2>1, <2>2
  <1>8. Counted'
    <2>1. FromFeed' \subseteq FromFeed
      BY <1>0, <1>d DEF SyncWriteEffect, FromFeed
    <2>2. Taken \subseteq Taken'
      BY <1>f, <1>r DEF Taken
    <2> QED  BY <1>1, <2>1, <2>2, CountedKept
  <1> QED  BY <1>2, <1>3, <1>4, <1>5, <1>6, <1>7, <1>8 DEF Launched

-----------------------------------------------------------------------------
(* The invariant, and what follows from it.                                *)

LEMMA IInvInit == Init => IInv
  <1> SUFFICES ASSUME Init  PROVE IInv
    OBVIOUS
  <1>1. Domains
    BY DomainsInit
  <1>2. /\ \A v \in Videos : row[v] = NoRow
        /\ \A r \in Runs : run[r] = NoneRun /\ exec[r] = "none"
        /\ \A r \in Runs, c \in Callers : sync[r][c] = SyncIdle
        /\ \A a \in Actors : op[a] = OpIdle
    BY DEF Init
  <1>3. Known
    BY <1>2, ConstantDomains, Names
       DEF Known, Holds, Launches, Unknown, Dealt, Blank, Proven, ApprovedIsReal
  <1>4. Launched
    BY <1>2, ConstantDomains, Names DEF Launched, Alone, ByHand, ByFeed, Started, Launches
  <1>5. Synced
    BY <1>2, ConstantDomains DEF Synced, Settled, Dealt
  <1>6. Telling
    BY <1>2, ConstantDomains DEF Telling
  <1>7. FromFeed = {} /\ Taken = {}
    BY <1>2, ConstantDomains DEF FromFeed, Taken
  <1>8. Counted
    BY <1>7, FS_EmptySet DEF Counted
  <1> QED  BY <1>1, <1>3, <1>4, <1>5, <1>6, <1>8 DEF IInv, Orderly

\* Whatever is left alone stays as it was.
LEMMA LeftAlone ==
    ASSUME IInv, UNCHANGED <<row, run, exec, sync, op, clean>>, changes' \in 0 .. MaxChanges
    PROVE  IInv'
  <1>1. Domains'
    BY DEF IInv, Domains
  <1>2. Known'
    BY DEF IInv, Known, Holds, Launches, Unknown, Dealt, Blank, Proven, Given, ApprovedIsReal
  <1>3. Launched <=> Launched'
    BY DEF Launched, Alone, ByHand, ByFeed, Started, Launches, Dealt
  <1>4. Synced <=> Synced'
    BY DEF Synced, Settled, Dealt
  <1>5. Telling <=> Telling'
    BY DEF Telling, Agrees, Awaits, Launches, Dealt
  <1>6. Counted <=> Counted'
    BY DEF Counted, FromFeed, Taken
  <1>7. Orderly'
    BY <1>3, <1>4, <1>5, <1>6 DEF IInv, Orderly
  <1> QED  BY <1>1, <1>2, <1>7 DEF IInv

LEMMA LaunchSteps ==
    ASSUME IInv, NEW a \in Actors, LaunchStep(a)
    PROVE  IInv'
  <1>0. Domains /\ Known /\ Orderly /\ Holds(a)
    BY DEF IInv, Known
  <1>1. CASE StartRun(a)
    BY <1>0, <1>1, StartRunDoes, StartRunKnows, StartRunOrders DEF IInv, Orderly
  <1>2. ASSUME NEW again \in BOOLEAN, LinkRun(a, again)  PROVE IInv'
    BY <1>0, <1>2, LinkRunDoes, LinkRunKnows, LinkRunOrders DEF IInv, Orderly
  <1>3. ASSUME NEW again \in BOOLEAN, LaunchFails(a, again)  PROVE IInv'
    BY <1>0, <1>3, LaunchFailsDoes, LaunchFailsKnows, LaunchFailsOrders DEF IInv, Orderly
  <1>4. \A again \in Repeats(a) : again \in BOOLEAN
    BY DEF Repeats
  <1> QED  BY <1>1, <1>2, <1>3, <1>4 DEF LaunchStep

LEMMA IInvNext == IInv /\ [Next]_vars => IInv'
  <1> SUFFICES ASSUME IInv, [Next]_vars  PROVE IInv'
    OBVIOUS
  <1>0. Domains /\ Known /\ Orderly /\ Blank /\ \A a \in Actors : Holds(a)
    BY DEF IInv, Known
  <1>1. ASSUME NEW a \in Feeds, Notification(a)  PROVE IInv'
    <2>1. ASSUME NEW v \in Videos, FeedRead(a, v)  PROVE IInv'
      BY <1>0, <2>1, FeedReadDoes, FeedReadKnows, FeedReadOrders DEF IInv, Orderly
    <2>2. CASE FeedUpsert(a)
      BY <1>0, <2>2, Names, FeedUpsertDoes, FeedUpsertKnows, FeedUpsertOrders DEF IInv, Orderly
    <2> QED  BY <1>1, <2>1, <2>2, LaunchSteps, Names DEF Notification
  <1>2. ASSUME NEW a \in Manuals, RunByHand(a)  PROVE IInv'
    <2>1. ASSUME NEW v \in Videos, ManualUpsert(a, v)  PROVE IInv'
      BY <1>0, <2>1, ManualUpsertDoes, ManualUpsertKnows, ManualUpsertOrders DEF IInv, Orderly
    <2> QED  BY <1>2, <2>1, LaunchSteps, Names DEF RunByHand
  <1>3. ASSUME NEW r \in Runs, RunStep(r)  PROVE IInv'
    <2>1. ASSUME NEW status \in {"waiting", "succeeded", "failed"}, ExecEnds(r, status)  PROVE IInv'
      BY <1>0, <2>1, ExecEndsDoes, ExecEndsKnows, ExecEndsOrders DEF IInv, Orderly
    <2>2. CASE Tick(r)
      BY <1>0, <2>2, TickDoes, TickKnows DEF IInv, Orderly, TickEffect
    <2>3. CASE Cancel(r)
      BY <1>0, <2>3, CancelDoes, CancelKnows, CancelOrders DEF IInv, Orderly
    <2>4. ASSUME NEW approves \in BOOLEAN, Decide(r, approves)  PROVE IInv'
      BY <1>0, <2>4, DecideDoes, DecideKnows, DecideOrders DEF IInv, Orderly
    <2> QED  BY <1>3, <2>1, <2>2, <2>3, <2>4 DEF RunStep
  <1>4. ASSUME NEW r \in Runs, NEW c \in Callers, SyncRead(r, c) \/ SyncWrite(r, c)  PROVE IInv'
    <2>1. CASE SyncRead(r, c)
      BY <1>0, <2>1, SyncReadDoes, SyncReadKnows, SyncReadOrders DEF IInv, Orderly
    <2>2. CASE SyncWrite(r, c)
      BY <1>0, <2>2, SyncWriteDoes, SyncWriteKnows, SyncWriteOrders DEF IInv, Orderly
    <2> QED  BY <1>4, <2>1, <2>2
  <1>5. CASE LinkFlow
    <2>1. changes' \in 0 .. MaxChanges
      BY <1>0, <1>5, RunsAssumption DEF LinkFlow, Domains
    <2> QED  BY <1>5, <2>1, LeftAlone DEF LinkFlow
  <1>6. CASE Crash
    BY <1>0, <1>6, CrashDoes, CrashKnows DEF IInv, Orderly, CrashEffect
  <1>7. CASE UNCHANGED vars
    BY <1>0, <1>7, LeftAlone DEF vars, Domains
  <1> QED  BY <1>1, <1>2, <1>3, <1>4, <1>5, <1>6, <1>7 DEF Next, SyncStep

(* The inductive invariant: what is known of runs and of the requests under *)
(* way, and that a row whose changes have not overlapped tells its run or   *)
(* is about to be told.                                                     *)
THEOREM Invariant == Spec => []IInv
  BY IInvInit, IInvNext, PTL DEF Spec

LEMMA TypesFollow == IInv => TypeOK
  <1> SUFFICES ASSUME Domains  PROVE TypeOK
    BY DEF IInv
  <1>1. \A r \in Runs, c \in Callers : sync[r][c] \in SyncDomain
    BY Fields
  <1> QED  BY <1>1, Fields DEF Domains, TypeOK, RowDomain, RunDomain, SyncDomain, OpDomain

LEMMA RowsFollow == IInv => IngestionTellsRun
  <1> SUFFICES ASSUME IInv, clean, Quiet, NEW v \in Videos,
                      row[v].run # NoRun, row[v].status # "failed"
               PROVE  Patch(row[v], run[row[v].run].status, run[row[v].run].approved) = row[v]
    BY DEF IngestionTellsRun
  <1>1. Domains /\ Telling /\ row[v].run \in Runs
    BY Fields DEF IInv, Orderly
  <1>2. /\ \A a \in Manuals : ~Launches(a)
        /\ \A r \in Runs : exec[r] = "none" /\ \A c \in Callers : ~Dealt(r, c)
    BY <1>1, Quiescent, Names DEF Quiet
  <1>3. ~Awaits(v)
    BY <1>1, <1>2 DEF Awaits
  <1> QED  BY <1>1, <1>3 DEF Telling, Agrees

LEMMA LaunchesFollow == IInv => FeedLaunchesOnce
  <1> SUFFICES ASSUME IInv, clean
               PROVE  Cardinality(FromFeed) <= Cardinality(Videos)
    BY DEF FeedLaunchesOnce, FromFeed
  <1>1. Cardinality(FromFeed) <= Cardinality(Taken)
    BY DEF IInv, Orderly, Counted
  <1>2. Cardinality(Taken) <= Cardinality(Videos)
    BY Subsets, FS_Subset, VideosAssumption
  <1>3. Cardinality(FromFeed) \in Nat /\ Cardinality(Taken) \in Nat /\ Cardinality(Videos) \in Nat
    BY Subsets, Finite
  <1> QED  BY <1>1, <1>2, <1>3

(* However deliveries, runs by hand, decisions, cancellations and           *)
(* synchronisations cross one another, and whenever the process ends, no    *)
(* article is shown as approved that nobody has approved; and once all that *)
(* was under way has ended, a row whose changes have not overlapped tells   *)
(* what its run has come to (youtube-service.ts 802-876).                   *)
THEOREM Reporting == Spec => []RowTellsRun
  <1>1. IInv => RowTellsRun
    BY TypesFollow, RowsFollow DEF RowTellsRun, IInv, Known
  <1> QED  BY <1>1, Invariant, PTL

(* A subscription launches no more runs than there are videos, however many *)
(* times the hub delivers each, as long as deliveries do not overlap and    *)
(* the process does not end in between (youtube-service.ts 754).            *)
THEOREM FeedLaunching == Spec => []FeedLaunchesOnce
  BY LaunchesFollow, Invariant, PTL

-----------------------------------------------------------------------------
(* ChannelBridge: what its invariant is made of.                           *)

\* One attempt: the promise of connect() is the one the handlers settle, and
\* it is not there once the handshake is complete.
OneAttempt ==
    /\ connectPromise # None => pendingConnect.of = connectPromise
    /\ Waiting # {} => connectPromise # None
    /\ handshakeComplete => pendingConnect.of = None

\* A gateway knows nothing of a socket that has not opened.
NewUntilOpen == \A s \in Sockets : sock[s] \in {"none", "connecting"} => peer[s] = "new"

\* On the connection of a complete handshake the bridge has asked before the
\* gateway accepts it, or has not said hello, and knows what came of it.
AskedOnceGreeted ==
    isConnected /\ peer[ws] \in {"greeted", "accepted"} =>
        grant[ws] = "granted" \/ ws \in asked \cup warned

\* A message that is handled has been marked, and has one handler; nothing is
\* left to launch before the candidates are known.
Handles(h, m) == handler[h].msg = m /\ m # NoMessage
HandledOnce ==
    /\ \A h \in Handlers, m \in Messages : Handles(h, m) => m \in seen
    /\ \A h, i \in Handlers, m \in Messages : Handles(h, m) /\ Handles(i, m) => h = i
    /\ \A h \in Handlers : handler[h].msg = NoMessage => handler[h] = Idle
    /\ \A h \in Handlers : handler[h].listing => handler[h].todo = {}

\* A flow that has yet to be launched for a message has not been launched.
NotYet(m, f) ==
    \/ m \notin seen
    \/ \E h \in Handlers : Handles(h, m) /\ (handler[h].listing \/ f \in handler[h].todo)
LaunchesLeft ==
    \A m \in Messages, f \in Flows :
        launches[m][f] <= 1 /\ (NotYet(m, f) => launches[m][f] = 0)

ClientInv == ClientTypeOK /\ OneAttempt /\ SentArePending /\ NewUntilOpen
HandlerDomain == [msg : Messages \cup {NoMessage}, listing : BOOLEAN, todo : SUBSET Flows]
SubscriptionTyped ==
    /\ started \in BOOLEAN /\ asked \subseteq Sockets /\ warned \subseteq Sockets
    /\ grant \in [Sockets -> {"none", "sent", "granted", "refused"}]
BridgeTyped ==
    /\ SubscriptionTyped /\ seen \subseteq Messages
    /\ handler \in [Handlers -> HandlerDomain]
    /\ launches \in [Messages -> [Flows -> 0 .. 2]]
HandlerInv == BridgeTyped /\ HandledOnce /\ LaunchesLeft

BridgeInv == ClientInv /\ AskedOnceGreeted /\ HandlerInv

-----------------------------------------------------------------------------
(* The client.                                                             *)

LEMMA SocketNames ==
    /\ None \notin Sockets
    /\ \A s \in Sockets : s \notin Requests /\ s \notin {"idle", "connecting", "answered", "failed"}
  BY SocketsAssumption, OutcomesAssumption

\* The domains of the variables, in three parts.
SocketsTyped ==
    /\ closed \in BOOLEAN /\ ws \in Sockets \cup {None}
    /\ sock \in [Sockets -> {"none", "connecting", "open", "closing", "broken"}]
    /\ peer \in [Sockets -> {"new", "challenged", "greeted", "mismatched",
                             "accepted", "refused"}]
AttemptTyped ==
    /\ handshakeComplete \in BOOLEAN /\ connectPromise \in Sockets \cup {None}
    /\ pendingConnect \in [of : Sockets \cup {None}, started : BOOLEAN]
    /\ challengeTimer \in BOOLEAN
CallsTyped ==
    /\ reconnects \in 0 .. MaxTimers /\ pending \subseteq Requests \cup Sockets
    /\ request \in [Requests -> Sockets \cup {"idle", "connecting", "answered", "failed"}]
    /\ aborted \subseteq Requests

LEMMA ClientTypedParts == ClientTypeOK <=> SocketsTyped /\ AttemptTyped /\ CallsTyped
  BY DEF ClientTypeOK, SocketsTyped, AttemptTyped, CallsTyped

LEMMA ClientTypedPartsNext == ClientTypeOK' <=> SocketsTyped' /\ AttemptTyped' /\ CallsTyped'
  BY DEF ClientTypeOK, SocketsTyped, AttemptTyped, CallsTyped

LEMMA NewAttemptTyped ==
    ASSUME ClientTypeOK, NEW s \in Sockets, NewAttempt(s), UNCHANGED <<closed, challengeTimer>>
    PROVE  SocketsTyped' /\ AttemptTyped'
  BY DEF ClientTypeOK, SocketsTyped, AttemptTyped, NewAttempt

LEMMA NoAttemptTyped ==
    ASSUME ClientTypeOK, NoNewAttempt, UNCHANGED <<closed, challengeTimer>>
    PROVE  SocketsTyped' /\ AttemptTyped'
  BY DEF ClientTypeOK, SocketsTyped, AttemptTyped, NoNewAttempt

LEMMA NoAttemptTypedToo == NoAttempt \in [of : Sockets \cup {None}, started : BOOLEAN]
  BY DEF NoAttempt

LEMMA ConnectKeeps ==
    ASSUME ClientInv, Connect
    PROVE  ClientInv'
  <1> USE SocketNames
  <1>1. ClientTypeOK'
    <2> ClientTypeOK  BY DEF ClientInv
    <2>1. UNCHANGED <<closed, challengeTimer>> /\ (NoNewAttempt \/ \E s \in Sockets : NewAttempt(s))
      BY DEF Connect
    <2>2. SocketsTyped' /\ AttemptTyped'
      BY <2>1, NewAttemptTyped, NoAttemptTyped
    <2>3. CallsTyped'
      BY TimersAssumption DEF ClientTypeOK, CallsTyped, Connect, Settle
    <2> QED  BY <2>2, <2>3, ClientTypedPartsNext
  <1>2. OneAttempt'
    BY DEF ClientInv, ClientTypeOK, OneAttempt, NewAttempt, NoNewAttempt, Connect, Settle, Waiting, Live, NoAttempt
  <1>3. SentArePending'
    BY DEF ClientInv, ClientTypeOK, SentArePending, NewAttempt, NoNewAttempt, Connect, Settle, Waiting, Live, NoAttempt
  <1>4. NewUntilOpen'
    BY DEF ClientInv, ClientTypeOK, NewUntilOpen, NewAttempt, NoNewAttempt, Connect, Live
  <1> QED  BY <1>1, <1>2, <1>3, <1>4 DEF ClientInv

LEMMA ReconnectKeeps ==
    ASSUME ClientInv, Reconnect
    PROVE  ClientInv'
  <1> USE SocketNames
  <1>1. ClientTypeOK'
    <2> ClientTypeOK  BY DEF ClientInv
    <2>1. UNCHANGED <<closed, challengeTimer>> /\ (NoNewAttempt \/ \E s \in Sockets : NewAttempt(s))
      BY DEF Reconnect
    <2>2. SocketsTyped' /\ AttemptTyped'
      BY <2>1, NewAttemptTyped, NoAttemptTyped
    <2>3. CallsTyped'
      BY TimersAssumption DEF ClientTypeOK, CallsTyped, Reconnect, Settle
    <2> QED  BY <2>2, <2>3, ClientTypedPartsNext
  <1>2. OneAttempt'
    BY DEF ClientInv, ClientTypeOK, OneAttempt, NewAttempt, NoNewAttempt, Reconnect, Settle, Waiting, Live, NoAttempt
  <1>3. SentArePending'
    BY DEF ClientInv, ClientTypeOK, SentArePending, NewAttempt, NoNewAttempt, Reconnect, Settle, Waiting, Live, NoAttempt
  <1>4. NewUntilOpen'
    BY DEF ClientInv, ClientTypeOK, NewUntilOpen, NewAttempt, NoNewAttempt, Reconnect, Live
  <1> QED  BY <1>1, <1>2, <1>3, <1>4 DEF ClientInv

LEMMA ChallengeTimeoutKeeps ==
    ASSUME ClientInv, ChallengeTimeout
    PROVE  ClientInv'
  <1> USE SocketNames
  <1>1. ClientTypeOK'
    BY TimersAssumption DEF ClientInv, ClientTypeOK, ChallengeTimeout, RejectConnect, CloseWs, Settle, Waiting, Live, NoAttempt
  <1>2. OneAttempt'
    BY DEF ClientInv, ClientTypeOK, OneAttempt, ChallengeTimeout, RejectConnect, CloseWs, Settle, Waiting, Live, NoAttempt
  <1>3. SentArePending'
    BY DEF ClientInv, ClientTypeOK, SentArePending, ChallengeTimeout, RejectConnect, CloseWs, Settle, Waiting, Live, NoAttempt
  <1>4. NewUntilOpen'
    BY DEF ClientInv, ClientTypeOK, NewUntilOpen, ChallengeTimeout, RejectConnect, CloseWs, Live
  <1> QED  BY <1>1, <1>2, <1>3, <1>4 DEF ClientInv

LEMMA CloseKeeps ==
    ASSUME ClientInv, Close
    PROVE  ClientInv'
  <1> USE SocketNames
  <1>1. ClientTypeOK'
    <2> ClientTypeOK  BY DEF ClientInv
    <2>1. SocketsTyped'
      BY DEF ClientTypeOK, SocketsTyped, Close, CloseWs
    <2>2. AttemptTyped'
      <3>1. pendingConnect' = NoAttempt \/ pendingConnect' = pendingConnect
        BY DEF Close, CloseWs
      <3>2. pendingConnect' \in [of : Sockets \cup {None}, started : BOOLEAN]
        BY <3>1, NoAttemptTypedToo DEF ClientTypeOK
      <3>3. /\ handshakeComplete' \in BOOLEAN /\ connectPromise' \in Sockets \cup {None}
            /\ challengeTimer' \in BOOLEAN
        BY DEF ClientTypeOK, Close, CloseWs
      <3> QED  BY <3>2, <3>3 DEF AttemptTyped
    <2>3. CallsTyped'
      BY TimersAssumption DEF ClientTypeOK, CallsTyped, Close, CloseWs, Settle, Waiting
    <2> QED  BY <2>1, <2>2, <2>3, ClientTypedPartsNext
  <1>2. OneAttempt'
    BY DEF ClientInv, ClientTypeOK, OneAttempt, Close, CloseWs, Settle, Waiting, Live, NoAttempt
  <1>3. SentArePending'
    BY DEF ClientInv, ClientTypeOK, SentArePending, Close, CloseWs, Settle, Waiting, Live, NoAttempt
  <1>4. NewUntilOpen'
    BY DEF ClientInv, ClientTypeOK, NewUntilOpen, Close, CloseWs, Live
  <1> QED  BY <1>1, <1>2, <1>3, <1>4 DEF ClientInv

LEMMA RequestKeeps ==
    ASSUME ClientInv, NEW r \in Requests, Request(r)
    PROVE  ClientInv'
  <1> USE SocketNames
  <1>1. ClientTypeOK'
    <2> ClientTypeOK  BY DEF ClientInv
    <2>1. UNCHANGED <<closed, challengeTimer>> /\ (NoNewAttempt \/ \E s \in Sockets : NewAttempt(s))
      BY DEF Request
    <2>2. SocketsTyped' /\ AttemptTyped'
      BY <2>1, NewAttemptTyped, NoAttemptTyped
    <2>3. CallsTyped'
      BY TimersAssumption DEF ClientTypeOK, CallsTyped, Request, Settle, isConnected
    <2> QED  BY <2>2, <2>3, ClientTypedPartsNext
  <1>2. OneAttempt'
    BY DEF ClientInv, ClientTypeOK, OneAttempt, Request, NewAttempt, NoNewAttempt, isConnected, Settle, Waiting, Live, NoAttempt
  <1>3. SentArePending'
    BY DEF ClientInv, ClientTypeOK, SentArePending, Request, NewAttempt, NoNewAttempt, isConnected, Settle, Waiting, Live, NoAttempt
  <1>4. NewUntilOpen'
    BY DEF ClientInv, ClientTypeOK, NewUntilOpen, Request, NewAttempt, NoNewAttempt, isConnected, Live
  <1> QED  BY <1>1, <1>2, <1>3, <1>4 DEF ClientInv

LEMMA ResponseKeeps ==
    ASSUME ClientInv, NEW r \in Requests, Response(r)
    PROVE  ClientInv'
  <1> USE SocketNames
  <1>1. ClientTypeOK'
    BY TimersAssumption DEF ClientInv, ClientTypeOK, Response, Settle, Waiting, Live, NoAttempt
  <1>2. OneAttempt'
    BY DEF ClientInv, ClientTypeOK, OneAttempt, Response, Settle, Waiting, Live, NoAttempt
  <1>3. SentArePending'
    BY DEF ClientInv, ClientTypeOK, SentArePending, Response, Settle, Waiting, Live, NoAttempt
  <1>4. NewUntilOpen'
    BY DEF ClientInv, ClientTypeOK, NewUntilOpen, Response, Live
  <1> QED  BY <1>1, <1>2, <1>3, <1>4 DEF ClientInv

LEMMA RequestFailsKeeps ==
    ASSUME ClientInv, NEW r \in Requests, RequestFails(r)
    PROVE  ClientInv'
  <1> USE SocketNames
  <1>1. ClientTypeOK'
    BY TimersAssumption DEF ClientInv, ClientTypeOK, RequestFails, Settle, Waiting, Live, NoAttempt
  <1>2. OneAttempt'
    BY DEF ClientInv, ClientTypeOK, OneAttempt, RequestFails, Settle, Waiting, Live, NoAttempt
  <1>3. SentArePending'
    BY DEF ClientInv, ClientTypeOK, SentArePending, RequestFails, Settle, Waiting, Live, NoAttempt
  <1>4. NewUntilOpen'
    BY DEF ClientInv, ClientTypeOK, NewUntilOpen, RequestFails, Live
  <1> QED  BY <1>1, <1>2, <1>3, <1>4 DEF ClientInv

LEMMA AbortKeeps ==
    ASSUME ClientInv, NEW r \in Requests, Abort(r)
    PROVE  ClientInv'
  <1> USE SocketNames
  <1>1. ClientTypeOK'
    BY TimersAssumption DEF ClientInv, ClientTypeOK, Abort, Settle, Waiting, Live, NoAttempt
  <1>2. OneAttempt'
    BY DEF ClientInv, ClientTypeOK, OneAttempt, Abort, Settle, Waiting, Live, NoAttempt
  <1>3. SentArePending'
    BY DEF ClientInv, ClientTypeOK, SentArePending, Abort, Settle, Waiting, Live, NoAttempt
  <1>4. NewUntilOpen'
    BY DEF ClientInv, ClientTypeOK, NewUntilOpen, Abort, Live
  <1> QED  BY <1>1, <1>2, <1>3, <1>4 DEF ClientInv

LEMMA SocketOpensKeeps ==
    ASSUME ClientInv, NEW s \in Sockets, SocketOpens(s)
    PROVE  ClientInv'
  <1> USE SocketNames
  <1>1. ClientTypeOK'
    BY TimersAssumption DEF ClientInv, ClientTypeOK, SocketOpens, Settle, Waiting, Live, NoAttempt
  <1>2. OneAttempt'
    BY DEF ClientInv, ClientTypeOK, OneAttempt, SocketOpens, Settle, Waiting, Live, NoAttempt
  <1>3. SentArePending'
    BY DEF ClientInv, ClientTypeOK, SentArePending, SocketOpens, Settle, Waiting, Live, NoAttempt
  <1>4. NewUntilOpen'
    BY DEF ClientInv, ClientTypeOK, NewUntilOpen, SocketOpens, Live
  <1> QED  BY <1>1, <1>2, <1>3, <1>4 DEF ClientInv

LEMMA SocketErrorKeeps ==
    ASSUME ClientInv, NEW s \in Sockets, SocketError(s)
    PROVE  ClientInv'
  <1> USE SocketNames
  <1>1. ClientTypeOK'
    BY TimersAssumption DEF ClientInv, ClientTypeOK, SocketError, RejectConnect, Settle, Waiting, Live, NoAttempt
  <1>2. OneAttempt'
    BY DEF ClientInv, ClientTypeOK, OneAttempt, SocketError, RejectConnect, Settle, Waiting, Live, NoAttempt
  <1>3. SentArePending'
    BY DEF ClientInv, ClientTypeOK, SentArePending, SocketError, RejectConnect, Settle, Waiting, Live, NoAttempt
  <1>4. NewUntilOpen'
    BY DEF ClientInv, ClientTypeOK, NewUntilOpen, SocketError, RejectConnect, Live
  <1> QED  BY <1>1, <1>2, <1>3, <1>4 DEF ClientInv

LEMMA SocketClosesKeeps ==
    ASSUME ClientInv, NEW s \in Sockets, SocketCloses(s)
    PROVE  ClientInv'
  <1> USE SocketNames
  <1>1. ClientTypeOK'
    <2> ClientTypeOK  BY DEF ClientInv
    <2>1. SocketsTyped'
      BY DEF ClientTypeOK, SocketsTyped, SocketCloses, Scheduled
    <2>2. AttemptTyped'
      BY DEF ClientTypeOK, AttemptTyped, SocketCloses, Scheduled, NoAttempt
    <2>3. CallsTyped'
      BY TimersAssumption DEF ClientTypeOK, CallsTyped, SocketCloses, Scheduled, Settle, Waiting
    <2> QED  BY <2>1, <2>2, <2>3, ClientTypedPartsNext
  <1>2. OneAttempt'
    BY DEF ClientInv, ClientTypeOK, OneAttempt, SocketCloses, Scheduled, Settle, Waiting, Live, NoAttempt
  <1>3. SentArePending'
    BY DEF ClientInv, ClientTypeOK, SentArePending, SocketCloses, Scheduled, Settle, Waiting, Live, NoAttempt
  <1>4. NewUntilOpen'
    BY DEF ClientInv, ClientTypeOK, NewUntilOpen, SocketCloses, Scheduled, Live
  <1> QED  BY <1>1, <1>2, <1>3, <1>4 DEF ClientInv

LEMMA ChallengeKeeps ==
    ASSUME ClientInv, NEW s \in Sockets, Challenge(s)
    PROVE  ClientInv'
  <1> USE SocketNames
  <1>1. ClientTypeOK'
    <2> ClientTypeOK  BY DEF ClientInv
    <2>1. SocketsTyped'
      BY DEF ClientTypeOK, SocketsTyped, Challenge, RejectConnect
    <2>2. AttemptTyped'
      <3>1. pendingConnect' = NoAttempt \/ pendingConnect' = pendingConnect \/ pendingConnect' = [pendingConnect EXCEPT !.started = TRUE]
        BY DEF Challenge, RejectConnect
      <3>2. pendingConnect' \in [of : Sockets \cup {None}, started : BOOLEAN]
        BY <3>1, NoAttemptTypedToo DEF ClientTypeOK
      <3>3. /\ handshakeComplete' \in BOOLEAN /\ connectPromise' \in Sockets \cup {None}
            /\ challengeTimer' \in BOOLEAN
        BY DEF ClientTypeOK, Challenge, RejectConnect
      <3> QED  BY <3>2, <3>3 DEF AttemptTyped
    <2>3. CallsTyped'
      BY TimersAssumption DEF ClientTypeOK, CallsTyped, Challenge, RejectConnect, Settle, Waiting
    <2> QED  BY <2>1, <2>2, <2>3, ClientTypedPartsNext
  <1>2. OneAttempt'
    BY DEF ClientInv, ClientTypeOK, OneAttempt, Challenge, RejectConnect, Settle, Waiting, Live, NoAttempt
  <1>3. SentArePending'
    BY DEF ClientInv, ClientTypeOK, SentArePending, Challenge, RejectConnect, Settle, Waiting, Live, NoAttempt
  <1>4. NewUntilOpen'
    BY DEF ClientInv, ClientTypeOK, NewUntilOpen, Challenge, RejectConnect, Live
  <1> QED  BY <1>1, <1>2, <1>3, <1>4 DEF ClientInv

LEMMA ChallengeWithoutNonceKeeps ==
    ASSUME ClientInv, NEW s \in Sockets, ChallengeWithoutNonce(s)
    PROVE  ClientInv'
  <1> USE SocketNames
  <1>1. ClientTypeOK'
    BY TimersAssumption DEF ClientInv, ClientTypeOK, ChallengeWithoutNonce, RejectConnect, CloseWs, Settle, Waiting, Live, NoAttempt
  <1>2. OneAttempt'
    BY DEF ClientInv, ClientTypeOK, OneAttempt, ChallengeWithoutNonce, RejectConnect, CloseWs, Settle, Waiting, Live, NoAttempt
  <1>3. SentArePending'
    BY DEF ClientInv, ClientTypeOK, SentArePending, ChallengeWithoutNonce, RejectConnect, CloseWs, Settle, Waiting, Live, NoAttempt
  <1>4. NewUntilOpen'
    BY DEF ClientInv, ClientTypeOK, NewUntilOpen, ChallengeWithoutNonce, RejectConnect, CloseWs, Live
  <1> QED  BY <1>1, <1>2, <1>3, <1>4 DEF ClientInv

LEMMA HelloRefusedKeeps ==
    ASSUME ClientInv, NEW s \in Sockets, HelloRefused(s)
    PROVE  ClientInv'
  <1> USE SocketNames
  <1>1. ClientTypeOK'
    <2> ClientTypeOK  BY DEF ClientInv
    <2>1. SocketsTyped'
      BY DEF ClientTypeOK, SocketsTyped, HelloRefused, HandshakeRejected, RejectConnect
    <2>2. AttemptTyped'
      <3>1. pendingConnect' = NoAttempt \/ pendingConnect' = pendingConnect
        BY DEF HelloRefused, HandshakeRejected, RejectConnect
      <3>2. pendingConnect' \in [of : Sockets \cup {None}, started : BOOLEAN]
        BY <3>1, NoAttemptTypedToo DEF ClientTypeOK
      <3>3. /\ handshakeComplete' \in BOOLEAN /\ connectPromise' \in Sockets \cup {None}
            /\ challengeTimer' \in BOOLEAN
        BY DEF ClientTypeOK, HelloRefused, HandshakeRejected, RejectConnect
      <3> QED  BY <3>2, <3>3 DEF AttemptTyped
    <2>3. CallsTyped'
      BY TimersAssumption DEF ClientTypeOK, CallsTyped, HelloRefused, HandshakeRejected, RejectConnect, Settle, Waiting
    <2> QED  BY <2>1, <2>2, <2>3, ClientTypedPartsNext
  <1>2. OneAttempt'
    BY DEF ClientInv, ClientTypeOK, OneAttempt, HelloRefused, HandshakeRejected, RejectConnect, Settle, Waiting, Live, NoAttempt
  <1>3. SentArePending'
    BY DEF ClientInv, ClientTypeOK, SentArePending, HelloRefused, HandshakeRejected, RejectConnect, Settle, Waiting, Live, NoAttempt
  <1>4. NewUntilOpen'
    BY DEF ClientInv, ClientTypeOK, NewUntilOpen, HelloRefused, HandshakeRejected, RejectConnect, Live
  <1> QED  BY <1>1, <1>2, <1>3, <1>4 DEF ClientInv

LEMMA HandshakeTimeoutKeeps ==
    ASSUME ClientInv, NEW s \in Sockets, HandshakeTimeout(s)
    PROVE  ClientInv'
  <1> USE SocketNames
  <1>1. ClientTypeOK'
    BY TimersAssumption DEF ClientInv, ClientTypeOK, HandshakeTimeout, HandshakeRejected, RejectConnect, Settle, Waiting, Live, NoAttempt
  <1>2. OneAttempt'
    BY DEF ClientInv, ClientTypeOK, OneAttempt, HandshakeTimeout, HandshakeRejected, RejectConnect, Settle, Waiting, Live, NoAttempt
  <1>3. SentArePending'
    BY DEF ClientInv, ClientTypeOK, SentArePending, HandshakeTimeout, HandshakeRejected, RejectConnect, Settle, Waiting, Live, NoAttempt
  <1>4. NewUntilOpen'
    BY DEF ClientInv, ClientTypeOK, NewUntilOpen, HandshakeTimeout, HandshakeRejected, RejectConnect, Live
  <1> QED  BY <1>1, <1>2, <1>3, <1>4 DEF ClientInv

LEMMA HelloOkKeeps ==
    ASSUME ClientInv, NEW s \in Sockets, HelloOk(s)
    PROVE  ClientInv'
  <1> USE SocketNames
  <1>1. ClientTypeOK'
    <2> ClientTypeOK  BY DEF ClientInv
    <2>1. SocketsTyped'
      BY DEF ClientTypeOK, SocketsTyped, HelloOk
    <2>2. AttemptTyped'
      <3>1. pendingConnect' = NoAttempt \/ pendingConnect' = pendingConnect
        BY DEF HelloOk
      <3>2. pendingConnect' \in [of : Sockets \cup {None}, started : BOOLEAN]
        BY <3>1, NoAttemptTypedToo DEF ClientTypeOK
      <3>3. /\ handshakeComplete' \in BOOLEAN /\ connectPromise' \in Sockets \cup {None}
            /\ challengeTimer' \in BOOLEAN
        BY DEF ClientTypeOK, HelloOk
      <3> QED  BY <3>2, <3>3 DEF AttemptTyped
    <2>3. CallsTyped'
      BY TimersAssumption DEF ClientTypeOK, CallsTyped, HelloOk, Settle, Waiting
    <2> QED  BY <2>1, <2>2, <2>3, ClientTypedPartsNext
  <1>2. OneAttempt'
    BY DEF ClientInv, ClientTypeOK, OneAttempt, HelloOk, Settle, Waiting, Live, NoAttempt
  <1>3. SentArePending'
    BY DEF ClientInv, ClientTypeOK, SentArePending, HelloOk, Settle, Waiting, Live, NoAttempt
  <1>4. NewUntilOpen'
    BY DEF ClientInv, ClientTypeOK, NewUntilOpen, HelloOk, Live
  <1> QED  BY <1>1, <1>2, <1>3, <1>4 DEF ClientInv

\* Restart and the initial state: nothing is known to anybody.
Fresh ==
    /\ closed = FALSE /\ ws = None /\ sock = [s \in Sockets |-> "none"]
    /\ handshakeComplete = FALSE /\ connectPromise = None
    /\ pendingConnect = NoAttempt /\ challengeTimer = FALSE /\ reconnects = 0
    /\ pending = {} /\ aborted = {}
    /\ request = [r \in Requests |-> "idle"]
    /\ peer = [s \in Sockets |-> "new"]

LEMMA FreshHolds == Fresh => ClientInv
  <1> SUFFICES ASSUME Fresh PROVE ClientInv
    OBVIOUS
  <1>1. ClientTypeOK
    <2>1. SocketsTyped
      BY DEF Fresh, SocketsTyped
    <2>2. AttemptTyped
      BY NoAttemptTypedToo DEF Fresh, AttemptTyped
    <2>3. CallsTyped
      BY TimersAssumption DEF Fresh, CallsTyped
    <2> QED  BY <2>1, <2>2, <2>3, ClientTypedParts
  <1>2. OneAttempt
    BY DEF Fresh, OneAttempt, Waiting, NoAttempt
  <1>3. SentArePending /\ NewUntilOpen
    BY SocketNames DEF Fresh, SentArePending, NewUntilOpen
  <1> QED  BY <1>1, <1>2, <1>3 DEF ClientInv

LEMMA FreshHoldsNext == Fresh' => ClientInv'
  BY FreshHolds, PTL

LEMMA ClientStays ==
    ASSUME ClientInv, UNCHANGED client
    PROVE  ClientInv'
  BY DEF ClientInv, ClientTypeOK, OneAttempt, SentArePending, NewUntilOpen, Waiting, client

LEMMA QuietKeeps ==
    ASSUME ClientInv, ClientQuiet
    PROVE  ClientInv'
  <1>1. CASE Connect
    BY <1>1, ConnectKeeps
  <1>2. CASE Reconnect
    BY <1>2, ReconnectKeeps
  <1>3. CASE ChallengeTimeout
    BY <1>3, ChallengeTimeoutKeeps
  <1>4. CASE Close
    BY <1>4, CloseKeeps
  <1>5. ASSUME NEW r \in Requests,
             Request(r) \/ Response(r) \/ RequestFails(r) \/ Abort(r)
       PROVE  ClientInv'
    BY <1>5, RequestKeeps, ResponseKeeps, RequestFailsKeeps, AbortKeeps
  <1>6. ASSUME NEW s \in Sockets,
             SocketOpens(s) \/ SocketError(s) \/ SocketCloses(s) \/ Challenge(s) \/ ChallengeWithoutNonce(s) \/ HelloRefused(s) \/ HandshakeTimeout(s)
       PROVE  ClientInv'
    BY <1>6, SocketOpensKeeps, SocketErrorKeeps, SocketClosesKeeps, ChallengeKeeps, ChallengeWithoutNonceKeeps, HelloRefusedKeeps, HandshakeTimeoutKeeps
  <1> QED  BY <1>1, <1>2, <1>3, <1>4, <1>5, <1>6 DEF ClientQuiet

LEMMA ReopensKeeps ==
    ASSUME ClientInv, connectPromise = None, NEW s \in Sockets, NEW new \in Sockets, Reopens(s, new)
    PROVE  ClientInv'
  <1> USE SocketNames
  <1>1. ClientTypeOK'
    <2> ClientTypeOK  BY DEF ClientInv
    <2>1. SocketsTyped'
      BY DEF ClientTypeOK, SocketsTyped, Reopens
    <2>2. AttemptTyped'
      BY NoAttemptTypedToo DEF ClientTypeOK, AttemptTyped, Reopens
    <2>3. CallsTyped'
      BY TimersAssumption DEF ClientTypeOK, CallsTyped, Reopens
    <2> QED  BY <2>1, <2>2, <2>3, ClientTypedPartsNext
  <1>2. OneAttempt'
    BY DEF ClientInv, ClientTypeOK, OneAttempt, Reopens, Waiting, NoAttempt
  <1>3. SentArePending'
    BY DEF ClientInv, ClientTypeOK, SentArePending, Reopens
  <1>4. NewUntilOpen'
    BY DEF ClientInv, ClientTypeOK, NewUntilOpen, Reopens, Live
  <1> QED  BY <1>1, <1>2, <1>3, <1>4 DEF ClientInv

LEMMA ConnectedKeeps ==
    ASSUME ClientInv, NEW s \in Sockets, Connected(s)
    PROVE  ClientInv'
  <1>1. CASE s \in pending /\ connectPromise = None /\ ~wsOpen
    BY <1>1, ReopensKeeps DEF Connected
  <1>2. CASE ~(s \in pending /\ connectPromise = None /\ ~wsOpen)
    BY <1>2, HelloOkKeeps DEF Connected
  <1> QED  BY <1>1, <1>2

LEMMA ClientStepKeeps ==
    ASSUME ClientInv, Start \/ ClientStep
    PROVE  ClientInv'
  BY ConnectKeeps, QuietKeeps, ConnectedKeeps DEF Start, ClientStep

-----------------------------------------------------------------------------
(* The subscription.                                                       *)

LEMMA SubscriptionStays ==
    ASSUME AskedOnceGreeted, UNCHANGED <<client, subscription>>
    PROVE  AskedOnceGreeted'
  BY DEF AskedOnceGreeted, isConnected, client, subscription

\* What becomes of a request: it is granted, or the bridge is told.
LEMMA OutcomeKnown ==
    ASSUME ClientInv, AskedOnceGreeted, SubscriptionTyped, NEW s \in Sockets,
           GatewayDecides(s) \/ Answered(s) \/ SubscribeFails(s)
    PROVE  AskedOnceGreeted'
  <1>1. UNCHANGED <<closed, ws, sock, handshakeComplete, peer>>
    BY DEF GatewayDecides, Answered, SubscribeFails, client
  <1>2. CASE GatewayDecides(s)
    <2>1. UNCHANGED <<asked, warned>> /\ grant[s] = "sent"
      BY <1>2 DEF GatewayDecides
    <2>2. \A x \in Sockets : grant[x] = "granted" => grant'[x] = "granted"
      BY <1>2 DEF SubscriptionTyped, GatewayDecides
    <2> QED  BY <1>1, <2>1, <2>2 DEF AskedOnceGreeted, isConnected, ClientInv, ClientTypeOK
  <1>3. CASE Answered(s)
    BY <1>1, <1>3 DEF AskedOnceGreeted, isConnected, SubscriptionTyped, Answered
  <1>4. CASE SubscribeFails(s)
    BY <1>1, <1>4 DEF AskedOnceGreeted, isConnected, SubscriptionTyped, SubscribeFails
  <1> QED  BY <1>2, <1>3, <1>4

LEMMA OutcomeTyped ==
    ASSUME SubscriptionTyped, NEW s \in Sockets,
           GatewayDecides(s) \/ Answered(s) \/ SubscribeFails(s)
    PROVE  SubscriptionTyped'
  BY DEF SubscriptionTyped, GatewayDecides, Answered, SubscribeFails

\* A quiet step opens a connection to a gateway that knows nothing of it yet;
\* it greets none whose handshake is complete, and completes none.
GreetedBefore ==
    isConnected' /\ peer'[ws'] \in {"greeted", "accepted"} =>
        isConnected /\ peer[ws] \in {"greeted", "accepted"} /\ ws' = ws

LEMMA AttemptGreets ==
    ASSUME NoNewAttempt \/ \E s \in Sockets : NewAttempt(s)
    PROVE  GreetedBefore
  <1>1. CASE NoNewAttempt
    BY <1>1 DEF NoNewAttempt, GreetedBefore, isConnected
  <1>2. ASSUME NEW s \in Sockets, NewAttempt(s)
        PROVE  GreetedBefore
    BY <1>2 DEF NewAttempt, GreetedBefore, isConnected
  <1> QED  BY <1>1, <1>2

LEMMA ConnectGreets ==
    ASSUME ClientInv, Connect
    PROVE  GreetedBefore
  BY AttemptGreets DEF Connect

LEMMA ReconnectGreets ==
    ASSUME ClientInv, Reconnect
    PROVE  GreetedBefore
  BY AttemptGreets DEF Reconnect

LEMMA ChallengeTimeoutGreets ==
    ASSUME ClientInv, ChallengeTimeout
    PROVE  GreetedBefore
  BY SocketNames DEF ClientInv, ClientTypeOK, OneAttempt, NewUntilOpen, GreetedBefore, isConnected, ChallengeTimeout, RejectConnect, CloseWs

LEMMA CloseGreets ==
    ASSUME ClientInv, Close
    PROVE  GreetedBefore
  BY SocketNames DEF ClientInv, ClientTypeOK, OneAttempt, NewUntilOpen, GreetedBefore, isConnected, Close, CloseWs

LEMMA RequestGreets ==
    ASSUME ClientInv, NEW r \in Requests, Request(r)
    PROVE  GreetedBefore
  BY AttemptGreets DEF Request

LEMMA ResponseGreets ==
    ASSUME ClientInv, NEW r \in Requests, Response(r)
    PROVE  GreetedBefore
  BY SocketNames DEF ClientInv, ClientTypeOK, OneAttempt, NewUntilOpen, GreetedBefore, isConnected, Response

LEMMA RequestFailsGreets ==
    ASSUME ClientInv, NEW r \in Requests, RequestFails(r)
    PROVE  GreetedBefore
  BY SocketNames DEF ClientInv, ClientTypeOK, OneAttempt, NewUntilOpen, GreetedBefore, isConnected, RequestFails

LEMMA AbortGreets ==
    ASSUME ClientInv, NEW r \in Requests, Abort(r)
    PROVE  GreetedBefore
  BY SocketNames DEF ClientInv, ClientTypeOK, OneAttempt, NewUntilOpen, GreetedBefore, isConnected, Abort

LEMMA SocketOpensGreets ==
    ASSUME ClientInv, NEW s \in Sockets, SocketOpens(s)
    PROVE  GreetedBefore
  BY SocketNames DEF ClientInv, ClientTypeOK, OneAttempt, NewUntilOpen, GreetedBefore, isConnected, SocketOpens

LEMMA SocketErrorGreets ==
    ASSUME ClientInv, NEW s \in Sockets, SocketError(s)
    PROVE  GreetedBefore
  BY SocketNames DEF ClientInv, ClientTypeOK, OneAttempt, NewUntilOpen, GreetedBefore, isConnected, SocketError

LEMMA SocketClosesGreets ==
    ASSUME ClientInv, NEW s \in Sockets, SocketCloses(s)
    PROVE  GreetedBefore
  BY SocketNames DEF ClientInv, ClientTypeOK, OneAttempt, NewUntilOpen, GreetedBefore, isConnected, SocketCloses

LEMMA ChallengeGreets ==
    ASSUME ClientInv, NEW s \in Sockets, Challenge(s)
    PROVE  GreetedBefore
  BY SocketNames DEF ClientInv, ClientTypeOK, OneAttempt, NewUntilOpen, GreetedBefore, isConnected, Challenge

LEMMA ChallengeWithoutNonceGreets ==
    ASSUME ClientInv, NEW s \in Sockets, ChallengeWithoutNonce(s)
    PROVE  GreetedBefore
  BY SocketNames DEF ClientInv, ClientTypeOK, OneAttempt, NewUntilOpen, GreetedBefore, isConnected, ChallengeWithoutNonce, CloseWs

LEMMA HelloRefusedGreets ==
    ASSUME ClientInv, NEW s \in Sockets, HelloRefused(s)
    PROVE  GreetedBefore
  BY SocketNames DEF ClientInv, ClientTypeOK, OneAttempt, NewUntilOpen, GreetedBefore, isConnected, HelloRefused

LEMMA HandshakeTimeoutGreets ==
    ASSUME ClientInv, NEW s \in Sockets, HandshakeTimeout(s)
    PROVE  GreetedBefore
  BY SocketNames DEF ClientInv, ClientTypeOK, OneAttempt, NewUntilOpen, GreetedBefore, isConnected, HandshakeTimeout

LEMMA QuietGreets ==
    ASSUME ClientInv, ClientQuiet
    PROVE  GreetedBefore
  <1>1. CASE Connect
    BY <1>1, ConnectGreets
  <1>2. CASE Reconnect
    BY <1>2, ReconnectGreets
  <1>3. CASE ChallengeTimeout
    BY <1>3, ChallengeTimeoutGreets
  <1>4. CASE Close
    BY <1>4, CloseGreets
  <1>5. ASSUME NEW r \in Requests,
             Request(r) \/ Response(r) \/ RequestFails(r) \/ Abort(r)
       PROVE  GreetedBefore
    BY <1>5, RequestGreets, ResponseGreets, RequestFailsGreets, AbortGreets
  <1>6. ASSUME NEW s \in Sockets,
             SocketOpens(s) \/ SocketError(s) \/ SocketCloses(s) \/ Challenge(s) \/ ChallengeWithoutNonce(s) \/ HelloRefused(s) \/ HandshakeTimeout(s)
       PROVE  GreetedBefore
    BY <1>6, SocketOpensGreets, SocketErrorGreets, SocketClosesGreets, ChallengeGreets, ChallengeWithoutNonceGreets, HelloRefusedGreets, HandshakeTimeoutGreets
  <1> QED  BY <1>1, <1>2, <1>3, <1>4, <1>5, <1>6 DEF ClientQuiet

LEMMA HelloAsks ==
    ASSUME ClientInv, AskedOnceGreeted, SubscriptionTyped, NEW s \in Sockets, Connected(s)
    PROVE  AskedOnceGreeted'
  <1>1. CASE s \in pending /\ connectPromise = None /\ ~wsOpen
    <2>1. PICK new \in Sockets : Reopens(s, new)
      BY <1>1 DEF Connected
    <2> QED  BY <2>1 DEF Reopens, AskedOnceGreeted, isConnected
  <1>2. CASE s \in pending /\ ~(connectPromise = None /\ ~wsOpen)
    <2>1. HelloOk(s) /\ Subscribe
      BY <1>2 DEF Connected
    <2>2. UNCHANGED <<ws, sock>>
      BY <2>1 DEF HelloOk
    <2>3. CASE wsOpen
      <3>1. ws \in asked'
        BY <2>1, <2>3 DEF Subscribe, Ask
      <3> QED  BY <2>2, <3>1 DEF AskedOnceGreeted
    <2>4. CASE ~wsOpen
      BY <2>2, <2>4 DEF AskedOnceGreeted, isConnected, wsOpen
    <2> QED  BY <2>3, <2>4
  <1>3. CASE s \notin pending
    BY <1>3 DEF Connected, HelloOk, AskedOnceGreeted, isConnected, ClientInv, ClientTypeOK, subscription
  <1> QED  BY <1>1, <1>2, <1>3

LEMMA AskingKept ==
    ASSUME ClientInv, AskedOnceGreeted, SubscriptionTyped, Start \/ ClientStep
    PROVE  AskedOnceGreeted'
  <1>1. CASE Start
    BY <1>1, ConnectGreets DEF Start, AskedOnceGreeted, GreetedBefore, subscription
  <1>2. CASE /\ ClientQuiet
             /\ asked' = (asked \ Dropped) \cap Kept
             /\ warned' = (warned \cup Dropped) \cap Kept
             /\ grant' = [s \in Sockets |-> IF s \in Kept THEN grant[s] ELSE "none"]
    <2> SUFFICES ASSUME isConnected', peer'[ws'] \in {"greeted", "accepted"}
                 PROVE  (grant[ws] = "granted" \/ ws \in asked \cup warned)'
      BY DEF AskedOnceGreeted
    <2>1. isConnected /\ peer[ws] \in {"greeted", "accepted"} /\ ws' = ws
      BY <1>2, QuietGreets DEF GreetedBefore
    <2>2. ws \in Sockets /\ sock'[ws] = "open"
      BY <2>1 DEF isConnected, ClientInv, ClientTypeOK
    <2>3. ws \in Kept /\ Dropped = {}
      BY <2>1, <2>2, SocketNames DEF Kept, Dropped
    <2>4. grant[ws] = "granted" \/ ws \in asked \cup warned
      BY <2>1 DEF AskedOnceGreeted
    <2> QED  BY <1>2, <2>1, <2>2, <2>3, <2>4
  <1>3. CASE \E s \in Sockets : Connected(s)
    BY <1>3, HelloAsks
  <1> QED  BY <1>1, <1>2, <1>3 DEF ClientStep

LEMMA SubscriptionStaysTyped ==
    ASSUME ClientInv, SubscriptionTyped, Start \/ ClientStep
    PROVE  SubscriptionTyped'
  <1>1. CASE Start
    BY <1>1 DEF Start, SubscriptionTyped, subscription
  <1>2. CASE /\ ClientQuiet /\ started' = started
             /\ asked' = (asked \ Dropped) \cap Kept
             /\ warned' = (warned \cup Dropped) \cap Kept
             /\ grant' = [s \in Sockets |-> IF s \in Kept THEN grant[s] ELSE "none"]
    BY <1>2 DEF SubscriptionTyped, Dropped, Kept
  <1>3. ASSUME NEW s \in Sockets, Connected(s)
        PROVE  SubscriptionTyped'
    <2>1. started' = started
      BY <1>3 DEF Connected
    <2>2. UNCHANGED subscription \/ (ws \in Sockets /\ Ask(ws))
      BY <1>3 DEF Connected, Reopens, Subscribe, wsOpen, ClientInv, ClientTypeOK, subscription
    <2> QED  BY <2>1, <2>2 DEF SubscriptionTyped, Ask, subscription
  <1> QED  BY <1>1, <1>2, <1>3 DEF ClientStep

-----------------------------------------------------------------------------
(* The handlers.                                                           *)

LEMMA HandlersStay ==
    ASSUME HandlerInv, UNCHANGED <<seen, handler, launches>>,
           SubscriptionTyped'
    PROVE  HandlerInv'
  BY DEF HandlerInv, BridgeTyped, HandledOnce, LaunchesLeft, Handles, NotYet

LEMMA IdleHandler == Idle \in HandlerDomain /\ Idle.msg = NoMessage /\ ~Idle.listing /\ Idle.todo = {}
  BY DEF Idle, HandlerDomain

LEMMA InboundHandles ==
    ASSUME HandlerInv, NEW s \in Sockets, NEW m \in Messages, NEW h \in Handlers, Inbound(s, m, h)
    PROVE  HandlerInv'
  <1> USE IdleHandler, MessagesAssumption
  <1>1. BridgeTyped'
    BY DEF HandlerInv, BridgeTyped, SubscriptionTyped, subscription, HandlerDomain, Inbound, Marked
  <1>2. HandledOnce'
    BY DEF HandlerInv, BridgeTyped, HandlerDomain, HandledOnce, Handles, Inbound, Marked
  <1>3. LaunchesLeft'
    BY DEF HandlerInv, BridgeTyped, HandlerDomain, HandledOnce, LaunchesLeft, Handles, NotYet, Inbound, Marked
  <1> QED  BY <1>1, <1>2, <1>3 DEF HandlerInv

LEMMA CandidatesHandles ==
    ASSUME HandlerInv, NEW h \in Handlers, Candidates(h)
    PROVE  HandlerInv'
  <1> USE IdleHandler, MessagesAssumption
  <1>1. BridgeTyped'
    <2>1. PICK fs \in SUBSET Flows :
             handler' = [handler EXCEPT ![h] = [@ EXCEPT !.listing = FALSE, !.todo = fs]]
      BY DEF Candidates
    <2>2. [handler[h] EXCEPT !.listing = FALSE, !.todo = fs] \in HandlerDomain
      BY DEF HandlerInv, BridgeTyped, HandlerDomain
    <2>3. handler' \in [Handlers -> HandlerDomain]
      BY <2>1, <2>2 DEF HandlerInv, BridgeTyped
    <2> QED  BY <2>3 DEF HandlerInv, BridgeTyped, SubscriptionTyped, subscription, Candidates
  <1>2. HandledOnce'
    BY DEF HandlerInv, BridgeTyped, HandlerDomain, HandledOnce, Handles, Candidates
  <1>3. LaunchesLeft'
    BY DEF HandlerInv, BridgeTyped, HandlerDomain, HandledOnce, LaunchesLeft, Handles, NotYet, Candidates
  <1> QED  BY <1>1, <1>2, <1>3 DEF HandlerInv

LEMMA LaunchDoes ==
    ASSUME HandlerInv, NEW h \in Handlers, NEW f \in Flows, NEW ok \in BOOLEAN, Launch(h, f, ok)
    PROVE  LET m == handler[h].msg IN
           /\ m \in Messages /\ f \in handler[h].todo /\ launches[m][f] = 0
           /\ BridgeTyped'
           /\ \A i \in Handlers :
                 /\ handler'[i].msg = handler[i].msg /\ handler'[i].listing = handler[i].listing
                 /\ handler'[i].todo = IF i = h THEN handler[i].todo \ {f} ELSE handler[i].todo
           /\ \A n \in Messages, g \in Flows :
                 launches'[n][g] = IF ok /\ n = m /\ g = f THEN 1 ELSE launches[n][g]
           /\ UNCHANGED seen
  <1> DEFINE m == handler[h].msg
  <1>1. f \in handler[h].todo /\ handler[h] \in HandlerDomain
    BY DEF Launch, HandlerInv, BridgeTyped
  <1>2. m \in Messages
    BY <1>1, IdleHandler DEF HandlerInv, HandledOnce, HandlerDomain
  <1>3. launches[m][f] = 0
    BY <1>1, <1>2, MessagesAssumption DEF HandlerInv, LaunchesLeft, NotYet, Handles
  <1>4. [handler[h] EXCEPT !.todo = handler[h].todo \ {f}] \in HandlerDomain
    BY <1>1 DEF HandlerDomain
  <1>5. handler' = [handler EXCEPT ![h] = [handler[h] EXCEPT !.todo = handler[h].todo \ {f}]]
    BY DEF Launch, HandlerInv, BridgeTyped
  <1>6. /\ handler' \in [Handlers -> HandlerDomain]
        /\ \A i \in Handlers :
              /\ handler'[i].msg = handler[i].msg /\ handler'[i].listing = handler[i].listing
              /\ handler'[i].todo = IF i = h THEN handler[i].todo \ {f} ELSE handler[i].todo
    BY <1>4, <1>5 DEF HandlerInv, BridgeTyped, HandlerDomain
  <1>7. /\ launches' \in [Messages -> [Flows -> 0 .. 2]]
        /\ \A n \in Messages, g \in Flows :
              launches'[n][g] = IF ok /\ n = m /\ g = f THEN 1 ELSE launches[n][g]
    <2>1. CASE ~ok
      BY <2>1 DEF Launch, HandlerInv, BridgeTyped
    <2>2. CASE ok
      <3>1. launches' = [launches EXCEPT ![m] = [launches[m] EXCEPT ![f] = 1]]
        BY <2>2, <1>2, <1>3 DEF Launch, HandlerInv, BridgeTyped
      <3>2. launches[m] \in [Flows -> 0 .. 2]
        BY <1>2 DEF HandlerInv, BridgeTyped
      <3>3. [launches[m] EXCEPT ![f] = 1] \in [Flows -> 0 .. 2]
        BY <3>2
      <3> QED  BY <2>2, <3>1, <3>2, <3>3, <1>2 DEF HandlerInv, BridgeTyped
    <2> QED  BY <2>1, <2>2
  <1>8. UNCHANGED <<started, subscription, seen>>
    BY DEF Launch
  <1> QED  BY <1>1, <1>2, <1>3, <1>6, <1>7, <1>8 DEF HandlerInv, BridgeTyped, SubscriptionTyped, subscription

LEMMA LaunchHandles ==
    ASSUME HandlerInv, NEW h \in Handlers, NEW f \in Flows, NEW ok \in BOOLEAN, Launch(h, f, ok)
    PROVE  HandlerInv'
  <1> DEFINE m == handler[h].msg
  <1>1. /\ m \in Messages /\ f \in handler[h].todo /\ launches[m][f] = 0
        /\ BridgeTyped'
        /\ \A i \in Handlers :
              /\ handler'[i].msg = handler[i].msg /\ handler'[i].listing = handler[i].listing
              /\ handler'[i].todo = IF i = h THEN handler[i].todo \ {f} ELSE handler[i].todo
        /\ \A n \in Messages, g \in Flows :
              launches'[n][g] = IF ok /\ n = m /\ g = f THEN 1 ELSE launches[n][g]
        /\ UNCHANGED seen
    BY LaunchDoes
  <1> HIDE DEF m
  <1>2. m = handler[h].msg /\ m # NoMessage
    BY <1>1, MessagesAssumption DEF m
  <1>3. HandledOnce'
    <2>1. \A i \in Handlers : handler[i].msg = NoMessage => handler'[i] = handler[i]
      BY <1>2 DEF Launch, HandlerInv, BridgeTyped
    <2>2. \A i \in Handlers : handler'[i].msg = NoMessage => handler'[i] = Idle
      BY <1>1, <2>1 DEF HandlerInv, HandledOnce
    <2>3. \A i \in Handlers : handler'[i].listing => handler'[i].todo = {}
      BY <1>1 DEF HandlerInv, HandledOnce
    <2>4. /\ \A i \in Handlers, n \in Messages : Handles(i, n)' => n \in seen'
          /\ \A i, k \in Handlers, n \in Messages : Handles(i, n)' /\ Handles(k, n)' => i = k
      <3>1. \A i \in Handlers, n \in Messages : Handles(i, n)' => Handles(i, n)
        BY <1>1 DEF Handles
      <3> QED  BY <3>1, <1>1 DEF HandlerInv, HandledOnce
    <2> QED  BY <2>2, <2>3, <2>4 DEF HandledOnce
  <1>4. ASSUME NEW n \in Messages, NEW g \in Flows
        PROVE  launches'[n][g] <= 1 /\ (NotYet(n, g)' => launches'[n][g] = 0)
    <2>1. Handles(h, m)
      BY <1>2 DEF Handles
    <2>2. launches[n][g] <= 1 /\ (NotYet(n, g) => launches[n][g] = 0)
      BY DEF HandlerInv, LaunchesLeft
    <2>3. NotYet(n, g)' => NotYet(n, g)
      BY <1>1 DEF NotYet, Handles
    <2>4. CASE n = m /\ g = f
      <3>1. m \in seen /\ ~handler[h].listing
        BY <2>1, <1>1 DEF HandlerInv, HandledOnce, Launch
      <3>2. ~NotYet(n, g)'
        BY <3>1, <2>1, <2>4, <1>1 DEF NotYet, Handles, HandlerInv, HandledOnce
      <3> QED  BY <3>2, <2>2, <2>4, <1>1
    <2>5. CASE ~(n = m /\ g = f)
      BY <2>2, <2>3, <2>5, <1>1
    <2> QED  BY <2>4, <2>5
  <1> QED  BY <1>1, <1>3, <1>4 DEF HandlerInv, LaunchesLeft

LEMMA ReturnHandles ==
    ASSUME HandlerInv, NEW h \in Handlers, Return(h)
    PROVE  HandlerInv'
  <1> USE IdleHandler, MessagesAssumption
  <1>1. BridgeTyped'
    BY DEF HandlerInv, BridgeTyped, SubscriptionTyped, subscription, HandlerDomain, Return
  <1>2. HandledOnce'
    BY DEF HandlerInv, BridgeTyped, HandlerDomain, HandledOnce, Handles, Return
  <1>3. LaunchesLeft'
    BY DEF HandlerInv, BridgeTyped, HandlerDomain, HandledOnce, LaunchesLeft, Handles, NotYet, Return
  <1> QED  BY <1>1, <1>2, <1>3 DEF HandlerInv

LEMMA ForgetHandles ==
    ASSUME HandlerInv, NEW m \in Messages, Forget(m)
    PROVE  HandlerInv'
  <1> USE IdleHandler, MessagesAssumption
  <1>1. BridgeTyped'
    BY DEF HandlerInv, BridgeTyped, SubscriptionTyped, subscription, HandlerDomain, Forget
  <1>2. HandledOnce'
    BY DEF HandlerInv, BridgeTyped, HandlerDomain, HandledOnce, Handles, Forget
  <1>3. LaunchesLeft'
    BY DEF HandlerInv, BridgeTyped, HandlerDomain, HandledOnce, LaunchesLeft, Handles, NotYet, Forget
  <1> QED  BY <1>1, <1>2, <1>3 DEF HandlerInv
-----------------------------------------------------------------------------
(* The bridge.                                                             *)

\* Nothing has been heard.
Silent ==
    /\ started = FALSE /\ seen = {}
    /\ asked = {} /\ warned = {} /\ grant = [s \in Sockets |-> "none"]
    /\ handler = [h \in Handlers |-> Idle]
    /\ launches = [m \in Messages |-> [f \in Flows |-> 0]]

LEMMA SilentHolds == Silent => HandlerInv
  <1> SUFFICES ASSUME Silent PROVE HandlerInv
    OBVIOUS
  <1>1. BridgeTyped
    <2>1. [f \in Flows |-> 0] \in [Flows -> 0 .. 2]
      OBVIOUS
    <2>2. launches \in [Messages -> [Flows -> 0 .. 2]]
      BY <2>1 DEF Silent
    <2>3. handler \in [Handlers -> HandlerDomain]
      BY IdleHandler DEF Silent
    <2> QED  BY <2>2, <2>3 DEF Silent, BridgeTyped, SubscriptionTyped
  <1>2. \A h \in Handlers : handler[h] = Idle
    BY DEF Silent
  <1>3. HandledOnce
    BY <1>2, IdleHandler DEF HandledOnce, Handles
  <1>4. LaunchesLeft
    BY DEF Silent, LaunchesLeft
  <1> QED  BY <1>1, <1>3, <1>4 DEF HandlerInv

LEMMA SilentHoldsNext == Silent' => HandlerInv'
  BY SilentHolds, PTL

LEMMA RestartHolds ==
    ASSUME BridgeInv, Restart
    PROVE  BridgeInv'
  <1>1. Fresh'
    BY DEF Restart, Fresh
  <1>2. ClientInv'
    BY <1>1, FreshHoldsNext
  <1>3. AskedOnceGreeted'
    BY DEF Restart, AskedOnceGreeted, isConnected
  <1>4. HandlerInv'
    <2>1. Silent'
      BY DEF Restart, Silent
    <2> QED  BY <2>1, SilentHoldsNext
  <1> QED  BY <1>2, <1>3, <1>4 DEF BridgeInv

LEMMA ClientStepHandles ==
    ASSUME BridgeInv, Start \/ ClientStep
    PROVE  HandlerInv'
  <1>1. UNCHANGED <<seen, handler, launches>>
    BY DEF Start, ClientStep, Connected
  <1>2. SubscriptionTyped'
    BY SubscriptionStaysTyped DEF BridgeInv, HandlerInv, BridgeTyped
  <1> QED  BY <1>1, <1>2, HandlersStay DEF BridgeInv

LEMMA HandlerSteps ==
    ASSUME BridgeInv,
           \/ \E s \in Sockets, m \in Messages, h \in Handlers : Inbound(s, m, h)
           \/ \E h \in Handlers : HandlerStep(h)
           \/ \E m \in Messages : Forget(m)
    PROVE  BridgeInv'
  <1>1. HandlerInv'
    BY InboundHandles, CandidatesHandles, LaunchHandles, ReturnHandles, ForgetHandles
       DEF HandlerStep, BridgeInv
  <1>2. UNCHANGED <<client, subscription>>
    BY DEF HandlerStep, Inbound, Candidates, Launch, Return, Forget
  <1> QED  BY <1>1, <1>2, ClientStays, SubscriptionStays DEF BridgeInv

LEMMA OutcomeSteps ==
    ASSUME BridgeInv, NEW s \in Sockets, GatewayDecides(s) \/ Answered(s) \/ SubscribeFails(s)
    PROVE  BridgeInv'
  <1>1. UNCHANGED <<client, seen, handler, launches>>
    BY DEF GatewayDecides, Answered, SubscribeFails
  <1>2. SubscriptionTyped
    BY DEF BridgeInv, HandlerInv, BridgeTyped
  <1>3. SubscriptionTyped'
    BY <1>2, OutcomeTyped
  <1>4. ClientInv' /\ AskedOnceGreeted' /\ HandlerInv'
    BY <1>1, <1>2, <1>3, ClientStays, OutcomeKnown, HandlersStay DEF BridgeInv
  <1> QED  BY <1>4 DEF BridgeInv

LEMMA BridgeInitially == BInit => BridgeInv
  <1> SUFFICES ASSUME BInit PROVE BridgeInv
    OBVIOUS
  <1>1. Fresh
    BY DEF BInit, ClientInit, Fresh
  <1>2. ClientInv
    BY <1>1, FreshHolds
  <1>3. AskedOnceGreeted
    BY <1>1 DEF Fresh, AskedOnceGreeted, isConnected
  <1>4. HandlerInv
    <2>1. Silent
      BY DEF BInit, Silent
    <2> QED  BY <2>1, SilentHolds
  <1> QED  BY <1>2, <1>3, <1>4 DEF BridgeInv

LEMMA BridgeInductive == BridgeInv /\ [BNext]_bvars => BridgeInv'
  <1> SUFFICES ASSUME BridgeInv, [BNext]_bvars PROVE BridgeInv'
    OBVIOUS
  <1>1. CASE Start \/ ClientStep
    <2>1. SubscriptionTyped
      BY DEF BridgeInv, HandlerInv, BridgeTyped
    <2> QED  BY <1>1, <2>1, ClientStepKeeps, AskingKept, ClientStepHandles DEF BridgeInv
  <1>2. CASE Restart
    BY <1>2, RestartHolds
  <1>3. CASE \/ \E s \in Sockets, m \in Messages, h \in Handlers : Inbound(s, m, h)
             \/ \E h \in Handlers : HandlerStep(h)
             \/ \E m \in Messages : Forget(m)
    BY <1>3, HandlerSteps
  <1>4. CASE \E s \in Sockets : GatewayDecides(s) \/ Answered(s) \/ SubscribeFails(s)
    BY <1>4, OutcomeSteps
  <1>5. CASE UNCHANGED bvars
    <2>1. UNCHANGED <<client, subscription, seen, handler, launches, started>>
      BY <1>5 DEF bvars, bridge
    <2>2. SubscriptionTyped'
      BY <2>1 DEF BridgeInv, HandlerInv, BridgeTyped, SubscriptionTyped, subscription
    <2>3. HandlerInv'
      BY <2>1, <2>2, HandlersStay DEF BridgeInv
    <2> QED  BY <2>1, <2>3, ClientStays, SubscriptionStays DEF BridgeInv
  <1> QED  BY <1>1, <1>2, <1>3, <1>4, <1>5 DEF BNext

\* The bridge and the client below it keep what their parts rest on.
THEOREM BridgeInvariance == BSpec => []BridgeInv
  <1>1. BInit /\ [][BNext]_bvars => []BridgeInv
    BY BridgeInitially, BridgeInductive, PTL
  <1> QED  BY <1>1, PTL DEF BSpec

LEMMA BridgeTypesFollow == BridgeInv => BTypeOK
  BY DEF BridgeInv, ClientInv, HandlerInv, BridgeTyped, SubscriptionTyped, HandlerDomain, BTypeOK

LEMMA CallsFollow == BridgeInv => CallsHeld
  BY BridgeTypesFollow DEF BridgeInv, ClientInv, OneAttempt, CallsHeld, WaitersHeld

LEMMA HearingFollows == BridgeInv => HeardOnce
  BY DEF BridgeInv, HandlerInv, LaunchesLeft, AskedOnceGreeted,
         HeardOnce, SubscribedOrWarned, LaunchedOnce

\* Every call of the client can be settled: one that waits for a connection by
\* the attempt in progress, one that was sent by its entry in the map, whatever
\* the current socket, the orphaned ones and the timers do, in any order.
THEOREM CallsAreHeld == BSpec => []CallsHeld
  BY BridgeInvariance, CallsFollow, PTL

\* On the connection that is used the bridge is subscribed, waits for the answer
\* or has logged that it failed, and a message starts each flow at most once, over
\* any number of reconnections, deliveries and handlers.
THEOREM HearingIsOnce == BSpec => []HeardOnce
  BY BridgeInvariance, HearingFollows, PTL

=============================================================================
