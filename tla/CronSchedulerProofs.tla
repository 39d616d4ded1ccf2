-------------------------- MODULE CronSchedulerProofs --------------------------
(***************************************************************************)
(* Until a write puts an old state over a newer one, a job runs once at a  *)
(* time, its row tells so, its runs and its alerts keep their distance;    *)
(* and that its last run is on record, and that it is never run before its *)
(* instant, no such write takes away.  For any number of ticks, requests   *)
(* and edits, any schedule, any clock and any number of crashes.           *)
(***************************************************************************)
EXTENDS CronScheduler, FiniteSetTheorems, TLAPS

\* The domains of the variables.  What a row remembers of runs and alerts is
\* of the past, so that what follows from it stays in bounds.
Clock   == 0..Horizon
Past    == Clock \cup {None}
Kept    == [next : Instants, running : Past, last : Past, errs : Nat, alerted : Past]
Row     == [enabled : BOOLEAN, state : Kept]
Phases  == {"idle", "listed", "due", "read", "running", "recording", "editing", "done"}
Acts    == [pc : Phases, at : Clock, mode : Modes, row : Row \cup {Deleted}]
Entries == [at : Clock, mode : Modes]
Typed ==
    /\ schedule \in Jobs /\ now \in Clock
    /\ job \in Row \cup {Deleted}
    /\ act \in [Actors -> Acts]
    /\ history \in Seq(Entries) /\ alerts \in Seq(Clock)
    /\ crashes \in 0..MaxCrashes /\ lost \in BOOLEAN

\* Who goes on with a row has one, and a run that was due is not early.
Holds(a) == act[a].pc \in {"listed", "read", "running", "editing"}
Held(a) ==
    /\ Holds(a) => act[a].row \in Row
    /\ act[a].pc \in {"read", "running"} /\ act[a].mode = "due"
          => act[a].row.state.next # None /\ act[a].row.state.next <= act[a].at
Domains == Typed /\ \A a \in Actors : Held(a)

\* The states but for the next run, which is derived on every read.
SameCore(s, t) ==
    /\ s.running = t.running /\ s.last = t.last
    /\ s.errs = t.errs /\ s.alerted = t.alerted

\* A run that began at `at` when the last one was at `last`: it is not earlier,
\* and one that the scheduler began is due.
Follows(last, at) == last # None => last <= at
Called(mode, last, at) ==
    /\ mode = "due" /\ Kind = "every" /\ last # None => last + Every <= at
    /\ mode = "due" /\ Kind = "at" => at >= At /\ (last = None \/ last < At)

Begun(a)      == act[a].pc \in {"running", "recording"}
BegunByDue(a) == Begun(a) /\ act[a].mode = "due"
DueEntry(i)   == i \in DOMAIN history /\ history[i].mode = "due"

\* What an actor goes by, however old: a row without the mark, whose last run is
\* over, and an instant that has come.
Planned(a) ==
    /\ act[a].at <= now
    /\ Holds(a) => Follows(act[a].row.state.last, now)
    /\ act[a].pc \in {"read", "running"} =>
          /\ Follows(act[a].row.state.last, act[a].at)
          /\ Called(act[a].mode, act[a].row.state.last, act[a].at)
    /\ act[a].pc = "read" => act[a].row.state.running = None
    /\ act[a].pc = "running" => act[a].row.state.running = act[a].at
    /\ Kind = "at" /\ BegunByDue(a) => act[a].at >= At

\* What any row, stored or held, calls the last run has ended and is on record.
Recorded ==
    {None} \cup {history[i].at : i \in DOMAIN history}
    \cup {act[a].at : a \in {b \in Actors : act[b].pc = "recording"}}
Remembered == Exists /\ crashes = 0 =>
    /\ job.state.last \in Recorded
    /\ \A a \in Actors : Holds(a) => act[a].row.state.last \in Recorded

\* What holds whatever was lost.
Base ==
    /\ Domains
    /\ Exists => Follows(job.state.last, now)
    /\ \A a \in Actors : Planned(a)
    /\ Remembered /\ NotBefore

\* One execution, which has marked the row; the row is otherwise as it was.
Single == \A a, b \in Actors : Executing(a) /\ Executing(b) => a = b
Marked == Exists => \A a \in Actors :
    Executing(a) => SameCore(act[a].row.state, job.state)

\* The row's last run is the latest that ended, and its last alert no later.
Ended(t)  == job.state.last # None /\ t <= job.state.last
LastIsLatest == Exists =>
    /\ \A i \in DOMAIN history : Ended(history[i].at)
    /\ \A a \in Actors : act[a].pc = "recording" => Ended(act[a].at)
    /\ job.state.alerted # None => Ended(job.state.alerted)
    /\ \A i \in DOMAIN alerts : job.state.alerted # None /\ alerts[i] <= job.state.alerted

\* Two runs that ended, of which the scheduler began the later, are apart.
Apart(x, y) ==
    y.mode = "due" /\ (x.at < y.at \/ (x.at = y.at /\ x.mode = "due")) => x.at + Every <= y.at
Spaced == Kind = "every" =>
    /\ \A i, j \in DOMAIN history : i # j => Apart(history[i], history[j])
    /\ Exists => \A a \in Actors : act[a].pc = "recording" =>
          /\ \A i \in DOMAIN history : Apart(history[i], act[a]) /\ Apart(act[a], history[i])
          /\ \A b \in Actors \ {a} : act[b].pc = "recording" => Apart(act[a], act[b])

\* The scheduler begins a job with a single instant once.
Once == Kind = "at" =>
    /\ \A i, j \in DOMAIN history : DueEntry(i) /\ DueEntry(j) => i = j
    /\ \A a, b \in Actors : BegunByDue(a) /\ BegunByDue(b) => a = b
    /\ \A a \in Actors, i \in DOMAIN history : ~(BegunByDue(a) /\ DueEntry(i))

\* What holds until a state is lost.
Story ==
    /\ Single /\ Marked /\ MarkTruthful
    /\ LastIsLatest /\ AlertsSpaced /\ Spaced /\ Once
Sound == Base /\ ~lost /\ Story

IInv == Base /\ (~lost => Story)

-----------------------------------------------------------------------------
(* Instants.                                                               *)

LEMMA MultipleAbove ==
    ASSUME NEW t \in Nat, NEW d \in Nat \ {0}
    PROVE  /\ ((t \div d) + 1) * d \in Nat
           /\ t < ((t \div d) + 1) * d /\ ((t \div d) + 1) * d <= t + d
  <1>1. t \div d \in Nat /\ d * (t \div d) <= t /\ t < d * (t \div d) + d
    OBVIOUS
  <1> QED  BY <1>1

LEMMA Monotone ==
    ASSUME NEW a \in Nat, NEW b \in Nat, NEW c \in Nat, a <= b
    PROVE  a * c <= b * c /\ a * c \in Nat /\ b * c \in Nat
  <1>1. PICK d \in Nat : b = a + d
    <2>1. b - a \in Nat /\ b = a + (b - a)
      OBVIOUS
    <2> QED  BY <2>1
  <1>2. b * c = a * c + d * c /\ d * c \in Nat /\ a * c \in Nat
    BY <1>1
  <1> QED  BY <1>2

LEMMA MatchAbove ==
    ASSUME NEW t \in Nat, NEW m \in Nat \ {0}, NEW p \in Nat \ {0}
    PROVE  LET match == (((((t \div m) + 1) + p - 1) \div p) * p) * m
           IN  match \in Nat /\ match <= t + m * p /\ t < match
  <1> DEFINE x == t \div m
             y == (x + p) \div p
  <1>1. x \in Nat /\ m * x <= t /\ t < m * x + m
    OBVIOUS
  <1> HIDE DEF x
  <1>2. y \in Nat /\ y * p <= x + p /\ y * p \in Nat /\ x + 1 <= y * p
    <2>1. y \in Nat /\ p * y <= x + p /\ x + p < p * y + p
      BY <1>1
    <2> HIDE DEF y
    <2>2. p * y = y * p /\ y * p \in Nat
      BY <2>1
    <2> QED  BY <1>1, <2>1, <2>2
  <1>3. (x + 1) + p - 1 = x + p
    BY <1>1
  <1> HIDE DEF y
  <1>4. /\ (y * p) * m <= (x + p) * m /\ (y * p) * m \in Nat
        /\ (x + 1) * m <= (y * p) * m
    BY <1>1, <1>2, Monotone
  <1>5. (x + p) * m = m * x + m * p /\ (x + 1) * m = m * x + m
    BY <1>1
  <1>6. m * x \in Nat /\ m * p \in Nat
    BY <1>1
  <1>7. (y * p) * m <= t + m * p /\ t < (y * p) * m
    BY <1>1, <1>4, <1>5, <1>6
  <1> QED  BY <1>3, <1>4, <1>7 DEF x, y

LEMMA ScheduleTyped ==
    ASSUME schedule \in Jobs
    PROVE  /\ Kind \in {"at", "every", "cron"} /\ At \in Nat /\ Every \in Nat \ {0}
           /\ Minute \in Nat \ {0} /\ Period \in Nat \ {0} /\ Minute * Period \in Nat
           /\ Clock \subseteq Instants /\ Clock \subseteq Nat /\ None \in Past /\ None \in Instants
           /\ Horizon \in Nat /\ 0 \in Clock /\ None \notin Int
           /\ \A t \in Nat : t <= Horizon + Every + At + Minute * Period => t \in Instants
  <1>1. /\ Kind \in {"at", "every", "cron"} /\ At \in Nat /\ Every \in Nat \ {0}
        /\ Minute \in Nat \ {0} /\ Period \in Nat \ {0}
    BY JobsAssumption DEF Kind, At, Every, Minute, Period
  <1>2. Minute * Period \in Nat /\ Horizon \in Nat
    BY <1>1, BoundsAssumption
  <1> QED  BY <1>1, <1>2, NoneAssumption DEF Instants, Times, Clock, Past

LEMMA NextEveryTyped ==
    ASSUME schedule \in Jobs, NEW t \in Clock, NEW last \in Past
    PROVE  /\ NextEvery(t, last) \in Nat /\ NextEvery(t, last) <= Horizon + Every
           /\ last # None => NextEvery(t, last) = last + Every
  <1>1. /\ t \in Nat /\ t <= Horizon /\ Every \in Nat \ {0} /\ Horizon \in Nat
        /\ last \in 0..Horizon \/ last = None
    BY ScheduleTyped DEF Clock, Past
  <1>2. CASE last # None
    BY <1>1, <1>2 DEF NextEvery
  <1>3. CASE last = None /\ t = 0
    BY <1>1, <1>3 DEF NextEvery
  <1>4. CASE last = None /\ t # 0
    <2>1. ((t \div Every) + 1) * Every \in Nat /\ ((t \div Every) + 1) * Every <= t + Every
      BY <1>1, MultipleAbove
    <2> DEFINE above == ((t \div Every) + 1) * Every
    <2>2. NextEvery(t, last) = above
      BY <1>4 DEF NextEvery
    <2> HIDE DEF above
    <2>3. above \in Nat /\ above <= t + Every
      BY <2>1 DEF above
    <2> QED  BY <1>1, <1>4, <2>2, <2>3
  <1> QED  BY <1>2, <1>3, <1>4

LEMMA NextMatchTyped ==
    ASSUME schedule \in Jobs, NEW t \in Clock
    PROVE  NextMatch(t) \in Instants /\ NextMatch(t) \in Nat /\ t < NextMatch(t)
  <1>1. /\ t \in Nat /\ t <= Horizon /\ Every \in Nat /\ At \in Nat /\ Horizon \in Nat
        /\ Minute \in Nat \ {0} /\ Period \in Nat \ {0} /\ Minute * Period \in Nat
    BY ScheduleTyped DEF Clock
  <1>2. NextMatch(t) \in Nat /\ NextMatch(t) <= t + Minute * Period /\ t < NextMatch(t)
    BY <1>1, MatchAbove DEF NextMatch
  <1> QED  BY <1>1, <1>2, ScheduleTyped

LEMMA NextRunTyped ==
    ASSUME schedule \in Jobs, NEW t \in Clock, NEW state, state.last \in Past
    PROVE  NextRun(state, t) \in Instants
  <1>1. CASE Kind = "at"
    BY <1>1, ScheduleTyped DEF NextRun
  <1>2. CASE Kind = "every"
    BY <1>2, ScheduleTyped, NextEveryTyped DEF NextRun
  <1>3. CASE Kind = "cron"
    BY <1>3, NextMatchTyped DEF NextRun
  <1> QED  BY <1>1, <1>2, <1>3, ScheduleTyped

\* Deriving the next run leaves the rest of the state.
LEMMA NormalisedTyped ==
    ASSUME schedule \in Jobs, NEW t \in Clock, NEW row \in Row
    PROVE  /\ Normalised(row, t) \in Kept /\ SameCore(Normalised(row, t), row.state)
           /\ row.enabled => Normalised(row, t).next = NextRun(row.state, t)
  <1>1. row.state \in Kept /\ row.state.last \in Past
    BY DEF Row, Kept
  <1>2. (IF row.enabled THEN NextRun(row.state, t) ELSE None) \in Instants
    BY <1>1, NextRunTyped, ScheduleTyped
  <1> QED  BY <1>1, <1>2 DEF Normalised, Kept, SameCore

LEMMA NextAfterTyped ==
    ASSUME schedule \in Jobs, NEW t \in Clock, NEW due \in Instants, due # None => due <= t
    PROVE  NextAfter(due, t) \in Instants
  <1> DEFINE base == IF due = None THEN t ELSE due
  <1>0. /\ Every \in Nat /\ At \in Nat /\ Minute * Period \in Nat /\ Horizon \in Nat
        /\ t \in Nat /\ t <= Horizon
        /\ \A i \in Nat : i <= Horizon + Every + At + Minute * Period => i \in Instants
    BY ScheduleTyped DEF Clock
  <1>1. base \in Clock /\ base \in Nat /\ base <= Horizon
    BY <1>0 DEF Instants, Times, Clock
  <1> HIDE DEF base
  <1>2. base + Every \in Instants
    BY <1>0, <1>1
  <1>3. NextEvery(t, base) \in Instants
    <2>1. base \in Past
      BY <1>1 DEF Past
    <2> QED  BY <1>0, <2>1, NextEveryTyped
  <1>4. NextMatch(base) \in Instants
    BY <1>1, NextMatchTyped
  <1>5. None \in Instants
    BY ScheduleTyped
  <1>6. CASE Kind = "at"
    BY <1>5, <1>6 DEF NextAfter
  <1>7. CASE Kind = "every"
    BY <1>2, <1>3, <1>7 DEF NextAfter, base
  <1>8. CASE Kind = "cron"
    BY <1>4, <1>8 DEF NextAfter, base
  <1> QED  BY <1>6, <1>7, <1>8, ScheduleTyped

-----------------------------------------------------------------------------
(* Rows and actors.                                                        *)

LEMMA NamesTyped ==
    /\ Modes = {"due", "force"}
    /\ "idle" \in Phases /\ "listed" \in Phases /\ "due" \in Phases /\ "read" \in Phases
    /\ "running" \in Phases /\ "recording" \in Phases /\ "editing" \in Phases /\ "done" \in Phases
  BY DEF Modes, Phases

LEMMA RowIsThere == \A row \in Row : row # Deleted
  <1>1. \A row \in Row : "state" \in DOMAIN row
    BY DEF Row
  <1>2. "state" \notin DOMAIN Deleted
    BY DEF Deleted
  <1> QED  BY <1>1, <1>2

LEMMA ActTyped ==
    ASSUME NEW pc \in Phases, NEW at \in Clock, NEW mode \in Modes,
           NEW row \in Row \cup {Deleted}
    PROVE  /\ Act(pc, at, mode, row) \in Acts
           /\ Act(pc, at, mode, row).pc = pc /\ Act(pc, at, mode, row).at = at
           /\ Act(pc, at, mode, row).mode = mode
           /\ Act(pc, at, mode, row).row = row
  BY DEF Act, Acts

LEMMA RestTyped ==
    /\ Idle \in Acts /\ Idle.pc = "idle" /\ Idle.at = 0
    /\ Done \in Acts /\ Done.pc = "done" /\ Done.at = 0
  <1>1. 0 \in Clock
    BY BoundsAssumption DEF Clock
  <1> QED  BY <1>1, ActTyped, NamesTyped DEF Idle, Done

\* What one actor does.
Others(a) == \A b \in Actors \ {a} : act'[b] = act[b]

LEMMA Replaced ==
    ASSUME Typed, NEW a \in Actors, NEW x \in Acts, act' = [act EXCEPT ![a] = x]
    PROVE  act' \in [Actors -> Acts] /\ act'[a] = x /\ Others(a)
  BY DEF Typed, Others

LEMMA Rests ==
    ASSUME Typed, NEW a \in Actors, Rest(a)
    PROVE  /\ act' \in [Actors -> Acts] /\ Others(a)
           /\ act'[a].pc \in {"idle", "done"} /\ act'[a].at = 0
  <1>1. PICK x \in {Idle, Done} : act' = [act EXCEPT ![a] = x]
    BY DEF Rest
  <1>2. x \in Acts /\ x.pc \in {"idle", "done"} /\ x.at = 0
    BY RestTyped
  <1> QED  BY <1>1, <1>2, Replaced

\* Writing the state of the row, if there is one.
LEMMA Persisted ==
    ASSUME Typed, NEW state \in Kept, Persist(state)
    PROVE  /\ job' \in Row \cup {Deleted} /\ (job' # Deleted => Exists)
           /\ Exists => job' \in Row /\ job'.state = state /\ job'.enabled = job.enabled
  <1>1. CASE Exists
    <2>1. job \in Row /\ job' = [job EXCEPT !.state = state]
      BY <1>1 DEF Typed, Exists, Persist
    <2>2. job'.state = state /\ job'.enabled = job.enabled /\ job' \in Row
      BY <2>1 DEF Row
    <2> QED  BY <1>1, <2>2
  <1>2. CASE ~Exists
    BY <1>2 DEF Typed, Exists, Persist
  <1> QED  BY <1>1, <1>2
-----------------------------------------------------------------------------
(* What a step is, as far as the invariant can tell.                       *)

\* Reads and writes that begin or end no execution.
Looks(a) ==
    /\ Others(a) /\ ~Begun(a) /\ act'[a].pc \notin {"running", "recording"}
    /\ now' = now /\ history' = history /\ alerts' = alerts /\ crashes' = crashes
    /\ Planned(a)'
    /\ Holds(a)' => Exists /\ act'[a].row.state.last = job.state.last
    /\ job' # Deleted =>
          /\ Exists
          /\ \/ job'.state.last = job.state.last
             \/ Holds(a) /\ job'.state.last = act[a].row.state.last
    /\ ~lost' => ~lost /\ (job' # Deleted => SameCore(job'.state, job.state))

\* The actor goes on with the same run.
Goes(a) == Others(a) /\ act'[a].at = act[a].at /\ act'[a].mode = act[a].mode
\* The actor is done with it.
Leaves(a) == Others(a) /\ act'[a].pc \in {"idle", "done"} /\ act'[a].at = 0

Starts(a) ==
    /\ Goes(a) /\ act[a].pc = "read" /\ act'[a].pc = "running"
    /\ now' = now /\ history' = history /\ alerts' = alerts /\ crashes' = crashes
    /\ Planned(a)' /\ act'[a].row.state.last = act[a].row.state.last
    /\ job' # Deleted => Exists /\ job'.state = act'[a].row.state
    /\ ~lost' => /\ ~lost /\ Exists /\ job' # Deleted
                 /\ SameCore(act[a].row.state, job.state)
                 /\ job'.state.last = job.state.last /\ job'.state.alerted = job.state.alerted

Finishes(a) ==
    /\ Goes(a) /\ act[a].pc = "running" /\ act'[a].pc = "recording"
    /\ now' = now /\ history' = history /\ crashes' = crashes /\ lost' = lost
    /\ Exists <=> job' # Deleted
    /\ Exists => job'.state.last = act[a].at /\ job'.state.running = None
    /\ LET alerted == act[a].row.state.alerted
       IN  \/ /\ alerts' = Append(alerts, act[a].at)
              /\ Exists => /\ job'.state.alerted = act[a].at
                           /\ Cooldown > 0 /\ alerted # None => alerted + Cooldown <= act[a].at
           \/ alerts' = alerts /\ (Exists => job'.state.alerted = alerted)

Records(a) ==
    /\ Leaves(a) /\ act[a].pc = "recording" /\ Exists
    /\ now' = now /\ job' = job /\ alerts' = alerts /\ crashes' = crashes /\ lost' = lost
    /\ history' = Append(history, [at |-> act[a].at, mode |-> act[a].mode])

Gives(a) ==
    /\ Leaves(a) /\ act[a].pc = "recording" /\ ~Exists
    /\ now' = now /\ job' = job /\ history' = history /\ crashes' = crashes /\ lost' = lost

Passes ==
    /\ now' = now + 1 /\ job' = job /\ act' = act /\ lost' = lost
    /\ history' = history /\ alerts' = alerts /\ crashes' = crashes

Dies ==
    /\ \A a \in Actors : act'[a].pc \in {"idle", "done"} /\ act'[a].at = 0
    /\ now' = now /\ history' = history /\ alerts' = alerts /\ crashes' = crashes + 1
    /\ lost' = lost
    /\ job' # Deleted => Exists /\ SameCore(job'.state, job.state)

\* What keeps the domains, when one actor acts.
LEMMA DomainsKept ==
    ASSUME Domains, NEW a \in Actors, schedule' = schedule, now' = now,
           job' \in Row \cup {Deleted}, act' \in [Actors -> Acts], Others(a), Held(a)',
           history' \in Seq(Entries), alerts' \in Seq(Clock), crashes' = crashes,
           lost' \in BOOLEAN
    PROVE  Domains'
  <1>0. /\ Clock' = Clock /\ Row' = Row /\ Acts' = Acts /\ Entries' = Entries
        /\ Actors' = Actors
    <2>1. Instants' = Instants
      BY DEF Instants, Times, Every, At, Minute, Period
    <2> QED  BY <2>1 DEF Clock, Row, Kept, Past, Acts, Deleted, Entries, Actors
  <1>1. Typed'
    <2>1. lost' \in BOOLEAN
      OBVIOUS
    <2> QED  BY <1>0, <2>1 DEF Domains, Typed, Deleted
  <1>2. ASSUME NEW b \in Actors  PROVE  Held(b)'
    <2>1. CASE b # a
      <3>1. act'[b] = act[b] /\ Held(b)
        BY <2>1 DEF Others, Domains
      <3> QED  BY <1>0, <3>1 DEF Held, Holds
    <2> QED  BY <2>1
  <1> QED  BY <1>0, <1>1, <1>2 DEF Domains
-----------------------------------------------------------------------------
(* Each action keeps the domains and is a step of its kind.                *)

LEMMA RowKept ==
    ASSUME schedule' = schedule
    PROVE  Row' = Row
  BY DEF Row, Kept, Past, Clock, Instants, Times, Every, At, Minute, Period

LEMMA SameCoreSelf == \A s : SameCore(s, s)
  BY DEF SameCore

\* What an actor holds, on its own.
LEMMA ActorTyped ==
    ASSUME Domains, NEW a \in Actors
    PROVE  /\ act[a] \in Acts /\ act[a].at \in Clock /\ act[a].mode \in Modes
           /\ act[a].row \in Row \cup {Deleted}
           /\ schedule \in Jobs /\ now \in Clock /\ Typed /\ Held(a)
           /\ Exists => job \in Row
           /\ job \in Row \cup {Deleted} /\ lost \in BOOLEAN
  <1>1. act[a] \in Acts
    BY DEF Domains, Typed
  <1>2. lost \in BOOLEAN
    BY DEF Domains, Typed
  <1> QED  BY <1>1, <1>2 DEF Domains, Typed, Acts, Exists

\* A write that is not stale rests on the row as it is.
LEMMA FreshWrite ==
    ASSUME Domains, NEW a \in Actors, act[a].row \in Row, ~Stale(a)
    PROVE  Exists /\ SameCore(act[a].row.state, job.state)
  <1> DEFINE s == act[a].row.state
             t == job.state
  <1>1. Exists /\ [t EXCEPT !.next = None] = [s EXCEPT !.next = None]
    BY DEF Stale
  <1>2. s \in Kept /\ t \in Kept
    BY <1>1, ActorTyped DEF Row
  <1> HIDE DEF s, t
  <1>3. s.running = t.running /\ s.last = t.last /\ s.errs = t.errs /\ s.alerted = t.alerted
    <2>1. /\ [t EXCEPT !.next = None].running = t.running /\ [t EXCEPT !.next = None].last = t.last
          /\ [t EXCEPT !.next = None].errs = t.errs /\ [t EXCEPT !.next = None].alerted = t.alerted
      BY <1>2 DEF Kept
    <2>2. /\ [s EXCEPT !.next = None].running = s.running /\ [s EXCEPT !.next = None].last = s.last
          /\ [s EXCEPT !.next = None].errs = s.errs /\ [s EXCEPT !.next = None].alerted = s.alerted
      BY <1>2 DEF Kept
    <2> QED  BY <1>1, <2>1, <2>2
  <1> QED  BY <1>1, <1>3 DEF SameCore, s, t

LEMMA HeldAtRest ==
    ASSUME NEW a \in Actors, act'[a].pc \in {"idle", "done"}, act'[a].at = 0, Domains, now' = now
    PROVE  Held(a)' /\ Planned(a)' /\ ~Holds(a)'
  <1>1. 0 <= now
    BY BoundsAssumption DEF Domains, Typed, Clock
  <1> QED  BY <1>1 DEF Held, Holds, Planned, BegunByDue, Begun

\* A tick's list and the read of an edit: the row as it is.
LEMMA Lists ==
    ASSUME Base, NEW a \in Actors, NEW pc \in {"listed", "editing"}, act[a].pc = "idle", Exists,
           act' = [act EXCEPT ![a] = Act(pc, now, "due", job)],
           UNCHANGED <<schedule, now, job, history, alerts, crashes, lost>>
    PROVE  Domains' /\ Looks(a)
  <1> DEFINE x == Act(pc, now, "due", job)
  <1>0. /\ Domains /\ job \in Row /\ now \in Clock /\ Follows(job.state.last, now)
        /\ pc \in Phases /\ lost \in BOOLEAN
    BY ActorTyped, NamesTyped DEF Base
  <1>1. /\ x \in Acts /\ x.pc = pc /\ x.at = now /\ x.mode = "due" /\ x.row = job
    BY <1>0, ActTyped, NamesTyped
  <1>2. act' = [act EXCEPT ![a] = x]
    OBVIOUS
  <1> HIDE DEF x
  <1>3. act' \in [Actors -> Acts] /\ act'[a] = x /\ Others(a)
    BY <1>0, <1>1, <1>2, Replaced DEF Domains
  <1>4. Held(a)'
    BY <1>0, <1>1, <1>3, RowKept DEF Held, Holds
  <1>5. Domains'
    <2>1. history \in Seq(Entries) /\ alerts \in Seq(Clock) /\ lost' \in BOOLEAN
      BY <1>0 DEF Domains, Typed
    <2> QED  BY <1>0, <1>3, <1>4, <2>1, DomainsKept
  <1>6. now <= now
    BY <1>0 DEF Clock
  <1>7. Planned(a)'
    BY <1>0, <1>1, <1>3, <1>6 DEF Planned, Follows, BegunByDue, Begun
  <1>8. ~lost' => ~lost
    OBVIOUS
  <1>9. Looks(a)
    BY <1>0, <1>1, <1>3, <1>7, <1>8, SameCoreSelf DEF Looks, Begun, Exists
  <1> QED  BY <1>5, <1>9

LEMMA TickListStep ==
    ASSUME Base, NEW a \in Actors, TickList(a)
    PROVE  Domains' /\ Looks(a)
  BY Lists DEF TickList

LEMMA EditReadStep ==
    ASSUME Base, NEW a \in Actors, EditRead(a)
    PROVE  Domains' /\ Looks(a)
  BY Lists DEF EditRead

LEMMA LooksAndRests ==
    ASSUME Base, NEW a \in Actors, Rest(a), schedule' = schedule, now' = now,
           history' = history, alerts' = alerts, crashes' = crashes, ~Begun(a),
           job' \in Row \cup {Deleted}, lost' \in BOOLEAN,
           job' # Deleted => Exists /\ \/ job'.state.last = job.state.last
                                       \/ Holds(a) /\ job'.state.last = act[a].row.state.last,
           ~lost' => ~lost /\ (job' # Deleted => SameCore(job'.state, job.state))
    PROVE  Domains' /\ Looks(a)
  <1>1. /\ act' \in [Actors -> Acts] /\ Others(a)
        /\ act'[a].pc \in {"idle", "done"} /\ act'[a].at = 0
    BY Rests DEF Base, Domains
  <1>2. Held(a)' /\ Planned(a)' /\ ~Holds(a)'
    BY <1>1, HeldAtRest DEF Base
  <1>3. Domains'
    <2>1. Domains /\ history \in Seq(Entries) /\ alerts \in Seq(Clock)
      BY DEF Base, Domains, Typed
    <2> QED  BY <1>1, <1>2, <2>1, DomainsKept
  <1>4. Looks(a)
    BY <1>1, <1>2 DEF Looks
  <1> QED  BY <1>3, <1>4

\* The tick writes what it derived from its list.
LEMMA TickWriteStep ==
    ASSUME Base, NEW a \in Actors, TickWrite(a)
    PROVE  Domains' /\ Looks(a)
  <1> DEFINE state == Normalised(act[a].row, act[a].at)
  <1>0. /\ Domains /\ act[a].pc = "listed" /\ act[a].row \in Row /\ act[a].at \in Clock
        /\ schedule \in Jobs /\ Planned(a) /\ Holds(a) /\ ~Begun(a) /\ Typed
    BY ActorTyped DEF Base, TickWrite, Held, Holds, Begun
  <1>1. state \in Kept /\ SameCore(state, act[a].row.state)
    BY <1>0, NormalisedTyped
  <1>2. /\ Persist(state) /\ lost' = (lost \/ Stale(a))
        /\ act' = [act EXCEPT ![a] = Act("due", act[a].at, "due", Deleted)] \/ Rest(a)
        /\ UNCHANGED <<schedule, now, history, alerts, crashes>>
    BY DEF TickWrite
  <1> HIDE DEF state
  <1>3. /\ job' \in Row \cup {Deleted}
        /\ job' # Deleted => Exists /\ job'.state = state
    BY <1>0, <1>1, <1>2, Persisted, RowIsThere
  <1>4. lost' \in BOOLEAN /\ (~lost' => ~lost /\ ~Stale(a))
    BY <1>2
  <1>5. ~lost' => ~lost /\ (job' # Deleted => SameCore(job'.state, job.state))
    <2>1. ~Stale(a) => SameCore(act[a].row.state, job.state)
      BY <1>0, FreshWrite
    <2> QED  BY <1>1, <1>3, <1>4, <2>1 DEF SameCore
  <1>6. job' # Deleted => Exists /\ job'.state.last = act[a].row.state.last
    BY <1>1, <1>3 DEF SameCore
  <1>7. CASE Rest(a)
    BY <1>0, <1>2, <1>3, <1>4, <1>5, <1>6, <1>7, LooksAndRests
  <1>8. CASE act' = [act EXCEPT ![a] = Act("due", act[a].at, "due", Deleted)]
    <2> DEFINE x == Act("due", act[a].at, "due", Deleted)
    <2>1. x \in Acts /\ x.pc = "due" /\ x.at = act[a].at
      BY <1>0, ActTyped, NamesTyped
    <2>2. act' = [act EXCEPT ![a] = x]
      BY <1>8
    <2> HIDE DEF x
    <2>3. act' \in [Actors -> Acts] /\ act'[a] = x /\ Others(a)
      BY <1>0, <2>1, <2>2, Replaced
    <2>4. Held(a)' /\ ~Holds(a)'
      BY <2>1, <2>3 DEF Held, Holds
    <2>5. Domains'
      <3>1. history \in Seq(Entries) /\ alerts \in Seq(Clock)
        BY <1>0 DEF Typed
      <3> QED  BY <1>0, <1>2, <1>3, <1>4, <2>3, <2>4, <3>1, DomainsKept
    <2>6. Planned(a)'
      BY <1>0, <1>2, <2>1, <2>3, <2>4 DEF Planned, BegunByDue, Begun
    <2>7. Looks(a)
      BY <1>0, <1>2, <1>5, <1>6, <2>1, <2>3, <2>4, <2>6 DEF Looks
    <2> QED  BY <2>5, <2>7
  <1> QED  BY <1>2, <1>7, <1>8

\* What is due on a read is due by the run before it, and later than that.
LEMMA ReadCalls ==
    ASSUME schedule \in Jobs, NEW row \in Row, NEW at \in Clock, NEW mode \in Modes, row.enabled,
           mode = "due" => Normalised(row, at).next # None /\ Normalised(row, at).next <= at,
           mode = "force" => Follows(row.state.last, at)
    PROVE  Called(mode, row.state.last, at) /\ Follows(row.state.last, at)
  <1> DEFINE last == row.state.last
  <1>0. /\ last \in Past /\ at \in Nat /\ Every \in Nat \ {0} /\ At \in Nat
        /\ last \in Nat \/ last = None
        /\ Kind \in {"at", "every", "cron"}
    BY ScheduleTyped DEF Row, Kept, Past, Clock
  <1>1. Normalised(row, at).next = NextRun(row.state, at)
    BY NormalisedTyped
  <1>2. ASSUME mode = "due", Kind = "every", last # None  PROVE  last + Every <= at
    <2>1. NextRun(row.state, at) = NextEvery(at, last)
      BY <1>2 DEF NextRun
    <2>2. NextEvery(at, last) <= at
      BY <1>1, <1>2, <2>1
    <2>3. last \in Past
      BY <1>0
    <2> HIDE DEF last
    <2>4. NextEvery(at, last) = last + Every
      BY <1>2, <2>3, NextEveryTyped
    <2> QED  BY <2>2, <2>4
  <1>3. ASSUME mode = "due", Kind = "at"  PROVE  at >= At /\ (last = None \/ last < At)
    <2>1. NextRun(row.state, at) = IF last # None /\ last >= At THEN None ELSE At
      BY <1>3 DEF NextRun
    <2>2. ~(last # None /\ last >= At) /\ At <= at
      BY <1>1, <1>3, <2>1
    <2> QED  BY <1>0, <2>2
  <1>4. ASSUME mode = "due", Kind = "cron"  PROVE  FALSE
    <2>1. NextRun(row.state, at) = NextMatch(at)
      BY <1>4 DEF NextRun
    <2>2. NextMatch(at) \in Nat /\ at < NextMatch(at)
      BY NextMatchTyped
    <2> QED  BY <1>0, <1>1, <1>4, <2>1, <2>2
  <1>5. Follows(last, at)
    <2>1. CASE mode = "force"
      BY <2>1
    <2>2. CASE mode = "due" /\ last # None
      <3>1. last \in Nat
        BY <1>0, <2>2
      <3> HIDE DEF last
      <3>2. CASE Kind = "every"
        BY <1>0, <1>2, <2>2, <3>1, <3>2 DEF Follows
      <3>3. CASE Kind = "at"
        BY <1>0, <1>3, <2>2, <3>1, <3>3 DEF Follows
      <3> QED  BY <1>0, <1>4, <2>2, <3>2, <3>3
    <2>3. CASE last = None
      BY <2>3 DEF Follows
    <2> QED  BY <2>1, <2>2, <2>3, NamesTyped
  <1> QED  BY <1>2, <1>3, <1>5 DEF Called

LEMMA ReadStep ==
    ASSUME Base, NEW a \in Actors, NEW mode \in Modes, NEW at \in Clock, Read(a, mode, at),
           UNCHANGED <<schedule, now, job, history, alerts, crashes, lost>>, ~Begun(a),
           at <= now, mode = "force" => at = now
    PROVE  Domains' /\ Looks(a)
  <1> DEFINE state == Normalised(job, at)
  <1>0. /\ Domains /\ schedule \in Jobs /\ job \in Row \cup {Deleted} /\ Typed
        /\ Exists => Follows(job.state.last, now)
        /\ lost' \in BOOLEAN /\ (~lost' => ~lost)
    BY ActorTyped DEF Base
  <1>1. CASE Rest(a)
    BY <1>0, <1>1, LooksAndRests, SameCoreSelf DEF Exists
  <1>2. CASE ~Rest(a)
    <2> DEFINE row == [job EXCEPT !.state = state]
               x   == Act("read", at, mode, row)
    <2>1. /\ Exists /\ job.enabled /\ state.running = None
          /\ mode = "due" => state.next # None /\ state.next <= at
          /\ act' = [act EXCEPT ![a] = x]
      BY <1>2 DEF Read
    <2>2. job \in Row
      BY <1>0, <2>1 DEF Exists
    <2>3. state \in Kept /\ SameCore(state, job.state)
      BY <1>0, <2>2, NormalisedTyped
    <2>4. Called(mode, job.state.last, at) /\ Follows(job.state.last, at)
      BY <1>0, <2>1, <2>2, ReadCalls
    <2> HIDE DEF state
    <2>5. row \in Row /\ row.state = state
      BY <2>2, <2>3 DEF Row
    <2> HIDE DEF row
    <2>6. x \in Acts /\ x.pc = "read" /\ x.at = at /\ x.mode = mode /\ x.row = row
      BY <2>5, ActTyped, NamesTyped
    <2> HIDE DEF x
    <2>7. act' \in [Actors -> Acts] /\ act'[a] = x /\ Others(a)
      BY <1>0, <2>1, <2>6, Replaced
    <2>8. Held(a)'
      BY <2>1, <2>5, <2>6, <2>7, RowKept DEF Held
    <2>9. Domains'
      <3>1. history \in Seq(Entries) /\ alerts \in Seq(Clock)
        BY <1>0 DEF Typed
      <3> QED  BY <1>0, <2>7, <2>8, <3>1, DomainsKept
    <2>10. act'[a].row.state.last = job.state.last /\ act'[a].row.state.running = None
      BY <2>1, <2>3, <2>5, <2>6, <2>7 DEF SameCore
    <2>11. Planned(a)'
      <3>1. Called(mode, job.state.last, at)'
        BY <2>4 DEF Called, Kind, At, Every
      <3> QED  BY <1>0, <2>1, <2>4, <2>6, <2>7, <2>10, <3>1
               DEF Planned, BegunByDue, Begun, Called, Kind, At, Every
    <2>12. Looks(a)
      BY <1>0, <2>1, <2>6, <2>7, <2>10, <2>11, SameCoreSelf DEF Looks, Exists
    <2> QED  BY <2>9, <2>12
  <1> QED  BY <1>1, <1>2

LEMMA RunDueStep ==
    ASSUME Base, NEW a \in Actors, RunDue(a)
    PROVE  Domains' /\ Looks(a)
  <1>1. /\ Read(a, "due", act[a].at) /\ act[a].at \in Clock /\ "due" \in Modes
        /\ ~Begun(a) /\ act[a].at <= now
        /\ UNCHANGED <<schedule, now, job, history, alerts, crashes, lost>>
    BY ActorTyped, NamesTyped DEF Base, RunDue, Begun, Planned
  <1> QED  BY <1>1, ReadStep

LEMMA RunNowStep ==
    ASSUME Base, NEW a \in Actors, NEW mode \in Modes, RunNow(a, mode)
    PROVE  Domains' /\ Looks(a)
  <1>1. /\ Read(a, mode, now) /\ now \in Clock /\ ~Begun(a)
        /\ UNCHANGED <<schedule, now, job, history, alerts, crashes, lost>>
    BY ActorTyped DEF Base, RunNow, Begun
  <1>2. now <= now
    BY <1>1, BoundsAssumption DEF Clock
  <1> QED  BY <1>1, <1>2, ReadStep

LEMMA EditWriteStep ==
    ASSUME Base, NEW a \in Actors, NEW edit, EditWrite(a, edit)
    PROVE  Domains' /\ Looks(a)
  <1> DEFINE row   == [act[a].row EXCEPT !.enabled = edit = "resume"]
             state == Normalised(row, act[a].at)
  <1>0. /\ Domains /\ act[a].pc = "editing" /\ act[a].row \in Row /\ act[a].at \in Clock
        /\ schedule \in Jobs /\ Holds(a) /\ ~Begun(a)
    BY ActorTyped DEF Base, EditWrite, Held, Holds, Begun
  <1>1. row \in Row /\ row.state = act[a].row.state
    BY <1>0 DEF Row
  <1>2. /\ \/ Exists /\ edit # "delete" /\ job' = [row EXCEPT !.state = state]
           \/ job' = Deleted
        /\ lost' = (lost \/ (edit # "delete" /\ Stale(a)))
        /\ Rest(a) /\ UNCHANGED <<schedule, now, history, alerts, crashes>>
    BY DEF EditWrite
  <1> HIDE DEF row
  <1>3. state \in Kept /\ SameCore(state, act[a].row.state)
    BY <1>0, <1>1, NormalisedTyped
  <1> HIDE DEF state
  <1>4. /\ job' \in Row \cup {Deleted}
        /\ job' # Deleted => Exists /\ edit # "delete" /\ job'.state = state
    BY <1>1, <1>2, <1>3 DEF Row
  <1>5. lost' \in BOOLEAN /\ (~lost' => ~lost /\ (edit = "delete" \/ ~Stale(a)))
    BY <1>2
  <1>6. ~lost' => ~lost /\ (job' # Deleted => SameCore(job'.state, job.state))
    <2>1. ~Stale(a) => SameCore(act[a].row.state, job.state)
      BY <1>0, FreshWrite
    <2> QED  BY <1>3, <1>4, <1>5, <2>1 DEF SameCore
  <1>7. job' # Deleted => Exists /\ job'.state.last = act[a].row.state.last
    BY <1>3, <1>4 DEF SameCore
  <1> QED  BY <1>0, <1>2, <1>4, <1>5, <1>6, <1>7, LooksAndRests
LEMMA StartStep ==
    ASSUME Base, NEW a \in Actors, Start(a)
    PROVE  Domains' /\ Starts(a)
  <1> DEFINE state == [act[a].row.state EXCEPT !.running = act[a].at]
             x     == [act[a] EXCEPT !.pc = "running", !.row.state = state]
  <1>0. /\ Domains /\ Typed /\ act[a] \in Acts /\ act[a].pc = "read" /\ act[a].row \in Row
        /\ act[a].at \in Clock /\ schedule \in Jobs /\ Held(a) /\ Planned(a) /\ Holds(a)
    BY ActorTyped DEF Base, Start, Held, Holds
  <1>1. act[a].row.state \in Kept
    BY <1>0 DEF Row
  <1>2. /\ state \in Kept /\ state.running = act[a].at /\ state.next = act[a].row.state.next
        /\ state.last = act[a].row.state.last /\ state.alerted = act[a].row.state.alerted
    BY <1>0, <1>1 DEF Kept, Past
  <1>3. /\ Persist(state) /\ act' = [act EXCEPT ![a] = x]
        /\ lost' = (lost \/ Stale(a))
        /\ UNCHANGED <<schedule, now, history, alerts, crashes>>
    BY DEF Start
  <1> HIDE DEF state
  <1>4. /\ x \in Acts /\ x.pc = "running" /\ x.at = act[a].at /\ x.mode = act[a].mode
        /\ x.row \in Row /\ x.row.state = state
    BY <1>0, <1>2, NamesTyped DEF Acts, Row
  <1> HIDE DEF x
  <1>5. act' \in [Actors -> Acts] /\ act'[a] = x /\ Others(a)
    BY <1>0, <1>3, <1>4, Replaced
  <1>6. /\ job' \in Row \cup {Deleted}
        /\ job' # Deleted => Exists
        /\ Exists => job' # Deleted /\ job'.state = state
    BY <1>0, <1>2, <1>3, Persisted, RowIsThere
  <1>7. lost' \in BOOLEAN /\ (~lost' => ~lost /\ ~Stale(a))
    BY <1>3
  <1>8. Held(a)'
    BY <1>0, <1>2, <1>3, <1>4, <1>5, RowKept DEF Held
  <1>9. Domains'
    <2>1. history \in Seq(Entries) /\ alerts \in Seq(Clock)
      BY <1>0 DEF Typed
    <2> QED  BY <1>0, <1>3, <1>5, <1>6, <1>7, <1>8, <2>1, DomainsKept
  <1>10. Planned(a)'
    BY <1>0, <1>2, <1>3, <1>4, <1>5
       DEF Planned, Follows, Called, Kind, At, Every, BegunByDue, Begun
  <1>11. ~lost' => /\ ~lost /\ Exists /\ job' # Deleted
                   /\ SameCore(act[a].row.state, job.state)
                   /\ job'.state.last = job.state.last /\ job'.state.alerted = job.state.alerted
    <2>1. ~Stale(a) => Exists /\ SameCore(act[a].row.state, job.state)
      BY <1>0, FreshWrite
    <2> QED  BY <1>2, <1>6, <1>7, <2>1 DEF SameCore
  <1>12. Starts(a)
    BY <1>0, <1>2, <1>3, <1>4, <1>5, <1>6, <1>10, <1>11 DEF Starts, Goes
  <1> QED  BY <1>9, <1>12

LEMMA OneMoreTyped ==
    ASSUME NEW errs \in Nat
    PROVE  OneMore(errs) \in Nat
  BY AlertAssumption DEF OneMore

LEMMA FinishStep ==
    ASSUME Base, NEW a \in Actors, NEW ok \in BOOLEAN, NEW sent \in BOOLEAN, Finish(a, ok, sent)
    PROVE  Domains' /\ Finishes(a)
  <1> DEFINE state == act[a].row.state
             at    == act[a].at
             due   == IF act[a].mode = "force" /\ state.next # None /\ state.next > at
                      THEN state.next ELSE NextAfter(state.next, at)
             after == [state EXCEPT !.next    = due, !.running = None, !.last = at,
                                    !.errs    = IF ok THEN 0 ELSE OneMore(state.errs),
                                    !.alerted = IF sent THEN at ELSE state.alerted]
             off   == ok /\ (schedule.once \/ Kind = "at")
             x     == [act[a] EXCEPT !.pc = "recording"]
  <1>0. /\ Domains /\ Typed /\ act[a] \in Acts /\ act[a].pc = "running" /\ act[a].row \in Row
        /\ act[a].at \in Clock /\ schedule \in Jobs /\ Held(a)
        /\ act[a].mode \in Modes
    BY ActorTyped DEF Base, Finish, Held, Holds
  <1>1. state \in Kept /\ state.next \in Instants /\ state.errs \in Nat /\ at \in Past
    BY <1>0 DEF Row, Kept, Past
  <1>3. due \in Instants
    <2>1. CASE act[a].mode = "force" /\ state.next # None /\ state.next > at
      BY <1>1, <2>1
    <2>2. CASE ~(act[a].mode = "force" /\ state.next # None /\ state.next > at)
      <3>1. state.next # None => state.next <= at
        <4>1. CASE act[a].mode = "due"
          BY <1>0, <4>1 DEF Held
        <4>2. CASE act[a].mode = "force"
          BY <1>0, <1>1, <2>2, <4>2 DEF Instants, Times, Clock
        <4> QED  BY <1>0, <4>1, <4>2, NamesTyped
      <3> QED  BY <1>0, <1>1, <2>2, <3>1, NextAfterTyped
    <2> QED  BY <2>1, <2>2
  <1>4. /\ job' = IF Exists THEN [enabled |-> job.enabled /\ ~off, state |-> after] ELSE job
        /\ alerts' = IF sent THEN Append(alerts, at) ELSE alerts
        /\ act' = [act EXCEPT ![a] = x]
        /\ sent => MayAlert(state, at)
        /\ UNCHANGED <<schedule, now, history, crashes, lost>>
    BY DEF Finish
  <1> HIDE DEF due
  <1>5. after \in Kept
    <2>1. None \in Past /\ state.alerted \in Past
      BY <1>1 DEF Kept, Past
    <2>2. (IF ok THEN 0 ELSE OneMore(state.errs)) \in Nat
      BY <1>1, OneMoreTyped
    <2>3. (IF sent THEN at ELSE state.alerted) \in Past
      BY <1>1, <2>1
    <2> DEFINE e == IF ok THEN 0 ELSE OneMore(state.errs)
               l == IF sent THEN at ELSE state.alerted
    <2>4. after = [state EXCEPT !.next = due, !.running = None, !.last = at, !.errs = e, !.alerted = l]
      OBVIOUS
    <2> HIDE DEF e, l
    <2> QED  BY <1>1, <1>3, <2>1, <2>2, <2>3, <2>4 DEF Kept, e, l
  <1>6. after.last = at /\ after.running = None /\ after.alerted = IF sent THEN at ELSE state.alerted
    BY <1>1 DEF Kept
  <1> HIDE DEF after
  <1>7. /\ job' \in Row \cup {Deleted} /\ (Exists <=> job' # Deleted)
        /\ Exists => job'.state = after
    <2>1. CASE Exists
      <3>1. job \in Row /\ job' = [enabled |-> job.enabled /\ ~off, state |-> after]
        BY <1>0, <1>4, <2>1 DEF Typed, Exists
      <3>2. (job.enabled /\ ~off) \in BOOLEAN
        OBVIOUS
      <3> HIDE DEF off
      <3>3. job' \in Row /\ job'.state = after
        BY <1>5, <3>1, <3>2 DEF Row
      <3> QED  BY <2>1, <3>3, RowIsThere
    <2>2. CASE ~Exists
      BY <1>0, <1>4, <2>2 DEF Typed, Exists
    <2> QED  BY <2>1, <2>2
  <1>8. /\ x \in Acts /\ x.pc = "recording" /\ x.at = act[a].at /\ x.mode = act[a].mode
    BY <1>0, NamesTyped DEF Acts
  <1> HIDE DEF x
  <1>9. act' \in [Actors -> Acts] /\ act'[a] = x /\ Others(a)
    BY <1>0, <1>4, <1>8, Replaced
  <1>10. alerts' \in Seq(Clock)
    BY <1>0, <1>4 DEF Typed
  <1>11. Held(a)'
    BY <1>8, <1>9 DEF Held, Holds
  <1>12. Domains'
    <2>1. history \in Seq(Entries) /\ lost' \in BOOLEAN
      BY <1>0, <1>4 DEF Typed
    <2> QED  BY <1>0, <1>4, <1>7, <1>9, <1>10, <1>11, <2>1, DomainsKept
  <1>13. \/ /\ alerts' = Append(alerts, at)
            /\ Exists => job'.state.alerted = at
                         /\ (Cooldown > 0 /\ state.alerted # None => state.alerted + Cooldown <= at)
         \/ alerts' = alerts /\ (Exists => job'.state.alerted = state.alerted)
    <2>1. CASE sent
      BY <1>4, <1>6, <1>7, <2>1 DEF MayAlert
    <2>2. CASE ~sent
      BY <1>4, <1>6, <1>7, <2>2
    <2> QED  BY <2>1, <2>2
  <1>14. Finishes(a)
    BY <1>0, <1>4, <1>6, <1>7, <1>8, <1>9, <1>13 DEF Finishes, Goes
  <1> QED  BY <1>12, <1>14

LEMMA RestKept ==
    ASSUME Domains, NEW a \in Actors, Rest(a), schedule' = schedule, now' = now, job' = job,
           history' \in Seq(Entries), alerts' \in Seq(Clock), crashes' = crashes, lost' = lost
    PROVE  Domains' /\ Leaves(a)
  <1>1. /\ act' \in [Actors -> Acts] /\ Others(a)
        /\ act'[a].pc \in {"idle", "done"} /\ act'[a].at = 0
    BY Rests DEF Domains
  <1>2. Held(a)'
    BY <1>1, HeldAtRest
  <1>3. Domains'
    <2>1. lost' \in BOOLEAN /\ job' \in Row \cup {Deleted}
      BY DEF Domains, Typed
    <2> QED  BY <1>1, <1>2, <2>1, DomainsKept
  <1> QED  BY <1>1, <1>3 DEF Leaves

LEMMA RecordStep ==
    ASSUME Base, NEW a \in Actors, Record(a)
    PROVE  Domains' /\ Records(a)
  <1> DEFINE entry == [at |-> act[a].at, mode |-> act[a].mode]
  <1>1. /\ Domains /\ Rest(a) /\ act[a].pc = "recording" /\ Exists
        /\ history' = Append(history, entry)
        /\ UNCHANGED <<schedule, now, job, alerts, crashes, lost>>
    BY DEF Base, Record
  <1>2. entry \in Entries
    BY <1>1, ActorTyped DEF Entries
  <1>3. history' \in Seq(Entries)
    BY <1>1, <1>2 DEF Domains, Typed
  <1>4. Domains' /\ Leaves(a)
    BY <1>1, <1>3, RestKept DEF Domains, Typed
  <1> QED  BY <1>1, <1>4 DEF Records

LEMMA RecordFailsStep ==
    ASSUME Base, NEW a \in Actors, NEW sent \in BOOLEAN, RecordFails(a, sent)
    PROVE  Domains' /\ Gives(a)
  <1>1. /\ Domains /\ Rest(a) /\ act[a].pc = "recording" /\ ~Exists
        /\ alerts' = IF sent THEN Append(alerts, act[a].at) ELSE alerts
        /\ UNCHANGED <<schedule, now, job, history, crashes, lost>>
    BY DEF Base, RecordFails
  <1>2. alerts' \in Seq(Clock)
    BY <1>1, ActorTyped DEF Domains, Typed
  <1>3. Domains' /\ Leaves(a)
    BY <1>1, <1>2, RestKept DEF Domains, Typed
  <1> QED  BY <1>1, <1>3 DEF Gives

LEMMA AdvanceStep ==
    ASSUME Base, Advance
    PROVE  Domains' /\ Passes
  <1>0. Horizon \in Nat
    BY BoundsAssumption
  <1>1. /\ now' = now + 1 /\ now' \in Clock
        /\ UNCHANGED <<schedule, job, act, history, alerts, crashes, lost>>
    BY <1>0 DEF Base, Domains, Typed, Advance, Clock
  <1>2. /\ Row' = Row /\ Acts' = Acts /\ Clock' = Clock /\ Entries' = Entries /\ Actors' = Actors
    BY <1>1, RowKept DEF Acts, Clock, Entries, Actors
  <1>3. Typed'
    BY <1>1, <1>2 DEF Base, Domains, Typed, Deleted
  <1>4. ASSUME NEW a \in Actors  PROVE  Held(a)'
    BY <1>1, <1>2 DEF Base, Domains, Held, Holds
  <1>5. Domains'
    BY <1>2, <1>3, <1>4 DEF Domains
  <1> QED  BY <1>1, <1>5 DEF Passes

LEMMA CrashStep ==
    ASSUME Base, Crash
    PROVE  Domains' /\ Dies
  <1>0. /\ Typed /\ schedule \in Jobs /\ now \in Clock /\ job \in Row \cup {Deleted}
        /\ act \in [Actors -> Acts]
    BY DEF Base, Domains, Typed
  <1>1. /\ crashes < MaxCrashes /\ crashes' = crashes + 1 /\ job' = Reconciled(job, now)
        /\ UNCHANGED <<schedule, now, history, alerts, lost>>
    BY DEF Crash
  <1>2. ASSUME NEW a \in Actors
        PROVE  act'[a] \in {Idle, Done}
    BY DEF Crash
  <1>3. ASSUME NEW a \in Actors
        PROVE  act'[a] \in Acts /\ act'[a].pc \in {"idle", "done"} /\ act'[a].at = 0
    BY <1>2, <1>3, RestTyped
  <1>4. act' \in [Actors -> Acts]
    <2>1. act' = [a \in Actors |-> act'[a]]
      BY DEF Crash
    <2> QED  BY <1>3, <2>1
  <1>5. job' \in Row \cup {Deleted} /\ (job' # Deleted => Exists /\ SameCore(job'.state, job.state))
    <2>1. CASE Exists /\ schedule.managed
      <3> DEFINE row == [job EXCEPT !.enabled = TRUE]
      <3>1. row \in Row /\ row.state = job.state
        BY <1>0, <2>1 DEF Row, Exists
      <3>2. job' = [enabled |-> TRUE, state |-> Normalised(row, now)]
        BY <1>1, <2>1 DEF Reconciled
      <3> HIDE DEF row
      <3>3. Normalised(row, now) \in Kept /\ SameCore(Normalised(row, now), job.state)
        BY <1>0, <3>1, NormalisedTyped
      <3> QED  BY <2>1, <3>2, <3>3 DEF Row
    <2>2. CASE ~(Exists /\ schedule.managed)
      BY <1>0, <1>1, <2>2, SameCoreSelf DEF Reconciled, Exists
    <2> QED  BY <2>1, <2>2
  <1>6. crashes' \in 0..MaxCrashes /\ lost' \in BOOLEAN
    <2>1. lost' \in BOOLEAN
      BY <1>0, <1>1 DEF Typed
    <2> QED  BY <1>0, <1>1, <2>1, BoundsAssumption DEF Typed
  <1>7. /\ Row' = Row /\ Acts' = Acts /\ Clock' = Clock /\ Entries' = Entries /\ Actors' = Actors
    BY <1>1, RowKept DEF Acts, Clock, Entries, Actors
  <1>8. Typed'
    BY <1>0, <1>1, <1>4, <1>5, <1>6, <1>7 DEF Typed, Deleted
  <1>9. ASSUME NEW a \in Actors  PROVE  Held(a)'
    BY <1>3, <1>7 DEF Held, Holds
  <1>10. Domains'
    BY <1>7, <1>8, <1>9 DEF Domains
  <1>11. Dies
    BY <1>1, <1>3, <1>5 DEF Dies
  <1> QED  BY <1>10, <1>11

\* Every step is of one of these kinds.
LEMMA StepKinds ==
    ASSUME Base, Next
    PROVE  /\ Domains'
           /\ \/ Passes \/ Dies
              \/ \E a \in Actors : Looks(a) \/ Starts(a) \/ Finishes(a) \/ Records(a) \/ Gives(a)
  <1>0. Ticks \subseteq Actors /\ Requests \subseteq Actors /\ Editors \subseteq Actors
    BY DEF Actors
  <1> DEFINE Kinds(a) == Looks(a) \/ Starts(a) \/ Finishes(a) \/ Records(a) \/ Gives(a)
  <1>1. ASSUME NEW a \in Actors, Run(a)  PROVE  Domains' /\ Kinds(a)
    <2>1. CASE Start(a)
      BY <2>1, StartStep
    <2>2. ASSUME NEW ok \in BOOLEAN, NEW sent \in BOOLEAN, Finish(a, ok, sent)
          PROVE  Domains' /\ Kinds(a)
      BY <2>2, FinishStep
    <2>3. CASE Record(a)
      BY <2>3, RecordStep
    <2>4. ASSUME NEW sent \in BOOLEAN, RecordFails(a, sent)  PROVE  Domains' /\ Kinds(a)
      BY <2>4, RecordFailsStep
    <2> QED  BY <1>1, <2>1, <2>2, <2>3, <2>4 DEF Run
  <1>2. ASSUME NEW a \in Ticks, TickStep(a)  PROVE  Domains' /\ Kinds(a)
    BY <1>0, <1>1, <1>2, TickListStep, TickWriteStep, RunDueStep DEF TickStep
  <1>3. ASSUME NEW a \in Requests, RequestStep(a)  PROVE  Domains' /\ Kinds(a)
    BY <1>0, <1>1, <1>3, RunNowStep DEF RequestStep
  <1>4. ASSUME NEW a \in Editors, EditStep(a)  PROVE  Domains' /\ Kinds(a)
    BY <1>0, <1>4, EditReadStep, EditWriteStep DEF EditStep
  <1> HIDE DEF Kinds
  <1>5. Domains' /\ (Passes \/ Dies \/ \E a \in Actors : Kinds(a))
    BY <1>0, <1>2, <1>3, <1>4, AdvanceStep, CrashStep DEF Next
  <1> QED  BY <1>5 DEF Kinds
-----------------------------------------------------------------------------
(* What no lost state takes away, over the kinds of steps.                 *)

LEMMA ClockTyped ==
    ASSUME Domains
    PROVE  /\ now \in Nat /\ Cooldown \in Nat /\ Every \in Nat \ {0} /\ At \in Nat
           /\ None \notin Int /\ Clock \subseteq Nat /\ 0 \in Clock
           /\ Exists => /\ job.state.last \in Nat \/ job.state.last = None
                        /\ job.state.alerted \in Nat \/ job.state.alerted = None
                        /\ job.state.running \in Nat \/ job.state.running = None
           /\ \A a \in Actors : act[a].at \in Nat
           /\ \A a \in Actors : Holds(a) => act[a].row.state.last \in Nat \/ act[a].row.state.last = None
           /\ \A i \in DOMAIN history : history[i].at \in Nat
           /\ \A i \in DOMAIN alerts : alerts[i] \in Nat
  <1>1. /\ schedule \in Jobs /\ Clock \subseteq Nat /\ now \in Clock
        /\ Cooldown \in Nat /\ Every \in Nat \ {0} /\ At \in Nat /\ None \notin Int /\ 0 \in Clock
    BY ScheduleTyped, AlertAssumption DEF Domains, Typed
  <1>2. Exists => /\ job.state.last \in Nat \/ job.state.last = None
                  /\ job.state.alerted \in Nat \/ job.state.alerted = None
                  /\ job.state.running \in Nat \/ job.state.running = None
    <2>1. Exists => job \in Row
      BY DEF Domains, Typed, Exists
    <2> QED  BY <1>1, <2>1 DEF Row, Kept, Past
  <1>3. \A a \in Actors : act[a].at \in Nat
    BY <1>1, ActorTyped
  <1>4. \A i \in DOMAIN history : history[i].at \in Nat
    <2>1. history \in Seq(Entries)
      BY DEF Domains, Typed
    <2>2. ASSUME NEW i \in DOMAIN history  PROVE  history[i] \in Entries
      BY <2>1, <2>2
    <2> QED  BY <1>1, <2>2 DEF Entries
  <1>5. \A i \in DOMAIN alerts : alerts[i] \in Nat
    <2>1. alerts \in Seq(Clock)
      BY DEF Domains, Typed
    <2>2. ASSUME NEW i \in DOMAIN alerts  PROVE  alerts[i] \in Clock
      BY <2>1, <2>2
    <2> QED  BY <1>1, <2>2
  <1>6. ASSUME NEW a \in Actors, Holds(a)
        PROVE  act[a].row.state.last \in Nat \/ act[a].row.state.last = None
    <2>1. act[a].row \in Row
      BY <1>6 DEF Domains, Held
    <2> QED  BY <1>1, <2>1 DEF Row, Kept, Past
  <1> QED  BY <1>1, <1>2, <1>3, <1>4, <1>5, <1>6

LEMMA ScheduleStays ==
    ASSUME Next
    PROVE  schedule' = schedule
  BY DEF Next, Advance, TickStep, RequestStep, EditStep, Run, TickList, TickWrite,
         RunDue, RunNow, Start, Finish, Record, RecordFails, EditRead, EditWrite, Crash

\* Who is recording afterwards.
LEMMA RecordsOn ==
    /\ Passes => \A b \in Actors : act'[b] = act[b]
    /\ Dies => \A b \in Actors : ~Begun(b)'
    /\ \A a \in Actors : Looks(a) =>
         /\ ~Begun(a)' /\ ~Begun(a) /\ \A b \in Actors \ {a} : act'[b] = act[b]
    /\ \A a \in Actors : Starts(a) =>
         /\ act'[a].pc = "running" /\ ~Begun(a) /\ act'[a].at = act[a].at
         /\ act'[a].mode = act[a].mode
         /\ \A b \in Actors \ {a} : act'[b] = act[b]
    /\ \A a \in Actors : Finishes(a) =>
         /\ act'[a].pc = "recording" /\ act[a].pc = "running" /\ act'[a].at = act[a].at
         /\ act'[a].mode = act[a].mode
         /\ \A b \in Actors \ {a} : act'[b] = act[b]
    /\ \A a \in Actors : Records(a) \/ Gives(a) =>
         /\ ~Begun(a)' /\ act[a].pc = "recording"
         /\ \A b \in Actors \ {a} : act'[b] = act[b]
  BY DEF Passes, Dies, Looks, Starts, Finishes, Records, Gives, Goes, Leaves, Others, Begun

LEMMA Grown ==
    ASSUME NEW S, NEW s \in Seq(S), NEW e
    PROVE  /\ DOMAIN Append(s, e) = DOMAIN s \cup {Len(s) + 1} /\ Len(s) + 1 \notin DOMAIN s
           /\ Append(s, e)[Len(s) + 1] = e /\ \A i \in DOMAIN s : Append(s, e)[i] = s[i]
           /\ \A i \in DOMAIN s : i < Len(s) + 1
           /\ DOMAIN s \subseteq Int /\ Len(s) + 1 \in Int
  OBVIOUS

LEMMA FollowsOn ==
    ASSUME NEW last, NEW x \in Nat, NEW y \in Nat, x <= y, last \in Nat \/ last = None, Follows(last, x)
    PROVE  Follows(last, y)
  BY DEF Follows

\* No row, stored or held, is from the future.
LEMMA PastKept ==
    ASSUME Base, Next
    PROVE  Exists' => Follows(job'.state.last, now')
  <1>0. /\ Domains /\ now \in Nat /\ (Exists => Follows(job.state.last, now))
        /\ \A a \in Actors : Planned(a) /\ act[a].at \in Nat
    BY ClockTyped DEF Base
  <1> USE DEF Exists
  <1>1. CASE Passes
    <2>1. now' = now + 1 /\ job' = job
      BY <1>1 DEF Passes
    <2> QED  BY <1>0, <2>1, ClockTyped, FollowsOn
  <1>2. CASE Dies
    BY <1>0, <1>2 DEF Dies, SameCore
  <1>3. ASSUME NEW a \in Actors, Looks(a)  PROVE  Exists' => Follows(job'.state.last, now')
    <2>1. Holds(a) => Follows(act[a].row.state.last, now)
      BY <1>0 DEF Planned
    <2> QED  BY <1>0, <1>3, <2>1 DEF Looks
  <1>4. ASSUME NEW a \in Actors, Starts(a)  PROVE  Exists' => Follows(job'.state.last, now')
    <2>1. Follows(act[a].row.state.last, now)
      BY <1>0, <1>4 DEF Planned, Holds, Starts
    <2> QED  BY <1>4, <2>1 DEF Starts
  <1>5. ASSUME NEW a \in Actors, Finishes(a)  PROVE  Exists' => Follows(job'.state.last, now')
    <2>1. act[a].at <= now
      BY <1>0 DEF Planned
    <2> QED  BY <1>5, <2>1 DEF Finishes, Follows
  <1>6. ASSUME NEW a \in Actors, Records(a) \/ Gives(a)
        PROVE  Exists' => Follows(job'.state.last, now')
    BY <1>0, <1>6 DEF Records, Gives
  <1> QED  BY <1>1, <1>2, <1>3, <1>4, <1>5, <1>6, StepKinds

\* An actor that does nothing goes by what it went by.
LEMMA PlannedStays ==
    ASSUME Base, NEW b \in Actors, act'[b] = act[b], schedule' = schedule, now' \in Nat, now <= now'
    PROVE  Planned(b)'
  <1>1. /\ Planned(b) /\ now \in Nat /\ act[b].at \in Nat /\ act[b].at <= now
        /\ Holds(b) => /\ act[b].row.state.last \in Nat \/ act[b].row.state.last = None
                       /\ Follows(act[b].row.state.last, now)
    BY ClockTyped DEF Base, Planned
  <1>2. act[b].at <= now'
    BY <1>1
  <1>3. Holds(b) => Follows(act[b].row.state.last, now')
    BY <1>1, FollowsOn
  <1> QED  BY <1>1, <1>2, <1>3
           DEF Planned, Holds, Follows, Called, Kind, At, Every, BegunByDue, Begun

LEMMA PlannedKept ==
    ASSUME Base, Next
    PROVE  \A b \in Actors : Planned(b)'
  <1>0. Domains /\ now \in Nat /\ now <= now /\ schedule' = schedule
    BY ClockTyped, ScheduleStays DEF Base
  <1>1. ASSUME Passes, NEW b \in Actors  PROVE  Planned(b)'
    <2>1. now' \in Nat /\ now <= now' /\ act'[b] = act[b]
      BY <1>0, <1>1 DEF Passes
    <2> QED  BY <1>0, <2>1, PlannedStays
  <1>2. ASSUME Dies, NEW b \in Actors  PROVE  Planned(b)'
    BY <1>0, <1>2, HeldAtRest DEF Dies
  <1>3. ASSUME NEW a \in Actors, Looks(a) \/ Starts(a), NEW b \in Actors  PROVE  Planned(b)'
    <2>1. Planned(a)' /\ now' = now /\ Others(a)
      BY <1>3 DEF Looks, Starts, Goes
    <2>2. CASE b # a
      BY <1>0, <2>1, <2>2, PlannedStays DEF Others
    <2> QED  BY <2>1, <2>2
  <1>4. ASSUME NEW a \in Actors, Finishes(a), NEW b \in Actors  PROVE  Planned(b)'
    <2>1. /\ now' = now /\ Others(a) /\ act'[a].at = act[a].at /\ act'[a].mode = act[a].mode
          /\ act[a].pc = "running" /\ act'[a].pc = "recording"
      BY <1>4 DEF Finishes, Goes
    <2>2. Planned(a)
      BY DEF Base
    <2>3. CASE b = a
      BY <1>0, <2>1, <2>2, <2>3 DEF Planned, Holds, BegunByDue, Begun, Kind, At
    <2>4. CASE b # a
      BY <1>0, <2>1, <2>4, PlannedStays DEF Others
    <2> QED  BY <2>3, <2>4
  <1>5. ASSUME NEW a \in Actors, Records(a) \/ Gives(a), NEW b \in Actors  PROVE  Planned(b)'
    <2>1. now' = now /\ Leaves(a) /\ Others(a)
      BY <1>5 DEF Records, Gives, Leaves
    <2>2. CASE b = a
      BY <1>0, <2>1, <2>2, HeldAtRest DEF Leaves
    <2>3. CASE b # a
      BY <1>0, <2>1, <2>3, PlannedStays DEF Others
    <2> QED  BY <2>2, <2>3
  <1> QED  BY <1>1, <1>2, <1>3, <1>4, <1>5, StepKinds

\* What is on record stays there.
LEMMA RecordStays ==
    ASSUME Base, Next, crashes' = 0, Exists'
    PROVE  Recorded \subseteq Recorded'
  <1>0. Domains /\ history \in Seq(Entries) /\ crashes \in Nat
    BY BoundsAssumption DEF Base, Domains, Typed
  <1>1. CASE Passes
    BY <1>1 DEF Passes, Recorded
  <1>2. CASE Dies
    BY <1>0, <1>2 DEF Dies
  <1>3. ASSUME NEW a \in Actors, Looks(a) \/ Starts(a) \/ Finishes(a)
        PROVE  Recorded \subseteq Recorded'
    <2>1. \A b \in Actors : act[b].pc = "recording" => act'[b] = act[b]
      BY <1>3, RecordsOn DEF Begun
    <2>2. history' = history
      BY <1>3 DEF Looks, Starts, Finishes
    <2> QED  BY <2>1, <2>2 DEF Recorded
  <1>4. ASSUME NEW a \in Actors, Records(a)  PROVE  Recorded \subseteq Recorded'
    <2> DEFINE e == [at |-> act[a].at, mode |-> act[a].mode]
    <2>1. history' = Append(history, e)
      BY <1>4 DEF Records
    <2>2. e.at = act[a].at
      OBVIOUS
    <2> HIDE DEF e
    <2>3. /\ DOMAIN history' = DOMAIN history \cup {Len(history) + 1}
          /\ history'[Len(history) + 1] = e /\ \A i \in DOMAIN history : history'[i] = history[i]
      BY <1>0, <2>1, Grown
    <2>4. \A b \in Actors : act[b].pc = "recording" => b = a \/ act'[b] = act[b]
      BY <1>4, RecordsOn
    <2>5. ASSUME NEW i \in DOMAIN history  PROVE  history[i].at \in Recorded'
      BY <2>3 DEF Recorded
    <2>6. ASSUME NEW b \in Actors, act[b].pc = "recording"  PROVE  act[b].at \in Recorded'
      <3>1. act[a].at \in Recorded'
        BY <2>2, <2>3 DEF Recorded
      <3>2. CASE act'[b] = act[b]
        BY <2>6, <3>2 DEF Recorded
      <3> QED  BY <2>4, <2>6, <3>1, <3>2
    <2>7. None \in Recorded'
      BY DEF Recorded
    <2> QED  BY <2>5, <2>6, <2>7 DEF Recorded
  <1>5. ASSUME NEW a \in Actors, Gives(a)  PROVE  Recorded \subseteq Recorded'
    BY <1>5 DEF Gives, Exists
  <1> QED  BY <1>1, <1>2, <1>3, <1>4, <1>5, StepKinds

LEMMA RememberedKept ==
    ASSUME Base, Next
    PROVE  Remembered'
  <1>1. SUFFICES ASSUME Exists', crashes' = 0
                 PROVE  /\ job'.state.last \in Recorded'
                        /\ \A b \in Actors : Holds(b)' => act'[b].row.state.last \in Recorded'
    BY DEF Remembered
  <1>2. Recorded \subseteq Recorded'
    BY <1>1, RecordStays
  <1>3. /\ Exists /\ crashes = 0 => /\ job.state.last \in Recorded
                                    /\ \A b \in Actors : Holds(b) => act[b].row.state.last \in Recorded
        /\ crashes \in Nat
    BY BoundsAssumption DEF Base, Remembered, Domains, Typed
  <1>4. ASSUME NEW a \in Actors, Others(a), Exists, crashes = 0,
               job'.state.last \in Recorded', Holds(a)' => act'[a].row.state.last \in Recorded'
        PROVE  \A b \in Actors : Holds(b)' => act'[b].row.state.last \in Recorded'
    <2>1. ASSUME NEW b \in Actors \ {a}, Holds(b)'  PROVE  act'[b].row.state.last \in Recorded'
      BY <1>2, <1>3, <1>4, <2>1 DEF Others, Holds
    <2> QED  BY <1>4, <2>1
  <1>5. CASE Passes
    BY <1>1, <1>2, <1>3, <1>5 DEF Passes, Exists, Holds
  <1>6. CASE Dies
    BY <1>1, <1>3, <1>6 DEF Dies
  <1>7. ASSUME NEW a \in Actors, Looks(a)
        PROVE  /\ job'.state.last \in Recorded'
               /\ \A b \in Actors : Holds(b)' => act'[b].row.state.last \in Recorded'
    <2>1. /\ Exists /\ crashes = 0 /\ Others(a)
          /\ job'.state.last \in {job.state.last} \/ (Holds(a) /\ job'.state.last = act[a].row.state.last)
          /\ Holds(a)' => act'[a].row.state.last = job.state.last
      BY <1>1, <1>7 DEF Looks, Exists
    <2>2. job'.state.last \in Recorded' /\ (Holds(a)' => act'[a].row.state.last \in Recorded')
      BY <1>2, <1>3, <2>1
    <2> QED  BY <1>4, <2>1, <2>2
  <1>8. ASSUME NEW a \in Actors, Starts(a)
        PROVE  /\ job'.state.last \in Recorded'
               /\ \A b \in Actors : Holds(b)' => act'[b].row.state.last \in Recorded'
    <2>1. /\ Exists /\ crashes = 0 /\ Others(a) /\ Holds(a)
          /\ job'.state.last = act[a].row.state.last
          /\ act'[a].row.state.last = act[a].row.state.last
      BY <1>1, <1>8 DEF Starts, Goes, Exists, Holds
    <2>2. job'.state.last \in Recorded' /\ act'[a].row.state.last \in Recorded'
      BY <1>2, <1>3, <2>1
    <2> QED  BY <1>4, <2>1, <2>2
  <1>9. ASSUME NEW a \in Actors, Finishes(a)
        PROVE  /\ job'.state.last \in Recorded'
               /\ \A b \in Actors : Holds(b)' => act'[b].row.state.last \in Recorded'
    <2>1. /\ Exists /\ crashes = 0 /\ Others(a) /\ act'[a].pc = "recording"
          /\ job'.state.last = act[a].at /\ act'[a].at = act[a].at
      BY <1>1, <1>9 DEF Finishes, Goes, Exists
    <2>2. job'.state.last \in Recorded' /\ ~Holds(a)'
      BY <2>1 DEF Recorded, Holds
    <2> QED  BY <1>4, <2>1, <2>2
  <1>10. ASSUME NEW a \in Actors, Records(a) \/ Gives(a)
         PROVE  /\ job'.state.last \in Recorded'
                /\ \A b \in Actors : Holds(b)' => act'[b].row.state.last \in Recorded'
    <2>1. Exists /\ crashes = 0 /\ Others(a) /\ job' = job /\ ~Holds(a)'
      BY <1>1, <1>10 DEF Records, Gives, Leaves, Exists, Holds
    <2>2. job'.state.last \in Recorded'
      BY <1>2, <1>3, <2>1
    <2> QED  BY <1>4, <2>1, <2>2
  <1> QED  BY <1>5, <1>6, <1>7, <1>8, <1>9, <1>10, StepKinds

\* Nor does the scheduler begin a job before its instant.
LEMMA NotBeforeKept ==
    ASSUME Base, Next
    PROVE  NotBefore'
  <1>0. /\ Domains /\ history \in Seq(Entries) /\ schedule' = schedule
        /\ NotBefore /\ \A a \in Actors : Planned(a)
    BY ScheduleStays DEF Base, Domains, Typed
  <1>1. ASSUME history' = history  PROVE  NotBefore'
    BY <1>0, <1>1 DEF NotBefore, Kind, At
  <1>2. ASSUME NEW a \in Actors, Records(a)  PROVE  NotBefore'
    <2> DEFINE e == [at |-> act[a].at, mode |-> act[a].mode]
    <2>1. history' = Append(history, e) /\ act[a].pc = "recording"
      BY <1>2 DEF Records
    <2>2. e.at = act[a].at /\ e.mode = act[a].mode
      OBVIOUS
    <2> HIDE DEF e
    <2>3. /\ DOMAIN history' = DOMAIN history \cup {Len(history) + 1}
          /\ history'[Len(history) + 1] = e /\ \A i \in DOMAIN history : history'[i] = history[i]
      BY <1>0, <2>1, Grown
    <2>4. Kind = "at" /\ e.mode = "due" => e.at >= At
      BY <1>0, <2>1, <2>2 DEF Planned, BegunByDue, Begun
    <2> QED  BY <1>0, <2>3, <2>4 DEF NotBefore, Kind, At
  <1>3. ASSUME NEW a \in Actors, Looks(a) \/ Starts(a) \/ Finishes(a) \/ Gives(a)  PROVE  NotBefore'
    BY <1>1, <1>3 DEF Looks, Starts, Finishes, Gives
  <1>4. CASE Passes \/ Dies
    BY <1>1, <1>4 DEF Passes, Dies
  <1> QED  BY <1>2, <1>3, <1>4, StepKinds

LEMMA BaseKept ==
    ASSUME Base, Next
    PROVE  Base'
  <1>1. Domains'
    BY StepKinds
  <1> QED  BY <1>1, PastKept, PlannedKept, RememberedKept, NotBeforeKept DEF Base, Exists
-----------------------------------------------------------------------------
(* What holds until a state is lost, over the kinds of steps.              *)

LEMMA NothingLost ==
    ASSUME Base, Next, ~lost'
    PROVE  ~lost
  BY StepKinds DEF Looks, Starts, Finishes, Records, Gives, Passes, Dies

\* Who follows a step that is over.
LEMMA AfterFinish ==
    ASSUME Sound, NEW a \in Actors, Finishes(a)
    PROVE  \A b \in Actors : ~Executing(b)'
  <1>1. Executing(a) /\ act'[a].pc = "recording" /\ Others(a)
    BY DEF Finishes, Goes, Executing
  <1>2. \A b \in Actors \ {a} : ~Executing(b) /\ act'[b] = act[b]
    BY <1>1 DEF Sound, Story, Single, Others
  <1> QED  BY <1>1, <1>2 DEF Executing

\* When a run starts from a row that is as it was read, there is no other.
LEMMA BeforeStart ==
    ASSUME Sound, NEW a \in Actors, Starts(a), ~lost'
    PROVE  /\ Exists /\ job' # Deleted /\ job.state.running = None /\ ~Begun(a)
           /\ Called(act[a].mode, job.state.last, act[a].at) /\ Follows(job.state.last, act[a].at)
           /\ \A b \in Actors : ~Executing(b)
           /\ \A b \in Actors \ {a} : act'[b] = act[b]
  <1>1. /\ act[a].pc = "read" /\ Planned(a) /\ Others(a) /\ Exists /\ job' # Deleted
        /\ SameCore(act[a].row.state, job.state)
    BY DEF Starts, Goes, Sound, Base
  <1>2. /\ job.state.running = None /\ ~Begun(a)
        /\ Called(act[a].mode, job.state.last, act[a].at) /\ Follows(job.state.last, act[a].at)
    BY <1>1 DEF Planned, SameCore, Begun
  <1>3. ASSUME NEW b \in Actors, Executing(b)  PROVE  FALSE
    <2>1. act[b].row.state.running = None
      BY <1>1, <1>2, <1>3 DEF Sound, Story, Marked, SameCore
    <2>2. act[b].row.state.running = act[b].at
      BY <1>3 DEF Sound, Base, Planned, Executing
    <2> QED  BY <2>1, <2>2, ClockTyped DEF Sound, Base
  <1> QED  BY <1>1, <1>2, <1>3 DEF Others

\* Who executes afterwards: nobody new, but who starts.
LEMMA ExecutesOn ==
    ASSUME Sound, Next, ~lost'
    PROVE  \/ Passes /\ \A b \in Actors : act'[b] = act[b]
           \/ Dies /\ \A b \in Actors : ~Executing(b)'
           \/ \E a \in Actors : /\ Looks(a) \/ Records(a) \/ Gives(a)
                                /\ \A b \in Actors \ {a} : act'[b] = act[b]
                                /\ ~Executing(a) /\ ~Executing(a)'
           \/ \E a \in Actors : Starts(a) /\ \A b \in Actors : Executing(b)' <=> b = a
           \/ \E a \in Actors : Finishes(a) /\ \A b \in Actors : ~Executing(b)'
  <1>0. Base
    BY DEF Sound
  <1>1. CASE Passes
    BY <1>1, RecordsOn
  <1>2. CASE Dies
    BY <1>2, RecordsOn DEF Executing, Begun
  <1>3. ASSUME NEW a \in Actors, Looks(a) \/ Records(a) \/ Gives(a)
        PROVE  /\ \A b \in Actors \ {a} : act'[b] = act[b]
               /\ ~Executing(a) /\ ~Executing(a)'
    BY <1>3, RecordsOn DEF Executing, Begun
  <1>4. ASSUME NEW a \in Actors, Starts(a)  PROVE  \A b \in Actors : Executing(b)' <=> b = a
    <2>1. act'[a].pc = "running"
      BY <1>4 DEF Starts
    <2>2. \A b \in Actors \ {a} : ~Executing(b) /\ act'[b] = act[b]
      BY <1>4, BeforeStart
    <2> QED  BY <2>1, <2>2 DEF Executing
  <1>5. ASSUME NEW a \in Actors, Finishes(a)  PROVE  \A b \in Actors : ~Executing(b)'
    BY <1>5, AfterFinish
  <1> QED  BY <1>0, <1>1, <1>2, <1>3, <1>4, <1>5, StepKinds DEF Sound

LEMMA SingleKept ==
    ASSUME Sound, Next, ~lost'
    PROVE  Single'
  <1>1. Single
    BY DEF Sound, Story
  <1>2. \/ \A b \in Actors : Executing(b)' => Executing(b)
        \/ \E a \in Actors : \A b \in Actors : Executing(b)' <=> b = a
    BY ExecutesOn DEF Executing
  <1> QED  BY <1>1, <1>2 DEF Single

\* What an execution has marked stays so.
LEMMA MarkedKept ==
    ASSUME Sound, Next, ~lost'
    PROVE  Marked'
  <1>1. Marked
    BY DEF Sound, Story
  <1>2. CASE Passes /\ \A b \in Actors : act'[b] = act[b]
    BY <1>1, <1>2 DEF Passes, Marked, Exists, Executing
  <1>3. ASSUME \A b \in Actors : ~Executing(b)'  PROVE  Marked'
    BY <1>3 DEF Marked
  <1>4. ASSUME NEW a \in Actors, Looks(a) \/ Records(a) \/ Gives(a),
               \A b \in Actors \ {a} : act'[b] = act[b], ~Executing(a)'
        PROVE  Marked'
    <2>1. job' # Deleted => Exists /\ SameCore(job'.state, job.state)
      BY <1>4, SameCoreSelf DEF Looks, Records, Gives, Exists
    <2>2. ASSUME Exists', NEW b \in Actors, Executing(b)'
          PROVE  SameCore(act'[b].row.state, job'.state)
      <3>1. b # a /\ act'[b] = act[b] /\ Executing(b)
        BY <1>4, <2>2 DEF Executing
      <3>2. SameCore(act[b].row.state, job.state)
        BY <1>1, <2>1, <2>2, <3>1 DEF Marked, Exists
      <3> QED  BY <2>1, <2>2, <3>1, <3>2 DEF SameCore, Exists
    <2> QED  BY <2>2 DEF Marked, SameCore
  <1>5. ASSUME NEW a \in Actors, Starts(a), \A b \in Actors : Executing(b)' <=> b = a
        PROVE  Marked'
    <2>1. job'.state = act'[a].row.state
      BY <1>5, BeforeStart DEF Starts
    <2> QED  BY <1>5, <2>1, SameCoreSelf DEF Marked, SameCore
  <1> QED  BY <1>2, <1>3, <1>4, <1>5, ExecutesOn

\* The mark is there exactly during an execution.
LEMMA MarkKept ==
    ASSUME Sound, Next, ~lost'
    PROVE  MarkTruthful'
  <1>0. /\ MarkTruthful /\ ~lost /\ Domains /\ crashes \in Nat
        /\ \A b \in Actors : act[b].at \in Nat /\ act[b].at # None
    BY ClockTyped, BoundsAssumption DEF Sound, Base, Story, Domains, Typed
  <1> USE DEF MarkTruthful, Exists
  <1>1. CASE Passes /\ \A b \in Actors : act'[b] = act[b]
    BY <1>0, <1>1 DEF Passes, Executing
  <1>2. CASE Dies
    BY <1>0, <1>2 DEF Dies
  <1>3. ASSUME NEW a \in Actors, Looks(a) \/ Records(a) \/ Gives(a),
               \A b \in Actors \ {a} : act'[b] = act[b], ~Executing(a), ~Executing(a)'
        PROVE  MarkTruthful'
    <2>1. \A b \in Actors : Executing(b)' <=> Executing(b)
      BY <1>3 DEF Executing
    <2>2. /\ crashes' = crashes
          /\ job' # Deleted => Exists /\ job'.state.running = job.state.running
      BY <1>3 DEF Looks, Records, Gives, SameCore
    <2> QED  BY <1>0, <2>1, <2>2
  <1>4. ASSUME NEW a \in Actors, Starts(a), \A b \in Actors : Executing(b)' <=> b = a
        PROVE  MarkTruthful'
    <2>1. job'.state.running = act[a].at
      <3>1. job'.state = act'[a].row.state /\ Planned(a)' /\ act'[a].at = act[a].at
            /\ act'[a].pc = "running"
        BY <1>4, BeforeStart DEF Starts, Goes
      <3> QED  BY <3>1 DEF Planned
    <2> QED  BY <1>0, <1>4, <2>1
  <1>5. ASSUME NEW a \in Actors, Finishes(a), \A b \in Actors : ~Executing(b)'
        PROVE  MarkTruthful'
    BY <1>0, <1>5 DEF Finishes
  <1> QED  BY <1>1, <1>2, <1>3, <1>4, <1>5, ExecutesOn

\* The run that ends was begun when the last one had ended.
LEMMA RunIsLatest ==
    ASSUME Sound, NEW a \in Actors, Finishes(a), Exists
    PROVE  /\ \A t \in Nat : Ended(t) => t <= act[a].at
           /\ \A i \in DOMAIN history : history[i].at <= act[a].at
           /\ \A b \in Actors : act[b].pc = "recording" => act[b].at <= act[a].at
           /\ job.state.alerted # None => job.state.alerted <= act[a].at
           /\ \A i \in DOMAIN alerts : alerts[i] <= act[a].at
           /\ Follows(job.state.last, act[a].at) /\ Called(act[a].mode, job.state.last, act[a].at)
           /\ act[a].at <= now /\ act[a].row.state.alerted = job.state.alerted
  <1>0. /\ LastIsLatest /\ Domains /\ Executing(a) /\ act[a].at <= now /\ act[a].pc = "running"
        /\ Planned(a) /\ SameCore(act[a].row.state, job.state)
    BY DEF Sound, Base, Story, Marked, Planned, Finishes, Executing
  <1>1. /\ Follows(job.state.last, act[a].at) /\ Called(act[a].mode, job.state.last, act[a].at)
        /\ act[a].row.state.alerted = job.state.alerted
    BY <1>0 DEF Planned, SameCore
  <1>2. \A t \in Nat : Ended(t) => t <= act[a].at
    BY <1>0, <1>1, ClockTyped DEF Ended, Follows
  <1>3. \A i \in DOMAIN history : history[i].at <= act[a].at
    BY <1>0, <1>2, ClockTyped DEF LastIsLatest
  <1>4. \A b \in Actors : act[b].pc = "recording" => act[b].at <= act[a].at
    BY <1>0, <1>2, ClockTyped DEF LastIsLatest
  <1>5. job.state.alerted # None => job.state.alerted <= act[a].at
    BY <1>0, <1>2, ClockTyped DEF LastIsLatest
  <1>6. \A i \in DOMAIN alerts : alerts[i] <= act[a].at
    <2>1. ASSUME NEW i \in DOMAIN alerts  PROVE  alerts[i] <= act[a].at
      <3>1. job.state.alerted # None /\ alerts[i] <= job.state.alerted /\ job.state.alerted <= act[a].at
        BY <1>0, <1>5 DEF LastIsLatest
      <3>2. alerts[i] \in Nat /\ job.state.alerted \in Nat /\ act[a].at \in Nat
        BY <1>0, <3>1, ClockTyped
      <3> QED  BY <3>1, <3>2
    <2> QED  BY <2>1
  <1> QED  BY <1>0, <1>1, <1>2, <1>3, <1>4, <1>5, <1>6

\* Nothing that ended is later than the row's last run.
LEMMA LatestKept ==
    ASSUME Sound, Next, ~lost'
    PROVE  LastIsLatest'
  <1>0. LastIsLatest /\ Domains /\ history \in Seq(Entries) /\ alerts \in Seq(Clock) /\ now \in Nat
    BY ClockTyped DEF Sound, Base, Story, Domains, Typed
  <1> USE DEF LastIsLatest
  <1>1. CASE Passes
    BY <1>0, <1>1 DEF Passes, Exists, Ended
  <1>2. CASE Dies
    <2>1. \A b \in Actors : act'[b].pc # "recording"
      BY <1>2 DEF Dies
    <2> QED  BY <1>0, <1>2, <2>1 DEF Dies, SameCore, Exists, Ended
  <1>3. ASSUME NEW a \in Actors, Looks(a)  PROVE  LastIsLatest'
    <2>1. \A b \in Actors : act'[b].pc = "recording" => act'[b] = act[b]
      BY <1>3, RecordsOn DEF Begun
    <2> QED  BY <1>0, <1>3, <2>1 DEF Looks, SameCore, Exists, Ended
  <1>4. ASSUME NEW a \in Actors, Starts(a)  PROVE  LastIsLatest'
    <2>1. \A b \in Actors : act'[b].pc = "recording" => act'[b] = act[b]
      BY <1>4, RecordsOn DEF Begun
    <2>2. Exists
      BY <1>4, BeforeStart
    <2> QED  BY <1>0, <1>4, <2>1, <2>2 DEF Starts, Exists, Ended
  <1>5. ASSUME NEW a \in Actors, Finishes(a)  PROVE  LastIsLatest'
    <2>1. SUFFICES ASSUME Exists'  PROVE  LastIsLatest'
      OBVIOUS
    <2>2. /\ Exists /\ now' = now /\ history' = history
          /\ job'.state.last = act[a].at
      BY <1>5, <2>1 DEF Finishes, Exists
    <2>3. act[a].at \in Nat /\ act[a].at # None
      BY <1>0, ClockTyped
    <2>4. \A t : Ended(t)' <=> t <= act[a].at
      BY <2>2, <2>3 DEF Ended
    <2>6. \A i \in DOMAIN history' : history'[i].at <= act[a].at
      BY <1>5, <2>2, RunIsLatest
    <2>7. \A b \in Actors : act'[b].pc = "recording" => act'[b].at <= act[a].at
      <3>1. \A b \in Actors : (b = a /\ act'[b].at = act[a].at) \/ act'[b] = act[b]
        BY <1>5, RecordsOn
      <3>2. act[a].at <= act[a].at
        BY <2>3
      <3> QED  BY <1>5, <2>2, <3>1, <3>2, RunIsLatest
    <2>8. /\ job'.state.alerted # None => job'.state.alerted <= act[a].at
          /\ \A i \in DOMAIN alerts' : job'.state.alerted # None /\ alerts'[i] <= job'.state.alerted
      <3>1. CASE alerts' = Append(alerts, act[a].at) /\ job'.state.alerted = act[a].at
        <4>1. \A i \in DOMAIN alerts' : alerts'[i] <= act[a].at
          <5>1. /\ DOMAIN alerts' = DOMAIN alerts \cup {Len(alerts) + 1}
                /\ alerts'[Len(alerts) + 1] = act[a].at
                /\ \A i \in DOMAIN alerts : alerts'[i] = alerts[i]
            BY <1>0, <3>1, Grown
          <5>2. act[a].at <= act[a].at
            BY <2>3
          <5> QED  BY <1>5, <2>2, <5>1, <5>2, RunIsLatest
        <4> QED  BY <2>3, <3>1, <4>1
      <3>2. CASE alerts' = alerts /\ job'.state.alerted = job.state.alerted
        BY <1>0, <1>5, <2>2, <3>2, RunIsLatest
      <3> QED  BY <1>5, <2>2, <3>1, <3>2, RunIsLatest DEF Finishes
    <2> QED  BY <2>4, <2>6, <2>7, <2>8
  <1>6. ASSUME NEW a \in Actors, Records(a)  PROVE  LastIsLatest'
    <2> DEFINE e == [at |-> act[a].at, mode |-> act[a].mode]
    <2>1. /\ history' = Append(history, e) /\ job' = job /\ alerts' = alerts /\ now' = now
          /\ Exists /\ act[a].pc = "recording"
      BY <1>6 DEF Records
    <2>2. Ended(e.at)
      BY <1>0, <2>1
    <2> HIDE DEF e
    <2>3. /\ DOMAIN history' = DOMAIN history \cup {Len(history) + 1}
          /\ history'[Len(history) + 1] = e /\ \A i \in DOMAIN history : history'[i] = history[i]
      BY <1>0, <2>1, Grown
    <2>4. \A b \in Actors : act'[b].pc = "recording" => act'[b] = act[b]
      BY <1>6, RecordsOn DEF Begun
    <2>5. \A t : Ended(t)' <=> Ended(t)
      BY <2>1 DEF Ended
    <2>6. \A i \in DOMAIN history' : Ended(history'[i].at)
      BY <1>0, <2>1, <2>2, <2>3
    <2> QED  BY <1>0, <2>1, <2>4, <2>5, <2>6 DEF Exists, Ended
  <1>7. ASSUME NEW a \in Actors, Gives(a)  PROVE  LastIsLatest'
    BY <1>7 DEF Gives, Exists
  <1> QED  BY <1>1, <1>2, <1>3, <1>4, <1>5, <1>6, <1>7, StepKinds DEF Sound

\* Alerts keep the cooldown.
LEMMA AlertsKept ==
    ASSUME Sound, Next, ~lost'
    PROVE  AlertsSpaced'
  <1>0. AlertsSpaced /\ ~lost /\ LastIsLatest /\ Domains /\ alerts \in Seq(Clock)
    BY DEF Sound, Base, Story, Domains, Typed
  <1>1. ASSUME alerts' = alerts, Exists' => Exists  PROVE  AlertsSpaced'
    BY <1>0, <1>1 DEF AlertsSpaced
  <1>2. ASSUME NEW a \in Actors, Finishes(a), alerts' = Append(alerts, act[a].at), Exists'
        PROVE  AlertsSpaced'
    <2>1. /\ Exists
          /\ Cooldown > 0 /\ job.state.alerted # None => job.state.alerted + Cooldown <= act[a].at
      <3>0. Exists /\ act[a].row.state.alerted = job.state.alerted
        BY <1>2, RunIsLatest DEF Finishes, Exists
      <3>1. CASE Cooldown > 0 /\ act[a].row.state.alerted # None
                    => act[a].row.state.alerted + Cooldown <= act[a].at
        BY <3>0, <3>1
      <3>2. CASE alerts' = alerts
        <4>1. alerts = Append(alerts, act[a].at)
          BY <1>2, <3>2
        <4>2. Len(alerts) + 1 \in DOMAIN Append(alerts, act[a].at) /\ Len(alerts) + 1 \notin DOMAIN alerts
          BY <1>0, Grown
        <4> QED  BY <4>1, <4>2
      <3> QED  BY <1>2, <3>0, <3>1, <3>2 DEF Finishes
    <2>2. /\ DOMAIN alerts' = DOMAIN alerts \cup {Len(alerts) + 1}
          /\ alerts'[Len(alerts) + 1] = act[a].at
          /\ \A i \in DOMAIN alerts : alerts'[i] = alerts[i] /\ i < Len(alerts) + 1
          /\ DOMAIN alerts \subseteq Int /\ Len(alerts) + 1 \in Int
      BY <1>0, <1>2, Grown
    <2>3. ASSUME NEW i \in DOMAIN alerts  PROVE  alerts[i] + Cooldown <= act[a].at
      <3>1. job.state.alerted # None /\ alerts[i] <= job.state.alerted /\ alerts[i] <= act[a].at
        BY <1>0, <1>2, <2>1, RunIsLatest DEF LastIsLatest
      <3>2. /\ alerts[i] \in Nat /\ job.state.alerted \in Nat /\ act[a].at \in Nat
            /\ Cooldown \in Nat
        BY <1>0, <2>1, <3>1, ClockTyped
      <3> QED  BY <2>1, <3>1, <3>2
    <2>4. \A i, j \in DOMAIN alerts : i < j => alerts[i] + Cooldown <= alerts[j]
      BY <1>0, <2>1 DEF AlertsSpaced
    <2>5. ASSUME NEW i \in DOMAIN alerts', NEW j \in DOMAIN alerts', i < j
          PROVE  alerts'[i] + Cooldown <= alerts'[j]
      <3>1. i \in DOMAIN alerts
        BY <2>2, <2>5
      <3>2. CASE j \in DOMAIN alerts
        BY <2>2, <2>4, <2>5, <3>1, <3>2
      <3>3. CASE j = Len(alerts) + 1
        BY <2>2, <2>3, <3>1, <3>3
      <3> QED  BY <2>2, <3>2, <3>3
    <2> QED  BY <2>5 DEF AlertsSpaced
  <1>3. ASSUME NEW a \in Actors, Finishes(a)  PROVE  AlertsSpaced'
    <2>1. Exists' => Exists
      BY <1>3 DEF Finishes, Exists
    <2>2. alerts' = alerts \/ alerts' = Append(alerts, act[a].at)
      BY <1>3 DEF Finishes
    <2>3. ~Exists' => AlertsSpaced'
      BY DEF AlertsSpaced
    <2> QED  BY <1>1, <1>2, <1>3, <2>1, <2>2, <2>3
  <1>4. ASSUME NEW a \in Actors, Looks(a) \/ Records(a)  PROVE  AlertsSpaced'
    BY <1>1, <1>4 DEF Looks, Records, Exists
  <1>5. ASSUME NEW a \in Actors, Starts(a)  PROVE  AlertsSpaced'
    BY <1>1, <1>5, BeforeStart DEF Starts
  <1>6. ASSUME NEW a \in Actors, Gives(a)  PROVE  AlertsSpaced'
    BY <1>6 DEF Gives, Exists, AlertsSpaced
  <1>7. CASE Passes \/ Dies
    BY <1>1, <1>7 DEF Passes, Dies, Exists
  <1> QED  BY <1>3, <1>4, <1>5, <1>6, <1>7, StepKinds DEF Sound
\* A run that follows the last keeps its distance from all that ended before.
LEMMA ApartFromLast ==
    ASSUME NEW x, NEW y, NEW last, Domains, x.at \in Nat, y.at \in Nat,
           last \in Nat \/ last = None, last # None => x.at <= last,
           x.at <= y.at, Kind = "every", Called(y.mode, last, y.at), last # None
    PROVE  Apart(x, y) /\ Apart(y, x)
  <1>0. Every \in Nat \ {0}
    BY ClockTyped
  <1>1. y.mode = "due" => last + Every <= y.at
    BY DEF Called
  <1>2. Apart(x, y)
    BY <1>0, <1>1 DEF Apart
  <1>3. Apart(y, x)
    <2>1. ASSUME y.at = x.at, y.mode = "due"  PROVE  FALSE
      BY <1>0, <1>1, <2>1
    <2> QED  BY <2>1 DEF Apart
  <1> QED  BY <1>2, <1>3

\* What the scheduler begins comes an interval after all else.
LEMMA SpacedKept ==
    ASSUME Sound, Next, ~lost'
    PROVE  Spaced'
  <1>0. /\ Spaced /\ LastIsLatest /\ Domains /\ history \in Seq(Entries) /\ schedule' = schedule
    BY ScheduleStays DEF Sound, Base, Story, Domains, Typed
  <1>9. SUFFICES ASSUME Kind = "every"  PROVE  Spaced'
    BY <1>0 DEF Spaced, Kind
  <1>10. \A i, j \in DOMAIN history : i # j => Apart(history[i], history[j])
    BY <1>0, <1>9 DEF Spaced
  <1>11. Exists => \A a \in Actors : act[a].pc = "recording" =>
          /\ \A i \in DOMAIN history : Apart(history[i], act[a]) /\ Apart(act[a], history[i])
          /\ \A b \in Actors \ {a} : act[b].pc = "recording" => Apart(act[a], act[b])
    BY <1>0, <1>9 DEF Spaced
  <1>1. ASSUME history' = history, Exists' => Exists,
               \A b \in Actors : act'[b].pc = "recording" => act'[b] = act[b]
        PROVE  Spaced'
    <2>1. \A i, j \in DOMAIN history' : i # j => Apart(history[i], history[j])
      BY <1>1, <1>10
    <2>2. Exists' => \A a \in Actors : act'[a].pc = "recording" =>
          /\ \A i \in DOMAIN history' : Apart(history'[i], act'[a]) /\ Apart(act'[a], history'[i])
          /\ \A b \in Actors \ {a} : act'[b].pc = "recording" => Apart(act'[a], act'[b])
      BY <1>1, <1>11
    <2> QED  BY <1>0, <1>1, <2>1, <2>2 DEF Spaced, Apart, Every
  <1>2. ASSUME NEW a \in Actors, Finishes(a)  PROVE  Spaced'
    <2>1. history' = history /\ Exists' = Exists
      BY <1>2 DEF Finishes, Exists
    <2>2. /\ act'[a].at = act[a].at /\ act'[a].mode = act[a].mode
          /\ \A b \in Actors \ {a} : act'[b] = act[b]
      BY <1>2, RecordsOn
    <2>3. ASSUME Exists, NEW x, x.at \in Nat, Ended(x.at)
          PROVE  Apart(x, act[a]) /\ Apart(act[a], x)
      <3>1. /\ x.at <= act[a].at /\ act[a].at \in Nat /\ Called(act[a].mode, job.state.last, act[a].at)
            /\ job.state.last # None /\ x.at <= job.state.last
        BY <1>0, <1>2, <2>3, RunIsLatest, ClockTyped DEF Ended
      <3>2. job.state.last \in Nat
        BY <1>0, <2>3, <3>1, ClockTyped
      <3> QED  BY <1>0, <1>9, <2>3, <3>1, <3>2, ApartFromLast
    <2>4. \A x, y : /\ Apart(x, act'[a]) <=> Apart(x, act[a])
                    /\ Apart(act'[a], y) <=> Apart(act[a], y)
      BY <2>2 DEF Apart
    <2>5. ASSUME Exists
          PROVE  \A i \in DOMAIN history : Apart(history[i], act'[a]) /\ Apart(act'[a], history[i])
      <3>1. \A i \in DOMAIN history : history[i].at \in Nat /\ Ended(history[i].at)
        BY <1>0, <2>5, ClockTyped DEF LastIsLatest
      <3> QED  BY <2>3, <2>4, <2>5, <3>1
    <2>6. ASSUME Exists
          PROVE  \A b \in Actors \ {a} : act[b].pc = "recording"
                    => Apart(act'[a], act[b]) /\ Apart(act[b], act'[a])
      <3>1. \A b \in Actors : act[b].pc = "recording" => act[b].at \in Nat /\ Ended(act[b].at)
        BY <1>0, <2>6, ClockTyped DEF LastIsLatest
      <3> QED  BY <2>3, <2>4, <2>6, <3>1
    <2>7. Exists' => \A b \in Actors : act'[b].pc = "recording" =>
          /\ \A i \in DOMAIN history' : Apart(history'[i], act'[b]) /\ Apart(act'[b], history'[i])
          /\ \A c \in Actors \ {b} : act'[c].pc = "recording" => Apart(act'[b], act'[c])
      <3>1. SUFFICES ASSUME Exists, NEW b \in Actors, act'[b].pc = "recording"
            PROVE  /\ \A i \in DOMAIN history : Apart(history[i], act'[b]) /\ Apart(act'[b], history[i])
                   /\ \A c \in Actors \ {b} : act'[c].pc = "recording" => Apart(act'[b], act'[c])
        BY <2>1
      <3>2. CASE b = a
        BY <2>2, <2>5, <2>6, <3>1, <3>2
      <3>3. CASE b # a
        <4>1. act'[b] = act[b] /\ act[b].pc = "recording"
          BY <2>2, <3>1, <3>3
        <4>2. \A i \in DOMAIN history : Apart(history[i], act'[b]) /\ Apart(act'[b], history[i])
          BY <1>11, <3>1, <4>1
        <4>3. ASSUME NEW c \in Actors \ {b}, act'[c].pc = "recording"
              PROVE  Apart(act'[b], act'[c])
          <5>1. CASE c = a
            BY <2>6, <3>1, <3>3, <4>1, <5>1
          <5>2. CASE c # a
            BY <1>11, <2>2, <3>1, <4>1, <4>3, <5>2
          <5> QED  BY <5>1, <5>2
        <4> QED  BY <4>2, <4>3
      <3> QED  BY <3>2, <3>3
    <2> QED  BY <1>0, <1>10, <2>1, <2>7 DEF Spaced, Apart, Every
  <1>3. ASSUME NEW a \in Actors, Records(a)  PROVE  Spaced'
    <2> DEFINE e == [at |-> act[a].at, mode |-> act[a].mode]
    <2>1. /\ history' = Append(history, e) /\ job' = job /\ Exists /\ act[a].pc = "recording"
      BY <1>3 DEF Records
    <2>2. e.at = act[a].at /\ e.mode = act[a].mode
      OBVIOUS
    <2> HIDE DEF e
    <2>3. \A x, y : (Apart(x, e) <=> Apart(x, act[a])) /\ (Apart(e, y) <=> Apart(act[a], y))
      BY <2>2 DEF Apart
    <2>4. /\ DOMAIN history' = DOMAIN history \cup {Len(history) + 1}
          /\ history'[Len(history) + 1] = e /\ \A i \in DOMAIN history : history'[i] = history[i]
      BY <1>0, <2>1, Grown
    <2>5. \A b \in Actors : act'[b].pc = "recording" => b # a /\ act'[b] = act[b]
      BY <1>3, RecordsOn DEF Begun
    <2>6. \A i, j \in DOMAIN history' : i # j => Apart(history'[i], history'[j])
      <3>1. \A i \in DOMAIN history : Apart(history[i], e) /\ Apart(e, history[i])
        BY <1>11, <2>1, <2>3
      <3> QED  BY <1>10, <2>4, <3>1
    <2>7. ASSUME NEW b \in Actors, act'[b].pc = "recording"
          PROVE  /\ \A i \in DOMAIN history' : Apart(history'[i], act'[b]) /\ Apart(act'[b], history'[i])
                 /\ \A c \in Actors \ {b} : act'[c].pc = "recording" => Apart(act'[b], act'[c])
      <3>1. b # a /\ act'[b] = act[b] /\ act[b].pc = "recording"
        BY <2>5, <2>7
      <3>2. Apart(act[a], act[b]) /\ Apart(act[b], act[a])
        BY <1>11, <2>1, <3>1
      <3>3. \A i \in DOMAIN history : Apart(history[i], act[b]) /\ Apart(act[b], history[i])
        BY <1>11, <2>1, <3>1
      <3>4. \A i \in DOMAIN history' : Apart(history'[i], act'[b]) /\ Apart(act'[b], history'[i])
        BY <2>3, <2>4, <3>1, <3>2, <3>3
      <3>5. \A c \in Actors \ {b} : act'[c].pc = "recording" => Apart(act'[b], act'[c])
        BY <1>11, <2>1, <2>5, <3>1
      <3> QED  BY <3>4, <3>5
    <2> QED  BY <1>0, <2>6, <2>7 DEF Spaced, Apart, Every
  <1>4. ASSUME NEW a \in Actors, Looks(a)  PROVE  Spaced'
    <2>1. \A b \in Actors : act'[b].pc = "recording" => act'[b] = act[b]
      BY <1>4, RecordsOn DEF Begun
    <2> QED  BY <1>1, <1>4, <2>1 DEF Looks, Exists
  <1>5. ASSUME NEW a \in Actors, Starts(a)  PROVE  Spaced'
    <2>1. \A b \in Actors : act'[b].pc = "recording" => act'[b] = act[b]
      BY <1>5, RecordsOn DEF Begun
    <2> QED  BY <1>1, <1>5, <2>1, BeforeStart DEF Starts
  <1>6. ASSUME NEW a \in Actors, Gives(a)  PROVE  Spaced'
    <2>1. \A b \in Actors : act'[b].pc = "recording" => act'[b] = act[b]
      BY <1>6, RecordsOn DEF Begun
    <2> QED  BY <1>1, <1>6, <2>1 DEF Gives, Exists
  <1>7. CASE Passes
    BY <1>1, <1>7 DEF Passes, Exists
  <1>8. CASE Dies
    <2>1. \A b \in Actors : act'[b].pc # "recording"
      BY <1>8 DEF Dies
    <2> QED  BY <1>1, <1>8, <2>1 DEF Dies, Exists
  <1> QED  BY <1>2, <1>3, <1>4, <1>5, <1>6, <1>7, <1>8, StepKinds DEF Sound
\* The scheduler begins the job at its instant, and never again.
LEMMA OnceKept ==
    ASSUME Sound, Next, ~lost'
    PROVE  Once'
  <1>0. /\ Once /\ LastIsLatest /\ Domains /\ history \in Seq(Entries) /\ schedule' = schedule
    BY ScheduleStays DEF Sound, Base, Story, Domains, Typed
  <1>9. SUFFICES ASSUME Kind = "at"  PROVE  Once'
    BY <1>0 DEF Once, Kind
  <1>10. /\ \A i, j \in DOMAIN history : DueEntry(i) /\ DueEntry(j) => i = j
         /\ \A a, b \in Actors : BegunByDue(a) /\ BegunByDue(b) => a = b
         /\ \A a \in Actors, i \in DOMAIN history : ~(BegunByDue(a) /\ DueEntry(i))
    BY <1>0, <1>9 DEF Once
  <1>12. /\ \A i \in DOMAIN history : DueEntry(i) => history[i].at >= At
         /\ \A a \in Actors : BegunByDue(a) => act[a].at >= At
    BY <1>9 DEF Sound, Base, NotBefore, DueEntry, Planned
  <1>1. ASSUME history' = history,
               \A b \in Actors : BegunByDue(b)' => BegunByDue(b) /\ act'[b].at = act[b].at
        PROVE  Once'
    <2>1. \A i : DueEntry(i)' <=> DueEntry(i)
      BY <1>1 DEF DueEntry
    <2> QED  BY <1>1, <1>10, <2>1 DEF Once
  <1>2. ASSUME NEW a \in Actors, Starts(a)  PROVE  Once'
    <2>1. /\ history' = history /\ act'[a].at = act[a].at /\ act'[a].mode = act[a].mode
          /\ \A b \in Actors \ {a} : act'[b] = act[b]
          /\ Exists /\ job.state.running = None
          /\ Called(act[a].mode, job.state.last, act[a].at)
          /\ \A b \in Actors : ~Executing(b)
      BY <1>2, BeforeStart, RecordsOn DEF Starts
    <2>2. \A i : DueEntry(i)' <=> DueEntry(i)
      BY <2>1 DEF DueEntry
    <2>3. \A b \in Actors \ {a} : BegunByDue(b)' <=> BegunByDue(b)
      BY <2>1 DEF BegunByDue, Begun
    <2>4. CASE act[a].mode # "due"
      <3>1. ~BegunByDue(a)'
        BY <2>1, <2>4 DEF BegunByDue
      <3> QED  BY <1>1, <2>1, <2>3, <3>1
    <2>5. CASE act[a].mode = "due"
      <3>0. At \in Nat /\ act[a].at >= At /\ (job.state.last = None \/ job.state.last < At)
            /\ (job.state.last \in Nat \/ job.state.last = None)
        BY <1>0, <1>9, <2>1, <2>5, ClockTyped DEF Called
      <3>1. ASSUME NEW t \in Nat, Ended(t), t >= At  PROVE  FALSE
        BY <3>0, <3>1 DEF Ended
      <3>2. \A i \in DOMAIN history : ~DueEntry(i)
        <4>1. \A i \in DOMAIN history : history[i].at \in Nat /\ Ended(history[i].at)
          BY <1>0, <2>1, ClockTyped DEF LastIsLatest
        <4> QED  BY <1>12, <3>1, <4>1
      <3>3. \A b \in Actors : ~BegunByDue(b)
        <4>1. \A b \in Actors : act[b].pc = "recording" => act[b].at \in Nat /\ Ended(act[b].at)
          BY <1>0, <2>1, ClockTyped DEF LastIsLatest
        <4>2. \A b \in Actors : BegunByDue(b) => act[b].pc = "recording"
          BY <2>1 DEF BegunByDue, Begun, Executing
        <4> QED  BY <1>12, <3>1, <4>1, <4>2
      <3>4. \A i : ~DueEntry(i)'
        BY <2>1, <2>2, <3>2 DEF DueEntry
      <3>5. \A b \in Actors : BegunByDue(b)' => b = a
        BY <2>3, <3>3
      <3> QED  BY <3>4, <3>5 DEF Once
    <2> QED  BY <2>4, <2>5
  <1>3. ASSUME NEW a \in Actors, Records(a)  PROVE  Once'
    <2> DEFINE e == [at |-> act[a].at, mode |-> act[a].mode]
    <2>1. history' = Append(history, e) /\ act[a].pc = "recording"
      BY <1>3 DEF Records
    <2>2. e.at = act[a].at /\ e.mode = act[a].mode
      OBVIOUS
    <2> HIDE DEF e
    <2>3. PICK n : /\ DOMAIN history' = DOMAIN history \cup {n} /\ n \notin DOMAIN history
                   /\ history'[n] = e /\ \A i \in DOMAIN history : history'[i] = history[i]
      BY <1>0, <2>1, Grown
    <2>4. /\ ~BegunByDue(a)'
          /\ \A b \in Actors \ {a} : act'[b] = act[b] /\ (BegunByDue(b)' <=> BegunByDue(b))
      BY <1>3, RecordsOn DEF BegunByDue, Begun
    <2>5. \A i \in DOMAIN history : DueEntry(i)' <=> DueEntry(i)
      BY <2>3 DEF DueEntry
    <2>6. CASE act[a].mode # "due"
      <3>1. \A i \in DOMAIN history' : DueEntry(i)' => i \in DOMAIN history /\ DueEntry(i)
        <4>1. ~DueEntry(n)'
          BY <2>2, <2>3, <2>6 DEF DueEntry
        <4> QED  BY <2>3, <2>5, <4>1
      <3> QED  BY <1>10, <2>3, <2>4, <3>1 DEF Once
    <2>7. CASE act[a].mode = "due"
      <3>1. BegunByDue(a)
        BY <2>1, <2>7 DEF BegunByDue, Begun
      <3>2. /\ \A i \in DOMAIN history : ~DueEntry(i)
            /\ \A b \in Actors \ {a} : ~BegunByDue(b)
        BY <1>10, <3>1
      <3>3. \A i \in DOMAIN history' : DueEntry(i)' => i = n
        BY <2>3, <2>5, <3>2
      <3>4. \A b \in Actors : ~BegunByDue(b)'
        BY <2>4, <3>2
      <3> QED  BY <3>3, <3>4 DEF Once
    <2> QED  BY <2>6, <2>7
  <1>4. ASSUME NEW a \in Actors, Looks(a)  PROVE  Once'
    <2>1. \A b \in Actors : BegunByDue(b)' => BegunByDue(b) /\ act'[b].at = act[b].at
      BY <1>4, RecordsOn DEF BegunByDue, Begun
    <2> QED  BY <1>1, <1>4, <2>1 DEF Looks
  <1>5. ASSUME NEW a \in Actors, Finishes(a)  PROVE  Once'
    <2>1. \A b \in Actors : BegunByDue(b)' => BegunByDue(b) /\ act'[b].at = act[b].at
      BY <1>5, RecordsOn DEF BegunByDue, Begun
    <2> QED  BY <1>1, <1>5, <2>1 DEF Finishes
  <1>6. ASSUME NEW a \in Actors, Gives(a)  PROVE  Once'
    <2>1. \A b \in Actors : BegunByDue(b)' => BegunByDue(b) /\ act'[b].at = act[b].at
      BY <1>6, RecordsOn DEF BegunByDue, Begun
    <2> QED  BY <1>1, <1>6, <2>1 DEF Gives
  <1>7. CASE Passes
    <2>1. \A b \in Actors : BegunByDue(b)' => BegunByDue(b) /\ act'[b].at = act[b].at
      BY <1>7, RecordsOn DEF BegunByDue, Begun
    <2> QED  BY <1>1, <1>7, <2>1 DEF Passes
  <1>8. CASE Dies
    <2>1. \A b \in Actors : ~BegunByDue(b)'
      BY <1>8, RecordsOn DEF BegunByDue
    <2> QED  BY <1>1, <1>8, <2>1 DEF Dies
  <1> QED  BY <1>2, <1>3, <1>4, <1>5, <1>6, <1>7, <1>8, StepKinds DEF Sound
-----------------------------------------------------------------------------
(* The invariant, and the properties.                                      *)

LEMMA InitHolds ==
    ASSUME Init
    PROVE  IInv
  <1> DEFINE due  == NextRun(Created, 0)
             next == IF schedule.ran THEN NextAfter(due, 0) ELSE due
             last == IF schedule.ran THEN 0 ELSE None
             s    == [next |-> next, running |-> None, last |-> last, errs |-> 0, alerted |-> None]
             e    == [at |-> 0, mode |-> "force"]
  <1>1. schedule \in Jobs /\ 0 \in Clock /\ None \in Past /\ None \notin Int /\ Clock \subseteq Nat
    BY ScheduleTyped DEF Init
  <1>2. due \in Instants /\ (schedule.ran => due = 0)
    <2>1. Created.last \in Past /\ Created.last = None
      BY <1>1 DEF Created
    <2>2. due \in Instants
      BY <1>1, <2>1, NextRunTyped
    <2>3. ASSUME schedule.ran  PROVE  due = 0
      <3>1. Kind = "every"
        BY <1>1, <2>3, RanAssumption DEF Kind
      <3> QED  BY <2>1, <3>1 DEF NextRun, NextEvery
    <2> QED  BY <2>2, <2>3
  <1> HIDE DEF due
  <1>3. next \in Instants
    <2>1. CASE schedule.ran
      <3>1. due # None => due <= 0
        BY <1>2, <2>1
      <3> QED  BY <1>1, <1>2, <2>1, <3>1, NextAfterTyped
    <2> QED  BY <1>2, <2>1
  <1>4. last \in Past
    BY <1>1 DEF Past
  <1>5. job = [enabled |-> TRUE, state |-> s]
    BY DEF Init, Created, due
  <1> HIDE DEF next
  <1>6. s \in Kept /\ s.running = None /\ s.last = last /\ s.alerted = None
    BY <1>1, <1>3, <1>4 DEF Kept
  <1> HIDE DEF s
  <1>7. job \in Row /\ Exists /\ job.state = s
    BY <1>5, <1>6, RowIsThere DEF Row, Exists
  <1>8. e \in Entries /\ e.at = 0 /\ e.mode = "force"
    BY <1>1, NamesTyped DEF Entries
  <1>9. history = IF schedule.ran THEN <<e>> ELSE << >>
    BY DEF Init
  <1> HIDE DEF e
  <1>10. history \in Seq(Entries) /\ \A i \in DOMAIN history : i = 1 /\ history[i] = e /\ schedule.ran
    BY <1>8, <1>9
  <1>11. /\ \A a \in Actors : act[a] = Idle
         /\ act \in [Actors -> Acts]
    BY RestTyped DEF Init
  <1>12. /\ \A a \in Actors : act[a].pc = "idle" /\ act[a].at = 0
         /\ now = 0 /\ alerts = << >> /\ crashes = 0 /\ ~lost /\ lost \in BOOLEAN
    BY <1>11, RestTyped DEF Init
  <1>13. Domains
    <2>1. Typed
      BY <1>1, <1>7, <1>10, <1>11, <1>12, BoundsAssumption DEF Typed
    <2> QED  BY <1>12, <2>1 DEF Domains, Held, Holds
  <1>14. schedule.ran => last = 0 /\ 0 # None
    BY <1>1
  <1>15. ~schedule.ran => last = None
    OBVIOUS
  <1> HIDE DEF last
  <1>16. Follows(job.state.last, now)
    BY <1>6, <1>7, <1>12, <1>14, <1>15 DEF Follows
  <1>17. \A a \in Actors : Planned(a)
    BY <1>12 DEF Planned, Holds, BegunByDue, Begun
  <1>18. Remembered
    <2>1. job.state.last \in Recorded
      <3>1. CASE schedule.ran
        <4>1. 1 \in DOMAIN history /\ history[1].at = 0
          BY <1>8, <1>9, <3>1
        <4> QED  BY <1>6, <1>7, <1>14, <3>1, <4>1 DEF Recorded
      <3>2. CASE ~schedule.ran
        BY <1>6, <1>7, <1>15, <3>2 DEF Recorded
      <3> QED  BY <3>1, <3>2
    <2> QED  BY <1>12, <2>1 DEF Remembered, Holds
  <1>19. NotBefore
    BY <1>8, <1>10 DEF NotBefore
  <1>20. Base
    BY <1>13, <1>16, <1>17, <1>18, <1>19 DEF Base
  <1>21. Single /\ Marked /\ MarkTruthful /\ AlertsSpaced
    BY <1>6, <1>7, <1>12 DEF Single, Marked, MarkTruthful, AlertsSpaced, Executing
  <1>22. LastIsLatest
    <2>1. \A i \in DOMAIN history : Ended(history[i].at)
      BY <1>6, <1>7, <1>8, <1>10, <1>14 DEF Ended
    <2> QED  BY <1>6, <1>7, <1>12, <2>1 DEF LastIsLatest
  <1>23. Spaced /\ Once
    BY <1>8, <1>10, <1>12 DEF Spaced, Once, BegunByDue, Begun, DueEntry
  <1> QED  BY <1>20, <1>21, <1>22, <1>23 DEF IInv, Story

LEMMA Unchanged ==
    ASSUME IInv, UNCHANGED vars
    PROVE  IInv'
  <1>1. /\ schedule' = schedule /\ now' = now /\ job' = job /\ act' = act
        /\ history' = history /\ alerts' = alerts /\ crashes' = crashes /\ lost' = lost
    BY DEF vars
  <1>2. Domains'
    <2>1. /\ Row' = Row /\ Acts' = Acts /\ Clock' = Clock /\ Entries' = Entries /\ Actors' = Actors
      BY <1>1, RowKept DEF Acts, Clock, Entries, Actors
    <2> QED  BY <1>1, <2>1 DEF IInv, Base, Domains, Typed, Held, Holds, Deleted
  <1>3. ASSUME NEW a \in Actors  PROVE  Planned(a)'
    <2>1. Planned(a)
      BY DEF IInv, Base
    <2> QED  BY <1>1, <2>1
             DEF Planned, Holds, Follows, Called, Kind, At, Every, BegunByDue, Begun
  <1>4. Remembered' /\ NotBefore' /\ (Exists => Follows(job.state.last, now))'
    BY <1>1 DEF IInv, Base, Remembered, Recorded, Holds, NotBefore, Kind, At, Exists, Follows
  <1>5. Base'
    BY <1>2, <1>3, <1>4 DEF Base
  <1>6. ASSUME ~lost, Story  PROVE  Story'
    <2>1. Single' /\ Marked' /\ MarkTruthful' /\ AlertsSpaced'
      BY <1>1, <1>6 DEF Story, Single, Marked, SameCore, MarkTruthful, AlertsSpaced, Exists, Executing
    <2>2. LastIsLatest'
      BY <1>1, <1>6 DEF Story, LastIsLatest, Exists, Ended
    <2>3. Spaced' /\ Once'
      BY <1>1, <1>6 DEF Story, Spaced, Once, Apart, Exists, Kind, Every, BegunByDue, Begun, DueEntry
    <2> QED  BY <2>1, <2>2, <2>3 DEF Story
  <1> QED  BY <1>1, <1>5, <1>6 DEF IInv

\* The invariant holds throughout.
THEOREM Invariance == Spec => []IInv
  <1>1. ASSUME IInv, [Next]_vars  PROVE  IInv'
    <2>1. CASE Next
      <3>1. Base /\ Base'
        BY <1>1, <2>1, BaseKept DEF IInv
      <3>2. ASSUME ~lost'  PROVE  Story'
        <4>1. Sound
          BY <1>1, <2>1, <3>1, <3>2, NothingLost DEF IInv, Sound
        <4> QED  BY <2>1, <3>2, <4>1, SingleKept, MarkedKept, MarkKept, LatestKept,
                    AlertsKept, SpacedKept, OnceKept DEF Story
      <3> QED  BY <3>1, <3>2 DEF IInv
    <2>2. CASE UNCHANGED vars
      BY <1>1, <2>2, Unchanged
    <2> QED  BY <1>1, <2>1, <2>2
  <1> QED  BY <1>1, InitHolds, PTL DEF Spec

LEMMA TypesFollow ==
    ASSUME Domains
    PROVE  TypeOK
  <1>0. /\ schedule \in Jobs /\ Clock \subseteq Instants /\ None \in Instants
        /\ Clock = 0..Horizon /\ crashes \in 0..MaxCrashes
    BY ScheduleTyped DEF Domains, Typed, Clock
  <1>1. Row \subseteq Rows
    <2>1. Past \subseteq Instants
      BY <1>0 DEF Past
    <2>2. Kept \subseteq States
      BY <2>1 DEF Kept, States
    <2> QED  BY <2>2 DEF Row, Rows
  <1>2. Acts \subseteq [pc : {"idle", "listed", "due", "read", "running",
                               "recording", "editing", "done"},
                         at : 0..Horizon, mode : Modes,
                         row : Rows \cup {Deleted}]
    BY <1>0, <1>1 DEF Acts, Phases
  <1>3. act \in [Actors -> [pc : {"idle", "listed", "due", "read", "running",
                                  "recording", "editing", "done"},
                            at : 0..Horizon, mode : Modes,
                            row : Rows \cup {Deleted}]]
    <2>1. act \in [Actors -> Acts]
      BY DEF Domains, Typed
    <2> QED  BY <1>2, <2>1
  <1>4. lost \in BOOLEAN
    BY DEF Domains, Typed
  <1> QED  BY <1>0, <1>1, <1>3, <1>4 DEF Domains, Typed, TypeOK, Entries

LEMMA OnceCounts ==
    ASSUME Domains, Once, Kind = "at"
    PROVE  Cardinality(BegunDue) <= 1
  <1>1. \A x, y \in BegunDue : x = y
    <2>1. \A x \in BegunDue : DueEntry(x) \/ (x \in Actors /\ BegunByDue(x))
      BY DEF BegunDue, DueEntry, BegunByDue, Begun
    <2>2. \A i, j : DueEntry(i) /\ DueEntry(j) => i = j
      BY DEF Once, DueEntry
    <2>3. \A a \in Actors : \A i : ~(BegunByDue(a) /\ DueEntry(i))
      BY DEF Once, DueEntry
    <2>4. \A a, b \in Actors : BegunByDue(a) /\ BegunByDue(b) => a = b
      BY DEF Once
    <2> QED  BY <2>1, <2>2, <2>3, <2>4
  <1>2. CASE BegunDue = {}
    BY <1>2, FS_EmptySet
  <1>3. CASE BegunDue # {}
    <2>1. PICK x : x \in BegunDue
      BY <1>3
    <2>2. BegunDue = {x}
      BY <1>1, <2>1
    <2>3. Cardinality({x}) = 1
      BY FS_Singleton
    <2> QED  BY <2>2, <2>3
  <1> QED  BY <1>2, <1>3

LEMMA RunsApart ==
    ASSUME Domains, Story
    PROVE  DueRunsSpaced /\ AtRunsOnce
  <1>0. Spaced /\ Once
    BY DEF Story
  <1>1. DueRunsSpaced
    <2>1. SUFFICES ASSUME Kind = "every", NEW i \in DOMAIN history, NEW j \in DOMAIN history, i # j,
                          history[j].mode = "due",
                          \/ history[i].at < history[j].at
                          \/ history[i].at = history[j].at /\ history[i].mode = "due"
                   PROVE  history[i].at + Every <= history[j].at
      BY DEF DueRunsSpaced
    <2>2. Apart(history[i], history[j])
      BY <1>0, <2>1 DEF Spaced
    <2> QED  BY <2>1, <2>2 DEF Apart
  <1>2. AtRunsOnce
    BY <1>0, OnceCounts DEF AtRunsOnce
  <1> QED  BY <1>1, <1>2

LEMMA LastIsRecorded ==
    ASSUME Remembered
    PROVE  LastRunRecorded
  BY DEF Remembered, Recorded, LastRunRecorded

\* The check of runningAtMs in runCronJob, "Cron job is already running.", and
\* the marks around an execution, do what they are for until a write (of a tick
\* that listed the row long ago, of a run, of an edit) puts an old state over a
\* newer one: one execution at a time, and a row that shows it.  The last run is
\* on record whatever was lost.
THEOREM Telling == Spec => []RowTruthful
  <1>1. IInv => RowTruthful
    <2>1. ASSUME IInv  PROVE  TypeOK /\ LastRunRecorded
      BY <2>1, TypesFollow, LastIsRecorded DEF IInv, Base
    <2>2. ASSUME IInv  PROVE  Exclusive /\ MarkTruthful
      BY <2>2 DEF IInv, Story, Single, Exclusive, MarkTruthful
    <2> QED  BY <2>1, <2>2 DEF RowTruthful
  <1> QED  BY <1>1, Invariance, PTL

\* An "every" job is started by the scheduler no sooner than an interval after
\* any run of it, and an "at" job once, under overlapping ticks with old lists,
\* pauses, resumptions, requests and crashes, until a write loses a newer state;
\* an "at" job never before its instant (normalizeCronJobState and
\* computeNextRunAfterExecution).
THEOREM Spacing == Spec => []RunsSpaced
  <1>1. IInv => RunsSpaced
    BY RunsApart DEF IInv, Base, RunsSpaced
  <1> QED  BY <1>1, Invariance, PTL

\* Failure alerts keep the cooldown (maybeSendCronFailureAlert), whoever runs
\* the job and whatever is edited meanwhile, until a write loses a newer state.
THEOREM Alerting == Spec => []AlertsSpaced
  <1>1. IInv => AlertsSpaced
    BY DEF IInv, Story, AlertsSpaced
  <1> QED  BY <1>1, Invariance, PTL

================================================================================
