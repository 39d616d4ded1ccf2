--------------------------- MODULE CronSchedulerMC ---------------------------
(* Instances of CronScheduler for TLC. *)
EXTENDS CronScheduler

EveryTwo == [kind |-> "every", at |-> 0, every |-> 2, minute |-> 1, period |-> 1,
             once |-> FALSE, managed |-> FALSE, ran |-> TRUE]
AtOne    == [EveryTwo EXCEPT !.kind = "at", !.at = 1, !.once = TRUE,
                                 !.managed = TRUE, !.ran = FALSE]
EvenMinutes == [EveryTwo EXCEPT !.kind = "cron", !.minute = 2, !.ran = FALSE]

MCJobs == {EveryTwo, AtOne}
MCCron == {EvenMinutes}

\* Bound: behaviours are followed up to the first write that loses a newer state.
NotLost == ~lost
====
