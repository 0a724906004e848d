-------------------------- MODULE ScheduleTimestamp --------------------------
(***************************************************************************)
(* The scheduling engine: getNextScheduledTimestamp of src/src/scheduler.ts *)
(* (copied verbatim into schedule.handler.ts).  A message carries its      *)
(* directives (scheduledDelay, scheduledCron, scheduledRepeat,             *)
(* scheduledPeriod) and mutable flags (delayed, scheduledRepeatCount,      *)
(* scheduledCronFired); the engine picks the next fire time and updates    *)
(* the flags.  Pure operators only; the modules of the components that    *)
(* call the engine extend this one.                                        *)
(***************************************************************************)
EXTENDS Naturals, FiniteSetsExt

CONSTANTS
    Msgs,        \* message ids (model values); ids are never reused
    Directives   \* [Msgs -> [delay, cron, repeat, period : Nat]]; 0 = unset,
                 \* cron > 0 is the period of the cron expression

MaxRepeat == Max({Directives[m].repeat : m \in Msgs})

(***************************************************************************)
(* cron-parser's parseExpression(c).next() for an expression that fires  *)
(* every c time units: the first occurrence strictly after t.             *)
(***************************************************************************)
CronNext(c, t) == (t \div c + 1) * c

IsSchedulable(m) ==
    Directives[m].cron > 0 \/ Directives[m].delay > 0
        \/ Directives[m].repeat > 0

IsPeriodic(m) == Directives[m].cron > 0 \/ Directives[m].repeat > 0

(* Mutation: the cron branch increments scheduledRepeatCount instead of  *)
(* resetting it.                                                           *)
NextScheduledTimestampNoReset(e, t) ==
    LET d == Directives[e.id]
        cronTs == IF d.cron > 0 THEN CronNext(d.cron, t) ELSE 0
        repeatTs == IF d.repeat > 0 /\ e.count + 1 <= d.repeat
                    THEN t + d.period ELSE 0
    IN  IF d.delay > 0 /\ ~e.delayed
        THEN [ts |-> t + d.delay, msg |-> [e EXCEPT !.delayed = TRUE],
              kind |-> "delay"]
        ELSE IF repeatTs > 0 /\ cronTs > 0 /\ repeatTs < cronTs /\ e.cronFired
        THEN [ts |-> repeatTs, msg |-> [e EXCEPT !.count = @ + 1],
              kind |-> "repeat"]
        ELSE IF cronTs > 0
        THEN [ts |-> cronTs,
              msg |-> [e EXCEPT !.count = @ + 1, !.cronFired = TRUE],
              kind |-> "cron"]
        ELSE IF repeatTs > 0
        THEN [ts |-> repeatTs, msg |-> [e EXCEPT !.count = @ + 1],
              kind |-> "repeat"]
        ELSE [ts |-> 0, msg |-> e, kind |-> "none"]

(* Mutation: the cron gate of the repeat branch is dropped               *)
(* (`&& message.hasScheduledCronFired()` missing).                         *)
NextScheduledTimestampNoCronGate(e, t) ==
    LET d == Directives[e.id]
        cronTs == IF d.cron > 0 THEN CronNext(d.cron, t) ELSE 0
        repeatTs == IF d.repeat > 0 /\ e.count + 1 <= d.repeat
                    THEN t + d.period ELSE 0
    IN  IF d.delay > 0 /\ ~e.delayed
        THEN [ts |-> t + d.delay, msg |-> [e EXCEPT !.delayed = TRUE],
              kind |-> "delay"]
        ELSE IF repeatTs > 0 /\ cronTs > 0 /\ repeatTs < cronTs
        THEN [ts |-> repeatTs, msg |-> [e EXCEPT !.count = @ + 1],
              kind |-> "repeat"]
        ELSE IF cronTs > 0
        THEN [ts |-> cronTs, msg |-> [e EXCEPT !.count = 0, !.cronFired = TRUE],
              kind |-> "cron"]
        ELSE [ts |-> 0, msg |-> e, kind |-> "none"]

(***************************************************************************)
(* getNextScheduledTimestamp(message): the next timestamp (0 for none),   *)
(* the message with its updated flags, and which branch chose it.         *)
(***************************************************************************)
NextScheduledTimestamp(e, t) ==
    LET d == Directives[e.id]
        cronTs == IF d.cron > 0 THEN CronNext(d.cron, t) ELSE 0
        repeatTs == IF d.repeat > 0 /\ e.count + 1 <= d.repeat
                    THEN t + d.period ELSE 0
        none == [ts |-> 0, msg |-> e, kind |-> "none"]
    IN  IF ~IsSchedulable(e.id) THEN none
        ELSE IF d.delay > 0 /\ ~e.delayed
        THEN [ts |-> t + d.delay, msg |-> [e EXCEPT !.delayed = TRUE],
              kind |-> "delay"]
        ELSE IF repeatTs > 0 /\ cronTs > 0 /\ repeatTs < cronTs /\ e.cronFired
        THEN [ts |-> repeatTs, msg |-> [e EXCEPT !.count = @ + 1],
              kind |-> "repeat"]
        ELSE IF cronTs > 0
        THEN [ts |-> cronTs, msg |-> [e EXCEPT !.count = 0, !.cronFired = TRUE],
              kind |-> "cron"]
        ELSE IF repeatTs > 0
        THEN [ts |-> repeatTs, msg |-> [e EXCEPT !.count = @ + 1],
              kind |-> "repeat"]
        ELSE none
=============================================================================
