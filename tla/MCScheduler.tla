---------------------------- MODULE MCScheduler ----------------------------
(* Model values and bounds for Scheduler.                                 *)
EXTENDS Scheduler

(* m1: cron every 3 units with 2 repeats 1 unit apart between cron ticks; *)
(* m2: a delay of 2, then 2 immediate repeats (scheduledPeriod 0).        *)
MCDirectives ==
    [m \in Msgs |->
        IF m = CHOOSE x \in Msgs : TRUE
        THEN [delay |-> 0, cron |-> 3, repeat |-> 2, period |-> 1]
        ELSE [delay |-> 2, cron |-> 0, repeat |-> 2, period |-> 0]]
=============================================================================
