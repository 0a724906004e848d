--------------------------- MODULE MCPendingQueues ---------------------------
(* Model values and bounds for PendingQueues.                              *)
EXTENDS PendingQueues

(* The first message is delayed by 1 unit (it goes through the scheduled  *)
(* set and the sweep); the others are plain and are enqueued directly.    *)
Delayed == CHOOSE x \in Msgs : TRUE

MCDirectives ==
    [m \in Msgs |-> [delay |-> IF m = Delayed THEN 1 ELSE 0,
                     cron |-> 0, repeat |-> 0, period |-> 0]]

(* The delayed message has the highest score, the others share one. *)
MCPriority == [m \in Msgs |-> IF m = Delayed THEN 3 ELSE 2]
=============================================================================
