-------------------------- MODULE MCStatsAggregator --------------------------
(* Model values and bounds for StatsAggregator.  One time unit is the     *)
(* ticker's 1 s, so a rate expires after one unit; the lock's TTL, 10 s  *)
(* in the code, is one unit (LockTTL = 1 in the cfg), so that a replica   *)
(* takes the lock a second time, after its TTL, within the clock.         *)
EXTENDS StatsAggregator
=============================================================================
