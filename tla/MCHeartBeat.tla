----------------------------- MODULE MCHeartBeat -----------------------------
(* Model values and bounds for HeartBeat: the 1s timer is one time unit    *)
(* and the 10s window two, so a timer that fires late by more than the     *)
(* window can be reached within a short clock.                             *)
EXTENDS HeartBeat
=============================================================================
