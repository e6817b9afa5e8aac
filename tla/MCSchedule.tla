----------------------------- MODULE MCSchedule -----------------------------
(* Small instances of Schedule: one job at a time of day and one every two   *)
(* units of the clock.                                                       *)
EXTENDS Schedule

CONSTANTS daily, hourly

Intervals == [j \in {daily, hourly} |-> IF j = daily THEN 0 ELSE 2]
Daily     == [j \in {daily} |-> 0]
=============================================================================
