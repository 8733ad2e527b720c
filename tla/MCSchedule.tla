----------------------------- MODULE MCSchedule -----------------------------
(* Two devices, for the run of Schedule.                                   *)
EXTENDS Schedule

MCIds == {"a", "b"}
MCPeriods == {1, 5}
=============================================================================
