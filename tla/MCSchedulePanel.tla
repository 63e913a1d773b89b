-------------------------- MODULE MCSchedulePanel --------------------------
(* Instances of SchedulePanel: the schedules of MCScheduleHandler.           *)
EXTENDS SchedulePanel, MCScheduleHandler

=============================================================================
