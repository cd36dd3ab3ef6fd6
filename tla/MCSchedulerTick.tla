--------------------------- MODULE MCSchedulerTick ---------------------------
(* Small instances of SchedulerTick for TLC.                               *)
EXTENDS SchedulerTick

MCInterval == [p \in Policies |-> 1]
=============================================================================
