------------------------ MODULE MC_ScheduledDispatch ------------------------
(* Instances of ScheduledDispatch: which schedules are asked for. *)
EXTENDS ScheduledDispatch

CONSTANT a

Recurring == [trigger |-> "cron", missed |-> "run_once"]
OneShot   == [trigger |-> "once", missed |-> "skip"]

EitherPlan == {Recurring, OneShot}

=============================================================================
