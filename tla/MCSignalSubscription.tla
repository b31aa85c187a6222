----------------------- MODULE MCSignalSubscription -----------------------
(* A signal names a job and a unit: two jobs of one unit, one of another. *)
EXTENDS SignalSubscription

CONSTANTS a, b, job1, job2, job3, unit1, unit2

MCSignals == {{job1, unit1}, {job2, unit1}, {job3, unit2}}
=============================================================================
