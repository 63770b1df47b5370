------------------------------- MODULE MCCron -------------------------------
(* Model checking CronScheduler: two tasks, one caller of StopWithTimeout    *)
(* and RunTask, one restart and a clock of three seconds.                    *)
EXTENDS CronScheduler
=============================================================================
