-------------------------- MODULE MCCronScheduler --------------------------
(***************************************************************************)
(* CronScheduler for TLC: which type each job of an instance has.          *)
(***************************************************************************)
EXTENDS CronScheduler, TLC

CONSTANTS j1, j2

Mixed     == j1 :> "once" @@ j2 :> "other"
Repeats   == j1 :> "cron"
OneShot   == j1 :> "once"
=============================================================================
