---------------------------- MODULE MCCronScheduler ----------------------------
(* TLC instance of CronScheduler: two ids, one of which can be re-created,  *)
(* and one expression, which names two instants.                            *)
EXTENDS CronScheduler

TwoInstants == {{2, 3}}
===============================================================================
