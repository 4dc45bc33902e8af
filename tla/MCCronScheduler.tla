--------------------------- MODULE MCCronScheduler ---------------------------
(***************************************************************************)
(* Model-checking instance of CronScheduler.  The policy allows one        *)
(* outstanding run per job and tick_once() two, so that the limits differ. *)
(* The first two instants lie in one minute, the third an hour later: zone *)
(* `east` shows the same minute then, as a zone does whose summer time     *)
(* ends in between.                                                        *)
(***************************************************************************)
EXTENDS CronScheduler

CONSTANTS utc, east

MCMinute == [t \in Instants |-> IF t < 2 THEN 0 ELSE 60]
MCLocal == [z \in Zones |-> IF z = utc THEN MCMinute ELSE [t \in Instants |-> 120]]
=============================================================================
