-------------------------- MODULE MCScanSchedule --------------------------
(* Two schedules of an asset, which two workers and requests contend for.  *)
EXTENDS ScanSchedule

(* A day is the unit of time, and a week is two, so that a weekly schedule *)
(* waits while a daily one runs.                                           *)
DayAndWeek == [daily |-> 1, weekly |-> 2]

(* Clients want a daily and a weekly schedule, and make one of them manual. *)
DailyAndWeekly ==
  {<<"dns_baseline", "daily">>, <<"dns_baseline", "manual">>, <<"http_probe", "weekly">>}
===========================================================================
