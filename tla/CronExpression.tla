--------------------------- MODULE CronExpression ---------------------------
(***************************************************************************)
(* Which minute a five-field expression gives next: fieldMatch, cronMatch  *)
(* and NextOccurrenceIn (internal/cron/scheduler.go), and a job that is    *)
(* rescheduled with them run after run.                                    *)
(*                                                                         *)
(* The calendar is a small one with the same shape: Length says how many   *)
(* minutes an hour has, hours a day, days a month, months a year and days  *)
(* a week.  An instant is a number of half minutes, so that it need not be *)
(* on the minute.  Time zones only shift the calendar and are left out.    *)
(***************************************************************************)
EXTENDS Integers, FiniteSets, FiniteSetsExt

CONSTANTS
  Length,    \* of an hour, a day, a month, a year and a week
  Horizon,   \* bound on the instants considered
  Lateness,  \* how late a poll may take up a run that is due
  Schedules  \* the expressions considered

Fields == 1 .. 5  \* minute, hour, day of month, month, day of week
Ops    == {"any", "step", "number", "other"}

ASSUME CalendarAssumption == Length \in [Fields -> Nat \ {0}] /\ Horizon \in Nat
ASSUME LatenessAssumption == Lateness \subseteq Nat
ASSUME ScheduleAssumption == \A s \in Schedules : s \in [Fields -> [op : Ops, n : Nat]]

Minute == 2
Hour   == Minute * Length[1]
Day    == Hour * Length[2]
Month  == Day * Length[3]

(* The five numbers of an instant; days of month and months count from 1.  *)
Value(t) == [i \in Fields |-> CASE i = 1 -> (t \div Minute) % Length[1]
                                [] i = 2 -> (t \div Hour) % Length[2]
                                [] i = 3 -> ((t \div Day) % Length[3]) + 1
                                [] i = 4 -> ((t \div Month) % Length[4]) + 1
                                [] i = 5 -> (t \div Day) % Length[5]]

(* "*", "*/n" and "n"; a list or a range is none of them and never matches.*)
fieldMatch(field, value) == \/ field.op = "any"
                            \/ field.op = "step" /\ field.n > 0 /\ value % field.n = 0
                            \/ field.op = "number" /\ field.n = value

cronMatch(fields, t) == \A i \in Fields : fieldMatch(fields[i], Value(t)[i])

(* Faulty: a day instead of two.                                           *)
ShortLimit(after) == after + Day
Limit(after) == after + 2 * Day

(* Faulty: rounds up to the minute and goes on to the one after it.        *)
LateScan(after) ==
  {t \in after + 1 .. Limit(after) - 1 : t % Minute = 0 /\ t - Minute > after}
(* The minutes the loop looks at.                                          *)
Scan(after) == {t \in after + 1 .. Limit(after) - 1 : t % Minute = 0}

NextOccurrenceIn(fields, after) ==
  LET found == {t \in Scan(after) : cronMatch(fields, t)}
  IN IF found = {} THEN after + Hour ELSE Min(found)

VARIABLES
  schedule,
  polled,   \* `now' of the last poll that took the job up, or its creation
  next_run  \* the column of its row
state == <<schedule, polled, next_run>>

Reschedule(t) == polled' = t /\ next_run' = NextOccurrenceIn(schedule, t)

(* The tool that creates a job counts from the instant of the call.        *)
Created ==
  /\ schedule \in Schedules /\ polled \in 0 .. Horizon
  /\ next_run = NextOccurrenceIn(schedule, polled)

(* A poll takes the job up once its run is due, and counts the next one    *)
(* from its own `now': late by what came before it in the list, by a sleep *)
(* of five minutes after a failed query, a lock left behind or downtime.   *)
Fire ==
  /\ next_run < Horizon
  /\ \E late \in Lateness : Reschedule(next_run + late)
  /\ UNCHANGED schedule

Rescheduling == Created /\ [][Fire]_state

-----------------------------------------------------------------------------
(* The minutes of an interval that match, as a plain walk finds them.      *)
Matches(fields, from, to) == {t \in from .. to : t % Minute = 0 /\ cronMatch(fields, t)}

(* However late a poll takes a run up, the next one lies in a later minute *)
(* than the poll, so none is served twice; and of the minutes that match   *)
(* only those up to the poll are passed over, those that its lateness made *)
(* one run of.  Also for a date beyond the two days of the scan.           *)
OneRunPerMinute ==
  [][/\ next_run' \div Minute > polled' \div Minute
     /\ \A t \in Matches(schedule, next_run, next_run' - 1) : t <= polled']_state

(* An expression without a date, such as every day at nine, fires on its   *)
(* minutes and on no other, also when the next one is a whole day away.    *)
Satisfiable(i) == \E v \in 0 .. Length[i] - 1 : fieldMatch(schedule[i], v)
Dateless == /\ \A i \in 3 .. 5 : schedule[i].op = "any"
            /\ \A i \in 1 .. 2 : Satisfiable(i)
DailyOnTime == Dateless => cronMatch(schedule, next_run)

(* NextOccurrenceIn finds an instant that matches.                         *)
FiresOnMatch == cronMatch(schedule, next_run)
=============================================================================
