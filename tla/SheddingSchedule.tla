--------------------------- MODULE SheddingSchedule ---------------------------
(***************************************************************************)
(* The weekly load-shedding schedule: generate_shedding_schedule makes the *)
(* windows of each group, shed_mask_for_group says in which intervals a    *)
(* group is off.  A scenario is walked through hour by hour from the day   *)
(* it starts on.  Days count from Monday = 0; shorter intervals behave as  *)
(* the hour they are in, since every window begins and ends on the hour.   *)
(***************************************************************************)
EXTENDS Integers, FiniteSets, FiniteSetsExt

CONSTANTS Groups,   \* n_shedding_groups: one that divides the day into hours
          Weeks,    \* length of a scenario
          Walked    \* bound: weeks walked through

ASSUME ScheduleAssumption ==
  /\ Groups \in Nat \ {0} /\ 24 % Groups = 0
  /\ Weeks \in Nat \ {0} /\ Walked \in 1..Weeks

VARIABLES startDay,   \* day of the week of the scenario's first hour, or -1
          elapsed,    \* hours of the scenario so far
          hoursOff    \* history: hours each group has been off

scheduleVars == <<startDay, elapsed, hoursOff>>

GroupId == 0..(Groups - 1)
DayOfWeek == 0..6
Weekday == 0..4

(***************************************************************************)
(* The schedule and its mask.                                              *)
(***************************************************************************)

Window(day, start, length) == [dow |-> day, start |-> start % 24, end |-> (start + length) % 24]

\* A morning and an evening block on weekdays, a short evening block at the
\* weekend, shifted by a share of the day per group.
Windows(g) ==
  LET offset == (24 \div Groups) * g
  IN  {Window(day, start + offset, 4) : day \in Weekday, start \in {5, 17}}
        \cup {Window(day, 18 + offset, 2) : day \in DayOfWeek \ Weekday}

\* Mutants: the last hour is inclusive; a window past midnight never matches.
InWindowInclusive(hour, w) ==
  IF w.start <= w.end THEN w.start <= hour /\ hour <= w.end
  ELSE hour >= w.start \/ hour <= w.end

InWindowNoWrap(hour, w) == w.start <= hour /\ hour < w.end

InWindow(hour, w) ==
  IF w.start <= w.end THEN w.start <= hour /\ hour < w.end
  ELSE hour >= w.start \/ hour < w.end

\* The day is compared with the window's own day, whichever side of midnight
\* the hour is on.
Masked(g, day, hour) == \E w \in Windows(g) : w.dow = day /\ InWindow(hour, w)

\* What a window is published to mean: the hours from its start to its end.
Length(w) == (w.end - w.start) % 24

Published(g, day, hour) ==
  \E w \in Windows(g) : (24 * (day - w.dow) + hour - w.start) % 168 < Length(w)

\* hours_shed_recently of the shedding view.
HoursPerWeek(g) == SumFunctionOnSet([w \in Windows(g) |-> Length(w)], Windows(g))

(***************************************************************************)
(* The walk.                                                               *)
(***************************************************************************)
ScheduleInit ==
  /\ startDay = -1 /\ elapsed = 0
  /\ hoursOff = [g \in GroupId |-> 0]

Today == (startDay + elapsed \div 24) % 7
HourNow == elapsed % 24

Begin(day) ==
  /\ startDay = -1 /\ startDay' = day
  /\ UNCHANGED <<elapsed, hoursOff>>

\* The mask of one more hour of the series.
PassHour ==
  /\ startDay # -1 /\ elapsed < 168 * Walked
  /\ hoursOff' = [g \in GroupId |-> hoursOff[g] + (IF Masked(g, Today, HourNow) THEN 1 ELSE 0)]
  /\ elapsed' = elapsed + 1
  /\ UNCHANGED startDay

ScheduleNext == PassHour \/ \E day \in DayOfWeek : Begin(day)

(***************************************************************************)
(* Properties.                                                             *)
(***************************************************************************)

\* After whole weeks, begun on any day, a group has been off for as many hours
\* as the allocation reckons with from the windows alone: a window past
\* midnight, or a series that starts in the middle of one, loses none.
HoursAsPublished ==
  startDay # -1 /\ elapsed % 168 = 0 =>
    \A g \in GroupId : hoursOff[g] = (elapsed \div 168) * HoursPerWeek(g)

\* Matching a window past midnight on its own day moves its small hours from
\* the day after it to the day itself.  This only shows where the windows
\* change: in the small hours of Saturday and of Monday.
MidnightConfined ==
  startDay # -1 =>
    \A g \in GroupId :
      (Masked(g, Today, HourNow) # Published(g, Today, HourNow)) => Today \in {0, 5} /\ HourNow < 4
=============================================================================
