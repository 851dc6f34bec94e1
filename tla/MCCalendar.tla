----------------------------- MODULE MCCalendar -----------------------------
(* Instances of OfficeCalendar for TLC: the days at which dates and clocks turn. *)
EXTENDS OfficeCalendar

From(y, m, d, before, after) ==
  [first |-> Ordinal(y, m, d), before |-> before * Minute, after |-> after * Minute,
   change |-> Day + 60 * Minute]

\* The ends of a year before a leap year and of a leap year, the ends of February in both, the
\* two changes of clocks in Belgrade, and one back over midnight, as St. John's had until 2011.
MCScenarios ==
  {From(2023, 12, 30, 60, 60), From(2024, 12, 30, 60, 60),
   From(2023, 2, 27, 60, 60), From(2024, 2, 27, 60, 60),
   From(2024, 3, 30, 60, 120), From(2024, 10, 26, 120, 60),
   From(2024, 10, 26, -30, -90)}

MCYears == 2022 .. 2026
MCLength == 3 * Day
\* Every half hour, and a minute and a second less than a minute before every other hour.
MCMoments ==
  {k * 30 * Minute : k \in 0 .. 143}
  \cup {(2 * k + 1) * 60 * Minute - s : k \in 0 .. 35, s \in {59, 60}}
MCDayCounts == {-1, 0, 1, 2, 366, 367}
MCShortDates == {<<28, 2>>, <<29, 2>>, <<1, 3>>, <<31, 12>>, <<1, 1>>, <<31, 6>>, <<27, 10>>}
MCFullDates == {<<29, 2, 2024>>, <<29, 2, 2025>>, <<31, 12, 2024>>, <<1, 1, 2025>>, <<29, 3, 2024>>}
\* The last are minutes no datetime can hold.
MCCoffeeMinutes == {0, 1, 59, 60, 61, 90, 180, 720, 1439, 1500, 4 * 366 * 24 * 60}
MCClockTimes == {k * 30 : k \in 0 .. 47}
MCEtaMinutes == {-5, 0, 20, 60, 1440, 2880, MaxEtaMinutes, MaxEtaMinutes + 1}
=============================================================================
