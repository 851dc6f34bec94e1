--------------------------- MODULE OfficeCalendar ---------------------------
(***************************************************************************)
(* What the bot makes of days and times: vacations (features/vacation),    *)
(* the time of a coffee meeting (features/coffee/time.py) and announced    *)
(* arrivals (features/presence).  Dates are Gregorian, the time zone may   *)
(* change its offset once.                                                 *)
(*                                                                         *)
(* A date is its ordinal, as in datetime; a time is a number of units, of  *)
(* which Minute are a minute: in UTC since a first midnight, or on a local *)
(* clock since its own midnight of that day.  Arithmetic on local times is *)
(* that of the clock face, and a local time that is skipped or shown twice *)
(* is read with the offset before the change: this is what datetime does   *)
(* without "fold".  A command runs at one moment.                          *)
(***************************************************************************)
EXTENDS Integers, Sequences, FiniteSets, FiniteSetsExt

CONSTANTS
  Users,        \* active users
  Years,        \* the years of all dates that occur (a bound)
  Scenarios,    \* first day, offsets before and after a change of clocks, its moment (bounds)
  Minute,       \* units of the clock in a minute: 60 are seconds
  Moments,      \* when commands run (a bound)
  Length,       \* a scenario lasts so long (a bound)
  LastYear,     \* datetime.MAXYEAR
  MaxCommands,  \* how many /vacation with an effect (a bound)
  DayCounts, ShortDates, FullDates, \* arguments of /vacation (bounds)
  CoffeeMinutes, ClockTimes,        \* arguments of /coffee, in minutes (bounds)
  EtaMinutes                        \* minutes of /meta and /eta (a bound)

Day == 24 * 60 * Minute
MaxVacationDays == 366
MaxEtaMinutes == 366 * 24 * 60

-----------------------------------------------------------------------------
(* Dates.                                                                  *)

Leap(y) == y % 4 = 0 /\ (y % 100 # 0 \/ y % 400 = 0)

MonthLength(y, m) ==
  IF m = 2 THEN IF Leap(y) THEN 29 ELSE 28 ELSE IF m \in {4, 6, 9, 11} THEN 30 ELSE 31

ValidDate(y, m, d) == m \in 1 .. 12 /\ d \in 1 .. MonthLength(y, m)

DaysBeforeYear(y) == 365 * (y - 1) + (y - 1) \div 4 - (y - 1) \div 100 + (y - 1) \div 400

DaysBeforeMonth(y, m) ==
  <<0, 31, 59, 90, 120, 151, 181, 212, 243, 273, 304, 334>>[m] + IF m > 2 /\ Leap(y) THEN 1 ELSE 0

Ordinal(y, m, d) == DaysBeforeYear(y) + DaysBeforeMonth(y, m) + d

\* The year, month and day of an ordinal.
Civil ==
  [n \in DaysBeforeYear(Min(Years)) + 1 .. DaysBeforeYear(Max(Years) + 1) |->
     LET y == CHOOSE y \in Years : DaysBeforeYear(y) < n /\ n <= DaysBeforeYear(y + 1)
         m == Max({k \in 1 .. 12 : Ordinal(y, k, 1) <= n})
     IN  <<y, m, n - Ordinal(y, m, 1) + 1>>]

YearOf(date) == Civil[date][1]
MonthOf(date) == Civil[date][2]
DayOf(date) == Civil[date][3]

NoDate == 0

\* datetime.max: what lies behind it raises OverflowError.
LastDate == DaysBeforeYear(LastYear + 1)

\* datetime.date, or None where it raises ValueError.
DateOrNone(y, m, d) == IF ValidDate(y, m, d) THEN Ordinal(y, m, d) ELSE NoDate

\* The years are those of every day of a scenario and of the year after it; a local clock is less
\* than a day off UTC, and was never changed by more than a day.
ASSUME CalendarAssumption ==
  /\ Years \subseteq Nat \ {0} /\ \E y, z \in Years : Years = y .. z
  /\ LastYear \in Nat /\ \A y \in Years : y <= LastYear
  /\ Minute \in Nat \ {0} /\ Length \in Nat /\ Moments \subseteq 0 .. Length /\ MaxCommands \in Nat
  /\ DayCounts \subseteq Int /\ ShortDates \subseteq Int \X Int
  /\ FullDates \subseteq Int \X Int \X Int /\ EtaMinutes \subseteq Int
  /\ CoffeeMinutes \subseteq Nat /\ ClockTimes \subseteq 0 .. 24 * 60 - 1
  /\ \A s \in Scenarios :
       /\ s.first \in Nat /\ s.change \in Int /\ s.before \in Int /\ s.after \in Int
       /\ s.after - s.before \in -Day .. Day
       /\ \A offset \in {s.before, s.after} :
            /\ -Day < offset /\ offset < Day
            /\ DaysBeforeYear(Min(Years)) < s.first + offset \div Day
            /\ s.first + (Length + offset) \div Day + MaxVacationDays <= DaysBeforeYear(Max(Years) + 1)

-----------------------------------------------------------------------------
VARIABLES
  scenario, \* the scenario: where and when this happens
  now,      \* the moment, in UTC
  until,    \* user_vacations: the last day of a vacation, or NoDate
  asked,    \* history: the last /vacation of a user that was accepted, and its day
  commands  \* history: how many those were

vars == <<scenario, now, until, asked, commands>>

(* The time zone (zoneinfo).                                               *)

Offset(t) == IF t < scenario.change THEN scenario.before ELSE scenario.after

LocalTime(t) == t + Offset(t)

\* astimezone(UTC) of a local time without fold.
ToUtc(local) ==
  LET early == local - scenario.before
      late == local - scenario.after
  IN  IF early < scenario.change \/ late < scenario.change THEN early ELSE late

DateOf(local) == scenario.first + local \div Day

Today == DateOf(LocalTime(now))

-----------------------------------------------------------------------------
(* /vacation.                                                              *)

Arguments ==
  [kind : {"status", "off", "junk"}]
  \cup [kind : {"days"}, n : DayCounts]
  \cup {[kind |-> "short", d |-> a[1], m |-> a[2]] : a \in ShortDates}
  \cup {[kind |-> "full", d |-> a[1], m |-> a[2], y |-> a[3]] : a \in FullDates}

Plain(kind) == [kind |-> kind, until |-> NoDate]
SetUntil(date) == [kind |-> "set", until |-> date]

\* Mutant: the last day is a day too late.
DayCountTo(n, today) ==
  IF n = 0 THEN Plain("clear")
  ELSE IF n < 0 \/ n > MaxVacationDays THEN Plain("invalid")
  ELSE SetUntil(today + n)

\* _parse_day_count: today is the first day.
DayCount(n, today) ==
  IF n = 0 THEN Plain("clear")
  ELSE IF n < 0 \/ n > MaxVacationDays THEN Plain("invalid")
  ELSE SetUntil(today + n - 1)

\* Mutant: a short date is one of this year.
ThisYear(d, m, today) == DateOrNone(YearOf(today), m, d)

\* _parse_date_argument without a year: this year, or the next if that has passed.
ShortDate(d, m, today) ==
  LET candidate == DateOrNone(YearOf(today), m, d)
  IN  IF candidate # NoDate /\ candidate < today
      THEN DateOrNone(YearOf(today) + 1, m, d)
      ELSE candidate

\* parse_vacation_request.
ParseVacation(a, today) ==
  LET date == IF a.kind = "short" THEN ShortDate(a.d, a.m, today) ELSE DateOrNone(a.y, a.m, a.d)
  IN  CASE a.kind = "status" -> Plain("status")
        [] a.kind = "off"    -> Plain("clear")
        [] a.kind = "junk"   -> Plain("invalid")
        [] a.kind = "days"   -> DayCount(a.n, today)
        [] OTHER             -> IF date = NoDate \/ date < today \/ date - today > MaxVacationDays
                                THEN Plain("invalid") ELSE SetUntil(date)

\* VacationRepository.active_user_ids, and the status /vacation reports.
Away(day) == {u \in Users : until[u] # NoDate /\ until[u] >= day}

\* VacationService.execute for a request that changes something.
Vacation(u, a) ==
  LET request == ParseVacation(a, Today)
  IN  /\ commands < MaxCommands
      /\ request.kind \in {"set", "clear"}
      /\ until' = [until EXCEPT ![u] = request.until]
      /\ asked' = [asked EXCEPT ![u] = [a |-> a, on |-> Today]]
      /\ commands' = commands + 1
      /\ UNCHANGED <<scenario, now>>

Later == {t \in Moments : t > now}

Tick ==
  /\ Later # {}
  /\ now' = Min(Later)
  /\ UNCHANGED <<scenario, until, asked, commands>>

Init ==
  /\ scenario \in Scenarios
  /\ now = 0
  /\ until = [u \in Users |-> NoDate]
  /\ asked = [u \in Users |-> [a |-> [kind |-> "off"], on |-> scenario.first]]
  /\ commands = 0

Next == Tick \/ \E u \in Users, a \in Arguments : Vacation(u, a)

Spec == Init /\ [][Next]_vars

-----------------------------------------------------------------------------
(* /coffee: CoffeeTimeResolver.                                            *)

\* "junk" has another format; "odd" is made of digits that isdigit() knows and int() refuses.
Requests ==
  [kind : {"junk", "odd"}] \cup [kind : {"minutes"}, n : CoffeeMinutes]
  \cup [kind : {"clock"}, at : ClockTimes]

\* Mutant: the date is that of UTC.
ParseUtc(r) ==
  IF r.kind = "minutes" THEN now + r.n * Minute
  ELSE (now \div Day) * Day + r.at * Minute - scenario.before

\* The local time parse_coffee_time takes an argument for: minutes from now, or a time today.
LocalAsked(r) ==
  IF r.kind = "minutes" THEN LocalTime(now) + r.n * Minute
  ELSE (LocalTime(now) \div Day) * Day + r.at * Minute

\* parse_coffee_time, of minutes or a time of day.
ParseCoffee(r) == ToUtc(LocalAsked(r))

\* A datetime on the way is later than there are.
Overflows(r) ==
  \E t \in {LocalAsked(r), ParseCoffee(r), LocalTime(ParseCoffee(r))} : DateOf(t) > LastDate

\* Mutant: the time need only be ahead.
AllowedAhead(t) == DateOf(LocalTime(t)) = Today /\ t > now

\* _is_allowed_time.
AllowedTime(t) == DateOf(LocalTime(t)) = Today /\ t >= now + Minute

\* CoffeeTimeResolver.resolve; what it raises, the error handler answers with an internal error.
CoffeeResolution(r) ==
  IF r.kind = "odd" THEN "raises"
  ELSE IF r.kind = "junk" \/ (r.kind = "minutes" /\ r.n = 0) THEN "format"
  ELSE IF Overflows(r) THEN "raises"
  ELSE IF AllowedTime(ParseCoffee(r)) THEN "valid" ELSE "range"

-----------------------------------------------------------------------------
(* /meta and /eta: EtaRequestResolver, PresenceService, the reply.         *)

\* An argument is one number of minutes, or a range of two.
Etas == (EtaMinutes \X {-1}) \cup (EtaMinutes \X (EtaMinutes \cap Nat))

ValidMinutes(n) == 0 <= n /\ n <= MaxEtaMinutes

\* EtaRequestResolver, of an argument in the format; -1 stands for no end.
EtaResolution(e) ==
  IF ~ValidMinutes(e[1]) \/ (e[2] # -1 /\ ~ValidMinutes(e[2])) THEN "range"
  ELSE IF e[2] # -1 /\ e[1] > e[2] THEN "reversed" ELSE "valid"

\* Mutant: the label never names the year.
LabelYearless(date, reference) ==
  IF date = reference THEN [kind |-> "unsaid"]
  ELSE IF date = reference + 1 THEN [kind |-> "tomorrow"]
  ELSE [kind |-> "day", day |-> DayOf(date), month |-> MonthOf(date)]

\* _date_label.
Label(date, reference) ==
  IF date = reference THEN [kind |-> "unsaid"]
  ELSE IF date = reference + 1 THEN [kind |-> "tomorrow"]
  ELSE IF YearOf(date) = YearOf(reference)
       THEN [kind |-> "day", day |-> DayOf(date), month |-> MonthOf(date)]
  ELSE [kind |-> "date", day |-> DayOf(date), month |-> MonthOf(date), year |-> YearOf(date)]

\* "%H:%M": the minute of the day, without its seconds.
Face(local) == (local % Day) \div Minute

Said(local, reference) ==
  [label |-> Label(DateOf(local), reference), time |-> Face(local)]

\* render_presence_report: one moment, a range within a day, or a range from day to day.
Reply(e) ==
  LET start == LocalTime(now) + e[1] * Minute
      end == LocalTime(now) + e[2] * Minute
  IN  IF e[2] = -1 THEN <<Said(start, Today)>>
      ELSE IF DateOf(start) = DateOf(end) THEN <<Said(start, Today), [time |-> Face(end)]>>
      ELSE <<Said(start, Today), Said(end, Today)>>

-----------------------------------------------------------------------------
(* Properties.                                                             *)

TypeOK ==
  /\ scenario \in Scenarios
  /\ now \in 0 .. Length
  /\ until \in [Users -> Nat]
  /\ asked \in [Users -> [a : Arguments, on : Nat]]
  /\ commands \in 0 .. MaxCommands

\* The day a date argument names, seen from a day: the first such day from then on, within the
\* days a vacation may last; none if there is no such day.
Meant(a, today) ==
  LET years == IF a.kind = "full" THEN {a.y} ELSE Years
      days == {DateOrNone(y, a.m, a.d) : y \in years} \cap (today .. today + MaxVacationDays)
  IN  IF days = {} THEN NoDate ELSE Min(days)

\* /vacation understands a date as the next day of that name, over the end of the year too, and
\* refuses one that has passed, is too far away or does not exist; but 29 February it refuses in
\* the year before a leap year, although the day comes within the year.
DatesUnderstood ==
  \A a \in {b \in Arguments : b.kind \in {"short", "full"}} :
    LET request == ParseVacation(a, Today)
        lost == a.kind = "short" /\ <<a.d, a.m>> = <<29, 2>> /\ ~Leap(YearOf(Today))
    IN  IF lost \/ Meant(a, Today) = NoDate THEN request.kind = "invalid"
        ELSE request = SetUntil(Meant(a, Today))

\* The clocks are set back over midnight, so that a day comes to an end twice.
DayComesAgain == DateOf(scenario.change + scenario.after) < DateOf(scenario.change - 1 + scenario.before)

\* On every day exactly those are away, for the lunch call and for /vacation, whose last accepted
\* command asks for that day: N days are the day of the command and the N - 1 after it, a date
\* is the last day, and nobody is away after 0 or "off", whatever they had asked before.  When the
\* clocks go back to the day before the command, its user is away on that day too.
AwayAsAsked ==
  \A u \in Users :
    LET a == asked[u].a
        on == asked[u].on
        last == CASE a.kind = "off"  -> NoDate
                  [] a.kind = "days" -> IF a.n = 0 THEN NoDate ELSE on + a.n - 1
                  [] OTHER           -> Meant(a, on)
    IN  u \in Away(Today) <=> Today <= last /\ (Today >= on \/ DayComesAgain)

\* The clocks do not change within a day of now, and some moment shows a local time.
SteadyDay == \A t \in {now - Day, now + Day} : Offset(t) = Offset(now)
IsShown(local) == \E o \in {scenario.before, scenario.after} : LocalTime(local - o) = local

\* The time of a meeting lies at least a full minute, in seconds, after the command and on its day.
\* It is when the local clock shows the time asked for, or so many minutes more than now; a time
\* the clock skips comes as much later as is skipped.  Without a change of clocks near, minutes are
\* minutes, and no time of the day is refused that the clock shows a full minute or more after the
\* command.  An error is raised only where datetime ends, never for a time on an earlier day.
MeetingAsAsked ==
  \A r \in {q \in Requests : q.kind \in {"minutes", "clock"}} :
    LET t == ParseCoffee(r)
        local == IF r.kind = "minutes" THEN LocalTime(now) + r.n * Minute
                 ELSE (Today - scenario.first) * Day + r.at * Minute
        accepted == CoffeeResolution(r) = "valid"
    IN  /\ accepted =>
             /\ t >= now + Minute /\ DateOf(LocalTime(t)) = Today
             /\ LocalTime(t) = local + IF IsShown(local) THEN 0 ELSE scenario.after - scenario.before
        /\ SteadyDay =>
             /\ accepted <=> local >= LocalTime(now) + Minute /\ DateOf(local) = Today
             /\ accepted /\ r.kind = "minutes" => t = now + r.n * Minute
        /\ CoffeeResolution(r) = "raises" => DateOf(local) >= LastDate

\* The minute a reader of the reply takes it for, on the day it was sent; an end without a label is
\* on the day of the start.
ReadAs(said, date) == (date - scenario.first) * Day + said.time * Minute

Within(local, minute) == minute <= local /\ local < minute + Minute

DateRead(label, reference) ==
  CASE label.kind = "unsaid"   -> reference
    [] label.kind = "tomorrow" -> reference + 1
    [] label.kind = "date"     -> DateOrNone(label.year, label.month, label.day)
    [] OTHER                   -> DateOrNone(YearOf(reference), label.month, label.day)

\* A reply to /meta or /eta, read on its day, names the minutes in which the local times asked for
\* lie, up to a year ahead, over midnight and the end of the year, in the right order.
PresenceReads ==
  \A e \in {f \in Etas : EtaResolution(f) = "valid"} :
    LET reply == Reply(e)
        date == DateRead(reply[1].label, Today)
    IN  /\ Within(LocalTime(now) + e[1] * Minute, ReadAs(reply[1], date))
        /\ e[2] # -1 =>
             /\ e[1] <= e[2]
             /\ Within(LocalTime(now) + e[2] * Minute,
                       ReadAs(reply[2], IF "label" \in DOMAIN reply[2]
                                        THEN DateRead(reply[2].label, Today) ELSE date))

=============================================================================
