------------------------ MODULE OfficeCalendar_proofs ------------------------
(***************************************************************************)
(* Theorems about OfficeCalendar, for any time zone, days and arguments    *)
(* within the years: dates are understood, those are away who asked for    *)
(* it, meetings are at the time asked for, and a reply is read as meant.   *)
(***************************************************************************)
EXTENDS OfficeCalendar, FiniteSetTheorems, TLAPS

-----------------------------------------------------------------------------
(* The calendar: years and days of a year.                                 *)

LEMMA MaxIs ==
  ASSUME NEW S \in SUBSET Int, NEW x \in S, \A y \in S : y <= x
  PROVE  Max(S) = x
<1>1. \A y \in S : y \in Int /\ (y >= x => y = x)
  OBVIOUS
<1> QED
  BY <1>1 DEF Max

LEMMA MinIs ==
  ASSUME NEW S \in SUBSET Int, NEW x \in S, \A y \in S : x <= y
  PROVE  Min(S) = x
<1>1. \A y \in S : y \in Int /\ (y <= x => y = x)
  OBVIOUS
<1> QED
  BY <1>1 DEF Min

YearLength(y) == 365 + (IF Leap(y) THEN 1 ELSE 0)

LEMMA YearStep ==
  ASSUME NEW y \in Int
  PROVE  /\ DaysBeforeYear(y) \in Int /\ YearLength(y) \in {365, 366}
         /\ DaysBeforeYear(y + 1) = DaysBeforeYear(y) + YearLength(y)
BY DEF DaysBeforeYear, YearLength, Leap

LEMMA YearOrder ==
  ASSUME NEW y \in Int, NEW z \in Int, y < z
  PROVE  DaysBeforeYear(y + 1) <= DaysBeforeYear(z)
BY DEF DaysBeforeYear

\* A date is a day of its year.
LEMMA DateInYear ==
  ASSUME NEW y \in Int, NEW m \in Int, NEW d \in Int, ValidDate(y, m, d)
  PROVE  /\ Ordinal(y, m, d) \in Int
         /\ DaysBeforeYear(y) < Ordinal(y, m, d) /\ Ordinal(y, m, d) <= DaysBeforeYear(y + 1)
<1>1. /\ DaysBeforeYear(y) \in Int /\ YearLength(y) \in Int
      /\ DaysBeforeYear(y + 1) = DaysBeforeYear(y) + YearLength(y)
  BY YearStep
<1>2. DaysBeforeMonth(y, m) \in Int /\ DaysBeforeMonth(y, m) >= 0
      /\ DaysBeforeMonth(y, m) + MonthLength(y, m) <= YearLength(y)
      /\ d >= 1 /\ d <= MonthLength(y, m) /\ MonthLength(y, m) \in Int
  <2>1. m \in 1 .. 12 /\ d \in 1 .. MonthLength(y, m) /\ MonthLength(y, m) \in Int
    BY DEF ValidDate, MonthLength
  <2>2. CASE Leap(y)
    BY <2>1, <2>2 DEF DaysBeforeMonth, MonthLength, YearLength
  <2>3. CASE ~Leap(y)
    BY <2>1, <2>3 DEF DaysBeforeMonth, MonthLength, YearLength
  <2> QED
    BY <2>1, <2>2, <2>3
<1> QED
  BY <1>1, <1>2 DEF Ordinal

\* Dates in order: an earlier month ends before a later one begins.
LEMMA MonthOrder ==
  ASSUME NEW y \in Int, NEW i \in 1 .. 12, NEW j \in 1 .. 12, i < j
  PROVE  DaysBeforeMonth(y, i) + MonthLength(y, i) <= DaysBeforeMonth(y, j)
<1>1. CASE Leap(y)
  BY <1>1 DEF DaysBeforeMonth, MonthLength
<1>2. CASE ~Leap(y)
  BY <1>2 DEF DaysBeforeMonth, MonthLength
<1> QED
  BY <1>1, <1>2

LEMMA MonthTypes ==
  ASSUME NEW y \in Int, NEW m \in 1 .. 12
  PROVE  DaysBeforeMonth(y, m) \in Nat /\ MonthLength(y, m) \in 28 .. 31
<1>1. CASE Leap(y)
  BY <1>1 DEF DaysBeforeMonth, MonthLength
<1>2. CASE ~Leap(y)
  BY <1>2 DEF DaysBeforeMonth, MonthLength
<1> QED
  BY <1>1, <1>2

\* Every day of a year is one of a month.
InMonth(y, m, k) == DaysBeforeMonth(y, m) < k /\ k <= DaysBeforeMonth(y, m) + MonthLength(y, m)

LEMMA MonthFound ==
  ASSUME NEW y \in Int, NEW k \in 1 .. YearLength(y)
  PROVE  \E m \in 1 .. 12 : InMonth(y, m, k)
<1>1. PICK l \in {0, 1} : l = 1 <=> Leap(y)
  OBVIOUS
<1>2. k \in Int /\ k >= 1 /\ k <= 365 + l
  BY <1>1 DEF YearLength
<1>3. k <= 31 => InMonth(y, 1, k)
  BY <1>1, <1>2 DEF InMonth, DaysBeforeMonth, MonthLength
<1>4. (k > 31 /\ k <= 59 + l) => InMonth(y, 2, k)
  BY <1>1, <1>2 DEF InMonth, DaysBeforeMonth, MonthLength
<1>5. (k > 59 + l /\ k <= 90 + l) => InMonth(y, 3, k)
  BY <1>1, <1>2 DEF InMonth, DaysBeforeMonth, MonthLength
<1>6. (k > 90 + l /\ k <= 120 + l) => InMonth(y, 4, k)
  BY <1>1, <1>2 DEF InMonth, DaysBeforeMonth, MonthLength
<1>7. (k > 120 + l /\ k <= 151 + l) => InMonth(y, 5, k)
  BY <1>1, <1>2 DEF InMonth, DaysBeforeMonth, MonthLength
<1>8. (k > 151 + l /\ k <= 181 + l) => InMonth(y, 6, k)
  BY <1>1, <1>2 DEF InMonth, DaysBeforeMonth, MonthLength
<1>9. (k > 181 + l /\ k <= 212 + l) => InMonth(y, 7, k)
  BY <1>1, <1>2 DEF InMonth, DaysBeforeMonth, MonthLength
<1>10. (k > 212 + l /\ k <= 243 + l) => InMonth(y, 8, k)
  BY <1>1, <1>2 DEF InMonth, DaysBeforeMonth, MonthLength
<1>11. (k > 243 + l /\ k <= 273 + l) => InMonth(y, 9, k)
  BY <1>1, <1>2 DEF InMonth, DaysBeforeMonth, MonthLength
<1>12. (k > 273 + l /\ k <= 304 + l) => InMonth(y, 10, k)
  BY <1>1, <1>2 DEF InMonth, DaysBeforeMonth, MonthLength
<1>13. (k > 304 + l /\ k <= 334 + l) => InMonth(y, 11, k)
  BY <1>1, <1>2 DEF InMonth, DaysBeforeMonth, MonthLength
<1>14. k > 334 + l => InMonth(y, 12, k)
  BY <1>1, <1>2 DEF InMonth, DaysBeforeMonth, MonthLength
<1> QED
  BY <1>1, <1>2, <1>3, <1>4, <1>5, <1>6, <1>7, <1>8, <1>9, <1>10, <1>11, <1>12, <1>13, <1>14

\* A date in one year and in the next are a year apart.
LEMMA YearApart ==
  ASSUME NEW y \in Int, NEW m \in Int, NEW d \in Int, m \in 1 .. 12
  PROVE  Ordinal(y + 1, m, d) - Ordinal(y, m, d) \in {365, 366}
<1>1. /\ DaysBeforeYear(y) \in Int /\ YearLength(y) \in Int
      /\ DaysBeforeYear(y + 1) = DaysBeforeYear(y) + YearLength(y)
  BY YearStep
<1>2. ~(Leap(y) /\ Leap(y + 1))
  BY DEF Leap
<1>3. /\ DaysBeforeMonth(y, m) \in Int
      /\ YearLength(y) + DaysBeforeMonth(y + 1, m) - DaysBeforeMonth(y, m) \in {365, 366}
      /\ DaysBeforeMonth(y + 1, m) \in Int
  BY <1>2 DEF DaysBeforeMonth, YearLength
<1> QED
  BY <1>1, <1>3 DEF Ordinal

-----------------------------------------------------------------------------
(* The date of an ordinal.                                                 *)

LEMMA YearsFacts ==
  /\ Min(Years) \in Years /\ Min(Years) \in Nat \ {0} /\ Max(Years) \in Years /\ Max(Years) \in Nat
  /\ \A y \in Years : y \in Nat \ {0} /\ Min(Years) <= y /\ y <= Max(Years)
  /\ \A y \in Int : Min(Years) <= y /\ y <= Max(Years) => y \in Years
<1>1. PICK y, z \in Years : Years = y .. z
  BY CalendarAssumption
<1>2. Years \subseteq Nat \ {0} /\ y \in Nat \ {0} /\ z \in Nat
  BY CalendarAssumption
<1>3. Years \in SUBSET Int /\ \A x \in Years : y <= x /\ x <= z
  BY <1>1, <1>2
<1>4. Min(Years) = y /\ Max(Years) = z
  BY <1>3, MinIs, MaxIs
<1>5. \A x \in Int : y <= x /\ x <= z => x \in Years
  BY <1>1, <1>2
<1> QED
  BY <1>2, <1>3, <1>4, <1>5

LEMMA DaysPositive ==
  ASSUME NEW y \in Nat \ {0}
  PROVE  DaysBeforeYear(y) \in Nat
BY DEF DaysBeforeYear

LEMMA LeastNatural ==
  ASSUME NEW S \in SUBSET Nat, S # {}
  PROVE  \E x \in S : \A y \in S : x <= y
<1> DEFINE Below == {0 .. n : n \in S}
           R == StrictSubsetOrdering(Nat)
<1>1. Below \subseteq FiniteSubsetsOf(Nat) /\ Below # {}
  <2>1. ASSUME NEW n \in S PROVE 0 .. n \in SUBSET Nat /\ IsFiniteSet(0 .. n)
    BY FS_Interval
  <2> QED
    BY <2>1 DEF FiniteSubsetsOf
<1>2. PICK X \in Below : \A Y \in Below : ~(<<Y, X>> \in R)
  <2>1. IsWellFoundedOn(R, FiniteSubsetsOf(Nat))
    BY FS_StrictSubsetOrderingWellFounded
  <2> HIDE DEF Below, R
  <2> QED
    BY <1>1, <2>1, WFMin
<1>3. PICK x \in S : X = 0 .. x
  BY <1>2
<1>4. ASSUME NEW y \in S, y < x PROVE FALSE
  <2>1. 0 .. y \subseteq 0 .. x /\ 0 .. y # 0 .. x
    <3>1. x \in 0 .. x /\ x \notin 0 .. y
      BY <1>4
    <3> QED
      BY <1>4, <3>1
  <2>2. 0 .. y \in SUBSET Nat /\ 0 .. x \in SUBSET Nat
    OBVIOUS
  <2>3. <<0 .. y, 0 .. x>> \in R
    BY <2>1, <2>2 DEF StrictSubsetOrdering
  <2> QED
    BY <1>2, <1>3, <2>3
<1> QED
  BY <1>4

\* The days whose year is among those of the model.
Dates == DaysBeforeYear(Min(Years)) + 1 .. DaysBeforeYear(Max(Years) + 1)

InYear(n, y) == DaysBeforeYear(y) < n /\ n <= DaysBeforeYear(y + 1)

LEMMA YearFound ==
  ASSUME NEW n \in Dates
  PROVE  \E y \in Years : InYear(n, y)
<1> DEFINE S == {y \in Years : n <= DaysBeforeYear(y + 1)}
<1>1. /\ n \in Int /\ DaysBeforeYear(Min(Years)) < n /\ n <= DaysBeforeYear(Max(Years) + 1)
  <2>1. Min(Years) \in Int /\ Max(Years) + 1 \in Int
    BY YearsFacts
  <2>2. DaysBeforeYear(Min(Years)) \in Int /\ DaysBeforeYear(Max(Years) + 1) \in Int
    BY <2>1, YearStep
  <2> QED
    BY <2>2 DEF Dates
<1>2. S \in SUBSET Nat /\ Max(Years) \in S
  BY <1>1, YearsFacts
<1>3. PICK y \in S : \A z \in S : y <= z
  <2> HIDE DEF S
  <2> QED
    BY <1>2, LeastNatural
<1>4. CASE y = Min(Years)
  BY <1>1, <1>3, <1>4 DEF InYear
<1>5. CASE y # Min(Years)
  <2>1. y \in Int /\ y - 1 \in Years /\ y - 1 \in Int /\ ~(y <= y - 1)
    BY <1>5, YearsFacts
  <2>2. y - 1 \notin S
    BY <1>3, <2>1
  <2>3. (y - 1) + 1 = y /\ DaysBeforeYear(y) \in Int
    BY <2>1, YearStep
  <2>4. DaysBeforeYear(y) < n
    BY <1>1, <2>1, <2>2, <2>3
  <2> QED
    BY <1>3, <2>4 DEF InYear
<1> QED
  BY <1>4, <1>5

LEMMA YearUnique ==
  ASSUME NEW n \in Int, NEW y \in Int, NEW z \in Int, InYear(n, y), InYear(n, z)
  PROVE  y = z
<1>1. ASSUME NEW v \in Int, NEW w \in Int, v < w, InYear(n, v), InYear(n, w) PROVE FALSE
  <2>1. DaysBeforeYear(v + 1) <= DaysBeforeYear(w)
    BY <1>1, YearOrder
  <2>2. DaysBeforeYear(v + 1) \in Int /\ DaysBeforeYear(w) \in Int
    BY YearStep
  <2> QED
    BY <1>1, <2>1, <2>2 DEF InYear
<1> QED
  BY <1>1

\* Civil is the inverse of Ordinal on the dates of the model.
LEMMA CivilFacts ==
  ASSUME NEW n \in Dates
  PROVE  /\ n \in Int /\ YearOf(n) \in Years /\ YearOf(n) \in Int /\ InYear(n, YearOf(n))
         /\ MonthOf(n) \in 1 .. 12 /\ DayOf(n) \in Int
         /\ ValidDate(YearOf(n), MonthOf(n), DayOf(n))
         /\ Ordinal(YearOf(n), MonthOf(n), DayOf(n)) = n
<1> DEFINE Y == CHOOSE y \in Years : DaysBeforeYear(y) < n /\ n <= DaysBeforeYear(y + 1)
           M == Max({k \in 1 .. 12 : Ordinal(Y, k, 1) <= n})
<1>1. Civil[n] = <<Y, M, n - Ordinal(Y, M, 1) + 1>>
  BY DEF Civil, Dates
<1>2. Y \in Years /\ InYear(n, Y)
  BY YearFound DEF InYear
<1>3. PICK y \in Years : y = Y
  BY <1>2
<1>4. /\ y \in Int /\ n \in Int /\ DaysBeforeYear(y) \in Int /\ YearLength(y) \in Int
      /\ n - DaysBeforeYear(y) \in 1 .. YearLength(y)
  <2>1. y \in Int /\ n \in Int
    BY YearsFacts, YearStep DEF Dates
  <2> QED
    BY <1>2, <1>3, <2>1, YearStep DEF InYear
<1>5. PICK m \in 1 .. 12 : InMonth(y, m, n - DaysBeforeYear(y))
  BY <1>4, MonthFound
<1>6. /\ \A k \in 1 .. 12 : DaysBeforeMonth(y, k) \in Int /\ MonthLength(y, k) \in Int
      /\ DaysBeforeYear(y) + DaysBeforeMonth(y, m) < n
      /\ n <= DaysBeforeYear(y) + DaysBeforeMonth(y, m) + MonthLength(y, m)
  <2>1. ASSUME NEW k \in 1 .. 12
        PROVE  DaysBeforeMonth(y, k) \in Int /\ MonthLength(y, k) \in Int
    <3>1. DaysBeforeMonth(y, k) \in Nat /\ MonthLength(y, k) \in 28 .. 31
      BY <1>4, MonthTypes
    <3> QED
      BY <3>1
  <2> QED
    BY <1>4, <1>5, <2>1 DEF InMonth
<1>7. M = m
  <2> DEFINE S == {k \in 1 .. 12 : Ordinal(y, k, 1) <= n}
  <2>1. m \in S
    BY <1>4, <1>6 DEF Ordinal
  <2>2. ASSUME NEW k \in S PROVE k <= m
    <3>1. CASE m < k
      <4>1. DaysBeforeMonth(y, m) + MonthLength(y, m) <= DaysBeforeMonth(y, k)
        BY <1>4, <3>1, MonthOrder
      <4>2. DaysBeforeYear(y) + DaysBeforeMonth(y, k) + 1 <= n
        BY <2>2 DEF Ordinal
      <4> QED
        BY <1>4, <1>6, <4>1, <4>2
    <3> QED
      BY <3>1
  <2>3. S \in SUBSET Int
    OBVIOUS
  <2> HIDE DEF S
  <2>4. Max(S) = m
    BY <2>1, <2>2, <2>3, MaxIs
  <2> QED
    BY <1>3, <2>4 DEF S
<1>8. PICK d : d = n - Ordinal(y, m, 1) + 1
  OBVIOUS
<1>9. YearOf(n) = y /\ MonthOf(n) = m /\ DayOf(n) = d
  <2> HIDE DEF Y, M
  <2> QED
    BY <1>1, <1>3, <1>7, <1>8 DEF YearOf, MonthOf, DayOf
<1>10. d \in 1 .. MonthLength(y, m) /\ Ordinal(y, m, d) = n
  BY <1>4, <1>6, <1>8 DEF Ordinal
<1> QED
  BY <1>2, <1>3, <1>4, <1>9, <1>10 DEF ValidDate

-----------------------------------------------------------------------------
(* Dates without a year.                                                   *)

\* Only the 29 February exists in some years and not in others.
LEMMA SameValidity ==
  ASSUME NEW y \in Int, NEW z \in Int, NEW m \in Int, NEW d \in Int
  PROVE  /\ <<d, m>> # <<29, 2>> => (ValidDate(y, m, d) <=> ValidDate(z, m, d))
         /\ <<d, m>> = <<29, 2>> => (ValidDate(y, m, d) <=> Leap(y))
BY DEF ValidDate, MonthLength

DaysNamed(d, m, t) == {DateOrNone(z, m, d) : z \in Years} \cap (t .. t + MaxVacationDays)

\* What ShortDate makes of a date is the first day of that name from the day t on.
LEMMA ShortDateFacts ==
  ASSUME NEW t \in Dates, t + MaxVacationDays \in Dates, t \in Nat \ {0},
         NEW d \in Int, NEW m \in Int
  PROVE  /\ (<<d, m>> = <<29, 2>> /\ ~Leap(YearOf(t))) => ShortDate(d, m, t) = NoDate
         /\ (~(<<d, m>> = <<29, 2>> /\ ~Leap(YearOf(t))) /\ DaysNamed(d, m, t) = {}) =>
              ShortDate(d, m, t) = NoDate
         /\ (~(<<d, m>> = <<29, 2>> /\ ~Leap(YearOf(t))) /\ DaysNamed(d, m, t) # {}) =>
              /\ ShortDate(d, m, t) = Min(DaysNamed(d, m, t))
              /\ ShortDate(d, m, t) \in t .. t + MaxVacationDays
<1>1. PICK y \in Years : y = YearOf(t) /\ y \in Int /\ InYear(t, y)
  BY CivilFacts
<1>2. /\ t \in Int /\ DaysBeforeYear(y) \in Int /\ DaysBeforeYear(y + 1) \in Int
      /\ DaysBeforeYear(y) < t /\ t <= DaysBeforeYear(y + 1)
      /\ DaysBeforeYear(y + 1) <= DaysBeforeYear(y) + 366
      /\ DaysBeforeYear(y + 2) \in Int /\ DaysBeforeYear(y + 2) >= DaysBeforeYear(y + 1) + 365
  <2>1. /\ DaysBeforeYear(y) \in Int /\ YearLength(y) \in {365, 366}
        /\ DaysBeforeYear(y + 1) = DaysBeforeYear(y) + YearLength(y)
    BY <1>1, YearStep
  <2>2. /\ y + 1 \in Int /\ (y + 1) + 1 = y + 2
    BY <1>1
  <2>3. /\ DaysBeforeYear(y + 1) \in Int /\ YearLength(y + 1) \in {365, 366}
        /\ DaysBeforeYear(y + 2) = DaysBeforeYear(y + 1) + YearLength(y + 1)
    BY <2>2, YearStep
  <2> QED
    BY <1>1, <2>1, <2>3 DEF InYear
<1>3. y + 1 \in Years /\ y + 1 \in Int
  <2>1. t + 366 <= DaysBeforeYear(Max(Years) + 1)
    <3>1. Min(Years) \in Int /\ Max(Years) + 1 \in Int
      BY YearsFacts
    <3>2. DaysBeforeYear(Min(Years)) \in Int /\ DaysBeforeYear(Max(Years) + 1) \in Int
      BY <3>1, YearStep
    <3> QED
      BY <3>2 DEF Dates, MaxVacationDays
  <2>2. y # Max(Years)
    BY <1>2, <2>1
  <2> QED
    BY <1>1, <2>2, YearsFacts
<1>4. ASSUME NEW z \in Years, ValidDate(z, m, d)
      PROVE  /\ z \in Int /\ Ordinal(z, m, d) \in Int
             /\ z < y => Ordinal(z, m, d) < t
             /\ z > y => Ordinal(z, m, d) > DaysBeforeYear(y + 1)
             /\ z > y + 1 => Ordinal(z, m, d) > DaysBeforeYear(y + 2)
  <2>1. z \in Int
    BY YearsFacts
  <2>2. /\ Ordinal(z, m, d) \in Int
        /\ DaysBeforeYear(z) < Ordinal(z, m, d) /\ Ordinal(z, m, d) <= DaysBeforeYear(z + 1)
    BY <1>4, <2>1, DateInYear
  <2>3. DaysBeforeYear(z) \in Int /\ DaysBeforeYear(z + 1) \in Int
    BY <2>1, YearStep
  <2>4. z < y => DaysBeforeYear(z + 1) <= DaysBeforeYear(y)
    BY <1>1, <2>1, YearOrder
  <2>5. z > y => DaysBeforeYear(y + 1) <= DaysBeforeYear(z)
    BY <1>1, <2>1, YearOrder
  <2>6. z > y + 1 => DaysBeforeYear(y + 2) <= DaysBeforeYear(z)
    <3>1. (y + 1) + 1 = y + 2
      BY <1>1
    <3> QED
      BY <1>3, <2>1, <3>1, YearOrder
  <2> QED
    BY <1>2, <2>1, <2>2, <2>3, <2>4, <2>5, <2>6
<1>5. ASSUME NEW x \in DaysNamed(d, m, t)
      PROVE  \E z \in Years : ValidDate(z, m, d) /\ x = Ordinal(z, m, d) /\ x >= t /\ x <= t + 366
  <2>1. PICK z \in Years : x = DateOrNone(z, m, d)
    BY <1>5 DEF DaysNamed
  <2>2. x >= t /\ x <= t + 366 /\ x # 0
    BY <1>2, <1>5 DEF DaysNamed, MaxVacationDays
  <2> QED
    BY <2>1, <2>2 DEF DateOrNone, NoDate
<1>6. DaysNamed(d, m, t) \in SUBSET Int
  BY <1>2 DEF DaysNamed, MaxVacationDays
<1>7. ASSUME NEW z \in Years, ValidDate(z, m, d), Ordinal(z, m, d) >= t, Ordinal(z, m, d) <= t + 366
      PROVE  Ordinal(z, m, d) \in DaysNamed(d, m, t)
  <2>1. Ordinal(z, m, d) \in t .. t + 366
    BY <1>2, <1>4, <1>7
  <2> QED
    BY <1>7, <2>1 DEF DaysNamed, DateOrNone, MaxVacationDays
<1>8. CASE ~ValidDate(y, m, d)
  <2>1. ShortDate(d, m, t) = NoDate
    BY <1>1, <1>8 DEF ShortDate, DateOrNone
  <2>2. CASE <<d, m>> = <<29, 2>>
    BY <1>1, <1>8, <2>1, <2>2, SameValidity
  <2>3. CASE <<d, m>> # <<29, 2>>
    <3>1. \A z \in Years : ~ValidDate(z, m, d)
      BY <1>1, <1>8, <2>3, SameValidity, YearsFacts
    <3>2. DaysNamed(d, m, t) = {}
      BY <1>5, <3>1
    <3> QED
      BY <2>1, <2>3, <3>2
  <2> QED
    BY <2>2, <2>3
<1>9. CASE ValidDate(y, m, d) /\ Ordinal(y, m, d) >= t
  <2>1. PICK c \in Int : c = Ordinal(y, m, d)
    BY <1>1, <1>4, <1>9
  <2>2. /\ c >= t /\ c <= DaysBeforeYear(y + 1) /\ c # 0
    BY <1>1, <1>2, <1>9, <2>1, DateInYear
  <2>3. ShortDate(d, m, t) = c
    BY <1>1, <1>2, <1>9, <2>1, <2>2 DEF ShortDate, DateOrNone, NoDate
  <2>4. c \in DaysNamed(d, m, t) /\ c \in t .. t + 366
    BY <1>1, <1>2, <1>7, <1>9, <2>1, <2>2
  <2>5. ASSUME NEW x \in DaysNamed(d, m, t) PROVE c <= x
    <3>1. PICK z \in Years : ValidDate(z, m, d) /\ x = Ordinal(z, m, d) /\ x >= t
      BY <1>5, <2>5
    <3>2. z \in Int /\ x \in Int /\ ~(z < y) /\ (z > y => x > DaysBeforeYear(y + 1))
      BY <1>2, <1>4, <3>1
    <3> QED
      BY <1>1, <1>2, <2>1, <2>2, <3>1, <3>2
  <2>6. Min(DaysNamed(d, m, t)) = c
    BY <1>6, <2>4, <2>5, MinIs
  <2>7. ~(<<d, m>> = <<29, 2>> /\ ~Leap(YearOf(t)))
    BY <1>1, <1>9, SameValidity
  <2> QED
    BY <2>3, <2>4, <2>6, <2>7 DEF MaxVacationDays
<1>10. CASE ValidDate(y, m, d) /\ ~(Ordinal(y, m, d) >= t)
  <2>1. PICK c \in Int : c = Ordinal(y, m, d) /\ c < t /\ c > DaysBeforeYear(y)
    BY <1>1, <1>2, <1>4, <1>10, DateInYear
  <2>2. c # 0
    <3>1. y \in Nat \ {0}
      BY YearsFacts
    <3>2. DaysBeforeYear(y) \in Nat
      BY <3>1, DaysPositive
    <3> QED
      BY <2>1, <3>2
  <2>3. ShortDate(d, m, t) = DateOrNone(y + 1, m, d)
    BY <1>1, <1>10, <2>1, <2>2 DEF ShortDate, DateOrNone, NoDate
  <2>4. ~(<<d, m>> = <<29, 2>> /\ ~Leap(YearOf(t)))
    BY <1>1, <1>10, SameValidity
  <2>5. CASE ValidDate(y + 1, m, d)
    <3>1. m \in 1 .. 12
      BY <1>10 DEF ValidDate
    <3>2. PICK n \in Int : n = Ordinal(y + 1, m, d)
      BY <1>3, <1>4, <2>5
    <3>3. n - c \in {365, 366} /\ n > DaysBeforeYear(y + 1) /\ n <= DaysBeforeYear(y + 2)
      <4>1. (y + 1) + 1 = y + 2
        BY <1>1
      <4> QED
        BY <1>1, <1>3, <2>1, <2>5, <3>1, <3>2, <4>1, YearApart, DateInYear
    <3>4. ShortDate(d, m, t) = n /\ n >= t /\ n <= t + 366
      BY <1>2, <2>1, <2>3, <2>5, <3>2, <3>3 DEF DateOrNone
    <3>5. n \in DaysNamed(d, m, t) /\ n \in t .. t + 366
      BY <1>2, <1>3, <1>7, <2>5, <3>2, <3>4
    <3>6. ASSUME NEW x \in DaysNamed(d, m, t) PROVE n <= x
      <4>1. PICK z \in Years : ValidDate(z, m, d) /\ x = Ordinal(z, m, d) /\ x >= t
        BY <1>5, <3>6
      <4>2. /\ z \in Int /\ x \in Int /\ z >= y + 1
            /\ z > y + 1 => x > DaysBeforeYear(y + 2)
        BY <1>1, <1>2, <1>4, <2>1, <4>1
      <4> QED
        BY <1>1, <1>2, <3>2, <3>3, <4>1, <4>2
    <3>7. Min(DaysNamed(d, m, t)) = n
      BY <1>6, <3>5, <3>6, MinIs
    <3> QED
      BY <2>4, <3>4, <3>5, <3>7 DEF MaxVacationDays
  <2>6. CASE ~ValidDate(y + 1, m, d)
    <3>1. ShortDate(d, m, t) = NoDate
      BY <2>3, <2>6 DEF DateOrNone
    <3>2. <<d, m>> = <<29, 2>>
      BY <1>1, <1>3, <1>10, <2>6, SameValidity
    <3>3. ASSUME NEW x \in DaysNamed(d, m, t) PROVE FALSE
      <4>1. PICK z \in Years : ValidDate(z, m, d) /\ x = Ordinal(z, m, d) /\ x >= t /\ x <= t + 366
        BY <1>5, <3>3
      <4>2. z \in Int /\ x \in Int /\ z > y + 1
        BY <1>1, <1>2, <1>4, <2>1, <2>6, <4>1
      <4>3. Ordinal(z, m, d) > DaysBeforeYear(z) + 31
        BY <3>2, <4>2, YearStep DEF Ordinal, DaysBeforeMonth
      <4>4. DaysBeforeYear(y + 2) <= DaysBeforeYear(z) /\ DaysBeforeYear(z) \in Int
        <5>1. (y + 1) + 1 = y + 2
          BY <1>1
        <5> QED
          BY <1>3, <4>2, <5>1, YearOrder, YearStep
      <4> QED
        BY <1>2, <4>1, <4>2, <4>3, <4>4
    <3> QED
      BY <2>4, <3>1, <3>3
  <2> QED
    BY <2>5, <2>6
<1> QED
  BY <1>8, <1>9, <1>10

-----------------------------------------------------------------------------
(* Whole units of time: minutes and days, of any number of units.          *)

LEMMA Divide ==
  ASSUME NEW d \in Nat \ {0}, NEW x \in Int
  PROVE  /\ x \div d \in Int /\ x % d \in Int
         /\ x = (x \div d) * d + (x % d) /\ 0 <= x % d /\ x % d < d
OBVIOUS

LEMMA MulOrder ==
  ASSUME NEW d \in Nat \ {0}, NEW x \in Int, NEW y \in Int, x < y
  PROVE  x * d + d <= y * d /\ x * d \in Int /\ y * d \in Int
<1>1. PICK k \in Nat : y = x + 1 + k
  BY y - x - 1 \in Nat
<1>2. y * d = x * d + d + k * d
  BY <1>1
<1>3. k * d >= 0
  BY <1>1
<1> QED
  BY <1>2, <1>3

LEMMA DivOrder ==
  ASSUME NEW d \in Nat \ {0}, NEW x \in Int, NEW y \in Int, x <= y
  PROVE  x \div d <= y \div d /\ x \div d \in Int /\ y \div d \in Int
<1>1. PICK p, q \in Int : p = x \div d /\ q = y \div d
  BY Divide
<1>2. x >= p * d /\ x < p * d + d /\ y >= q * d /\ y < q * d + d /\ p * d \in Int /\ q * d \in Int
  BY <1>1, Divide
<1>3. q < p => q * d + d <= p * d
  BY MulOrder
<1> QED
  BY <1>1, <1>2, <1>3

LEMMA DivShift ==
  ASSUME NEW d \in Nat \ {0}, NEW x \in Int, NEW k \in Int
  PROVE  (x + k * d) \div d = x \div d + k
<1>1. x + k * d \in Int
  OBVIOUS
<1>2. PICK p, q \in Int : p = x \div d /\ q = (x + k * d) \div d
  BY <1>1, Divide
<1>3. PICK r, s \in Int : r = x % d /\ s = (x + k * d) % d
  BY <1>1, Divide
<1>4. x = p * d + r /\ 0 <= r /\ r < d /\ x + k * d = q * d + s /\ 0 <= s /\ s < d
  BY <1>1, <1>2, <1>3, Divide
<1>5. (p + k) * d = p * d + k * d
  OBVIOUS
<1>6. p + k < q => (p + k) * d + d <= q * d
  BY MulOrder
<1>7. q < p + k => q * d + d <= (p + k) * d
  BY MulOrder
<1> QED
  BY <1>2, <1>4, <1>5, <1>6, <1>7

LEMMA UnitFacts ==
  /\ Minute \in Nat \ {0} /\ Minute \in Int /\ 0 < Minute
  /\ Day \in Nat \ {0} /\ Day \in Int /\ 0 < Day /\ Minute < Day
BY CalendarAssumption DEF Day

-----------------------------------------------------------------------------
(* Moments: the local clock and the day it shows.                          *)

LEMMA ScenarioFacts ==
  ASSUME TypeOK
  PROVE  /\ now \in Int /\ 0 <= now /\ now <= Length /\ Length \in Int
         /\ scenario.first \in Nat /\ scenario.change \in Int
         /\ scenario.before \in Int /\ scenario.after \in Int
         /\ scenario.after - scenario.before \in -Day .. Day
         /\ \A o \in {scenario.before, scenario.after} :
              /\ -Day < o /\ o < Day
              /\ DaysBeforeYear(Min(Years)) < scenario.first + o \div Day
              /\ scenario.first + (Length + o) \div Day + MaxVacationDays
                   <= DaysBeforeYear(Max(Years) + 1)
BY CalendarAssumption DEF TypeOK

LEMMA OffsetIs ==
  ASSUME TypeOK, NEW t \in Int
  PROVE  /\ Offset(t) \in {scenario.before, scenario.after} /\ Offset(t) \in Int
         /\ LocalTime(t) \in Int /\ LocalTime(t) = t + Offset(t)
         /\ DateOf(LocalTime(t)) \in Int
<1>1. Offset(t) \in {scenario.before, scenario.after} /\ Offset(t) \in Int
  BY ScenarioFacts DEF Offset
<1>2. LocalTime(t) \in Int /\ LocalTime(t) = t + Offset(t)
  BY <1>1 DEF LocalTime
<1>3. LocalTime(t) \div Day \in Int
  BY <1>2, UnitFacts, Divide
<1> QED
  BY <1>1, <1>2, <1>3, ScenarioFacts DEF DateOf

\* A later local time has no earlier date.
LEMMA DateOrder ==
  ASSUME TypeOK, NEW s \in Int, NEW t \in Int, s <= t
  PROVE  DateOf(s) \in Int /\ DateOf(t) \in Int /\ DateOf(s) <= DateOf(t)
<1>1. s \div Day <= t \div Day /\ s \div Day \in Int /\ t \div Day \in Int
  BY UnitFacts, DivOrder
<1> QED
  BY <1>1, ScenarioFacts DEF DateOf

\* A whole number of days later.
LEMMA DateShift ==
  ASSUME TypeOK, NEW s \in Int, NEW k \in Int
  PROVE  DateOf(s + k * Day) = DateOf(s) + k /\ s + k * Day \in Int
<1>1. (s + k * Day) \div Day = s \div Day + k /\ s \div Day \in Int /\ s + k * Day \in Int
  BY UnitFacts, DivShift, Divide
<1> QED
  BY <1>1, ScenarioFacts DEF DateOf

\* Today is one of the dates of the model, and so is every day of the year from it on.
LEMMA TodayFacts ==
  ASSUME TypeOK
  PROVE  /\ Today \in Int /\ Today \in Nat \ {0} /\ LocalTime(now) \in Int
         /\ \A k \in 0 .. MaxVacationDays : Today + k \in Dates
         /\ Today \in Dates /\ Today + MaxVacationDays \in Dates
<1>1. PICK o \in {scenario.before, scenario.after} : o \in Int /\ LocalTime(now) = now + o
  BY OffsetIs, ScenarioFacts
<1>2. /\ DaysBeforeYear(Min(Years)) \in Nat /\ DaysBeforeYear(Max(Years) + 1) \in Int
  BY YearsFacts, DaysPositive, YearStep
<1>3. Today = scenario.first + (now + o) \div Day
  BY <1>1 DEF Today, DateOf
<1>4. /\ DaysBeforeYear(Min(Years)) < scenario.first + o \div Day
      /\ scenario.first + (Length + o) \div Day + MaxVacationDays <= DaysBeforeYear(Max(Years) + 1)
  BY ScenarioFacts
<1>5. /\ o \in Int /\ now + o \in Int /\ Length + o \in Int
      /\ o <= now + o /\ now + o <= Length + o
  BY <1>1, ScenarioFacts
<1>6. /\ o \div Day <= (now + o) \div Day /\ (now + o) \div Day <= (Length + o) \div Day
      /\ o \div Day \in Int /\ (now + o) \div Day \in Int /\ (Length + o) \div Day \in Int
  BY <1>5, UnitFacts, DivOrder
<1>7. /\ Today \in Int /\ DaysBeforeYear(Min(Years)) < Today
      /\ Today + MaxVacationDays <= DaysBeforeYear(Max(Years) + 1)
  BY <1>2, <1>3, <1>4, <1>6, ScenarioFacts DEF MaxVacationDays
<1>8. \A k \in 0 .. MaxVacationDays : Today + k \in Dates
  BY <1>2, <1>7 DEF Dates, MaxVacationDays
<1>9. Today + 0 \in Dates /\ Today + MaxVacationDays \in Dates
  <2>1. 0 \in 0 .. MaxVacationDays /\ MaxVacationDays \in 0 .. MaxVacationDays
    BY DEF MaxVacationDays
  <2> QED
    BY <1>8, <2>1
<1>10. Today + 0 = Today /\ Today \in Nat \ {0} /\ LocalTime(now) \in Int
  BY <1>1, <1>2, <1>7, ScenarioFacts
<1> QED
  BY <1>7, <1>8, <1>9, <1>10

-----------------------------------------------------------------------------
(* Vacations.                                                              *)

LEMMA ArgumentKinds ==
  ASSUME NEW a \in Arguments
  PROVE  /\ a.kind \in {"status", "off", "junk", "days", "short", "full"}
         /\ a.kind = "days" => a.n \in Int
         /\ a.kind \in {"short", "full"} => a.d \in Int /\ a.m \in Int
         /\ a.kind = "full" => a.y \in Int
<1>1. /\ DayCounts \subseteq Int /\ ShortDates \subseteq Int \X Int
      /\ FullDates \subseteq Int \X Int \X Int
  BY CalendarAssumption
<1>2. CASE a \in [kind : {"status", "off", "junk"}]
  BY <1>2
<1>3. CASE a \in [kind : {"days"}, n : DayCounts]
  BY <1>1, <1>3
<1>4. CASE a \in {[kind |-> "short", d |-> b[1], m |-> b[2]] : b \in ShortDates}
  <2>1. PICK b \in ShortDates : a = [kind |-> "short", d |-> b[1], m |-> b[2]]
    BY <1>4
  <2> QED
    BY <1>1, <2>1
<1>5. CASE a \in {[kind |-> "full", d |-> b[1], m |-> b[2], y |-> b[3]] : b \in FullDates}
  <2>1. PICK b \in FullDates : a = [kind |-> "full", d |-> b[1], m |-> b[2], y |-> b[3]]
    BY <1>5
  <2> QED
    BY <1>1, <2>1
<1> QED
  BY <1>2, <1>3, <1>4, <1>5 DEF Arguments

\* One date argument is understood as its day, on a day of the model.
LEMMA DateUnderstood ==
  ASSUME NEW t \in Dates, t + MaxVacationDays \in Dates, t \in Nat \ {0},
         NEW a \in Arguments, a.kind \in {"short", "full"}
  PROVE  LET request == ParseVacation(a, t)
             lost == a.kind = "short" /\ <<a.d, a.m>> = <<29, 2>> /\ ~Leap(YearOf(t))
         IN  /\ IF lost \/ Meant(a, t) = NoDate THEN request = Plain("invalid")
                ELSE request = SetUntil(Meant(a, t))
             /\ Meant(a, t) = NoDate \/ Meant(a, t) \in t .. t + MaxVacationDays
<1> DEFINE lost == a.kind = "short" /\ <<a.d, a.m>> = <<29, 2>> /\ ~Leap(YearOf(t))
<1>1. a.d \in Int /\ a.m \in Int /\ (a.kind = "full" => a.y \in Int)
  BY ArgumentKinds
<1>2. CASE a.kind = "short"
  <2>1. Meant(a, t) = IF DaysNamed(a.d, a.m, t) = {} THEN NoDate ELSE Min(DaysNamed(a.d, a.m, t))
    BY <1>2 DEF Meant, DaysNamed
  <2>2. PICK date : date = ShortDate(a.d, a.m, t)
    OBVIOUS
  <2>3. ParseVacation(a, t) = IF date = NoDate \/ date < t \/ date - t > MaxVacationDays
                              THEN Plain("invalid") ELSE SetUntil(date)
    BY <1>2, <2>2 DEF ParseVacation
  <2>4. CASE lost
    <3>1. date = NoDate
      BY <1>1, <2>2, <2>4, ShortDateFacts
    <3>2. DaysNamed(a.d, a.m, t) # {} => Min(DaysNamed(a.d, a.m, t)) \in t .. t + MaxVacationDays
      <4> SUFFICES ASSUME DaysNamed(a.d, a.m, t) # {}
                   PROVE  Min(DaysNamed(a.d, a.m, t)) \in DaysNamed(a.d, a.m, t)
        BY DEF DaysNamed
      <4>1. DaysNamed(a.d, a.m, t) \in SUBSET Nat
        BY DEF DaysNamed
      <4>2. PICK x \in DaysNamed(a.d, a.m, t) : \A y \in DaysNamed(a.d, a.m, t) : x <= y
        BY <4>1, LeastNatural
      <4>3. DaysNamed(a.d, a.m, t) \in SUBSET Int
        BY <4>1
      <4>4. Min(DaysNamed(a.d, a.m, t)) = x
        BY <4>2, <4>3, MinIs
      <4> QED
        BY <4>2, <4>4
    <3> QED
      BY <2>1, <2>3, <2>4, <3>1, <3>2
  <2>5. CASE ~lost /\ DaysNamed(a.d, a.m, t) = {}
    BY <1>1, <1>2, <2>1, <2>2, <2>3, <2>5, ShortDateFacts
  <2>6. CASE ~lost /\ DaysNamed(a.d, a.m, t) # {}
    <3>1. date = Min(DaysNamed(a.d, a.m, t)) /\ date \in t .. t + MaxVacationDays
      BY <1>1, <1>2, <2>2, <2>6, ShortDateFacts
    <3>2. date # NoDate /\ ~(date < t) /\ ~(date - t > MaxVacationDays)
      BY <3>1 DEF MaxVacationDays, NoDate
    <3> QED
      BY <2>1, <2>3, <2>6, <3>1, <3>2
  <2> QED
    BY <2>4, <2>5, <2>6
<1>3. CASE a.kind = "full"
  <2> DEFINE date == DateOrNone(a.y, a.m, a.d)
             days == {date} \cap (t .. t + MaxVacationDays)
  <2>1. Meant(a, t) = IF days = {} THEN NoDate ELSE Min(days)
    <3>1. {DateOrNone(y, a.m, a.d) : y \in {a.y}} = {date}
      OBVIOUS
    <3> QED
      BY <1>3, <3>1 DEF Meant
  <2>2. date \in Int
    BY <1>1, <1>3, DateInYear DEF DateOrNone, NoDate
  <2>3. ParseVacation(a, t) = IF date = NoDate \/ date < t \/ date - t > MaxVacationDays
                              THEN Plain("invalid") ELSE SetUntil(date)
    BY <1>3 DEF ParseVacation
  <2> HIDE DEF date
  <2>4. CASE date \in t .. t + MaxVacationDays
    <3>1. days = {date} /\ Min({date}) = date
      <4>1. {date} \in SUBSET Int /\ date \in {date} /\ \A y \in {date} : date <= y
        BY <2>2
      <4> QED
        BY <2>4, <4>1, MinIs
    <3>2. date # NoDate /\ ~(date < t) /\ ~(date - t > MaxVacationDays)
      BY <2>4 DEF MaxVacationDays, NoDate
    <3> QED
      BY <1>3, <2>1, <2>3, <2>4, <3>1, <3>2
  <2>5. CASE date \notin t .. t + MaxVacationDays
    <3>1. days = {}
      BY <2>5
    <3>2. date = NoDate \/ date < t \/ date - t > MaxVacationDays
      BY <2>2, <2>5 DEF MaxVacationDays
    <3> QED
      BY <1>3, <2>1, <2>3, <3>1, <3>2
  <2> QED
    BY <2>4, <2>5
<1> QED
  BY <1>2, <1>3

\* The last day an argument of /vacation given on a day asks for.
LastDay(a, on) ==
  CASE a.kind = "off"  -> NoDate
    [] a.kind = "days" -> IF a.n = 0 THEN NoDate ELSE on + a.n - 1
    [] OTHER           -> Meant(a, on)

\* /vacation stores the last day that was asked for, and it has not passed.
LEMMA VacationStores ==
  ASSUME TypeOK, NEW a \in Arguments, ParseVacation(a, Today).kind \in {"set", "clear"}
  PROVE  /\ ParseVacation(a, Today).until = LastDay(a, Today)
         /\ LastDay(a, Today) \in Nat
<1>1. Today \in Int /\ Today \in Nat \ {0} /\ Today \in Dates /\ Today + MaxVacationDays \in Dates
  BY TodayFacts
<1>2. a.kind \in {"status", "off", "junk", "days", "short", "full"}
  BY ArgumentKinds
<1>3. CASE a.kind \in {"status", "off", "junk"}
  BY <1>3 DEF ParseVacation, LastDay, Plain, NoDate
<1>4. CASE a.kind = "days"
  <2>1. ParseVacation(a, Today) = DayCount(a.n, Today) /\ a.n \in Int
    BY <1>4, ArgumentKinds DEF ParseVacation
  <2>2. CASE a.n = 0
    BY <1>4, <2>1, <2>2 DEF DayCount, LastDay, Plain, NoDate
  <2>3. CASE a.n # 0
    <3>1. ParseVacation(a, Today) = SetUntil(Today + a.n - 1) /\ a.n > 0
      BY <2>1, <2>3 DEF DayCount, Plain
    <3> QED
      BY <1>1, <1>4, <2>1, <2>3, <3>1 DEF LastDay, SetUntil
  <2> QED
    BY <2>2, <2>3
<1>5. CASE a.kind \in {"short", "full"}
  <2>1. /\ ParseVacation(a, Today) \in {Plain("invalid"), SetUntil(Meant(a, Today))}
        /\ Meant(a, Today) = NoDate \/ Meant(a, Today) \in Today .. Today + MaxVacationDays
    BY <1>1, <1>5, DateUnderstood
  <2>2. ParseVacation(a, Today) # Plain("invalid")
    BY DEF Plain
  <2>3. LastDay(a, Today) = Meant(a, Today)
    BY <1>5 DEF LastDay
  <2> QED
    BY <1>1, <2>1, <2>2, <2>3 DEF SetUntil, NoDate
<1> QED
  BY <1>2, <1>3, <1>4, <1>5

\* The next moment looked at.
LEMMA LaterFacts ==
  ASSUME Later # {}, TypeOK
  PROVE  Min(Later) \in 0 .. Length /\ Min(Later) \in Int /\ now < Min(Later)
<1>1. Moments \subseteq 0 .. Length /\ Length \in Nat
  BY CalendarAssumption
<1>2. Later \in SUBSET Nat /\ Later \in SUBSET Int
  <2>1. ASSUME NEW x \in Later PROVE x \in Nat /\ x \in Int
    <3>1. x \in 0 .. Length
      BY <1>1 DEF Later
    <3> QED
      BY <1>1, <3>1
  <2> QED
    BY <2>1
<1>3. PICK t \in Later : \A x \in Later : t <= x
  BY <1>2, LeastNatural
<1>4. Min(Later) = t
  BY <1>2, <1>3, MinIs
<1> QED
  BY <1>1, <1>3, <1>4 DEF Later

\* The days, minutes and commands of every reachable state are within their types.
THEOREM CalendarTypes == Spec => []TypeOK
<1>1. Init => TypeOK
  <2> SUFFICES ASSUME Init PROVE TypeOK
    OBVIOUS
  <2>1. scenario \in Scenarios /\ scenario.first \in Nat /\ Length \in Nat /\ MaxCommands \in Nat
    BY CalendarAssumption DEF Init
  <2>2. [kind |-> "off"] \in Arguments
    BY DEF Arguments
  <2> QED
    BY <2>1, <2>2 DEF Init, TypeOK, NoDate
<1>2. TypeOK /\ [Next]_vars => TypeOK'
  <2> SUFFICES ASSUME TypeOK, [Next]_vars PROVE TypeOK'
    OBVIOUS
  <2>1. CASE Tick
    BY <2>1, LaterFacts DEF Tick, TypeOK
  <2>2. CASE \E u \in Users, a \in Arguments : Vacation(u, a)
    <3>1. PICK u \in Users, a \in Arguments : Vacation(u, a)
      BY <2>2
    <3>2. ParseVacation(a, Today).until \in Nat
      BY <3>1, VacationStores DEF Vacation
    <3>3. Today \in Nat
      BY TodayFacts
    <3>4. commands' \in 0 .. MaxCommands
      BY <3>1, CalendarAssumption DEF Vacation, TypeOK
    <3> QED
      BY <3>1, <3>2, <3>3, <3>4 DEF Vacation, TypeOK
  <2>3. CASE UNCHANGED vars
    BY <2>3 DEF vars, TypeOK
  <2> QED
    BY <2>1, <2>2, <2>3 DEF Next
<1> QED
  BY <1>1, <1>2, PTL DEF Spec

\* A date given to /vacation is understood as the next day of that name within a year, and
\* refused when there is none: parse_vacation_request, on every day and for every argument.
THEOREM DatesAreUnderstood == Spec => []DatesUnderstood
<1>1. TypeOK => DatesUnderstood
  <2> SUFFICES ASSUME TypeOK, NEW a \in Arguments, a.kind \in {"short", "full"}
               PROVE  LET request == ParseVacation(a, Today)
                          lost == /\ a.kind = "short" /\ <<a.d, a.m>> = <<29, 2>>
                                  /\ ~Leap(YearOf(Today))
                      IN  IF lost \/ Meant(a, Today) = NoDate THEN request.kind = "invalid"
                          ELSE request = SetUntil(Meant(a, Today))
    BY DEF DatesUnderstood
  <2>1. Today \in Nat \ {0} /\ Today \in Dates /\ Today + MaxVacationDays \in Dates
    BY TodayFacts
  <2>2. Plain("invalid").kind = "invalid"
    BY DEF Plain
  <2> QED
    BY <2>1, <2>2, DateUnderstood
<1> QED
  BY <1>1, CalendarTypes, PTL

\* Without a clock that goes back over midnight the day never goes back.
LEMMA DaysPass ==
  ASSUME TypeOK, ~DayComesAgain, NEW s \in Int, NEW t \in Int, s <= t
  PROVE  DateOf(LocalTime(s)) <= DateOf(LocalTime(t))
<1>1. scenario.change \in Int /\ scenario.before \in Int /\ scenario.after \in Int
  BY ScenarioFacts
<1>2. CASE Offset(s) = Offset(t)
  <2>1. LocalTime(s) <= LocalTime(t) /\ LocalTime(s) \in Int /\ LocalTime(t) \in Int
    BY <1>2, OffsetIs
  <2> QED
    BY <2>1, DateOrder
<1>3. CASE Offset(s) # Offset(t)
  <2>1. s < scenario.change /\ scenario.change <= t
    BY <1>1, <1>3 DEF Offset
  <2> DEFINE lastBefore == scenario.change - 1 + scenario.before
             firstAfter == scenario.change + scenario.after
  <2>2. /\ LocalTime(s) \in Int /\ LocalTime(t) \in Int /\ lastBefore \in Int /\ firstAfter \in Int
        /\ LocalTime(s) <= lastBefore /\ firstAfter <= LocalTime(t)
    BY <1>1, <2>1 DEF LocalTime, Offset
  <2>3. /\ DateOf(lastBefore) \in Int /\ DateOf(firstAfter) \in Int
        /\ DateOf(lastBefore) <= DateOf(firstAfter)
    <3>1. DateOf(lastBefore) \in Int /\ DateOf(firstAfter) \in Int
      <4> HIDE DEF lastBefore, firstAfter
      <4> QED
        BY <2>2, DateOrder
    <3> QED
      BY <3>1 DEF DayComesAgain
  <2>4. /\ DateOf(LocalTime(s)) \in Int /\ DateOf(LocalTime(s)) <= DateOf(lastBefore)
    <3> HIDE DEF lastBefore, firstAfter
    <3> QED
      BY <2>2, DateOrder
  <2>5. DateOf(LocalTime(t)) \in Int /\ DateOf(firstAfter) <= DateOf(LocalTime(t))
    <3> HIDE DEF lastBefore, firstAfter
    <3> QED
      BY <2>2, DateOrder
  <2> HIDE DEF lastBefore, firstAfter
  <2> QED
    BY <2>3, <2>4, <2>5
<1> QED
  BY <1>2, <1>3

\* What is stored is what was asked for last, on a day that has come.
Booked ==
  \A u \in Users :
    /\ until[u] = LastDay(asked[u].a, asked[u].on)
    /\ until[u] # NoDate => (Today >= asked[u].on \/ DayComesAgain)

LEMMA BookedStep == TypeOK /\ Booked /\ [Next]_vars => Booked'
<1> SUFFICES ASSUME TypeOK, Booked, [Next]_vars PROVE Booked'
  OBVIOUS
<1>1. Today \in Int /\ now \in Int
  BY TodayFacts, ScenarioFacts
<1>2. CASE Tick
  <2> DEFINE next == Min(Later)
  <2>0. next \in Int /\ now < next
    BY <1>2, LaterFacts DEF Tick
  <2> HIDE DEF next
  <2>1. /\ now' = next /\ scenario' = scenario /\ until' = until /\ asked' = asked
    BY <1>2 DEF Tick, next
  <2>2. Today' = DateOf(LocalTime(next)) /\ DayComesAgain' = DayComesAgain
    BY <2>1 DEF Today, DateOf, LocalTime, Offset, DayComesAgain
  <2>3. Today' \in Int /\ (Today <= Today' \/ DayComesAgain)
    <3>1. now <= next
      BY <1>1, <2>0
    <3>2. DateOf(LocalTime(next)) \in Int
      BY <2>0, OffsetIs
    <3>3. ~DayComesAgain => DateOf(LocalTime(now)) <= DateOf(LocalTime(next))
      BY <1>1, <2>0, <3>1, DaysPass
    <3> QED
      BY <2>2, <3>2, <3>3 DEF Today
  <2>4. ASSUME NEW u \in Users, until[u] # NoDate
        PROVE  Today' >= asked[u].on \/ DayComesAgain
    <3>1. Today >= asked[u].on \/ DayComesAgain
      BY <2>4 DEF Booked
    <3>2. asked[u].on \in Int
      BY DEF TypeOK
    <3> QED
      BY <1>1, <2>3, <3>1, <3>2
  <2>5. \A u \in Users : LastDay(asked[u].a, asked[u].on)' = LastDay(asked[u].a, asked[u].on)
    BY <2>1 DEF LastDay, Meant, DateOrNone
  <2> QED
    BY <2>1, <2>2, <2>4, <2>5 DEF Booked
<1>3. CASE \E u \in Users, a \in Arguments : Vacation(u, a)
  <2>1. PICK u \in Users, a \in Arguments : Vacation(u, a)
    BY <1>3
  <2>2. /\ until' = [until EXCEPT ![u] = LastDay(a, Today)]
        /\ asked' = [asked EXCEPT ![u] = [a |-> a, on |-> Today]]
        /\ now' = now /\ scenario' = scenario
    BY <2>1, VacationStores DEF Vacation
  <2>3. Today' = Today /\ DayComesAgain' = DayComesAgain
    BY <2>2 DEF Today, DateOf, LocalTime, Offset, DayComesAgain
  <2>4. until \in [Users -> Nat] /\ asked \in [Users -> [a : Arguments, on : Nat]]
    BY DEF TypeOK
  <2>5. ASSUME NEW v \in Users
        PROVE  /\ until'[v] = LastDay(asked'[v].a, asked'[v].on)
               /\ until'[v] # NoDate => (Today >= asked'[v].on \/ DayComesAgain)
    <3>1. CASE v = u
      <4>1. until'[v] = LastDay(a, Today) /\ asked'[v] = [a |-> a, on |-> Today]
        BY <2>2, <2>4, <3>1
      <4> QED
        BY <1>1, <4>1
    <3>2. CASE v # u
      <4>1. until'[v] = until[v] /\ asked'[v] = asked[v]
        BY <2>2, <2>4, <3>2
      <4> QED
        BY <4>1 DEF Booked
    <3> QED
      BY <3>1, <3>2
  <2> QED
    BY <2>3, <2>5 DEF Booked, LastDay, Meant, DateOrNone
<1>4. CASE UNCHANGED vars
  <2>1. until' = until /\ asked' = asked /\ now' = now /\ scenario' = scenario
    BY <1>4 DEF vars
  <2>2. Today' = Today /\ DayComesAgain' = DayComesAgain
    BY <2>1 DEF Today, DateOf, LocalTime, Offset, DayComesAgain
  <2>3. \A u \in Users : LastDay(asked[u].a, asked[u].on)' = LastDay(asked[u].a, asked[u].on)
    BY <2>1 DEF LastDay, Meant, DateOrNone
  <2> QED
    BY <2>1, <2>2, <2>3 DEF Booked
<1> QED
  BY <1>2, <1>3, <1>4 DEF Next

\* Exactly those are away on a day whose last accepted command asks for that day:
\* VacationService.execute and VacationRepository.active_user_ids, after any commands and days.
THEOREM AwayIsAsAsked == Spec => []AwayAsAsked
<1>1. Init => Booked
  BY DEF Init, Booked, LastDay
<1>2. TypeOK /\ Booked => AwayAsAsked
  <2> SUFFICES ASSUME TypeOK, Booked, NEW u \in Users
               PROVE  u \in Away(Today) <=>
                        /\ Today <= LastDay(asked[u].a, asked[u].on)
                        /\ Today >= asked[u].on \/ DayComesAgain
    BY DEF AwayAsAsked, LastDay
  <2>1. Today \in Nat \ {0} /\ until[u] \in Nat
    BY TodayFacts DEF TypeOK
  <2>2. u \in Away(Today) <=> until[u] # NoDate /\ until[u] >= Today
    BY DEF Away
  <2>3. /\ until[u] = LastDay(asked[u].a, asked[u].on)
        /\ until[u] # NoDate => (Today >= asked[u].on \/ DayComesAgain)
    BY DEF Booked
  <2> QED
    BY <2>1, <2>2, <2>3 DEF NoDate
<1> QED
  BY <1>1, <1>2, BookedStep, CalendarTypes, PTL DEF Spec

-----------------------------------------------------------------------------
(* Meetings.                                                               *)

\* The three ways ToUtc reads a local time.
LEMMA ToUtcIs ==
  ASSUME TypeOK, NEW local \in Int
  PROVE  /\ ToUtc(local) \in Int
         /\ \/ /\ ToUtc(local) = local - scenario.before
               /\ LocalTime(ToUtc(local)) = local
            \/ /\ ToUtc(local) = local - scenario.after
               /\ LocalTime(ToUtc(local)) = local
            \/ /\ ToUtc(local) = local - scenario.before
               /\ LocalTime(ToUtc(local)) = local + scenario.after - scenario.before
               /\ ~IsShown(local)
<1>1. scenario.change \in Int /\ scenario.before \in Int /\ scenario.after \in Int
  BY ScenarioFacts
<1>2. PICK c, b, e \in Int : c = scenario.change /\ b = scenario.before /\ e = scenario.after
  BY <1>1
<1>3. ToUtc(local) = IF local - b < c \/ local - e < c THEN local - b ELSE local - e
  BY <1>2 DEF ToUtc
<1>4. \A t \in Int : LocalTime(t) = t + IF t < c THEN b ELSE e
  BY <1>2 DEF LocalTime, Offset
<1>5. IsShown(local) <=> (local - b < c \/ local - e >= c \/ b = e)
  <2>1. IsShown(local) <=> LocalTime(local - b) = local \/ LocalTime(local - e) = local
    BY <1>2 DEF IsShown
  <2>2. local - b \in Int /\ local - e \in Int
    BY <1>2
  <2>3. LocalTime(local - b) = local <=> (local - b < c \/ b = e)
    BY <1>2, <1>4, <2>2
  <2>4. LocalTime(local - e) = local <=> (local - e >= c \/ b = e)
    BY <1>2, <1>4, <2>2
  <2> QED
    BY <2>1, <2>3, <2>4
<1>6. CASE local - b < c
  <2>1. ToUtc(local) = local - b /\ LocalTime(local - b) = (local - b) + b
    BY <1>2, <1>3, <1>4, <1>6
  <2> QED
    BY <1>2, <2>1
<1>7. CASE local - b >= c /\ local - e < c
  <2>1. ToUtc(local) = local - b /\ LocalTime(local - b) = (local - b) + e
    BY <1>2, <1>3, <1>4, <1>7
  <2> QED
    BY <1>2, <1>5, <1>7, <2>1
<1>8. CASE local - b >= c /\ local - e >= c
  <2>1. ToUtc(local) = local - e /\ LocalTime(local - e) = (local - e) + e
    BY <1>2, <1>3, <1>4, <1>8
  <2> QED
    BY <1>2, <2>1
<1> QED
  BY <1>2, <1>6, <1>7, <1>8

LEMMA SameDate ==
  ASSUME TypeOK, NEW x \in Int, NEW y \in Int, DateOf(x) = DateOf(y)
  PROVE  x < y + Day /\ y < x + Day
<1>1. PICK k \in Int : k = x \div Day
  BY UnitFacts, Divide
<1>2. y \div Day = k
  <2>1. PICK f \in Int : f = scenario.first
    BY ScenarioFacts
  <2>2. PICK q \in Int : q = y \div Day
    BY UnitFacts, Divide
  <2>3. f + k = f + q
    BY <1>1, <2>1, <2>2 DEF DateOf
  <2>4. k = q
    BY <2>1, <2>3
  <2> QED
    BY <2>2, <2>4
<1>3. /\ k * Day <= x /\ x < k * Day + Day /\ k * Day <= y /\ y < k * Day + Day
      /\ k * Day \in Int
  BY <1>1, <1>2, UnitFacts, Divide
<1> QED
  BY <1>3, UnitFacts

\* With no change of clocks near, the times accepted are the later ones of the day, at their
\* own moment.
LEMMA SteadyMeeting ==
  ASSUME TypeOK, SteadyDay, NEW local \in Int
  PROVE  /\ AllowedTime(ToUtc(local)) <=> local >= LocalTime(now) + Minute /\ DateOf(local) = Today
         /\ AllowedTime(ToUtc(local)) => ToUtc(local) = now + (local - LocalTime(now))
<1>1. PICK c, b, e \in Int : c = scenario.change /\ b = scenario.before /\ e = scenario.after
  BY ScenarioFacts
<1>2. e - b <= Day /\ b - e <= Day /\ now \in Int /\ Day \in Int /\ Day > 0
  <2>1. e - b \in -Day .. Day /\ now \in Int
    BY <1>1, ScenarioFacts
  <2> QED
    BY <1>1, <2>1, UnitFacts
<1>0. Minute \in Int /\ 0 < Minute
  BY UnitFacts
<1>3. \A x \in Int : LocalTime(x) = x + IF x < c THEN b ELSE e
  BY <1>1 DEF LocalTime, Offset
<1>4. b = e \/ c > now + Day \/ c <= now - Day
  <2>1. Offset(now - Day) = Offset(now) /\ Offset(now + Day) = Offset(now)
    BY DEF SteadyDay
  <2> QED
    BY <1>0, <1>1, <1>2, <2>1 DEF Offset
<1>5. PICK t \in Int : t = ToUtc(local)
  BY ToUtcIs
<1>6. t = IF local - b < c \/ local - e < c THEN local - b ELSE local - e
  BY <1>1, <1>5 DEF ToUtc
<1>7. PICK shown, noon \in Int : shown = LocalTime(t) /\ noon = LocalTime(now)
  BY <1>2, OffsetIs
<1>8. AllowedTime(t) <=> DateOf(shown) = DateOf(noon) /\ t >= now + Minute
  BY <1>7 DEF AllowedTime, Today
<1>9. /\ shown = t + IF t < c THEN b ELSE e
      /\ noon = now + IF now < c THEN b ELSE e
  BY <1>2, <1>3, <1>7
<1>10. ASSUME AllowedTime(t)
       PROVE  shown = local /\ local >= noon + Minute /\ t = now + (local - noon)
  <2>1. shown < noon + Day /\ noon < shown + Day /\ t >= now + Minute
    BY <1>7, <1>8, <1>10, SameDate
  <2>2. CASE b = e
    BY <1>0, <1>1, <1>2, <1>6, <1>9, <2>1, <2>2
  <2>3. CASE c > now + Day
    <3>1. noon = now + b /\ t < c
      BY <1>0, <1>2, <1>6, <1>9, <2>1, <2>3
    <3> QED
      BY <1>0, <1>1, <1>2, <1>5, <1>6, <1>9, <2>1, <3>1
  <2>4. CASE c <= now - Day
    <3>1. noon = now + e /\ t > c /\ shown = t + e
      BY <1>0, <1>1, <1>2, <1>5, <1>9, <2>1, <2>4
    <3> QED
      BY <1>0, <1>1, <1>2, <1>5, <1>6, <2>1, <2>4, <3>1
  <2> QED
    BY <1>4, <2>2, <2>3, <2>4
<1>11. ASSUME local >= noon + Minute, DateOf(local) = DateOf(noon) PROVE AllowedTime(t)
  <2>1. local < noon + Day
    BY <1>7, <1>11, SameDate
  <2>2. t >= now + Minute /\ shown = local
    <3>1. CASE b = e
      BY <1>0, <1>1, <1>2, <1>6, <1>9, <1>11, <3>1
    <3>2. CASE c > now + Day
      <4>1. noon = now + b /\ t = local - b /\ t < c
        BY <1>0, <1>1, <1>2, <1>5, <1>6, <1>9, <2>1, <3>2
      <4> QED
        BY <1>0, <1>1, <1>2, <1>9, <1>11, <4>1
    <3>3. CASE c <= now - Day
      <4>1. noon = now + e /\ t = local - e /\ t > now
        BY <1>0, <1>1, <1>2, <1>5, <1>6, <1>9, <1>11, <3>3
      <4> QED
        BY <1>0, <1>1, <1>2, <1>9, <1>11, <3>3, <4>1
    <3> QED
      BY <1>4, <3>1, <3>2, <3>3
  <2> QED
    BY <1>8, <1>11, <2>2
<1>12. Today = DateOf(noon)
  BY <1>7 DEF Today
<1> QED
  BY <1>5, <1>7, <1>8, <1>10, <1>11, <1>12

\* Only for the last day there is, or later, is a datetime too late: reading a local time in UTC and
\* showing it again moves it by less than a day each.
LEMMA OverflowsLate ==
  ASSUME TypeOK, NEW local \in Int, NEW t \in {local, ToUtc(local), LocalTime(ToUtc(local))},
         DateOf(t) > LastDate
  PROVE  DateOf(local) >= LastDate
<1>1. PICK b, e \in Int : b = scenario.before /\ e = scenario.after
  BY ScenarioFacts
<1>2. -Day < b /\ -Day < e /\ e - b <= Day /\ Day \in Int
  BY <1>1, ScenarioFacts, UnitFacts
<1>3. PICK x \in Int : x = ToUtc(local) /\ (x = local - b \/ x = local - e)
  BY <1>1, ToUtcIs
<1>4. PICK y \in Int : y = LocalTime(x) /\ (y = local \/ y = local + e - b)
  BY <1>1, <1>3, ToUtcIs, OffsetIs
<1>5. t \in Int /\ t <= local + Day
  <2>1. t = local \/ t = x \/ t = y
    BY <1>3, <1>4
  <2> QED
    BY <1>2, <1>3, <1>4, <2>1, UnitFacts
<1>6. local + 1 * Day = local + Day /\ local + Day \in Int
  BY <1>2
<1>7. DateOf(local + Day) = DateOf(local) + 1
  BY <1>6, DateShift
<1>8. /\ DateOf(t) \in Int /\ DateOf(local) \in Int /\ DateOf(t) <= DateOf(local + Day)
  BY <1>5, <1>6, DateOrder
<1>9. LastDate \in Int
  BY CalendarAssumption, YearStep DEF LastDate
<1> QED
  BY <1>7, <1>8, <1>9

LEMMA TodayIsNotLast ==
  ASSUME TypeOK
  PROVE  Today < LastDate /\ LastDate \in Int /\ Today \in Int
<1>1. PICK y, z \in Int : y = Max(Years) + 1 /\ z = LastYear + 1 /\ y <= z
  <2>1. Max(Years) \in Years /\ Max(Years) \in Int
    BY YearsFacts
  <2>2. LastYear \in Int /\ Max(Years) <= LastYear
    BY <2>1, CalendarAssumption
  <2> QED
    BY <2>1, <2>2
<1>2. /\ DaysBeforeYear(y) \in Int /\ DaysBeforeYear(z) \in Int
      /\ DaysBeforeYear(y) <= DaysBeforeYear(z)
  <2>1. CASE y = z
    BY <2>1, YearStep
  <2>2. CASE y < z
    <3>1. /\ DaysBeforeYear(y) \in Int /\ YearLength(y) \in {365, 366}
          /\ DaysBeforeYear(y + 1) = DaysBeforeYear(y) + YearLength(y)
      BY YearStep
    <3>2. DaysBeforeYear(y + 1) <= DaysBeforeYear(z) /\ DaysBeforeYear(z) \in Int
      BY <2>2, YearOrder, YearStep
    <3> QED
      BY <3>1, <3>2
  <2> QED
    BY <1>1, <2>1, <2>2
<1>3. Today \in Int /\ Today + MaxVacationDays \in Dates
  BY TodayFacts
<1>4. Today + MaxVacationDays <= DaysBeforeYear(y)
  <2>1. DaysBeforeYear(Min(Years)) \in Int
    BY YearsFacts, YearStep
  <2> QED
    BY <1>1, <1>2, <1>3, <2>1 DEF Dates
<1> QED
  BY <1>1, <1>2, <1>3, <1>4 DEF LastDate, MaxVacationDays

LEMMA ClockTimesNatural == ClockTimes \subseteq Nat
<1>1. ClockTimes \subseteq 0 .. 24 * 60 - 1
  BY CalendarAssumption
<1>2. PICK limit \in Int : limit = 24 * 60 - 1
  OBVIOUS
<1>3. 0 .. limit \subseteq Nat
  OBVIOUS
<1> QED
  BY <1>1, <1>2, <1>3

LEMMA RequestTypes ==
  ASSUME NEW r \in Requests, r.kind \in {"minutes", "clock"}
  PROVE  /\ r.kind = "minutes" => r.n \in Nat
         /\ r.kind = "clock" => r.at \in Nat
<1>1. CoffeeMinutes \subseteq Nat /\ ClockTimes \subseteq Nat
  BY CalendarAssumption, ClockTimesNatural
<1>2. CASE r \in [kind : {"junk", "odd"}]
  BY <1>2
<1>3. CASE r \in [kind : {"minutes"}, n : CoffeeMinutes]
  BY <1>1, <1>3
<1>4. CASE r \in [kind : {"clock"}, at : ClockTimes]
  BY <1>1, <1>4
<1> QED
  BY <1>2, <1>3, <1>4 DEF Requests

\* A meeting is at the time asked for or refused, by the second: CoffeeTimeResolver, for every
\* moment, minutes, time of day and change of clocks.
THEOREM MeetingsAreAsAsked == Spec => []MeetingAsAsked
<1>1. TypeOK => MeetingAsAsked
  <2> SUFFICES ASSUME TypeOK, NEW r \in Requests, r.kind \in {"minutes", "clock"}
               PROVE  LET t == ParseCoffee(r)
                          local == IF r.kind = "minutes" THEN LocalTime(now) + r.n * Minute
                                   ELSE (Today - scenario.first) * Day + r.at * Minute
                          accepted == CoffeeResolution(r) = "valid"
                      IN  /\ accepted =>
                               /\ t >= now + Minute /\ DateOf(LocalTime(t)) = Today
                               /\ LocalTime(t) = local + IF IsShown(local) THEN 0
                                                         ELSE scenario.after - scenario.before
                          /\ SteadyDay =>
                               /\ accepted <=> /\ local >= LocalTime(now) + Minute
                                              /\ DateOf(local) = Today
                               /\ accepted /\ r.kind = "minutes" => t = now + r.n * Minute
                          /\ CoffeeResolution(r) = "raises" => DateOf(local) >= LastDate
    BY DEF MeetingAsAsked
  <2>1. LocalTime(now) \in Int /\ now \in Int /\ Minute \in Int /\ 0 < Minute /\ Day \in Int
    BY TodayFacts, ScenarioFacts, UnitFacts
  <2>2. PICK local \in Int : local = LocalAsked(r)
    <3>1. CASE r.kind = "minutes"
      <4>1. r.n * Minute \in Int
        BY <2>1, <3>1, RequestTypes
      <4> QED
        BY <2>1, <3>1, <4>1 DEF LocalAsked
    <3>2. CASE r.kind = "clock"
      <4>1. r.at * Minute \in Int
        BY <2>1, <3>2, RequestTypes
      <4>2. PICK k \in Int : k = LocalTime(now) \div Day
        BY <2>1, UnitFacts, Divide
      <4>3. k * Day \in Int
        BY <2>1
      <4> QED
        BY <3>2, <4>1, <4>2, <4>3 DEF LocalAsked
    <3> QED
      BY <3>1, <3>2
  <2>3. local = IF r.kind = "minutes" THEN LocalTime(now) + r.n * Minute
                ELSE (Today - scenario.first) * Day + r.at * Minute
    <3>1. PICK f, k \in Int : f = scenario.first /\ k = LocalTime(now) \div Day
      BY <2>1, ScenarioFacts, UnitFacts, Divide
    <3>2. Today - scenario.first = LocalTime(now) \div Day
      BY <3>1 DEF Today, DateOf
    <3> QED
      BY <2>2, <3>2 DEF LocalAsked
  <2>4. PICK t \in Int : t = ToUtc(local)
    BY ToUtcIs
  <2>5. ParseCoffee(r) = t
    BY <2>2, <2>4 DEF ParseCoffee
  <2>6. /\ CoffeeResolution(r) = "valid" <=>
             ~(r.kind = "minutes" /\ r.n = 0) /\ ~Overflows(r) /\ AllowedTime(t)
        /\ CoffeeResolution(r) = "raises" => Overflows(r)
    BY <2>5 DEF CoffeeResolution
  <2>7. Overflows(r) => DateOf(local) >= LastDate
    BY <2>2, <2>4, <2>5, OverflowsLate DEF Overflows
  <2>8. ASSUME AllowedTime(t)
        PROVE  /\ t >= now + Minute /\ DateOf(LocalTime(t)) = Today
               /\ LocalTime(t) = local + IF IsShown(local) THEN 0
                                         ELSE scenario.after - scenario.before
    <3>1. t >= now + Minute /\ DateOf(LocalTime(t)) = Today
      BY <2>8 DEF AllowedTime
    <3>2. scenario.before \in Int /\ scenario.after \in Int
      BY ScenarioFacts
    <3>3. CASE LocalTime(t) = local /\ t \in {local - scenario.before, local - scenario.after}
      <4>1. IsShown(local)
        BY <3>3 DEF IsShown
      <4> QED
        BY <3>1, <3>3, <4>1
    <3>4. CASE LocalTime(t) = local + scenario.after - scenario.before /\ ~IsShown(local)
      BY <3>1, <3>2, <3>4
    <3> QED
      BY <2>4, <3>3, <3>4, ToUtcIs
  <2>9. ASSUME SteadyDay
        PROVE  /\ AllowedTime(t) <=> local >= LocalTime(now) + Minute /\ DateOf(local) = Today
               /\ AllowedTime(t) => t = now + (local - LocalTime(now))
    BY <2>4, <2>9, SteadyMeeting
  <2>10. ASSUME r.kind = "minutes"
         PROVE  /\ r.n = 0 => ~(local >= LocalTime(now) + Minute)
                /\ now + (local - LocalTime(now)) = now + r.n * Minute
    <3>1. PICK k \in Int : k = r.n * Minute /\ (r.n = 0 => k = 0)
      BY <2>1, <2>10, RequestTypes
    <3>2. local = LocalTime(now) + k
      BY <2>3, <2>10, <3>1
    <3> QED
      BY <2>1, <3>1, <3>2
  <2>11. DateOf(local) = Today => ~Overflows(r)
    BY <2>7, TodayIsNotLast
  <2> HIDE DEF Overflows
  <2>12. SteadyDay => /\ CoffeeResolution(r) = "valid" <=>
                           local >= LocalTime(now) + Minute /\ DateOf(local) = Today
                      /\ CoffeeResolution(r) = "valid" /\ r.kind = "minutes" =>
                           t = now + r.n * Minute
    BY <2>6, <2>9, <2>10, <2>11
  <2> QED
    BY <2>3, <2>5, <2>6, <2>7, <2>8, <2>12
<1> QED
  BY <1>1, CalendarTypes, PTL

-----------------------------------------------------------------------------
(* Presence.                                                               *)

\* A label names its date to a reader of the day.
LEMMA LabelIsRead ==
  ASSUME NEW date \in Dates, NEW reference \in Dates
  PROVE  DateRead(Label(date, reference), reference) = date
<1>1. DateOrNone(YearOf(date), MonthOf(date), DayOf(date)) = date
  BY CivilFacts DEF DateOrNone
<1>2. CASE date = reference
  <2>1. Label(date, reference) = [kind |-> "unsaid"]
    BY <1>2 DEF Label
  <2> QED
    BY <1>2, <2>1 DEF DateRead
<1>3. CASE date # reference /\ date = reference + 1
  <2>1. Label(date, reference) = [kind |-> "tomorrow"]
    BY <1>3 DEF Label
  <2> QED
    BY <1>3, <2>1 DEF DateRead
<1>4. CASE date # reference /\ date # reference + 1
  <2>1. CASE YearOf(date) = YearOf(reference)
    <3>1. Label(date, reference) = [kind |-> "day", day |-> DayOf(date), month |-> MonthOf(date)]
      BY <1>4, <2>1 DEF Label
    <3> QED
      BY <1>1, <2>1, <3>1 DEF DateRead
  <2>2. CASE YearOf(date) # YearOf(reference)
    <3>1. Label(date, reference) = [kind |-> "date", day |-> DayOf(date),
                                    month |-> MonthOf(date), year |-> YearOf(date)]
      BY <1>4, <2>2 DEF Label
    <3> QED
      BY <1>1, <3>1 DEF DateRead
  <2> QED
    BY <2>1, <2>2
<1> QED
  BY <1>2, <1>3, <1>4

\* What is said of a local time within a year is read as the minute it lies in.
LEMMA FaceIsRead ==
  ASSUME TypeOK, NEW local \in Int
  PROVE  Within(local, (DateOf(local) - scenario.first) * Day + Face(local) * Minute)
<1>1. PICK f, k \in Int : f = scenario.first /\ k = local \div Day
  BY ScenarioFacts, UnitFacts, Divide
<1>2. DateOf(local) - scenario.first = k
  BY <1>1 DEF DateOf
<1>3. PICK d, r \in Int : d = k * Day /\ r = local % Day /\ local = d + r
  BY <1>1, UnitFacts, Divide
<1>4. PICK q, s \in Int : q = r \div Minute /\ s = r % Minute
  BY UnitFacts, Divide
<1>5. PICK m \in Int : m = q * Minute /\ r = m + s /\ 0 <= s /\ s < Minute
  BY <1>4, UnitFacts, Divide
<1>6. Face(local) = q
  BY <1>3, <1>4 DEF Face
<1>7. (DateOf(local) - scenario.first) * Day + Face(local) * Minute = d + m
  BY <1>2, <1>3, <1>5, <1>6
<1>8. d + m <= local /\ local < (d + m) + Minute
  BY <1>3, <1>5, UnitFacts
<1> QED
  BY <1>7, <1>8 DEF Within

LEMMA EtaLimit == MaxEtaMinutes \in Int /\ MaxEtaMinutes * Minute = 366 * Day
<1>1. PICK x, y, v \in Int : x = 366 /\ y = 24 * 60 /\ v = Minute
  BY UnitFacts
<1>2. MaxEtaMinutes = x * y /\ Day = y * v
  BY <1>1 DEF MaxEtaMinutes, Day
<1>3. (x * y) * v = x * (y * v)
  OBVIOUS
<1> QED
  BY <1>1, <1>2, <1>3

\* At most so many days lie between a local time and one some minutes later as are in a year.
LEMMA YearAhead ==
  ASSUME TypeOK, NEW m \in 0 .. MaxEtaMinutes, NEW local \in Int,
         local = LocalTime(now) + m * Minute
  PROVE  DateOf(local) \in Dates
<1>1. /\ LocalTime(now) \in Int /\ Today \in Int
      /\ \A k \in 0 .. MaxVacationDays : Today + k \in Dates
  BY TodayFacts
<1>2. PICK M \in Int : M = MaxEtaMinutes
  BY EtaLimit
<1>3. m \in Nat /\ m <= M
  BY <1>2
<1>4. PICK p, q \in Int : p = m * Minute /\ q = M * Minute /\ 0 <= p /\ p <= q
  <2>1. m * Minute \in Int /\ M * Minute \in Int /\ 0 <= m * Minute
    BY <1>2, <1>3, UnitFacts
  <2>2. m < M => m * Minute + Minute <= M * Minute
    BY <1>2, <1>3, UnitFacts, MulOrder
  <2> QED
    BY <1>2, <1>3, <2>1, <2>2, UnitFacts
<1>5. q = 366 * Day
  BY <1>2, <1>4, EtaLimit
<1>6. PICK l, u \in Int : l = LocalTime(now) /\ u = l + 366 * Day
  BY <1>1, UnitFacts
<1>7. l <= local /\ local <= u
  BY <1>4, <1>5, <1>6
<1>8. DateOf(u) = DateOf(l) + 366 /\ DateOf(l) = Today
  BY <1>6, DateShift DEF Today
<1>9. /\ DateOf(local) \in Int /\ DateOf(l) <= DateOf(local) /\ DateOf(local) <= DateOf(u)
  BY <1>6, <1>7, DateOrder
<1>10. PICK k \in Int : k = DateOf(local) - Today /\ 0 <= k /\ k <= 366
  BY <1>1, <1>8, <1>9
<1>11. k \in 0 .. MaxVacationDays /\ DateOf(local) = Today + k
  BY <1>1, <1>9, <1>10 DEF MaxVacationDays
<1> QED
  BY <1>1, <1>11

LEMMA SaidIsRead ==
  ASSUME TypeOK, NEW m \in 0 .. MaxEtaMinutes, NEW local \in Int,
         local = LocalTime(now) + m * Minute
  PROVE  /\ DateRead(Said(local, Today).label, Today) = DateOf(local)
         /\ Within(local, ReadAs(Said(local, Today), DateOf(local)))
         /\ Within(local, ReadAs([time |-> Face(local)], DateOf(local)))
<1>1. DateOf(local) \in Dates /\ Today \in Dates
  BY YearAhead, TodayFacts
<1>2. Said(local, Today).label = Label(DateOf(local), Today)
      /\ Said(local, Today).time = Face(local)
  BY DEF Said
<1>3. Within(local, (DateOf(local) - scenario.first) * Day + Face(local) * Minute)
  BY FaceIsRead
<1> QED
  BY <1>1, <1>2, <1>3, LabelIsRead DEF ReadAs

\* A reply to /meta or /eta is read as the minutes of the times asked for: EtaRequestResolver,
\* PresenceService and the rendering of the reply, for every moment and argument.
THEOREM PresenceIsRead == Spec => []PresenceReads
<1>1. TypeOK => PresenceReads
  <2> SUFFICES ASSUME TypeOK, NEW e \in Etas, EtaResolution(e) = "valid"
               PROVE  LET reply == Reply(e)
                          date == DateRead(reply[1].label, Today)
                      IN  /\ Within(LocalTime(now) + e[1] * Minute, ReadAs(reply[1], date))
                          /\ e[2] # -1 =>
                               /\ e[1] <= e[2]
                               /\ Within(LocalTime(now) + e[2] * Minute,
                                         ReadAs(reply[2], IF "label" \in DOMAIN reply[2]
                                                          THEN DateRead(reply[2].label, Today)
                                                          ELSE date))
    BY DEF PresenceReads
  <2>1. e[1] \in Int /\ e[2] \in Int
    <3>1. EtaMinutes \subseteq Int
      BY CalendarAssumption
    <3>2. CASE e \in EtaMinutes \X {-1}
      <4>1. e[1] \in EtaMinutes /\ e[2] = -1
        BY <3>2
      <4>2. -1 \in Int
        OBVIOUS
      <4> QED
        BY <3>1, <4>1, <4>2
    <3>3. CASE e \in EtaMinutes \X (EtaMinutes \cap Nat)
      BY <3>1, <3>3
    <3> QED
      BY <3>2, <3>3 DEF Etas
  <2>2. /\ e[1] \in 0 .. MaxEtaMinutes
        /\ e[2] # -1 => e[2] \in 0 .. MaxEtaMinutes /\ e[1] <= e[2]
    <3>1. MaxEtaMinutes \in Int
      BY DEF MaxEtaMinutes
    <3>2. \A n \in Int : ValidMinutes(n) <=> n \in 0 .. MaxEtaMinutes
      BY <3>1 DEF ValidMinutes
    <3>3. e[1] \in 0 .. MaxEtaMinutes
      <4>1. CASE ~ValidMinutes(e[1])
        BY <4>1 DEF EtaResolution
      <4> QED
        BY <2>1, <3>2, <4>1
    <3>4. ASSUME e[2] # -1 PROVE e[2] \in 0 .. MaxEtaMinutes /\ e[1] <= e[2]
      <4>1. ValidMinutes(e[1])
        BY <2>1, <3>2, <3>3
      <4>2. CASE ~ValidMinutes(e[2])
        BY <3>4, <4>1, <4>2 DEF EtaResolution
      <4>3. CASE ValidMinutes(e[2]) /\ e[1] > e[2]
        BY <3>4, <4>1, <4>3 DEF EtaResolution
      <4>4. CASE ValidMinutes(e[2]) /\ ~(e[1] > e[2])
        BY <2>1, <3>2, <4>4
      <4> QED
        BY <4>2, <4>3, <4>4
    <3> QED
      BY <3>3, <3>4
  <2>3. LocalTime(now) \in Int /\ e[1] * Minute \in Int /\ e[2] * Minute \in Int
    BY <2>1, TodayFacts, UnitFacts
  <2>4. PICK start, end \in Int : /\ start = LocalTime(now) + e[1] * Minute
                                  /\ end = LocalTime(now) + e[2] * Minute
    BY <2>3
  <2>5. /\ DateRead(Said(start, Today).label, Today) = DateOf(start)
        /\ Within(start, ReadAs(Said(start, Today), DateOf(start)))
    BY <2>2, <2>4, SaidIsRead
  <2>6. CASE e[2] = -1
    <3>1. Reply(e)[1] = Said(start, Today)
      BY <2>4, <2>6 DEF Reply
    <3> QED
      BY <2>4, <2>5, <2>6, <3>1
  <2>7. CASE e[2] # -1
    <3>1. /\ DateRead(Said(end, Today).label, Today) = DateOf(end)
          /\ Within(end, ReadAs(Said(end, Today), DateOf(end)))
          /\ Within(end, ReadAs([time |-> Face(end)], DateOf(end)))
      BY <2>2, <2>4, <2>7, SaidIsRead
    <3>2. CASE DateOf(start) = DateOf(end)
      <4>1. Reply(e)[1] = Said(start, Today) /\ Reply(e)[2] = [time |-> Face(end)]
        BY <2>4, <2>7, <3>2 DEF Reply
      <4>2. "label" \notin DOMAIN [time |-> Face(end)]
        OBVIOUS
      <4> QED
        BY <2>2, <2>4, <2>5, <2>7, <3>1, <3>2, <4>1, <4>2
    <3>3. CASE DateOf(start) # DateOf(end)
      <4>1. Reply(e)[1] = Said(start, Today) /\ Reply(e)[2] = Said(end, Today)
        BY <2>4, <2>7, <3>3 DEF Reply
      <4>2. "label" \in DOMAIN Said(end, Today)
        BY DEF Said
      <4> QED
        BY <2>2, <2>4, <2>5, <2>7, <3>1, <4>1, <4>2
    <3> QED
      BY <3>2, <3>3
  <2> QED
    BY <2>6, <2>7
<1> QED
  BY <1>1, CalendarTypes, PTL

=============================================================================
