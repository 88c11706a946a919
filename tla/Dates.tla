------------------------------- MODULE Dates -------------------------------
(***************************************************************************)
(* A QalculateDateTime and the calls that change it: whole days, months,   *)
(* years, minutes and seconds are added to it, by hand-written carries and *)
(* a table of leap seconds.  Whole amounts only; the time zone is a fixed  *)
(* number of minutes ahead of UTC; the flag for a time that was set, the   *)
(* string it was parsed from and being aborted are left out.               *)
(***************************************************************************)
EXTENDS Calendars

CONSTANTS
  Zone,        \* what dateTimeZone returns
  FirstDates,  \* the dates the object may be created with
  Days, Months, Years, Minutes, Seconds,   \* amounts to add
  Timestamps,  \* seconds since 1970
  Reach,       \* bound: the years in which seconds are counted, for TLC's integers
  MaxCalls     \* bound on the number of calls

ASSUME DatesAssumption ==
  /\ Zone \in Int /\ MaxCalls \in Nat
  /\ \A A \in {Days, Months, Years, Minutes, Seconds, Timestamps} : A \subseteq Int

VARIABLES
  datetime,  \* the object
  from,      \* what it was before the last call
  call,      \* the last call: its name and amount
  calls      \* number of calls so far

vars == <<datetime, from, call, calls>>

\* Not every one of these is a date (see ValidDates).
DateTimes == [year : Int, month : 1..12, day : 1..31, hour : 0..23, min : 0..59, sec : 0..60]

DateTime(y, mon, d, h, min, s) ==
  [year |-> y, month |-> mon, day |-> d, hour |-> h, min |-> min, sec |-> s]

daysPerYear(y) == IF isLeapYear(y) THEN 366 ELSE 365

daysPerMonth(m, y) ==
  CASE m \in {1, 3, 5, 7, 8, 10, 12} -> 31
    [] m = 2 -> IF isLeapYear(y) THEN 29 ELSE 28
    [] OTHER -> 30

ValidDates == {d \in DateTimes : d.day <= daysPerMonth(d.month, d.year)}
IsValid(d) == d \in ValidDates

ASSUME FirstDatesAssumption == \A d \in FirstDates : IsValid(d)

\* C division.
Truncated(n, d) == IF n < 0 THEN -((-n) \div d) ELSE n \div d
Remainder(n, d) == n - d * Truncated(n, d)

Init ==
  /\ datetime \in FirstDates
  /\ from = datetime
  /\ call = <<"set", 0>>
  /\ calls = 0

------------------------------------------------------------------------------
(* Days, months and years *)

\* A day before the first of its month or after the last, counted in a month
\* that is less far away.
CarryBack(t) ==
  LET y == t[1]  m == t[2]  d == t[3]
      length == daysPerYear(IF m <= 2 THEN y - 1 ELSE y)
      earlier == IF m = 1 THEN <<y - 1, 12>> ELSE <<y, m - 1>>
  IN  CASE d <= -14609700 -> <<y - 40000, m, d + 14609700>>
        [] d > -14609700 /\ d <= -146097 -> <<y - 400, m, d + 146097>>
        [] d > -146097 /\ d <= -length -> <<y - 1, m, d + length>>
        [] d > -length -> earlier \o <<d + daysPerMonth(earlier[2], earlier[1])>>

CarryOn(t) ==
  LET y == t[1]  m == t[2]  d == t[3]
      length == daysPerYear(IF m <= 2 THEN y ELSE y + 1)
      later == IF m = 12 THEN <<y + 1, 1>> ELSE <<y, m + 1>>
  IN  CASE d > 14609700 -> <<y + 40000, m, d - 14609700>>
        [] d <= 14609700 /\ d > 146097 -> <<y + 400, m, d - 146097>>
        [] d <= 146097 /\ d > length -> <<y + 1, m, d - length>>
        [] d <= length -> later \o <<d - daysPerMonth(m, y)>>

\* Carried until it is a day of its month.
MonthDays == Int \X (1..12) \X Int
EarlierDay[t \in MonthDays] == IF t[3] >= 1 THEN t ELSE EarlierDay[CarryBack(t)]
LaterDay[t \in MonthDays] ==
  IF t[3] <= daysPerMonth(t[2], t[1]) THEN t ELSE LaterDay[CarryOn(t)]

addDays(dt, n) ==
  LET moved == <<dt.year, dt.month, dt.day + n>>
      t == IF n < 0 THEN EarlierDay[moved] ELSE LaterDay[moved]
  IN  IF n = 0 THEN dt ELSE [dt EXCEPT !.year = t[1], !.month = t[2], !.day = t[3]]

MutCarriedClamps(dt) ==
  LET length == daysPerMonth(dt.month, dt.year)
  IN  IF dt.day <= length THEN dt ELSE [dt EXCEPT !.day = length]

\* A day that its month does not have is carried into the next one.
Carried(dt) ==
  LET length == daysPerMonth(dt.month, dt.year)
  IN  IF dt.day <= length THEN dt
      ELSE [dt EXCEPT !.day = @ - length,
                      !.month = IF @ = 12 THEN 1 ELSE @ + 1,
                      !.year = IF dt.month = 12 THEN @ + 1 ELSE @]

addMonths(dt, n) ==
  LET m == dt.month + Remainder(n, 12)
      carry == IF m > 12 THEN 1 ELSE IF m < 1 THEN -1 ELSE 0
  IN  Carried([dt EXCEPT !.year = @ + Truncated(n, 12) + carry, !.month = m - 12 * carry])

addYears(dt, n) == Carried([dt EXCEPT !.year = @ + n])

------------------------------------------------------------------------------
(* Minutes *)

MutMinutesCarryLate(dt, n, remove_leap_second) ==
  LET min == dt.min + Remainder(n, 60)
      carry == IF min > 60 THEN 1 ELSE IF min < 0 THEN -1 ELSE 0
      hours == Truncated(n, 60) + carry
      hour == dt.hour + Remainder(hours, 24)
      day == IF hour >= 24 THEN 1 ELSE IF hour < 0 THEN -1 ELSE 0
  IN  addDays([dt EXCEPT !.sec = IF remove_leap_second /\ @ >= 60 THEN @ - 1 ELSE @,
                         !.min = min - 60 * carry,
                         !.hour = hour - 24 * day],
              Truncated(hours, 24) + day)

\* addMinutes in UTC, or in a time that is not converted.
PlainMinutes(dt, n, remove_leap_second) ==
  LET min == dt.min + Remainder(n, 60)
      carry == IF min >= 60 THEN 1 ELSE IF min < 0 THEN -1 ELSE 0
      hours == Truncated(n, 60) + carry
      hour == dt.hour + Remainder(hours, 24)
      day == IF hour >= 24 THEN 1 ELSE IF hour < 0 THEN -1 ELSE 0
  IN  addDays([dt EXCEPT !.sec = IF remove_leap_second /\ @ >= 60 THEN @ - 1 ELSE @,
                         !.min = min - 60 * carry,
                         !.hour = hour - 24 * day],
              Truncated(hours, 24) + day)

ToUTC(dt) == PlainMinutes(dt, -Zone, FALSE)
ToLocal(dt) == PlainMinutes(dt, Zone, FALSE)

addMinutes(dt, n) == ToLocal(PlainMinutes(ToUTC(dt), n, TRUE))

------------------------------------------------------------------------------
(* Differences *)

\* operator >
Later(a, b) ==
  LET A == <<a.year, a.month, a.day, a.hour, a.min, a.sec>>
      B == <<b.year, b.month, b.day, b.hour, b.min, b.sec>>
  IN  \E k \in 1..6 : A[k] > B[k] /\ \A j \in 1..k - 1 : A[j] = B[j]

DayLater(a, b) == Later([a EXCEPT !.hour = 0, !.min = 0, !.sec = 0],
                        [b EXCEPT !.hour = 0, !.min = 0, !.sec = 0])

SecondOfDay(dt, remove_leap_seconds) ==
  3600 * dt.hour + 60 * dt.min
    + (IF remove_leap_seconds /\ dt.sec >= 60 THEN dt.sec - 1 ELSE dt.sec)

\* The loops that add up the lengths of months.
DaysOf(y, first, last) ==
  LET days[m \in 0..12] == IF m < first THEN 0 ELSE days[m - 1] + daysPerMonth(m, y)
  IN  days[last]

\* From the day of a to that of b, not before a's.
ActualDays(a, b) ==
  b.day - a.day
    + (IF a.year = b.year THEN DaysOf(b.year, a.month, b.month - 1)
       ELSE DaysOf(a.year, a.month, 12) + DaysOf(b.year, 1, b.month - 1)
              + 365 * (b.year - a.year - 1)
              + Cardinality({y \in a.year + 1..b.year - 1 : isLeapYear(y)}))

\* daysTo with basis 1, in days and seconds (which may differ in sign).
daysTo(a, b, remove_leap_seconds) ==
  LET S(dt) == SecondOfDay(dt, remove_leap_seconds)
  IN  IF DayLater(a, b) \/ (~DayLater(b, a) /\ S(a) > S(b))
      THEN <<-ActualDays(b, a), S(b) - S(a)>>
      ELSE <<ActualDays(a, b), S(b) - S(a)>>

LS_FIRST_YEAR == 1972
LS_LAST_YEAR == 2016
LS_HALF_YEARS == 90

\* The half-years since 1972 that end with a leap second; the table has
\* LS_HALF_YEARS of them.
has_leap_second == {0, 1, 3, 5, 7, 9, 11, 13, 15, 18, 20, 22, 26, 31, 35, 37, 40, 42,
                    44, 47, 50, 53, 67, 73, 80, 86, 89}

IsLeapSecond(dt) ==
  /\ dt.sec >= 60 /\ dt.min = 59 /\ dt.hour = 23
  /\ <<dt.month, dt.day>> \in {<<12, 31>>, <<6, 30>>}

\* The first half-year that ends after dt, and the last that ends before it.
EndsAfter(dt) ==
  (IF dt.year < LS_FIRST_YEAR THEN 0
   ELSE 2 * (dt.year - LS_FIRST_YEAR) + (IF dt.month > 6 THEN 1 ELSE 0))
    + (IF IsLeapSecond(dt) THEN 1 ELSE 0)
MutEndsBeforeOrWith(dt) == 2 * (dt.year - LS_FIRST_YEAR) + (IF dt.month <= 6 THEN 0 ELSE 1)

EndsBefore(dt) == 2 * (dt.year - LS_FIRST_YEAR) - (IF dt.month <= 6 THEN 1 ELSE 0)

countLeapSeconds(a, b) ==
  LET Between(c, d) ==
        IF c.year > LS_LAST_YEAR \/ d.year < LS_FIRST_YEAR THEN 0
        ELSE Cardinality(has_leap_second \cap EndsAfter(c)..EndsBefore(d))
  IN  IF Later(a, b) THEN -Between(b, a) ELSE Between(a, b)

secondsTo(a, b, count_leap_seconds, convert_to_utc) ==
  LET c == IF convert_to_utc THEN ToUTC(a) ELSE a
      d == IF convert_to_utc THEN ToUTC(b) ELSE b
      nr == daysTo(c, d, ~count_leap_seconds)
  IN  86400 * nr[1] + nr[2] + (IF count_leap_seconds THEN countLeapSeconds(c, d) ELSE 0)

------------------------------------------------------------------------------
(* Seconds *)

PlainSeconds(dt, n) ==
  LET sec == dt.sec + n
  IN  IF n = 0 THEN dt
      ELSE IF sec \in 0..59 THEN [dt EXCEPT !.sec = sec]
      ELSE PlainMinutes([dt EXCEPT !.sec = sec % 60], sec \div 60, FALSE)

LeapSecond(halfyear) ==
  IF halfyear % 2 = 1 THEN DateTime(LS_FIRST_YEAR + halfyear \div 2, 12, 31, 23, 59, 60)
  ELSE DateTime(LS_FIRST_YEAR + halfyear \div 2, 6, 30, 23, 59, 60)

NextLeapSeconds(dt) == {i \in has_leap_second : i >= EndsAfter(dt)}
PrevLeapSeconds(dt) == {i \in has_leap_second : i <= EndsBefore(dt)}

\* Leap second by leap second, then the rest of the way.
LeapBackward[p \in ValidDates \X Int] ==
  LET dt == p[1]  n == p[2]
      dt_nls == LeapSecond(Max(PrevLeapSeconds(dt)))
      n_sto == secondsTo(dt, dt_nls, TRUE, FALSE) - 1
  IN  IF PrevLeapSeconds(dt) = {} \/ n_sto < n THEN PlainSeconds(dt, n)
      ELSE IF n_sto = n THEN dt_nls
      ELSE LeapBackward[<<[dt_nls EXCEPT !.sec = 59], n - n_sto + 1>>]

\* Behind the table: after LS_LAST_YEAR the search begins one past its end.  If
\* that byte is not 0 it finds a leap second at the end of June 2017 that never
\* was, ahead of dt or behind it, and from there finds it again: every round
\* takes a second off the rest, and none being left it ends on it.
StrayLeapSecond == LeapSecond(LS_HALF_YEARS)

Backward(dt, n, beyond) ==
  LET n_sto == secondsTo(dt, StrayLeapSecond, TRUE, FALSE) - 1
  IN  IF ~beyond \/ dt.year <= LS_LAST_YEAR THEN LeapBackward[<<dt, n>>]
      ELSE IF n_sto < n THEN PlainSeconds(dt, n)
      ELSE StrayLeapSecond

MutForwardCountsNoLeap(dt, n) == PlainSeconds(dt, n)

LeapForward[p \in ValidDates \X Int] ==
  LET dt == p[1]  n == p[2]
      dt_nls == LeapSecond(Min(NextLeapSeconds(dt)))
      n_sto == secondsTo(dt, dt_nls, TRUE, FALSE)
      midnight == [addDays(dt_nls, 1) EXCEPT !.hour = 0, !.min = 0, !.sec = 0]
  IN  IF NextLeapSeconds(dt) = {} \/ n_sto > n THEN PlainSeconds(dt, n)
      ELSE IF n_sto = n THEN dt_nls
      ELSE LeapForward[<<midnight, n - n_sto - 1>>]

Forward(dt, n) == LeapForward[<<dt, n>>]

\* Going back to midnight is not the end of it: the code sets the time and
\* converts it, but does not return.  beyond: see Backward.
addSeconds(dt, n, beyond) ==
  LET utc == ToUTC(dt)
      nsum == SecondOfDay(utc, FALSE) + n
      midnight == ToLocal([utc EXCEPT !.hour = 0, !.min = 0, !.sec = 0])
      atLeap == utc.hour = 23 /\ utc.min = 59 /\ utc.sec = 60
  IN  CASE n = 0 -> dt
        [] n > 0 -> ToLocal(IF nsum < 86400 THEN PlainSeconds(utc, n)
                            ELSE Forward(utc, IF atLeap THEN n - 1 ELSE n))
        [] n < 0 -> ToLocal(IF nsum > 0 THEN PlainSeconds(utc, n)
                            ELSE Backward(IF nsum = 0 THEN midnight ELSE utc, n, beyond))

------------------------------------------------------------------------------
(* The day in the week and the year *)

yearday(dt) == dt.day + DaysOf(dt.year, 1, dt.month - 1)

\* What a number of days and seconds is without its fraction.
WholeDays(p) == IF p[1] > 0 /\ p[2] < 0 THEN p[1] - 1
                ELSE IF p[1] < 0 /\ p[2] > 0 THEN p[1] + 1 ELSE p[1]

MutWeekdayRoundTheCorner(dt) ==
  LET nr == Remainder(-WholeDays(daysTo(dt, DateTime(2017, 7, 31, 0, 0, 0), TRUE)), 7)
  IN  IF nr < 0 THEN 7 + nr ELSE nr + 1

weekday(dt) ==
  LET nr == Remainder(-WholeDays(daysTo(dt, DateTime(2017, 7, 31, 0, 0, 0), TRUE)), 7)
  IN  IF nr < 0 THEN 8 + nr ELSE nr + 1

\* The ISO week of a day in its own year, 0 if it is in none of that.
WeekInYear(dt) ==
  LET wday == weekday(DateTime(dt.year, 1, 1, 0, 0, 0))
      day1 == yearday(dt) - (8 - wday)
  IN  (IF wday <= 4 THEN 1 ELSE 0) + (IF day1 > 0 THEN (day1 - 1) \div 7 + 1 ELSE 0)

week(dt) ==
  IF dt.month = 12 /\ dt.day >= 29 /\ weekday(dt) <= dt.day - 28 THEN 1
  ELSE IF WeekInYear(dt) = 0 THEN WeekInYear(DateTime(dt.year - 1, 12, 31, 0, 0, 0))
  ELSE WeekInYear(dt)

\* Weeks that begin on Sunday.
sundayWeek(dt) ==
  LET wday == (weekday(DateTime(dt.year, 1, 1, 0, 0, 0)) % 7) + 1
      w == (yearday(dt) + wday - 2) \div 7 + 1
  IN  IF w > 52 THEN 1 ELSE w

------------------------------------------------------------------------------
(* Calls *)

setTimestamp(n) == ToLocal(PlainSeconds(DateTime(1970, 1, 1, 0, 0, 0), n))

timestamp(dt) == secondsTo(setTimestamp(0), dt, FALSE, TRUE)

InReach(dt) == dt.year \in Reach

Call(op, n, new) ==
  /\ calls < MaxCalls
  /\ calls' = calls + 1
  /\ call' = <<op, n>>
  /\ from' = datetime
  /\ datetime' = new

AddDays == \E n \in Days : Call("addDays", n, addDays(datetime, n))
AddMonths == \E n \in Months : Call("addMonths", n, addMonths(datetime, n))
AddYears == \E n \in Years : Call("addYears", n, addYears(datetime, n))
AddMinutes == \E n \in Minutes : Call("addMinutes", n, addMinutes(datetime, n))
\* What is read behind the table is not defined.
AddSeconds ==
  /\ InReach(datetime)
  /\ \E n \in Seconds, beyond \in BOOLEAN :
       Call("addSeconds", n, addSeconds(datetime, n, beyond))
SetTimestamp == \E n \in Timestamps : Call("setTimestamp", n, setTimestamp(n))

Next == AddDays \/ AddMonths \/ AddYears \/ AddMinutes \/ AddSeconds \/ SetTimestamp

Spec == Init /\ [][Next]_vars

------------------------------------------------------------------------------
(* Properties *)

Fixed(dt) == gregorian_to_fixed(dt.year, dt.month, dt.day)

\* UTC minutes since 2000, and seconds with the leap seconds before them: two
\* dates are as far apart as these numbers.
MinutesUTC(dt) ==
  1440 * (Fixed(dt) - gregorian_to_fixed(2000, 1, 1)) + 60 * dt.hour + dt.min - Zone
Elapsed(dt) ==
  LET DayOf(d) == MinutesUTC(d) \div 1440
      leaps == {LeapSecond(i) : i \in has_leap_second}
  IN  60 * MinutesUTC(dt) + dt.sec
        + Cardinality({l \in leaps : MinutesUTC(l) + Zone < 1440 * DayOf(dt)})

InLeapSecond(dt) == \E i \in has_leap_second : ToUTC(dt) = LeapSecond(i)

\* addYears and datetime can make a 23:59:60 that there never was.
Exists(dt) == dt.sec < 60 \/ InLeapSecond(dt)

AtMidnight(dt) == [dt EXCEPT !.hour = 0, !.min = 0, !.sec = 0]

\* The object is a date whatever was added to it, from far dates as well.
TypeOK ==
  /\ IsValid(datetime) /\ IsValid(from)
  /\ calls \in 0..MaxCalls

\* The carries of addDays, by 40000 and 400 years, years and months, land on
\* the day that is n days away and leave the time of day alone; addMonths and
\* addYears land in the month that is so far away, or, if it lacks the day, as
\* many days into the next one.
DatesAreExact ==
  LET months == 12 * from.year + from.month - 1
                  + (IF call[1] = "addYears" THEN 12 * call[2] ELSE call[2])
  IN  call[1] \in {"addDays", "addMonths", "addYears"} =>
        /\ Fixed(datetime) = IF call[1] = "addDays" THEN Fixed(from) + call[2]
             ELSE gregorian_to_fixed(months \div 12, (months % 12) + 1, from.day)
        /\ <<datetime.hour, datetime.min, datetime.sec>> = <<from.hour, from.min, from.sec>>

\* addMinutes moves the clock by n minutes of UTC, across days and the time
\* zone; only a leap second is lost.  addSeconds counts every leap second on its
\* way, forward and back.  Not so in three cases: one second after a leap second
\* is that leap second still; when it goes back to midnight UTC it goes on (see
\* addSeconds); and going back from a year after the table's last, it may end on
\* the leap second that never was, which is read behind the table (see Backward).
TimesAreExact ==
  LET n == call[2]
  IN  /\ call[1] = "addMinutes" /\ InReach(from) /\ InReach(datetime) =>
           /\ MinutesUTC(datetime) = MinutesUTC(from) + n
           /\ datetime.sec = IF from.sec = 60 THEN 59 ELSE from.sec
      /\ /\ call[1] = "addSeconds"
         /\ InReach(datetime) /\ Exists(from)
         /\ ~(n < 0 /\ SecondOfDay(ToUTC(from), FALSE) + n = 0)
         => \/ Elapsed(datetime) = Elapsed(from) + (IF InLeapSecond(from) /\ n = 1 THEN 0 ELSE n)
            \/ /\ n < 0 /\ ToUTC(from).year > LS_LAST_YEAR
               /\ datetime = ToLocal(StrayLeapSecond)

\* secondsTo is the time that passed between two times that there were, over
\* any number of leap seconds; it is a second short when it starts in one.  The
\* difference that leaves leap seconds out is what setTimestamp undoes.
SecondsToIsElapsed ==
  LET Short(a, b) == IF InLeapSecond(a) /\ Elapsed(a) < Elapsed(b) THEN 1 ELSE 0
  IN  /\ InReach(from) /\ InReach(datetime) /\ Exists(from) /\ Exists(datetime) =>
           secondsTo(from, datetime, TRUE, TRUE) =
             Elapsed(datetime) - Elapsed(from) - Short(from, datetime) + Short(datetime, from)
      /\ call[1] = "setTimestamp" => timestamp(datetime) = call[2]

\* weekday repeats every seven days on both sides of the Monday it counts from,
\* in years before 1 as well; but a time of day before that Monday makes it
\* the next day's.  A week belongs to the year of its Thursday, and is numbered
\* in it; with Sundays first it has one number up to its Saturday, across the
\* end of a year.
WeeksFollow ==
  LET late == datetime # AtMidnight(datetime) /\ Fixed(datetime) < gregorian_to_fixed(2017, 7, 31)
      day == AtMidnight(datetime)
      thursday == addDays(day, 3 - ((Fixed(day) - 1) % 7))
  IN  /\ weekday(datetime) = ((Fixed(datetime) - (IF late THEN 0 ELSE 1)) % 7) + 1
      /\ week(day) = (yearday(thursday) - 1) \div 7 + 1
      /\ sundayWeek(datetime) = sundayWeek(addDays(datetime, 6 - (Fixed(datetime) % 7)))

=============================================================================
