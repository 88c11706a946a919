----------------------------- MODULE Calendars -----------------------------
(***************************************************************************)
(* Conversion of dates between calendars: from a date of a calendar to a   *)
(* day number (1 is January 1 of year 1) and back, for the calendars that  *)
(* need only whole numbers.  The Persian and the Chinese calendar need the *)
(* positions of the sun and the moon and are left out.  A date is          *)
(* <<year, month, day>>.  Being aborted and a year beyond a long are left  *)
(* out.                                                                    *)
(***************************************************************************)
EXTENDS Integers, Sequences, FiniteSetsExt

Calendars == {"gregorian", "milankovic", "julian", "islamic", "hebrew",
              "egyptian", "coptic", "ethiopian", "indian"}

JULIAN_EPOCH == -1
ISLAMIC_EPOCH == 227015
EGYPTIAN_EPOCH == -272787
HEBREW_EPOCH == -1373427
COPTIC_EPOCH == 103605
ETHIOPIAN_EPOCH == 2796
CJDN == 1721425           \* a day number's distance from its Julian day number

\* C division truncates, and the correction below 0 makes it the floor unless
\* it is exact or truncated to 0.
quotient(i, d) == IF i <= -d THEN -((-i) \div d) - 1 ELSE IF i < 0 THEN 0 ELSE i \div d

isLeapYear(y) == y % 4 = 0 /\ (y % 100 # 0 \/ y % 400 = 0)
julian_leap_year(y) == IF y < 0 THEN y % 4 = 3 ELSE y % 4 = 0

------------------------------------------------------------------------------
(* Gregorian and Julian *)

\* Days before a month, as if February had 30, less what it lacks.
BeforeMonth(m, leap) ==
  quotient(367 * m - 362, 12) - (IF m <= 2 THEN 0 ELSE IF leap THEN 1 ELSE 2)

gregorian_to_fixed(y, m, d) ==
  LET year == y - 1
  IN  365 * year + year \div 4 - year \div 100 + year \div 400
        + BeforeMonth(m, isLeapYear(y)) + d

julian_to_fixed(y, m, d) ==
  LET year == IF y < 0 THEN y ELSE y - 1
  IN  JULIAN_EPOCH - 1 + 365 * year + year \div 4
        + BeforeMonth(m, julian_leap_year(y)) + d

\* The date in year y of a calendar like the Gregorian, whose function to
\* day numbers is given.
InYear(date, y, leap, to_fixed(_, _, _)) ==
  LET prior_days == date - to_fixed(y, 1, 1)
                      + (IF date < to_fixed(y, 3, 1) THEN 0 ELSE IF leap THEN 1 ELSE 2)
      m == (12 * prior_days + 373) \div 367
  IN  <<y, m, date - to_fixed(y, m, 1) + 1>>

gregorian_year_from_fixed(date) ==
  LET d0 == date - 1
      d1 == d0 % 146097
      d2 == d1 % 36524
      d3 == d2 % 1461
      n100 == d1 \div 36524
      n1 == d3 \div 365
  IN  400 * (d0 \div 146097) + 100 * n100 + 4 * (d2 \div 1461) + n1
        + (IF n100 # 4 /\ n1 # 4 THEN 1 ELSE 0)

fixed_to_gregorian(date) ==
  LET y == gregorian_year_from_fixed(date)
  IN  InYear(date, y, isLeapYear(y), gregorian_to_fixed)

fixed_to_julian(date) ==
  LET approx == (4 * (date - JULIAN_EPOCH) + 1464) \div 1461
      y == IF approx <= 0 THEN approx - 1 ELSE approx
  IN  InYear(date, y, julian_leap_year(y), julian_to_fixed)

------------------------------------------------------------------------------
(* Hebrew: a year begins with month 7 *)

hebrew_leap_year(y) == (7 * y + 1) % 19 < 7
last_month_of_hebrew_year(y) == IF hebrew_leap_year(y) THEN 13 ELSE 12

hebrew_calendar_elapsed_days(y) ==
  LET months == (235 * y - 234) \div 19
      days == 29 * months + (13753 * months + 12084) \div 25920
  IN  IF (3 * (days + 1)) % 7 < 3 THEN days + 1 ELSE days

hebrew_year_length_correction(y) ==
  LET ny(n) == hebrew_calendar_elapsed_days(n)
  IN  IF ny(y + 1) - ny(y) = 356 THEN 2 ELSE IF ny(y) - ny(y - 1) = 382 THEN 1 ELSE 0

hebrew_new_year(y) ==
  HEBREW_EPOCH + hebrew_calendar_elapsed_days(y) + hebrew_year_length_correction(y)

days_in_hebrew_year(y) == hebrew_new_year(y + 1) - hebrew_new_year(y)
long_marheshvan(y) == days_in_hebrew_year(y) \in {355, 385}
short_kislev(y) == days_in_hebrew_year(y) \in {353, 383}

last_day_of_hebrew_month(y, m) ==
  IF \/ m \in {2, 4, 6, 10, 13}
     \/ m = 12 /\ ~hebrew_leap_year(y)
     \/ m = 8 /\ ~long_marheshvan(y)
     \/ m = 9 /\ short_kislev(y)
  THEN 29 ELSE 30

\* The loops that add up the lengths of months.
DaysOfMonths(y, first, last) ==
  LET days[m \in 0..13] == IF m < first THEN 0 ELSE days[m - 1] + last_day_of_hebrew_month(y, m)
  IN  days[last]

hebrew_to_fixed(y, m, d) ==
  hebrew_new_year(y) + d - 1
    + (IF m < 7
       THEN DaysOfMonths(y, 7, last_month_of_hebrew_year(y)) + DaysOfMonths(y, 1, m - 1)
       ELSE DaysOfMonths(y, 7, m - 1))

\* floor(days * 98496 / 35975351): 98496 years have 35975351 days, 365 each
\* and 24311 more.  (The products would not fit TLC's integers.)
MeanHebrewYears(days) ==
  LET bounds == {days \div 366, days \div 365}
  IN  CHOOSE n \in Min(bounds) - 1..Max(bounds) + 1 :
        /\ 24311 * n <= 98496 * (days - 365 * n)
        /\ 24311 * (n + 1) > 98496 * (days - 365 * (n + 1))

\* The code's loops count up to the first year that begins after the day, and
\* to the first month that does not end before it.
MutHebrewMonthsFromFirst(date) ==
  LET approx == MeanHebrewYears(date - HEBREW_EPOCH) + 1
      y == Min({n \in approx - 1..approx + 2 : hebrew_new_year(n) > date}) - 1
      m == Min({n \in 1..13 : date <= hebrew_to_fixed(y, n, last_day_of_hebrew_month(y, n))})
  IN  <<y, m, date - hebrew_to_fixed(y, m, 1) + 1>>

fixed_to_hebrew(date) ==
  LET approx == MeanHebrewYears(date - HEBREW_EPOCH) + 1
      y == Min({n \in approx - 1..approx + 2 : hebrew_new_year(n) > date}) - 1
      first == IF date < hebrew_to_fixed(y, 1, 1) THEN 7 ELSE 1
      m == Min({n \in first..13 : date <= hebrew_to_fixed(y, n, last_day_of_hebrew_month(y, n))})
  IN  <<y, m, date - hebrew_to_fixed(y, m, 1) + 1>>

------------------------------------------------------------------------------
(* Islamic, Egyptian, Coptic and Ethiopian *)

islamic_to_fixed(y, m, d) ==
  ISLAMIC_EPOCH - 1 + 354 * (y - 1) + (11 * y + 3) \div 30 + 29 * (m - 1) + quotient(m, 2) + d

MutIslamicMonthsLate(date) ==
  LET y == (30 * (date - ISLAMIC_EPOCH) + 10646) \div 10631
      m == (11 * (date - islamic_to_fixed(y, 1, 1)) + 325) \div 325
  IN  <<y, m, date - islamic_to_fixed(y, m, 1) + 1>>

fixed_to_islamic(date) ==
  LET y == (30 * (date - ISLAMIC_EPOCH) + 10646) \div 10631
      m == (11 * (date - islamic_to_fixed(y, 1, 1)) + 330) \div 325
  IN  <<y, m, date - islamic_to_fixed(y, m, 1) + 1>>

egyptian_to_fixed(y, m, d) == EGYPTIAN_EPOCH + 365 * (y - 1) + 30 * (m - 1) + d - 1

fixed_to_egyptian(date) ==
  LET days == date - EGYPTIAN_EPOCH
      year == days \div 365
      month == (days % 365) \div 30
  IN  <<year + 1, month + 1, days - 365 * year - 30 * month + 1>>

coptic_to_fixed(y, m, d) == COPTIC_EPOCH - 1 + 365 * (y - 1) + y \div 4 + 30 * (m - 1) + d

fixed_to_coptic(date) ==
  LET y == (4 * (date - COPTIC_EPOCH) + 1463) \div 1461
      m == (date - coptic_to_fixed(y, 1, 1)) \div 30 + 1
  IN  <<y, m, date - coptic_to_fixed(y, m, 1) + 1>>

ethiopian_to_fixed(y, m, d) == ETHIOPIAN_EPOCH + coptic_to_fixed(y, m, d) - COPTIC_EPOCH
fixed_to_ethiopian(date) == fixed_to_coptic(date - ETHIOPIAN_EPOCH + COPTIC_EPOCH)

------------------------------------------------------------------------------
(* Milankovic and Indian, by Julian day numbers *)

\* A year that begins in March: the years and months of the date so counted.
MarchYear(y, m) == y + (m - 3) \div 12
MarchMonth(m) == (m - 3) % 12
DaysOfMarchMonths(n) == (153 * n + 2) \div 5

\* Both calendars differ in the days of the centuries alone.
DaysAfterCenturies(y, m, d) ==
  (36525 * (MarchYear(y, m) % 100)) \div 100 + DaysOfMarchMonths(MarchMonth(m)) + d + 1721119

gregorian_to_cjdn(y, m, d) ==
  (146097 * (MarchYear(y, m) \div 100)) \div 4 + DaysAfterCenturies(y, m, d)
milankovic_to_cjdn(y, m, d) ==
  (328718 * (MarchYear(y, m) \div 100) + 6) \div 9 + DaysAfterCenturies(y, m, d)

\* The date whose century is known, and how many days of it are over.
InCentury(century, days) ==
  LET r3 == 100 * days + 99
      r2 == 5 * ((r3 % 36525) \div 100) + 2
      x1 == r2 \div 153
      c0 == (x1 + 2) \div 12
  IN  <<100 * century + r3 \div 36525 + c0, x1 - 12 * c0 + 3, (r2 % 153) \div 5 + 1>>

cjdn_to_gregorian(J) ==
  LET j == 4 * J - 6884477 IN InCentury(j \div 146097, (j % 146097) \div 4)

cjdn_to_milankovic(J) ==
  LET j == 9 * (J - 1721120) + 2 IN InCentury(j \div 328718, (j % 328718) \div 9)

\* The first month has 30 days or 31, the next five 31, the others 30.
FirstIndianMonth(leap) == IF leap THEN 31 ELSE 30

MutLeapOfIndianYear(y, m, d) ==
  LET leap == isLeapYear(y)
      months == IF m - 2 > 5 THEN 5 ELSE m - 2
  IN  gregorian_to_cjdn(y + 78, 3, IF leap THEN 21 ELSE 22)
        + (IF m = 1 THEN 0
           ELSE FirstIndianMonth(leap) + 31 * months + (IF m >= 8 THEN 30 * (m - 7) ELSE 0))
        + d - 1

indian_to_cjdn(y, m, d) ==
  LET leap == isLeapYear(y + 78)
      months == IF m - 2 > 5 THEN 5 ELSE m - 2
  IN  gregorian_to_cjdn(y + 78, 3, IF leap THEN 21 ELSE 22)
        + (IF m = 1 THEN 0
           ELSE FirstIndianMonth(leap) + 31 * months + (IF m >= 8 THEN 30 * (m - 7) ELSE 0))
        + d - 1

cjdn_to_indian(J) ==
  LET year == cjdn_to_gregorian(J)[1]
      first == FirstIndianMonth(isLeapYear(year))
      since == J - gregorian_to_cjdn(year, 1, 1) - 80
      y == IF since < 0 THEN year - 79 ELSE year - 78
      yday == IF since < 0 THEN since + first + 31 * 5 + 30 * 3 + 10 + 80 ELSE since
      mday == yday - first
  IN  IF yday < first THEN <<y, 1, yday + 1>>
      ELSE IF mday < 155 THEN <<y, mday \div 31 + 2, (mday % 31) + 1>>
      ELSE <<y, (mday - 155) \div 30 + 7, ((mday - 155) % 30) + 1>>

------------------------------------------------------------------------------
(* date_to_cjdn has other formulas for other calendars, which nothing calls *)

MutJulianMonthsOfYear(y, m, d) ==
  1721117 + (1461 * y) \div 4 + DaysOfMarchMonths(MarchMonth(m)) + d

julian_to_cjdn(y, m, d) ==
  1721117 + (1461 * MarchYear(y, m)) \div 4 + DaysOfMarchMonths(MarchMonth(m)) + d

islamic_to_cjdn(y, m, d) ==
  (10631 * y - 10617) \div 30 + (325 * m - 320) \div 11 + d + 1948439

egyptian_to_cjdn(y, m, d) == 365 * y + 30 * m + d + 1448242

\* Days before a Hebrew year, counted from its seventh month: by the mean
\* month, moved by the weekday, and by the lengths of the years around it.
HebrewDays(x) ==
  LET v2(n) == LET c1 == (235 * n + 1) \div 19
                   v1 == 32336 * (c1 \div 1095)
                           + (15 * (c1 \div 1095) + 765433 * (c1 % 1095) + 12084) \div 25920
               IN  v1 + (((6 * (v1 % 7)) \div 7) % 2)
  IN  v2(x) + 2 * (((v2(x + 1) - v2(x) + 19) \div 15) % 2)
        + (((v2(x) - v2(x - 1) + 7) \div 15) % 2)

hebrew_to_cjdn(y, m, d) ==
  LET x1 == y - 1 + (13 - m) \div 7
      L == HebrewDays(x1 + 1) - HebrewDays(x1)
      c8 == ((L + 7) \div 2) % 15
      c9 == -(((385 - L) \div 2) % 15)
      c3 == (384 * (m - 1) + 7) \div 13 + c8 * ((m + 3) \div 12) + c9 * ((m + 2) \div 12)
  IN  347821 + HebrewDays(x1) + c3 + d - 1

------------------------------------------------------------------------------
(* All calendars *)

numberOfMonths(ct) == IF ct \in {"hebrew", "coptic", "egyptian", "ethiopian"} THEN 13 ELSE 12

date_to_fixed(y, m, d, ct) ==
  CASE ct = "gregorian" -> gregorian_to_fixed(y, m, d)
    [] ct = "hebrew" -> hebrew_to_fixed(y, m, d)
    [] ct = "julian" -> julian_to_fixed(y, m, d)
    [] ct = "islamic" -> islamic_to_fixed(y, m, d)
    [] ct = "egyptian" -> egyptian_to_fixed(y, m, d)
    [] ct = "coptic" -> coptic_to_fixed(y, m, d)
    [] ct = "ethiopian" -> ethiopian_to_fixed(y, m, d)
    [] ct = "milankovic" -> milankovic_to_cjdn(y, m, d) - CJDN
    [] ct = "indian" -> indian_to_cjdn(y, m, d) - CJDN

fixed_to_date(date, ct) ==
  CASE ct = "gregorian" -> fixed_to_gregorian(date)
    [] ct = "hebrew" -> fixed_to_hebrew(date)
    [] ct = "julian" -> fixed_to_julian(date)
    [] ct = "islamic" -> fixed_to_islamic(date)
    [] ct = "egyptian" -> fixed_to_egyptian(date)
    [] ct = "coptic" -> fixed_to_coptic(date)
    [] ct = "ethiopian" -> fixed_to_ethiopian(date)
    [] ct = "milankovic" -> cjdn_to_milankovic(date + CJDN)
    [] ct = "indian" -> cjdn_to_indian(date + CJDN)

==============================================================================
