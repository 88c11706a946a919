-------------------------- MODULE CalendarsProofs --------------------------
(***************************************************************************)
(* For every day: its date leads back to it, in each calendar, and the two *)
(* formulas for its day number agree.  The conversions are formulas, but   *)
(* for the Hebrew calendar: a date is taken apart by divisions with        *)
(* remainders, one calendar cycle after another, and put together again.   *)
(* A Hebrew year is near its mean, so the search for it ends, and its      *)
(* months fill it.  And the day after has the next date: in each calendar  *)
(* every day is in one month, and each month ends where the next begins.   *)
(***************************************************************************)
EXTENDS CalendarWalk, TLAPS, NaturalsInduction, WellFoundedInduction

(* A year by its four hundred, its century, its four years and its place in
   them, all counted from the year 1. *)
InCycle(y, q, a, b, c) ==
  /\ y \in Int /\ q \in Int /\ a \in 0..3 /\ b \in 0..24 /\ c \in 0..3
  /\ y = 400 * q + 100 * a + 4 * b + c + 1

(* The quotients of the years before a year, and whether it is a leap year. *)
LEMMA YearParts ==
  ASSUME NEW y, NEW q, NEW a, NEW b, NEW c, InCycle(y, q, a, b, c)
  PROVE  /\ (y - 1) \div 4 = 100 * q + 25 * a + b
         /\ (y - 1) \div 100 = 4 * q + a
         /\ (y - 1) \div 400 = q
         /\ isLeapYear(y) <=> (c = 3 /\ (b = 24 => a = 3))
<1>1. /\ (y - 1) \div 4 = 100 * q + 25 * a + b
      /\ (y - 1) \div 100 = 4 * q + a
      /\ (y - 1) \div 400 = q
  BY DEF InCycle
<1>2. y % 4 = 0 <=> c = 3
  BY DEF InCycle
<1>3. y % 100 = 0 <=> (c = 3 /\ b = 24)
  BY DEF InCycle
<1>4. y % 400 = 0 <=> (c = 3 /\ b = 24 /\ a = 3)
  BY DEF InCycle
<1> QED
  BY <1>1, <1>2, <1>3, <1>4 DEF isLeapYear

(* What a year begins with: the days of the years before it. *)
LEMMA January ==
  ASSUME NEW y \in Int
  PROVE  /\ gregorian_to_fixed(y, 1, 1)
              = 365 * (y - 1) + (y - 1) \div 4 - (y - 1) \div 100 + (y - 1) \div 400 + 1
         /\ isLeapYear(y) \in BOOLEAN
  BY DEF gregorian_to_fixed, isLeapYear, BeforeMonth, quotient

(* Division with a remainder, by the days of 400, 100 and 4 years and of one. *)
LEMMA Division ==
  ASSUME NEW i \in Int
  PROVE  /\ \E q, r \in Int : /\ q = i \div 146097 /\ r = i % 146097
                              /\ i = 146097 * q + r /\ 0 <= r /\ r < 146097
         /\ 0 <= i /\ i < 146097 => \E q \in 0..4, r \in Int :
              q = i \div 36524 /\ r = i % 36524 /\ i = 36524 * q + r /\ 0 <= r /\ r < 36524
         /\ 0 <= i /\ i < 36524 => \E q \in 0..24, r \in Int :
              q = i \div 1461 /\ r = i % 1461 /\ i = 1461 * q + r /\ 0 <= r /\ r < 1461
         /\ 0 <= i /\ i < 1461 => \E q \in 0..4, r \in Int :
              q = i \div 365 /\ r = i % 365 /\ i = 365 * q + r /\ 0 <= r /\ r < 365
  OBVIOUS

(* The first day of a year, from its place in the cycle. *)
LEMMA FirstOfYear ==
  ASSUME NEW y, NEW q, NEW a, NEW b, NEW c, InCycle(y, q, a, b, c)
  PROVE  gregorian_to_fixed(y, 1, 1) = 146097 * q + 36524 * a + 1461 * b + 365 * c + 1
<1>1. /\ (y - 1) \div 4 = 100 * q + 25 * a + b
      /\ (y - 1) \div 100 = 4 * q + a
      /\ (y - 1) \div 400 = q
  BY YearParts
<1>2. /\ y \in Int /\ q \in Int /\ a \in Int /\ b \in Int /\ c \in Int
      /\ y - 1 = 400 * q + 100 * a + 4 * b + c
  BY SMT DEF InCycle
<1>3. gregorian_to_fixed(y, 1, 1)
        = 365 * (y - 1) + (y - 1) \div 4 - (y - 1) \div 100 + (y - 1) \div 400 + 1
  BY <1>2, January
<1> QED BY <1>1, <1>2, <1>3, SMT

(* The year found for a day contains the day. *)
LEMMA GregorianYear ==
  ASSUME NEW date \in Int, NEW y, y = gregorian_year_from_fixed(date)
  PROVE  /\ y \in Int
         /\ 0 <= date - gregorian_to_fixed(y, 1, 1)
         /\ date - gregorian_to_fixed(y, 1, 1) <= IF isLeapYear(y) THEN 365 ELSE 364
<1>0. PICK d0 \in Int : d0 = date - 1
  OBVIOUS
<1>1. PICK q, d1 \in Int : /\ q = d0 \div 146097 /\ d1 = d0 % 146097
                           /\ d0 = 146097 * q + d1 /\ 0 <= d1 /\ d1 < 146097
  BY Division
<1>2. PICK a \in 0..4, d2 \in Int : /\ a = d1 \div 36524 /\ d2 = d1 % 36524
                                    /\ d1 = 36524 * a + d2 /\ 0 <= d2 /\ d2 < 36524
  BY <1>1, Division
<1>3. PICK b \in 0..24, d3 \in Int : /\ b = d2 \div 1461 /\ d3 = d2 % 1461
                                     /\ d2 = 1461 * b + d3 /\ 0 <= d3 /\ d3 < 1461
  BY <1>2, Division
<1>4. PICK c \in 0..4, r \in Int : /\ c = d3 \div 365 /\ r = d3 % 365
                                   /\ d3 = 365 * c + r /\ 0 <= r /\ r < 365
  BY <1>3, Division
<1>5. y = 400 * q + 100 * a + 4 * b + c + (IF a # 4 /\ c # 4 THEN 1 ELSE 0)
  BY <1>0, <1>1, <1>2, <1>3, <1>4 DEF gregorian_year_from_fixed
<1>6. y \in Int
  BY <1>5
<1>7. CASE a # 4 /\ c # 4
  <2>1. InCycle(y, q, a, b, c)
    BY <1>5, <1>6, <1>7 DEF InCycle
  <2>2. gregorian_to_fixed(y, 1, 1) = 146097 * q + 36524 * a + 1461 * b + 365 * c + 1
    BY <2>1, FirstOfYear
  <2>3. date - gregorian_to_fixed(y, 1, 1) = r
    BY <2>2, <1>0, <1>1, <1>2, <1>3, <1>4
  <2> QED BY <2>3, <1>4, <1>6
<1>8. CASE a = 4 \/ c = 4
  <2>1. PICK A \in 0..3, B \in 0..24 : /\ A = IF a = 4 THEN 3 ELSE a
                                      /\ B = IF a = 4 THEN 24 ELSE b
    OBVIOUS
  <2>2. a = 4 => b = 0 /\ d3 = 0 /\ c = 0 /\ r = 0
    BY <1>1, <1>2, <1>3, <1>4, SMTT(30)
  <2>3. /\ InCycle(y, q, A, B, 3)
        /\ B = 24 => A = 3
        /\ date = 146097 * q + 36524 * A + 1461 * B + 365 * 3 + 1 + 365
    BY <1>0, <1>1, <1>2, <1>3, <1>4, <1>5, <1>6, <1>8, <2>1, <2>2 DEF InCycle
  <2>4. /\ gregorian_to_fixed(y, 1, 1) = 146097 * q + 36524 * A + 1461 * B + 365 * 3 + 1
        /\ isLeapYear(y)
    BY <2>3, FirstOfYear, YearParts
  <2> QED BY <2>3, <2>4, <1>6
<1> QED BY <1>6, <1>7, <1>8

(* The month that the day of a year falls in, which has day p after the first. *)
MonthOf(p, leap) ==
  (12 * (p + (IF p < BeforeMonth(3, leap) THEN 0 ELSE IF leap THEN 1 ELSE 2)) + 373) \div 367

(* Days after the first of a year. *)
DayOfYear(p, leap) == p \in 0..(IF leap THEN 365 ELSE 364) /\ leap \in BOOLEAN

(* The month has the day. *)
LEMMA MonthOfDay ==
  ASSUME NEW p, NEW leap, DayOfYear(p, leap)
  PROVE  /\ MonthOf(p, leap) \in 1..12
         /\ p - BeforeMonth(MonthOf(p, leap), leap) + 1 \in 1..31
<1>1. BeforeMonth(3, leap) = IF leap THEN 60 ELSE 59
  BY DEF BeforeMonth, quotient, DayOfYear
<1> QED BY <1>1 DEF BeforeMonth, quotient, DayOfYear, MonthOf

(* Each calendar's conversions are the ones named for it. *)
LEMMA Conversions ==
  ASSUME NEW date, NEW y, NEW m, NEW d
  PROVE  /\ fixed_to_date(date, "gregorian") = fixed_to_gregorian(date)
         /\ fixed_to_date(date, "julian") = fixed_to_julian(date)
         /\ fixed_to_date(date, "islamic") = fixed_to_islamic(date)
         /\ fixed_to_date(date, "egyptian") = fixed_to_egyptian(date)
         /\ fixed_to_date(date, "coptic") = fixed_to_coptic(date)
         /\ fixed_to_date(date, "ethiopian") = fixed_to_ethiopian(date)
         /\ fixed_to_date(date, "milankovic") = cjdn_to_milankovic(date + CJDN)
         /\ fixed_to_date(date, "indian") = cjdn_to_indian(date + CJDN)
         /\ date_to_fixed(y, m, d, "gregorian") = gregorian_to_fixed(y, m, d)
         /\ date_to_fixed(y, m, d, "julian") = julian_to_fixed(y, m, d)
         /\ date_to_fixed(y, m, d, "islamic") = islamic_to_fixed(y, m, d)
         /\ date_to_fixed(y, m, d, "egyptian") = egyptian_to_fixed(y, m, d)
         /\ date_to_fixed(y, m, d, "coptic") = coptic_to_fixed(y, m, d)
         /\ date_to_fixed(y, m, d, "ethiopian") = ethiopian_to_fixed(y, m, d)
         /\ date_to_fixed(y, m, d, "milankovic") = milankovic_to_cjdn(y, m, d) - CJDN
         /\ date_to_fixed(y, m, d, "indian") = indian_to_cjdn(y, m, d) - CJDN
  BY DEF fixed_to_date, date_to_fixed

(* How many months the calendars have. *)
LEMMA NumbersOfMonths ==
  /\ \A ct \in {"gregorian", "julian", "islamic", "milankovic", "indian"} : numberOfMonths(ct) = 12
  /\ \A ct \in {"egyptian", "coptic", "ethiopian"} : numberOfMonths(ct) = 13
  BY DEF numberOfMonths

(* The Gregorian date of a day is one of the calendar and leads back to the day. *)
LEMMA GregorianDate ==
  ASSUME NEW date \in Int
  PROVE  \E y \in Int, m \in 1..12, d \in 1..31 :
           /\ fixed_to_gregorian(date) = <<y, m, d>>
           /\ gregorian_to_fixed(y, m, d) = date
<1>1. PICK y \in Int : y = gregorian_year_from_fixed(date)
  BY GregorianYear
<1>2. PICK leap \in BOOLEAN : leap = isLeapYear(y)
  BY DEF isLeapYear
<1>3. PICK p \in Int : p = date - gregorian_to_fixed(y, 1, 1) /\ DayOfYear(p, leap)
  <2>1. /\ 0 <= date - gregorian_to_fixed(y, 1, 1)
        /\ date - gregorian_to_fixed(y, 1, 1) <= IF leap THEN 365 ELSE 364
    BY <1>1, <1>2, GregorianYear
  <2>2. gregorian_to_fixed(y, 1, 1) \in Int
    BY <1>1, January
  <2> QED BY <2>1, <2>2 DEF DayOfYear
<1>4. \A m, d \in Int : gregorian_to_fixed(y, m, d) = date - p + BeforeMonth(m, leap) + d - 1
  BY <1>2, <1>3 DEF gregorian_to_fixed, BeforeMonth, quotient
<1>5. date < gregorian_to_fixed(y, 3, 1) <=> p < BeforeMonth(3, leap)
  <2>1. BeforeMonth(3, leap) \in Int
    BY SMT DEF BeforeMonth, quotient
  <2>2. gregorian_to_fixed(y, 3, 1) = date - p + BeforeMonth(3, leap) + 1 - 1
    BY <1>4, SMT
  <2> QED BY <2>1, <2>2, SMT
<1>6. PICK m \in 1..12 : m = MonthOf(p, leap) /\ p - BeforeMonth(m, leap) + 1 \in 1..31
  BY <1>3, MonthOfDay
<1>7. fixed_to_gregorian(date) = <<y, m, date - gregorian_to_fixed(y, m, 1) + 1>>
  BY <1>1, <1>2, <1>3, <1>5, <1>6, SMT DEF fixed_to_gregorian, InYear, MonthOf
<1>8. PICK d \in 1..31 : d = p - BeforeMonth(m, leap) + 1
  BY <1>6
<1>9. BeforeMonth(m, leap) \in Int
  BY DEF BeforeMonth, quotient
<1>10. date - gregorian_to_fixed(y, m, 1) + 1 = d /\ gregorian_to_fixed(y, m, d) = date
  BY <1>3, <1>4, <1>8, <1>9
<1> QED BY <1>6, <1>7, <1>8, <1>10

(* The Julian year found for a day contains the day. *)
LEMMA JulianYear ==
  ASSUME NEW date \in Int, NEW approx \in Int, NEW y \in Int,
         approx = (4 * (date - JULIAN_EPOCH) + 1464) \div 1461,
         y = IF approx <= 0 THEN approx - 1 ELSE approx
  PROVE  /\ 0 <= date - julian_to_fixed(y, 1, 1)
         /\ date - julian_to_fixed(y, 1, 1) <= IF julian_leap_year(y) THEN 365 ELSE 364
         /\ julian_to_fixed(y, 1, 1) \in Int
  BY DEF julian_to_fixed, quotient, BeforeMonth, julian_leap_year, JULIAN_EPOCH

(* The Julian date of a day leads back to it, and its year is not 0. *)
LEMMA JulianDate ==
  ASSUME NEW date \in Int
  PROVE  \E y \in Int, m \in 1..12, d \in 1..31 :
           /\ fixed_to_julian(date) = <<y, m, d>>
           /\ julian_to_fixed(y, m, d) = date /\ y # 0
<1>0. PICK approx \in Int : approx = (4 * (date - JULIAN_EPOCH) + 1464) \div 1461
  BY DEF JULIAN_EPOCH
<1>1. PICK y \in Int : y = IF approx <= 0 THEN approx - 1 ELSE approx
  OBVIOUS
<1>2. PICK leap \in BOOLEAN : leap = julian_leap_year(y)
  BY DEF julian_leap_year
<1>3. PICK p \in Int : p = date - julian_to_fixed(y, 1, 1) /\ DayOfYear(p, leap)
  <2>1. /\ 0 <= date - julian_to_fixed(y, 1, 1)
        /\ date - julian_to_fixed(y, 1, 1) <= IF leap THEN 365 ELSE 364
        /\ julian_to_fixed(y, 1, 1) \in Int
    BY <1>0, <1>1, <1>2, JulianYear
  <2> QED BY <2>1 DEF DayOfYear
<1>4. \A m, d \in Int : julian_to_fixed(y, m, d) = date - p + BeforeMonth(m, leap) + d - 1
  BY <1>2, <1>3 DEF julian_to_fixed, BeforeMonth, quotient, JULIAN_EPOCH
<1>5. date < julian_to_fixed(y, 3, 1) <=> p < BeforeMonth(3, leap)
  <2>1. BeforeMonth(3, leap) \in Int
    BY SMT DEF BeforeMonth, quotient
  <2>2. julian_to_fixed(y, 3, 1) = date - p + BeforeMonth(3, leap) + 1 - 1
    BY <1>4, SMT
  <2> QED BY <2>1, <2>2, SMT
<1>6. PICK m \in 1..12 : m = MonthOf(p, leap) /\ p - BeforeMonth(m, leap) + 1 \in 1..31
  BY <1>3, MonthOfDay, SMTT(30)
<1>7. fixed_to_julian(date) = <<y, m, date - julian_to_fixed(y, m, 1) + 1>>
  BY <1>0, <1>1, <1>2, <1>3, <1>5, <1>6, SMTT(60) DEF fixed_to_julian, InYear, MonthOf
<1>8. PICK d \in 1..31 : d = p - BeforeMonth(m, leap) + 1
  BY <1>6
<1>9. BeforeMonth(m, leap) \in Int
  BY DEF BeforeMonth, quotient
<1>10. date - julian_to_fixed(y, m, 1) + 1 = d /\ julian_to_fixed(y, m, d) = date
  BY <1>3, <1>4, <1>8, <1>9, SMT
<1>11. y # 0
  BY <1>1, SMT
<1> QED BY <1>6, <1>7, <1>8, <1>10, <1>11

(* The Islamic date of a day leads back to it. *)
LEMMA IslamicDate ==
  ASSUME NEW date \in Int
  PROVE  \E y \in Int, m \in 1..12, d \in 1..31 :
           /\ fixed_to_islamic(date) = <<y, m, d>>
           /\ islamic_to_fixed(y, m, d) = date
<1>1. PICK y \in Int : y = (30 * (date - ISLAMIC_EPOCH) + 10646) \div 10631
  BY SMT DEF ISLAMIC_EPOCH
<1>2. PICK m \in Int : m = (11 * (date - islamic_to_fixed(y, 1, 1)) + 330) \div 325
  BY SMT DEF islamic_to_fixed, quotient, ISLAMIC_EPOCH
<1>3. PICK d \in Int : d = date - islamic_to_fixed(y, m, 1) + 1
  <2>1. quotient(m, 2) \in Int
    BY SMT DEF quotient
  <2>2. islamic_to_fixed(y, m, 1) \in Int
    BY <2>1, SMT DEF islamic_to_fixed, ISLAMIC_EPOCH
  <2> QED BY <2>2
<1>4. m \in 1..12 /\ d \in 1..31
  BY <1>1, <1>2, <1>3, SMTT(30) DEF islamic_to_fixed, quotient, ISLAMIC_EPOCH
<1>5. islamic_to_fixed(y, m, d) = date
  BY <1>3, SMT DEF islamic_to_fixed, quotient, ISLAMIC_EPOCH
<1>6. fixed_to_islamic(date) = <<y, m, d>>
  BY <1>1, <1>2, <1>3 DEF fixed_to_islamic
<1> QED BY <1>4, <1>5, <1>6

(* The Egyptian date of a day leads back to it. *)
LEMMA EgyptianDate ==
  ASSUME NEW date \in Int
  PROVE  \E y \in Int, m \in 1..13, d \in 1..31 :
           /\ fixed_to_egyptian(date) = <<y, m, d>>
           /\ egyptian_to_fixed(y, m, d) = date
<1>1. PICK days \in Int : days = date - EGYPTIAN_EPOCH
  BY DEF EGYPTIAN_EPOCH
<1>2. PICK y \in Int, n \in Int : /\ y = days \div 365 /\ n = days % 365
                                 /\ days = 365 * y + n /\ 0 <= n /\ n < 365
  BY SMTT(30)
<1>3. PICK m \in 1..13, d \in 1..31 : m = n \div 30 + 1 /\ d = n - 30 * (m - 1) + 1
  <2>1. PICK k \in Int : k = n \div 30
    BY <1>2
  <2>2. 0 <= n - 30 * k /\ n - 30 * k < 30
    BY <1>2, <2>1, SMT
  <2>3. 0 <= k /\ k <= 12
    BY <1>2, <2>2, SMT
  <2>4. k + 1 \in 1..13 /\ n - 30 * k + 1 \in 1..31
    BY <1>2, <2>2, <2>3, SMT
  <2>5. PICK m \in 1..13 : m = k + 1
    BY <2>4
  <2>6. PICK d \in 1..31 : d = n - 30 * k + 1
    BY <2>4
  <2>7. m = n \div 30 + 1 /\ d = n - 30 * (m - 1) + 1
    BY <1>2, <2>1, <2>5, <2>6, SMT
  <2> QED BY <2>7
<1>4. PICK year \in Int : year = y + 1
  OBVIOUS
<1>5. egyptian_to_fixed(year, m, d) = date
  BY <1>1, <1>2, <1>3, <1>4, SMT DEF egyptian_to_fixed, EGYPTIAN_EPOCH
<1>6. fixed_to_egyptian(date) = <<days \div 365 + 1, (days % 365) \div 30 + 1,
                                  days - 365 * (days \div 365) - 30 * ((days % 365) \div 30) + 1>>
  BY <1>1 DEF fixed_to_egyptian
<1>7. /\ days \div 365 + 1 = year
      /\ (days % 365) \div 30 + 1 = m
      /\ days - 365 * (days \div 365) - 30 * ((days % 365) \div 30) + 1 = d
  BY <1>2, <1>3, <1>4, SMT
<1> QED BY <1>5, <1>6, <1>7

(* The Coptic date of a day leads back to it. *)
LEMMA CopticDate ==
  ASSUME NEW date \in Int
  PROVE  LET t == fixed_to_coptic(date)
         IN  coptic_to_fixed(t[1], t[2], t[3]) = date /\ t[2] \in 1..13 /\ t[3] \in 1..31
  BY SMTT(30) DEF fixed_to_coptic, coptic_to_fixed, COPTIC_EPOCH

(* The Ethiopian calendar is the Coptic one with another epoch. *)
LEMMA CopticReturns ==
  ASSUME NEW date \in Int
  PROVE  ReturnsTo(date, "coptic") /\ ReturnsTo(date, "ethiopian")
<1>1. ReturnsTo(date, "coptic")
  <2>1. LET t == fixed_to_coptic(date)
        IN  coptic_to_fixed(t[1], t[2], t[3]) = date /\ t[2] \in 1..13 /\ t[3] \in 1..31
    BY CopticDate
  <2> QED BY <2>1, Conversions, NumbersOfMonths, SMT DEF ReturnsTo
<1>2. PICK n \in Int : n = date - ETHIOPIAN_EPOCH + COPTIC_EPOCH
  BY DEF ETHIOPIAN_EPOCH, COPTIC_EPOCH
<1>3. LET t == fixed_to_coptic(n)
      IN  coptic_to_fixed(t[1], t[2], t[3]) = n /\ t[2] \in 1..13 /\ t[3] \in 1..31
  BY CopticDate
<1>4. LET t == fixed_to_ethiopian(date)
      IN  ethiopian_to_fixed(t[1], t[2], t[3]) = date /\ t[2] \in 1..13 /\ t[3] \in 1..31
  BY <1>2, <1>3, SMT DEF fixed_to_ethiopian, ethiopian_to_fixed, ETHIOPIAN_EPOCH, COPTIC_EPOCH
<1> QED BY <1>1, <1>4, Conversions, NumbersOfMonths, SMT DEF ReturnsTo

(* The date that has so many days of a century before it. *)
LEMMA DateInCentury ==
  ASSUME NEW c \in Int, NEW days \in Int, 0 <= days, days < 36525
  PROVE  LET t == InCentury(c, days)
             year == MarchYear(t[1], t[2])
         IN  /\ t = <<t[1], t[2], t[3]>> /\ t[1] \in Int
             /\ t[2] \in 1..12 /\ t[3] \in 1..31
             /\ year \div 100 = c
             /\ (36525 * (year % 100)) \div 100 + DaysOfMarchMonths(MarchMonth(t[2])) + t[3] = days + 1
<1>1. PICK n \in Int, k \in Int : /\ 100 * days + 99 = 36525 * n + k /\ 0 <= k /\ k < 36525
                                  /\ n = (100 * days + 99) \div 36525 /\ k = (100 * days + 99) % 36525
  BY SMT
<1>2. PICK x \in Int, r \in Int : /\ 5 * (k \div 100) + 2 = 153 * x + r /\ 0 <= r /\ r < 153
                                  /\ x = (5 * (k \div 100) + 2) \div 153
                                  /\ r = (5 * (k \div 100) + 2) % 153
  BY SMT
<1>3. n \in 0..99 /\ x \in 0..11
  BY <1>1, <1>2, SMT
<1>4. PICK c0 \in 0..1 : c0 = (x + 2) \div 12 /\ (c0 = 1 <=> x >= 10)
  BY <1>3, SMT
<1>5. InCentury(c, days) = <<100 * c + n + c0, x - 12 * c0 + 3, r \div 5 + 1>>
  BY <1>1, <1>2, <1>4, SMT DEF InCentury
<1>6. PICK y \in Int, m \in 1..12 : y = 100 * c + n + c0 /\ m = x - 12 * c0 + 3
  BY <1>3, <1>4, SMT
<1>7. r \div 5 + 1 \in 1..31
  BY <1>2, SMT
<1>8. (100 * c + n) \div 100 = c /\ (100 * c + n) % 100 = n
  BY <1>3, SMT
<1>9. (36525 * n) \div 100 + DaysOfMarchMonths(x) + r \div 5 + 1 = days + 1
  BY <1>1, <1>2, <1>3, SMT DEF DaysOfMarchMonths
<1>10. MarchMonth(m) = x /\ MarchYear(y, m) = 100 * c + n
  <2>1. (m - 3) % 12 = x /\ (m - 3) \div 12 = -c0
    BY <1>3, <1>4, <1>6, SMT
  <2> QED BY <2>1, <1>3, <1>4, <1>6, SMT DEF MarchMonth, MarchYear
<1>11. PICK d \in 1..31 : d = r \div 5 + 1
  BY <1>7
<1>12. InCentury(c, days) = <<y, m, d>>
  BY <1>5, <1>6, <1>11
<1>13. /\ MarchYear(y, m) \div 100 = c
       /\ (36525 * (MarchYear(y, m) % 100)) \div 100 + DaysOfMarchMonths(MarchMonth(m)) + d = days + 1
  <2>1. /\ MarchYear(y, m) \div 100 = c
        /\ MarchYear(y, m) % 100 = n
        /\ DaysOfMarchMonths(MarchMonth(m)) = DaysOfMarchMonths(x)
    BY <1>8, <1>10
  <2>2. DaysOfMarchMonths(x) \in Int
    BY SMT DEF DaysOfMarchMonths
  <2>3. (36525 * (MarchYear(y, m) % 100)) \div 100 = (36525 * n) \div 100
    BY <2>1
  <2> QED BY <2>1, <2>2, <2>3, <1>9, <1>11, SMT
<1> QED BY <1>12, <1>13, SMT

(* The Milankovic date of a day leads back to it. *)
LEMMA MilankovicReturns ==
  ASSUME NEW date \in Int
  PROVE  ReturnsTo(date, "milankovic")
<1>1. PICK J \in Int : J = date + CJDN
  BY DEF CJDN
<1>2. PICK c \in Int, days \in Int : /\ c = (9 * (J - 1721120) + 2) \div 328718
                                     /\ days = ((9 * (J - 1721120) + 2) % 328718) \div 9
  BY SMT
<1>3. /\ 0 <= days /\ days < 36525
      /\ (328718 * c + 6) \div 9 + days + 1721120 = J
  BY <1>2, SMTT(30)
<1>4. cjdn_to_milankovic(J) = InCentury(c, days)
  BY <1>2, SMT DEF cjdn_to_milankovic
<1>5. PICK y \in Int, m \in 1..12, d \in 1..31 :
        /\ InCentury(c, days) = <<y, m, d>>
        /\ MarchYear(y, m) \div 100 = c
        /\ (36525 * (MarchYear(y, m) % 100)) \div 100 + DaysOfMarchMonths(MarchMonth(m)) + d = days + 1
  BY <1>3, DateInCentury, SMTT(30)
<1>6. milankovic_to_cjdn(y, m, d) = J
  <2>1. milankovic_to_cjdn(y, m, d)
          = (328718 * (MarchYear(y, m) \div 100) + 6) \div 9
              + ((36525 * (MarchYear(y, m) % 100)) \div 100
                   + DaysOfMarchMonths(MarchMonth(m)) + d + 1721119)
    BY DEF milankovic_to_cjdn, DaysAfterCenturies
  <2>2. /\ (36525 * (MarchYear(y, m) % 100)) \div 100 \in Int
        /\ DaysOfMarchMonths(MarchMonth(m)) \in Int
    BY SMT DEF MarchYear, MarchMonth, DaysOfMarchMonths
  <2> QED BY <1>3, <1>5, <2>1, <2>2, SMT
<1> QED BY <1>1, <1>4, <1>5, <1>6, Conversions, NumbersOfMonths, SMT DEF ReturnsTo, CJDN

(* The formula with Julian day numbers is the one with day numbers. *)
LEMMA GregorianFormula ==
  ASSUME NEW y \in Int, NEW m \in 1..12, NEW d \in Int
  PROVE  gregorian_to_cjdn(y, m, d) = gregorian_to_fixed(y, m, d) + CJDN
  BY SMTT(60) DEF gregorian_to_cjdn, DaysAfterCenturies, MarchYear, MarchMonth, DaysOfMarchMonths,
                  gregorian_to_fixed, BeforeMonth, quotient, isLeapYear, CJDN

(* The Gregorian date of a Julian day number leads back to it. *)
LEMMA CjdnToGregorian ==
  ASSUME NEW J \in Int
  PROVE  LET t == cjdn_to_gregorian(J)
         IN  /\ t[1] \in Int /\ t[2] \in 1..12 /\ t[3] \in 1..31
             /\ gregorian_to_cjdn(t[1], t[2], t[3]) = J
<1>1. PICK c \in Int, days \in Int : /\ c = (4 * J - 6884477) \div 146097
                                     /\ days = ((4 * J - 6884477) % 146097) \div 4
  BY SMT
<1>2. /\ 0 <= days /\ days < 36525
      /\ (146097 * c) \div 4 + days + 1721120 = J
  BY <1>1, SMTT(30)
<1>3. cjdn_to_gregorian(J) = InCentury(c, days)
  BY <1>1, SMT DEF cjdn_to_gregorian
<1>4. PICK y \in Int, m \in 1..12, d \in 1..31 :
        /\ InCentury(c, days) = <<y, m, d>>
        /\ MarchYear(y, m) \div 100 = c
        /\ (36525 * (MarchYear(y, m) % 100)) \div 100 + DaysOfMarchMonths(MarchMonth(m)) + d = days + 1
  BY <1>2, DateInCentury, SMTT(30)
<1>5. gregorian_to_cjdn(y, m, d) = J
  <2>1. gregorian_to_cjdn(y, m, d)
          = (146097 * (MarchYear(y, m) \div 100)) \div 4
              + ((36525 * (MarchYear(y, m) % 100)) \div 100
                   + DaysOfMarchMonths(MarchMonth(m)) + d + 1721119)
    BY DEF gregorian_to_cjdn, DaysAfterCenturies
  <2>2. /\ (36525 * (MarchYear(y, m) % 100)) \div 100 \in Int
        /\ DaysOfMarchMonths(MarchMonth(m)) \in Int
    BY SMT DEF MarchYear, MarchMonth, DaysOfMarchMonths
  <2> QED BY <1>2, <1>4, <2>1, <2>2, SMT
<1> QED BY <1>3, <1>4, <1>5, SMT

(* The year of a day begins at most 364 days before it, 365 in a leap year. *)
LEMMA DayOfCjdnYear ==
  ASSUME NEW J \in Int
  PROVE  LET y == cjdn_to_gregorian(J)[1]
         IN  /\ y \in Int
             /\ gregorian_to_cjdn(y, 1, 1) \in Int
             /\ gregorian_to_cjdn(y, 1, 1) <= J
             /\ J <= gregorian_to_cjdn(y, 1, 1) + IF isLeapYear(y) THEN 365 ELSE 364
<1>1. PICK y \in Int, m \in 1..12, d \in 1..31 : /\ y = cjdn_to_gregorian(J)[1]
                                                /\ gregorian_to_cjdn(y, m, d) = J
  <2>1. LET t == cjdn_to_gregorian(J)
        IN  /\ t[1] \in Int /\ t[2] \in 1..12 /\ t[3] \in 1..31
            /\ gregorian_to_cjdn(t[1], t[2], t[3]) = J
    BY CjdnToGregorian
  <2> QED BY <2>1
<1>2. PICK leap \in BOOLEAN : leap = isLeapYear(y)
  BY DEF isLeapYear
<1>3. gregorian_to_cjdn(y, m, d) = gregorian_to_cjdn(y, 1, 1) + BeforeMonth(m, leap) + d - 1
  <2>1. gregorian_to_cjdn(y, m, d) = gregorian_to_fixed(y, m, d) + CJDN
    BY GregorianFormula, SMT
  <2>2. gregorian_to_cjdn(y, 1, 1) = gregorian_to_fixed(y, 1, 1) + CJDN
    BY GregorianFormula, SMT
  <2> QED BY <1>2, <2>1, <2>2, SMT DEF gregorian_to_fixed, BeforeMonth, quotient, CJDN
<1>4. BeforeMonth(m, leap) + d - 1 \in 0..(IF leap THEN 365 ELSE 364)
  BY SMT DEF BeforeMonth, quotient
<1>5. gregorian_to_cjdn(y, 1, 1) \in Int
  BY SMT DEF gregorian_to_cjdn, DaysAfterCenturies, MarchYear, MarchMonth, DaysOfMarchMonths
<1> QED BY <1>1, <1>2, <1>3, <1>4, <1>5, SMT DEF BeforeMonth, quotient

(* The first day of an Indian year, and of the Gregorian year after. *)
LEMMA IndianNewYear ==
  ASSUME NEW y \in Int
  PROVE  /\ gregorian_to_cjdn(y, 3, IF isLeapYear(y) THEN 21 ELSE 22) = gregorian_to_cjdn(y, 1, 1) + 80
         /\ gregorian_to_cjdn(y + 1, 1, 1)
              = gregorian_to_cjdn(y, 1, 1) + IF isLeapYear(y) THEN 366 ELSE 365
         /\ gregorian_to_cjdn(y, 1, 1) \in Int
<1>1. PICK next \in Int, d \in Int : next = y + 1 /\ d = IF isLeapYear(y) THEN 21 ELSE 22
  BY SMT
<1>2. /\ gregorian_to_cjdn(y, 3, d) = gregorian_to_fixed(y, 3, d) + CJDN
      /\ gregorian_to_cjdn(y, 1, 1) = gregorian_to_fixed(y, 1, 1) + CJDN
      /\ gregorian_to_cjdn(next, 1, 1) = gregorian_to_fixed(next, 1, 1) + CJDN
  BY GregorianFormula, SMT
<1>3. /\ gregorian_to_fixed(y, 3, d) = gregorian_to_fixed(y, 1, 1) + 80
      /\ gregorian_to_fixed(y, 1, 1) \in Int
  BY <1>1, SMT DEF gregorian_to_fixed, BeforeMonth, quotient
<1>4. gregorian_to_fixed(next, 1, 1) = gregorian_to_fixed(y, 1, 1) + IF isLeapYear(y) THEN 366 ELSE 365
  <2>1. /\ gregorian_to_fixed(next, 1, 1) = 365 * y + y \div 4 - y \div 100 + y \div 400 + 1
        /\ gregorian_to_fixed(y, 1, 1)
             = 365 * (y - 1) + (y - 1) \div 4 - (y - 1) \div 100 + (y - 1) \div 400 + 1
    BY <1>1, January, SMT
  <2>2. /\ y \div 4 = (y - 1) \div 4 + (IF y % 4 = 0 THEN 1 ELSE 0)
        /\ y \div 100 = (y - 1) \div 100 + (IF y % 100 = 0 THEN 1 ELSE 0)
        /\ y \div 400 = (y - 1) \div 400 + (IF y % 400 = 0 THEN 1 ELSE 0)
    BY SMT
  <2>3. /\ y % 400 = 0 => y % 100 = 0
        /\ y % 100 = 0 => y % 4 = 0
    BY SMT
  <2> QED BY <2>1, <2>2, <2>3, SMT DEF isLeapYear
<1> QED BY <1>1, <1>2, <1>3, <1>4, SMT DEF CJDN

(* The Indian date of a day leads back to it.  The code takes the length of the
   first month from the Gregorian year of the day, which for the days before
   the Indian new year is the wrong one, but no such day is in the first month,
   and from the second month on that length cancels out. *)
LEMMA IndianReturns ==
  ASSUME NEW date \in Int
  PROVE  ReturnsTo(date, "indian")
<1>1. PICK J \in Int : J = date + CJDN
  BY DEF CJDN
<1>2. PICK year \in Int, jan1 \in Int :
        /\ year = cjdn_to_gregorian(J)[1]
        /\ jan1 = gregorian_to_cjdn(year, 1, 1)
        /\ jan1 <= J /\ J <= jan1 + IF isLeapYear(year) THEN 365 ELSE 364
  BY DayOfCjdnYear
<1>3. PICK since \in Int : since = J - jan1 - 80
  OBVIOUS
<1>4. PICK y \in Int, g \in Int : y = (IF since < 0 THEN year - 79 ELSE year - 78) /\ g = y + 78
  OBVIOUS
<1>5. PICK first \in {30, 31} : first = FirstIndianMonth(isLeapYear(g))
  BY DEF FirstIndianMonth
<1>6. PICK newYear \in Int :
        /\ newYear = gregorian_to_cjdn(g, 3, IF isLeapYear(g) THEN 21 ELSE 22)
        /\ newYear = gregorian_to_cjdn(g, 1, 1) + 80
        /\ gregorian_to_cjdn(g + 1, 1, 1) = newYear + 255 + first
  <2>1. /\ gregorian_to_cjdn(g, 3, IF isLeapYear(g) THEN 21 ELSE 22) = gregorian_to_cjdn(g, 1, 1) + 80
        /\ gregorian_to_cjdn(g + 1, 1, 1)
             = gregorian_to_cjdn(g, 1, 1) + IF isLeapYear(g) THEN 366 ELSE 365
        /\ gregorian_to_cjdn(g, 1, 1) \in Int
    BY IndianNewYear
  <2> QED BY <2>1, <1>5, SMT DEF FirstIndianMonth
<1>7. CASE since >= 0
  <2>1. y = year - 78 /\ g = year /\ J = newYear + since /\ since < 335 + first
    BY <1>2, <1>3, <1>4, <1>5, <1>6, <1>7, SMT DEF FirstIndianMonth
  <2>2. cjdn_to_indian(J) =
          IF since < first THEN <<y, 1, since + 1>>
          ELSE IF since - first < 155
          THEN <<y, (since - first) \div 31 + 2, ((since - first) % 31) + 1>>
          ELSE <<y, (since - first - 155) \div 30 + 7, ((since - first - 155) % 30) + 1>>
    BY <1>2, <1>3, <1>5, <1>7, <2>1, SMT DEF cjdn_to_indian
  <2>3. CASE since < first
    <3>1. PICK d \in 1..31 : d = since + 1
      BY <1>7, <2>3, SMT
    <3>2. 1 \in 1..12
      BY SMT
    <3>3. cjdn_to_indian(J) = <<y, 1, d>> /\ indian_to_cjdn(y, 1, d) = J
      BY <1>4, <1>5, <1>6, <2>1, <2>2, <2>3, <3>1, SMT DEF indian_to_cjdn
    <3> QED BY <1>1, <3>3, Conversions, NumbersOfMonths, SMT DEF ReturnsTo, CJDN
  <2>4. CASE since >= first /\ since - first < 155
    <3>1. PICK m \in 2..6, d \in 1..31 : /\ m = (since - first) \div 31 + 2
                                         /\ d = ((since - first) % 31) + 1
                                         /\ since - first = 31 * (m - 2) + d - 1
      BY <1>7, <2>4, SMT
    <3>2. m \in 1..12
      BY SMT
    <3>3. cjdn_to_indian(J) = <<y, m, d>>
      BY <2>2, <2>4, <3>1, SMT
    <3>4. indian_to_cjdn(y, m, d) = J
      <4>1. indian_to_cjdn(y, m, d)
              = newYear + (IF m = 1 THEN 0
                           ELSE first + 31 * (IF m - 2 > 5 THEN 5 ELSE m - 2)
                                  + (IF m >= 8 THEN 30 * (m - 7) ELSE 0)) + d - 1
        BY <1>4, <1>5, <1>6, SMT DEF indian_to_cjdn
      <4> QED BY <4>1, <2>1, <3>1, SMT
    <3> QED BY <1>1, <3>2, <3>3, <3>4, Conversions, NumbersOfMonths, SMT DEF ReturnsTo, CJDN
  <2>5. CASE since - first >= 155
    <3>1. PICK m \in 7..12, d \in 1..31 : /\ m = (since - first - 155) \div 30 + 7
                                          /\ d = ((since - first - 155) % 30) + 1
                                          /\ since - first = 155 + 30 * (m - 7) + d - 1
      BY <2>1, <2>5, SMT
    <3>2. m \in 1..12
      BY SMT
    <3>3. cjdn_to_indian(J) = <<y, m, d>>
      BY <2>2, <2>5, <3>1, SMT
    <3>4. indian_to_cjdn(y, m, d) = J
      <4>1. indian_to_cjdn(y, m, d)
              = newYear + (IF m = 1 THEN 0
                           ELSE first + 31 * (IF m - 2 > 5 THEN 5 ELSE m - 2)
                                  + (IF m >= 8 THEN 30 * (m - 7) ELSE 0)) + d - 1
        BY <1>4, <1>5, <1>6, SMT DEF indian_to_cjdn
      <4> QED BY <4>1, <2>1, <3>1, SMT
    <3> QED BY <1>1, <3>2, <3>3, <3>4, Conversions, NumbersOfMonths, SMT DEF ReturnsTo, CJDN
  <2> QED BY <2>3, <2>4, <2>5, SMT
<1>8. CASE since < 0
  <2>1. y = year - 79 /\ g + 1 = year /\ J = newYear + since + 335 + first /\ since >= -80
    BY <1>2, <1>3, <1>4, <1>5, <1>6, <1>8, SMTT(30)
  <2>2. cjdn_to_indian(J) = <<y, (since + 180) \div 30 + 7, ((since + 180) % 30) + 1>>
    BY <1>2, <1>3, <1>8, <2>1, SMT DEF cjdn_to_indian, FirstIndianMonth
  <2>3. PICK m \in 7..12, d \in 1..31 : /\ m = (since + 180) \div 30 + 7
                                        /\ d = ((since + 180) % 30) + 1
                                        /\ since + 180 = 30 * (m - 7) + d - 1
    BY <1>8, <2>1, SMT
  <2>4. m \in 1..12
    BY SMT
  <2>5. cjdn_to_indian(J) = <<y, m, d>>
    BY <2>2, <2>3
  <2>6. indian_to_cjdn(y, m, d) = J
    <3>1. indian_to_cjdn(y, m, d)
            = newYear + (IF m = 1 THEN 0
                         ELSE first + 31 * (IF m - 2 > 5 THEN 5 ELSE m - 2)
                                + (IF m >= 8 THEN 30 * (m - 7) ELSE 0)) + d - 1
      BY <1>4, <1>5, <1>6, SMT DEF indian_to_cjdn
    <3> QED BY <3>1, <2>1, <2>3, SMT
  <2> QED BY <1>1, <2>4, <2>5, <2>6, Conversions, NumbersOfMonths, SMT DEF ReturnsTo, CJDN
<1> QED BY <1>7, <1>8, SMT

(* The other formula for the Julian calendar, which counts a year 0. *)
LEMMA JulianFormula ==
  ASSUME NEW y \in Int, y # 0, NEW m \in 1..12, NEW d \in Int
  PROVE  julian_to_cjdn(IF y < 0 THEN y + 1 ELSE y, m, d) = julian_to_fixed(y, m, d) + CJDN
<1>1. PICK Y \in Int : Y = IF y < 0 THEN y + 1 ELSE y
  OBVIOUS
<1>2. PICK leap \in BOOLEAN : leap = julian_leap_year(y)
  BY DEF julian_leap_year
<1>3. leap <=> Y % 4 = 0
  BY <1>1, <1>2, SMT DEF julian_leap_year
<1>4. julian_to_fixed(y, m, d) = 365 * (Y - 1) + (Y - 1) \div 4 + BeforeMonth(m, leap) + d - 2
  BY <1>1, <1>2, SMT DEF julian_to_fixed, JULIAN_EPOCH, BeforeMonth, quotient
<1>5. BeforeMonth(m, leap)
        = DaysOfMarchMonths(MarchMonth(m)) - (IF m <= 2 THEN 306 ELSE IF leap THEN -60 ELSE -59)
  BY SMT DEF BeforeMonth, DaysOfMarchMonths, MarchMonth, quotient
<1>6. MarchYear(Y, m) = IF m <= 2 THEN Y - 1 ELSE Y
  BY SMT DEF MarchYear
<1>7. DaysOfMarchMonths(MarchMonth(m)) \in Int
  BY SMT DEF DaysOfMarchMonths, MarchMonth
<1>8. julian_to_cjdn(Y, m, d)
        = 1721117 + 365 * MarchYear(Y, m) + MarchYear(Y, m) \div 4
            + DaysOfMarchMonths(MarchMonth(m)) + d
  BY <1>6, SMT DEF julian_to_cjdn
<1> QED BY <1>1, <1>3, <1>4, <1>5, <1>6, <1>7, <1>8, SMT DEF CJDN

(* The same of the Islamic calendar. *)
LEMMA IslamicFormula ==
  ASSUME NEW y \in Int, NEW m \in 1..12, NEW d \in Int
  PROVE  islamic_to_cjdn(y, m, d) = islamic_to_fixed(y, m, d) + CJDN
  BY SMTT(30) DEF islamic_to_cjdn, islamic_to_fixed, quotient, ISLAMIC_EPOCH, CJDN

(* The same of the Egyptian calendar. *)
LEMMA EgyptianFormula ==
  ASSUME NEW y \in Int, NEW m \in Int, NEW d \in Int
  PROVE  egyptian_to_cjdn(y, m, d) = egyptian_to_fixed(y, m, d) + CJDN
  BY SMT DEF egyptian_to_cjdn, egyptian_to_fixed, EGYPTIAN_EPOCH, CJDN

(* The dates of the calendars above lead back to their days. *)
LEMMA HebrewConversions ==
  /\ \A date : fixed_to_date(date, "hebrew") = fixed_to_hebrew(date)
  /\ \A y, m, d : date_to_fixed(y, m, d, "hebrew") = hebrew_to_fixed(y, m, d)
  /\ numberOfMonths("hebrew") = 13
  BY DEF fixed_to_date, date_to_fixed, numberOfMonths

(* The Gregorian, Julian, Islamic and Egyptian dates of a day lead back to it. *)
LEMMA FourReturn ==
  ASSUME NEW date \in Int
  PROVE  \A ct \in {"gregorian", "julian", "islamic", "egyptian"} : ReturnsTo(date, ct)
<1>1. ReturnsTo(date, "gregorian")
  <2>1. PICK y \in Int, m \in 1..12, d \in 1..31 :
          fixed_to_gregorian(date) = <<y, m, d>> /\ gregorian_to_fixed(y, m, d) = date
    BY GregorianDate
  <2> QED BY <2>1, Conversions, NumbersOfMonths DEF ReturnsTo
<1>2. ReturnsTo(date, "julian")
  <2>1. PICK y \in Int, m \in 1..12, d \in 1..31 :
          fixed_to_julian(date) = <<y, m, d>> /\ julian_to_fixed(y, m, d) = date /\ y # 0
    BY JulianDate
  <2> QED BY <2>1, Conversions, NumbersOfMonths DEF ReturnsTo
<1>3. ReturnsTo(date, "islamic")
  <2>1. PICK y \in Int, m \in 1..12, d \in 1..31 :
          fixed_to_islamic(date) = <<y, m, d>> /\ islamic_to_fixed(y, m, d) = date
    BY IslamicDate
  <2> QED BY <2>1, Conversions, NumbersOfMonths DEF ReturnsTo
<1>4. ReturnsTo(date, "egyptian")
  <2>1. PICK y \in Int, m \in 1..13, d \in 1..31 :
          fixed_to_egyptian(date) = <<y, m, d>> /\ egyptian_to_fixed(y, m, d) = date
    BY EgyptianDate
  <2> QED BY <2>1, Conversions, NumbersOfMonths DEF ReturnsTo
<1> QED BY <1>1, <1>2, <1>3, <1>4

-----------------------------------------------------------------------------
(* The Hebrew calendar, whose years and months are searched for. *)

(* The mean months before a Hebrew year and the mean days of so many months,
   in whole days, before the rules about weekdays. *)
HebrewMonths(y) == (235 * y - 234) \div 19
HebrewParts(y) == 765433 * HebrewMonths(y) + 12084
MeanDays(y) == HebrewParts(y) \div 25920

Moved(days) == IF (3 * (days + 1)) % 7 < 3 THEN days + 1 ELSE days

(* The days elapsed before a year are those of its mean months, but for the day by
   which a new year is put off. *)
LEMMA ElapsedIsMeanMoved ==
  ASSUME NEW y \in Int
  PROVE  /\ HebrewMonths(y) \in Int /\ HebrewParts(y) \in Int /\ MeanDays(y) \in Int
         /\ hebrew_calendar_elapsed_days(y) = Moved(MeanDays(y))
<1>1. PICK months \in Int : months = (235 * y - 234) \div 19
  OBVIOUS
<1>2. (765433 * months + 12084) \div 25920 = 29 * months + (13753 * months + 12084) \div 25920
  <2>1. PICK p \in Int : p = 13753 * months + 12084
    OBVIOUS
  <2>2. 765433 * months + 12084 = p + 25920 * (29 * months)
    BY <2>1
  <2>3. PICK k \in Int : k = 29 * months
    OBVIOUS
  <2>4. (p + 25920 * k) \div 25920 = k + p \div 25920
    OBVIOUS
  <2> QED BY <2>1, <2>2, <2>3, <2>4
<1>3. MeanDays(y) = 29 * months + (13753 * months + 12084) \div 25920
  BY <1>1, <1>2 DEF MeanDays, HebrewParts, HebrewMonths
<1> QED
  BY <1>1, <1>3 DEF Moved, hebrew_calendar_elapsed_days, HebrewMonths, HebrewParts, MeanDays

(* From one year to the next 12 or 13 months, never 13 twice. *)
LEMMA MonthsOfHebrewYear ==
  ASSUME NEW y \in Int
  PROVE  /\ HebrewMonths(y) \in Int
         /\ HebrewMonths(y + 1) = HebrewMonths(y) + last_month_of_hebrew_year(y)
         /\ last_month_of_hebrew_year(y) \in {12, 13}
         /\ last_month_of_hebrew_year(y) = 13 => last_month_of_hebrew_year(y + 1) = 12
<1>1. PICK q \in Int, r \in 0..18 : y = 19 * q + r
  <2>1. y = 19 * (y \div 19) + (y % 19) /\ y \div 19 \in Int /\ y % 19 \in 0..18
    OBVIOUS
  <2> QED BY <2>1
<1>2. /\ HebrewMonths(y) = 235 * q + (235 * r - 234) \div 19
      /\ HebrewMonths(y + 1) = 235 * q + (235 * r + 1) \div 19
  BY <1>1 DEF HebrewMonths
<1>3. /\ (7 * y + 1) % 19 = (7 * r + 1) % 19
      /\ (7 * (y + 1) + 1) % 19 = (7 * r + 8) % 19
  BY <1>1
<1>4. (235 * r + 1) \div 19 - (235 * r - 234) \div 19 = IF (7 * r + 1) % 19 < 7 THEN 13 ELSE 12
  BY <1>1
<1>5. (7 * r + 1) % 19 < 7 => ~((7 * r + 8) % 19 < 7)
  BY <1>1
<1> QED
  BY <1>1, <1>2, <1>3, <1>4, <1>5 DEF last_month_of_hebrew_year, hebrew_leap_year

(* The mean days of years one after the other. *)
LEMMA MeanDaysOfHebrewYear ==
  ASSUME NEW y \in Int
  PROVE  /\ MeanDays(y) \in Int /\ MeanDays(y + 1) \in Int
         /\ last_month_of_hebrew_year(y) = 12 => MeanDays(y + 1) - MeanDays(y) \in {354, 355}
         /\ last_month_of_hebrew_year(y) = 13 => MeanDays(y + 1) - MeanDays(y) \in {383, 384}
         /\ ~ (/\ MeanDays(y + 1) - MeanDays(y) = 355
               /\ MeanDays(y + 2) - MeanDays(y + 1) = 355)
<1>1. /\ y + 1 \in Int /\ (y + 1) + 1 = y + 2
      /\ HebrewMonths(y) \in Int /\ HebrewMonths(y + 1) \in Int /\ HebrewMonths(y + 2) \in Int
      /\ HebrewMonths(y + 1) = HebrewMonths(y) + last_month_of_hebrew_year(y)
      /\ HebrewMonths(y + 2) = HebrewMonths(y + 1) + last_month_of_hebrew_year(y + 1)
      /\ last_month_of_hebrew_year(y) \in {12, 13}
      /\ last_month_of_hebrew_year(y + 1) \in {12, 13}
  <2>1. PICK z \in Int : z = y + 1 /\ z + 1 = y + 2
    OBVIOUS
  <2>2. /\ HebrewMonths(z) \in Int /\ HebrewMonths(z + 1) = HebrewMonths(z) + last_month_of_hebrew_year(z)
        /\ last_month_of_hebrew_year(z) \in {12, 13}
    BY MonthsOfHebrewYear
  <2>3. HebrewMonths(z) + last_month_of_hebrew_year(z) \in Int
    BY <2>2
  <2> QED BY <2>1, <2>2, <2>3, MonthsOfHebrewYear
<1>2. PICK m \in Int, k \in {12, 13}, l \in {12, 13} :
        /\ m = HebrewMonths(y) /\ k = last_month_of_hebrew_year(y) /\ l = last_month_of_hebrew_year(y + 1)
        /\ HebrewMonths(y + 1) = m + k /\ HebrewMonths(y + 2) = m + k + l
  BY <1>1
<1>3. PICK d \in Int, r \in Int : 765433 * m + 12084 = 25920 * d + r /\ 0 <= r /\ r < 25920
  <2>1. PICK p \in Int : p = 765433 * m + 12084
    OBVIOUS
  <2>2. p = 25920 * (p \div 25920) + (p % 25920) /\ p \div 25920 \in Int /\ p % 25920 \in Int
        /\ 0 <= p % 25920 /\ p % 25920 < 25920
    OBVIOUS
  <2> QED BY <2>1, <2>2
<1>4. /\ MeanDays(y) = d
      /\ k = 12 => MeanDays(y + 1) = d + (9185196 + r) \div 25920
      /\ k = 13 => MeanDays(y + 1) = d + (9950629 + r) \div 25920
      /\ k = 12 /\ l = 12 => MeanDays(y + 2) = d + (18370392 + r) \div 25920
      /\ k = 12 /\ l = 13 => MeanDays(y + 2) = d + (19135825 + r) \div 25920
  BY <1>2, <1>3 DEF MeanDays, HebrewParts
<1> QED
  BY <1>2, <1>3, <1>4

(* Years before the corrections are 353 to 356 or 382 to 385 days, and one of 382 is
   not followed by one of 356. *)
ElapsedYears(y, e0, e1, e2) ==
  /\ e0 = hebrew_calendar_elapsed_days(y - 1) /\ e1 = hebrew_calendar_elapsed_days(y)
  /\ e2 = hebrew_calendar_elapsed_days(y + 1)
  /\ e1 - e0 \in 353..356 \cup 382..385 /\ e2 - e1 \in 353..356 \cup 382..385
  /\ ~(e1 - e0 = 382 /\ e2 - e1 = 356)

(* The days elapsed before three years that follow each other. *)
LEMMA ElapsedBetween ==
  ASSUME NEW y \in Int
  PROVE  \E e0, e1, e2 \in Int : ElapsedYears(y, e0, e1, e2)
<1>1. PICK x \in Int, z \in Int : x = y - 1 /\ z = y + 1 /\ x + 1 = y /\ y + 1 = z
  OBVIOUS
<1>2. PICK d0 \in Int, d1 \in Int, d2 \in Int : d0 = MeanDays(x) /\ d1 = MeanDays(y) /\ d2 = MeanDays(z)
  <2>1. MeanDays(x) \in Int /\ MeanDays(y) \in Int /\ MeanDays(z) \in Int
    BY <1>1, MeanDaysOfHebrewYear
  <2> QED BY <2>1
<1>3. d1 - d0 \in {354, 355, 383, 384} /\ d2 - d1 \in {354, 355, 383, 384}
  <2>1. /\ last_month_of_hebrew_year(x) \in {12, 13} /\ last_month_of_hebrew_year(y) \in {12, 13}
    BY <1>1, MonthsOfHebrewYear
  <2>2. /\ last_month_of_hebrew_year(x) = 12 => MeanDays(x + 1) - MeanDays(x) \in {354, 355}
        /\ last_month_of_hebrew_year(x) = 13 => MeanDays(x + 1) - MeanDays(x) \in {383, 384}
        /\ last_month_of_hebrew_year(y) = 12 => MeanDays(y + 1) - MeanDays(y) \in {354, 355}
        /\ last_month_of_hebrew_year(y) = 13 => MeanDays(y + 1) - MeanDays(y) \in {383, 384}
    BY <1>1, MeanDaysOfHebrewYear
  <2> QED BY <1>1, <1>2, <2>1, <2>2
<1>4. /\ hebrew_calendar_elapsed_days(x) = Moved(d0)
      /\ hebrew_calendar_elapsed_days(y) = Moved(d1)
      /\ hebrew_calendar_elapsed_days(z) = Moved(d2)
  BY <1>1, <1>2, ElapsedIsMeanMoved
<1>5. PICK e0 \in Int, e1 \in Int, e2 \in Int : e0 = Moved(d0) /\ e1 = Moved(d1) /\ e2 = Moved(d2)
  BY DEF Moved
<1>6. /\ e1 - e0 \in 353..356 \cup 382..385 /\ e2 - e1 \in 353..356 \cup 382..385
      /\ ~(e1 - e0 = 382 /\ e2 - e1 = 356)
  BY <1>3, <1>5 DEF Moved
<1> QED BY <1>1, <1>4, <1>5, <1>6 DEF ElapsedYears

(* A year is of 353 to 355 days or of 383 to 385, whatever was corrected. *)
LEMMA NewYears ==
  ASSUME NEW y \in Int
  PROVE  /\ hebrew_new_year(y) \in Int /\ hebrew_new_year(y + 1) \in Int
         /\ days_in_hebrew_year(y) = hebrew_new_year(y + 1) - hebrew_new_year(y)
         /\ last_month_of_hebrew_year(y) = 12 => days_in_hebrew_year(y) \in {353, 354, 355}
         /\ last_month_of_hebrew_year(y) = 13 => days_in_hebrew_year(y) \in {383, 384, 385}
         /\ last_month_of_hebrew_year(y) \in {12, 13}
<1> DEFINE x == y - 1
           z == y + 1
<1>1. /\ x \in Int /\ z \in Int /\ x + 1 = y /\ y + 1 = z /\ z + 1 = y + 2 /\ x + 2 = z
      /\ z - 1 = y
  OBVIOUS
<1> HIDE DEF x, z
<1>2. PICK d0 \in Int, d1 \in Int, d2 \in Int, d3 \in Int :
        d0 = MeanDays(x) /\ d1 = MeanDays(y) /\ d2 = MeanDays(z) /\ d3 = MeanDays(z + 1)
  <2>1. MeanDays(x) \in Int /\ MeanDays(y) \in Int /\ MeanDays(z) \in Int /\ MeanDays(z + 1) \in Int
    BY <1>1, MeanDaysOfHebrewYear
  <2> QED BY <2>1
<1>3. /\ hebrew_calendar_elapsed_days(x) = Moved(d0)
      /\ hebrew_calendar_elapsed_days(y) = Moved(d1)
      /\ hebrew_calendar_elapsed_days(z) = Moved(d2)
      /\ hebrew_calendar_elapsed_days(z + 1) = Moved(d3)
  BY <1>1, <1>2, ElapsedIsMeanMoved
<1>4. PICK l0 \in {12, 13}, l1 \in {12, 13}, l2 \in {12, 13} :
        /\ l0 = last_month_of_hebrew_year(x) /\ l1 = last_month_of_hebrew_year(y)
        /\ l2 = last_month_of_hebrew_year(z)
        /\ l0 = 13 => l1 = 12
        /\ l1 = 13 => l2 = 12
  BY <1>1, MonthsOfHebrewYear
<1>5. /\ l0 = 12 => d1 - d0 \in {354, 355}
      /\ l0 = 13 => d1 - d0 \in {383, 384}
      /\ l1 = 12 => d2 - d1 \in {354, 355}
      /\ l1 = 13 => d2 - d1 \in {383, 384}
      /\ l2 = 12 => d3 - d2 \in {354, 355}
      /\ l2 = 13 => d3 - d2 \in {383, 384}
      /\ ~(d1 - d0 = 355 /\ d2 - d1 = 355)
      /\ ~(d2 - d1 = 355 /\ d3 - d2 = 355)
  <2>1. /\ l0 = 12 => d1 - d0 \in {354, 355}
        /\ l0 = 13 => d1 - d0 \in {383, 384}
        /\ ~(d1 - d0 = 355 /\ d2 - d1 = 355)
    <3>1. /\ last_month_of_hebrew_year(x) = 12 => MeanDays(x + 1) - MeanDays(x) \in {354, 355}
          /\ last_month_of_hebrew_year(x) = 13 => MeanDays(x + 1) - MeanDays(x) \in {383, 384}
          /\ ~ (/\ MeanDays(x + 1) - MeanDays(x) = 355
                /\ MeanDays(x + 2) - MeanDays(x + 1) = 355)
      BY <1>1, MeanDaysOfHebrewYear
    <3>2. MeanDays(x) = d0 /\ MeanDays(x + 1) = d1 /\ MeanDays(x + 2) = d2
      BY <1>1, <1>2
    <3> QED BY <1>4, <3>1, <3>2
  <2>2. /\ l1 = 12 => d2 - d1 \in {354, 355}
        /\ l1 = 13 => d2 - d1 \in {383, 384}
        /\ ~(d2 - d1 = 355 /\ d3 - d2 = 355)
    BY <1>1, <1>2, <1>4, MeanDaysOfHebrewYear
  <2>3. /\ l2 = 12 => d3 - d2 \in {354, 355}
        /\ l2 = 13 => d3 - d2 \in {383, 384}
    BY <1>1, <1>2, <1>4, MeanDaysOfHebrewYear
  <2> QED BY <2>1, <2>2, <2>3
<1>6. PICK e0 \in Int, e1 \in Int, e2 \in Int, e3 \in Int :
        e0 = Moved(d0) /\ e1 = Moved(d1) /\ e2 = Moved(d2) /\ e3 = Moved(d3)
  BY DEF Moved
<1>7. PICK c1 \in Int, c2 \in Int :
        /\ c1 = IF e2 - e1 = 356 THEN 2 ELSE IF e1 - e0 = 382 THEN 1 ELSE 0
        /\ c2 = IF e3 - e2 = 356 THEN 2 ELSE IF e2 - e1 = 382 THEN 1 ELSE 0
  OBVIOUS
<1>8. /\ hebrew_new_year(y) = HEBREW_EPOCH + e1 + c1
      /\ hebrew_new_year(z) = HEBREW_EPOCH + e2 + c2
  BY <1>1, <1>3, <1>6, <1>7 DEF hebrew_new_year, hebrew_year_length_correction
<1>9. /\ l1 = 12 => e2 + c2 - e1 - c1 \in {353, 354, 355}
      /\ l1 = 13 => e2 + c2 - e1 - c1 \in {383, 384, 385}
  BY <1>4, <1>5, <1>6, <1>7 DEF Moved
<1> QED
  BY <1>1, <1>4, <1>8, <1>9 DEF days_in_hebrew_year, HEBREW_EPOCH

(* The loops over months: a sum with one month more adds its length. *)
LEMMA DaysOfMonthsSum ==
  ASSUME NEW y \in Int, NEW first \in 1..13
  PROVE  /\ DaysOfMonths(y, first, 0) = 0
         /\ \A m \in 1..13 : DaysOfMonths(y, first, m)
              = IF m < first THEN 0
                ELSE DaysOfMonths(y, first, m - 1) + last_day_of_hebrew_month(y, m)
<1>1. \A m \in 1..13 : last_day_of_hebrew_month(y, m) \in Int
  BY DEF last_day_of_hebrew_month
<1> DEFINE Add(m, days) == IF m < first THEN 0 ELSE days + last_day_of_hebrew_month(y, m)
<1>2. \A m \in 1..13, days \in Int : Add(m, days) \in Int
  BY <1>1
<1> HIDE DEF Add
<1>a1. PICK v1 \in Int : v1 = Add(1, 0)
  BY <1>2
<1>a2. PICK v2 \in Int : v2 = Add(2, v1)
  BY <1>2
<1>a3. PICK v3 \in Int : v3 = Add(3, v2)
  BY <1>2
<1>a4. PICK v4 \in Int : v4 = Add(4, v3)
  BY <1>2
<1>a5. PICK v5 \in Int : v5 = Add(5, v4)
  BY <1>2
<1>a6. PICK v6 \in Int : v6 = Add(6, v5)
  BY <1>2
<1>a7. PICK v7 \in Int : v7 = Add(7, v6)
  BY <1>2
<1>a8. PICK v8 \in Int : v8 = Add(8, v7)
  BY <1>2
<1>a9. PICK v9 \in Int : v9 = Add(9, v8)
  BY <1>2
<1>a10. PICK v10 \in Int : v10 = Add(10, v9)
  BY <1>2
<1>a11. PICK v11 \in Int : v11 = Add(11, v10)
  BY <1>2
<1>a12. PICK v12 \in Int : v12 = Add(12, v11)
  BY <1>2
<1>a13. PICK v13 \in Int : v13 = Add(13, v12)
  BY <1>2
<1> DEFINE g == [m \in 0..13 |->
            CASE m = 0 -> 0
              [] m = 1 -> v1
              [] m = 2 -> v2
              [] m = 3 -> v3
              [] m = 4 -> v4
              [] m = 5 -> v5
              [] m = 6 -> v6
              [] m = 7 -> v7
              [] m = 8 -> v8
              [] m = 9 -> v9
              [] m = 10 -> v10
              [] m = 11 -> v11
              [] m = 12 -> v12
              [] m = 13 -> v13]
<1>5. g[0] = 0 /\ \A m \in 1..13 : g[m] = Add(m, g[m - 1])
  <2>1. \A m \in 1..13 : m \in {1, 2, 3, 4, 5, 6, 7, 8, 9, 10, 11, 12, 13}
    OBVIOUS
  <2>2. g[0] = 0 /\ g[1] = v1 /\ g[2] = v2 /\ g[3] = v3 /\ g[4] = v4 /\ g[5] = v5 /\ g[6] = v6 /\ g[7] = v7 /\ g[8] = v8 /\ g[9] = v9 /\ g[10] = v10 /\ g[11] = v11 /\ g[12] = v12 /\ g[13] = v13
    OBVIOUS
  <2> QED BY <1>a1, <1>a2, <1>a3, <1>a4, <1>a5, <1>a6, <1>a7, <1>a8, <1>a9, <1>a10, <1>a11, <1>a12, <1>a13, <2>1, <2>2, SMTT(60)
<1> HIDE DEF g
<1>6. g = [m \in 0..13 |-> IF m < first THEN 0 ELSE g[m - 1] + last_day_of_hebrew_month(y, m)]
  <2>1. g \in [0..13 -> Int] /\ DOMAIN g = 0..13 /\ g = [m \in 0..13 |-> g[m]]
    BY DEF g
  <2>2. \A m \in 0..13 :
          g[m] = IF m < first THEN 0 ELSE g[m - 1] + last_day_of_hebrew_month(y, m)
    BY <1>5 DEF Add
  <2> QED BY <2>1, <2>2
<1>7. PICK days :
        /\ days = [m \in 0..13 |-> IF m < first THEN 0
                                   ELSE days[m - 1] + last_day_of_hebrew_month(y, m)]
        /\ \A m \in 0..13 : DaysOfMonths(y, first, m) = days[m]
  BY <1>6, Zenon DEF DaysOfMonths
<1>8. DaysOfMonths(y, first, 0) = 0
  <2>1. days[0] = IF 0 < first THEN 0 ELSE days[0 - 1] + last_day_of_hebrew_month(y, 0)
    BY <1>7
  <2> QED BY <1>7, <2>1
<1>9. ASSUME NEW m \in 1..13
      PROVE  DaysOfMonths(y, first, m)
               = IF m < first THEN 0
                 ELSE DaysOfMonths(y, first, m - 1) + last_day_of_hebrew_month(y, m)
  <2>1. m \in 0..13 /\ m - 1 \in 0..13
    OBVIOUS
  <2>2. days[m] = IF m < first THEN 0 ELSE days[m - 1] + last_day_of_hebrew_month(y, m)
    BY <1>7, <2>1
  <2>3. DaysOfMonths(y, first, m) = days[m] /\ DaysOfMonths(y, first, m - 1) = days[m - 1]
    BY <1>7, <2>1
  <2> QED BY <2>2, <2>3
<1> QED BY <1>8, <1>9

(* A Hebrew year by its last month, its days and the new years around it. *)
LEMMA HebrewYear ==
  ASSUME NEW y \in Int
  PROVE  \E l \in {12, 13}, n \in Int, ny \in Int, next \in Int :
           /\ l = last_month_of_hebrew_year(y) /\ n = days_in_hebrew_year(y)
           /\ ny = hebrew_new_year(y) /\ next = hebrew_new_year(y + 1)
           /\ n = next - ny
           /\ l = 12 => n \in {353, 354, 355}
           /\ l = 13 => n \in {383, 384, 385}
<1>1. PICK ny \in Int, next \in Int : ny = hebrew_new_year(y) /\ next = hebrew_new_year(y + 1)
  BY NewYears
<1>2. days_in_hebrew_year(y) = next - ny /\ next - ny \in Int
  BY <1>1, NewYears
<1>3. PICK n \in Int : n = days_in_hebrew_year(y) /\ n = next - ny
  BY <1>2
<1>4. PICK l \in {12, 13} : l = last_month_of_hebrew_year(y)
  BY NewYears
<1>5. /\ last_month_of_hebrew_year(y) = 12 => days_in_hebrew_year(y) \in {353, 354, 355}
      /\ last_month_of_hebrew_year(y) = 13 => days_in_hebrew_year(y) \in {383, 384, 385}
  BY NewYears
<1>6. /\ l = 12 => n \in {353, 354, 355}
      /\ l = 13 => n \in {383, 384, 385}
  BY <1>3, <1>4, <1>5
<1> QED BY <1>1, <1>3, <1>4, <1>6

(* The lengths of the months of a Hebrew year. *)
LEMMA HebrewMonthLengths ==
  ASSUME NEW y \in Int
  PROVE  /\ \A m \in {1, 3, 5, 7, 11} : last_day_of_hebrew_month(y, m) = 30
         /\ \A m \in {2, 4, 6, 10, 13} : last_day_of_hebrew_month(y, m) = 29
         /\ last_day_of_hebrew_month(y, 12) = IF last_month_of_hebrew_year(y) = 13 THEN 30 ELSE 29
         /\ last_day_of_hebrew_month(y, 8) = IF days_in_hebrew_year(y) \in {355, 385} THEN 30 ELSE 29
         /\ last_day_of_hebrew_month(y, 9) = IF days_in_hebrew_year(y) \in {353, 383} THEN 29 ELSE 30
         /\ \A m \in 1..13 : last_day_of_hebrew_month(y, m) \in {29, 30}
BY DEF last_day_of_hebrew_month, last_month_of_hebrew_year, long_marheshvan, short_kislev

(* The days of the months from the seventh on, summed one month at a time. *)
LEMMA MonthsBeforeNisan ==
  ASSUME NEW y \in Int
  PROVE  /\ DaysOfMonths(y, 7, 6) = 0
         /\ \A m \in 7..13 : DaysOfMonths(y, 7, m)
              = DaysOfMonths(y, 7, m - 1) + last_day_of_hebrew_month(y, m)
         /\ \A m \in 6..13 : DaysOfMonths(y, 7, m) \in Int
<1>1. PICK first \in 1..13 : first = 7
  OBVIOUS
<1>2. \A m \in 1..13 : DaysOfMonths(y, first, m)
          = IF m < first THEN 0
            ELSE DaysOfMonths(y, first, m - 1) + last_day_of_hebrew_month(y, m)
  BY DaysOfMonthsSum
<1>3. DaysOfMonths(y, 7, 6) = 0
  BY <1>1, <1>2
<1>4. ASSUME NEW m \in 7..13
      PROVE  DaysOfMonths(y, 7, m) = DaysOfMonths(y, 7, m - 1) + last_day_of_hebrew_month(y, m)
  BY <1>1, <1>2
<1>5. \A m \in 1..13 : last_day_of_hebrew_month(y, m) \in Int
  BY HebrewMonthLengths
<1>6. DaysOfMonths(y, 7, 7) \in Int
  BY <1>3, <1>4, <1>5
<1>7. DaysOfMonths(y, 7, 8) \in Int
  BY <1>6, <1>4, <1>5
<1>8. DaysOfMonths(y, 7, 9) \in Int
  BY <1>7, <1>4, <1>5
<1>9. DaysOfMonths(y, 7, 10) \in Int
  BY <1>8, <1>4, <1>5
<1>10. DaysOfMonths(y, 7, 11) \in Int
  BY <1>9, <1>4, <1>5
<1>11. DaysOfMonths(y, 7, 12) \in Int
  BY <1>10, <1>4, <1>5
<1>12. DaysOfMonths(y, 7, 13) \in Int
  BY <1>11, <1>4, <1>5
<1> QED BY <1>3, <1>4, <1>6, <1>7, <1>8, <1>9, <1>10, <1>11, <1>12

(* The days of the months from the first to the sixth, summed so too. *)
LEMMA MonthsFromNisan ==
  ASSUME NEW y \in Int
  PROVE  /\ DaysOfMonths(y, 1, 0) = 0
         /\ \A m \in 1..6 : DaysOfMonths(y, 1, m)
              = DaysOfMonths(y, 1, m - 1) + last_day_of_hebrew_month(y, m)
         /\ \A m \in 0..6 : DaysOfMonths(y, 1, m) \in Int
<1>1. PICK first \in 1..13 : first = 1
  OBVIOUS
<1>2. /\ DaysOfMonths(y, first, 0) = 0
      /\ \A m \in 1..13 : DaysOfMonths(y, first, m)
          = IF m < first THEN 0
            ELSE DaysOfMonths(y, first, m - 1) + last_day_of_hebrew_month(y, m)
  BY DaysOfMonthsSum
<1>3. DaysOfMonths(y, 1, 0) = 0
  BY <1>1, <1>2
<1>4. ASSUME NEW m \in 1..6
      PROVE  DaysOfMonths(y, 1, m) = DaysOfMonths(y, 1, m - 1) + last_day_of_hebrew_month(y, m)
  BY <1>1, <1>2
<1>5. \A m \in 1..13 : last_day_of_hebrew_month(y, m) \in Int
  BY HebrewMonthLengths
<1>6. DaysOfMonths(y, 1, 1) \in Int
  BY <1>3, <1>4, <1>5
<1>7. DaysOfMonths(y, 1, 2) \in Int
  BY <1>6, <1>4, <1>5
<1>8. DaysOfMonths(y, 1, 3) \in Int
  BY <1>7, <1>4, <1>5
<1>9. DaysOfMonths(y, 1, 4) \in Int
  BY <1>8, <1>4, <1>5
<1>10. DaysOfMonths(y, 1, 5) \in Int
  BY <1>9, <1>4, <1>5
<1>11. DaysOfMonths(y, 1, 6) \in Int
  BY <1>10, <1>4, <1>5
<1> QED BY <1>3, <1>4, <1>6, <1>7, <1>8, <1>9, <1>10, <1>11

(* The first day of each month of a year, counted from the new years around. *)
MonthStart(y, m) ==
  LET n == days_in_hebrew_year(y)
  IN  IF m < 7 THEN hebrew_new_year(y + 1) - 177 + (59 * (m - 1) + 1) \div 2
      ELSE hebrew_new_year(y) + (59 * (m - 7) + 1) \div 2
             + (IF m = 13 THEN 1 ELSE 0)
             + (IF m >= 9 /\ n \in {355, 385} THEN 1 ELSE 0)
             - (IF m >= 10 /\ n \in {353, 383} THEN 1 ELSE 0)

(* A Hebrew date's day is as far after the first of its month as it says. *)
LEMMA HebrewMonthStart ==
  ASSUME NEW y \in Int, NEW m \in 1..last_month_of_hebrew_year(y), NEW d \in Int
  PROVE  hebrew_to_fixed(y, m, d) = MonthStart(y, m) + d - 1
<1>1. PICK l \in {12, 13}, n \in Int, ny \in Int, next \in Int :
        /\ l = last_month_of_hebrew_year(y) /\ n = days_in_hebrew_year(y)
        /\ ny = hebrew_new_year(y) /\ next = hebrew_new_year(y + 1)
        /\ n = next - ny
        /\ l = 12 => n \in {353, 354, 355}
        /\ l = 13 => n \in {383, 384, 385}
  BY HebrewYear
<1>2. PICK a, b \in 0..1 : /\ a = IF n \in {355, 385} THEN 1 ELSE 0
                           /\ b = IF n \in {353, 383} THEN 1 ELSE 0
  OBVIOUS
<1>3. n = 354 + 30 * (l - 12) + a - b
  BY <1>1, <1>2
<1>4. /\ DaysOfMonths(y, 7, 6) = 0
      /\ DaysOfMonths(y, 7, 7) = 30
      /\ DaysOfMonths(y, 7, 8) = 59 + a
      /\ DaysOfMonths(y, 7, 9) = 89 + a - b
      /\ DaysOfMonths(y, 7, 10) = 118 + a - b
      /\ DaysOfMonths(y, 7, 11) = 148 + a - b
      /\ DaysOfMonths(y, 7, 12) = 177 + (l - 12) + a - b
      /\ l = 13 => DaysOfMonths(y, 7, 13) = 207 + a - b
  <2>1. /\ last_day_of_hebrew_month(y, 7) = 30
        /\ last_day_of_hebrew_month(y, 8) = 29 + a
        /\ last_day_of_hebrew_month(y, 9) = 30 - b
        /\ last_day_of_hebrew_month(y, 10) = 29
        /\ last_day_of_hebrew_month(y, 11) = 30
        /\ last_day_of_hebrew_month(y, 12) = 29 + (l - 12)
        /\ last_day_of_hebrew_month(y, 13) = 29
    <3>1. /\ last_day_of_hebrew_month(y, 7) = 30
          /\ last_day_of_hebrew_month(y, 8) = IF days_in_hebrew_year(y) \in {355, 385} THEN 30 ELSE 29
          /\ last_day_of_hebrew_month(y, 9) = IF days_in_hebrew_year(y) \in {353, 383} THEN 29 ELSE 30
          /\ last_day_of_hebrew_month(y, 10) = 29
          /\ last_day_of_hebrew_month(y, 11) = 30
          /\ last_day_of_hebrew_month(y, 12) = IF last_month_of_hebrew_year(y) = 13 THEN 30 ELSE 29
          /\ last_day_of_hebrew_month(y, 13) = 29
      BY HebrewMonthLengths
    <3> QED BY <1>1, <1>2, <3>1
  <2>2. /\ DaysOfMonths(y, 7, 6) = 0
        /\ DaysOfMonths(y, 7, 7) = DaysOfMonths(y, 7, 6) + last_day_of_hebrew_month(y, 7)
        /\ DaysOfMonths(y, 7, 8) = DaysOfMonths(y, 7, 7) + last_day_of_hebrew_month(y, 8)
        /\ DaysOfMonths(y, 7, 9) = DaysOfMonths(y, 7, 8) + last_day_of_hebrew_month(y, 9)
        /\ DaysOfMonths(y, 7, 10) = DaysOfMonths(y, 7, 9) + last_day_of_hebrew_month(y, 10)
        /\ DaysOfMonths(y, 7, 11) = DaysOfMonths(y, 7, 10) + last_day_of_hebrew_month(y, 11)
        /\ DaysOfMonths(y, 7, 12) = DaysOfMonths(y, 7, 11) + last_day_of_hebrew_month(y, 12)
        /\ DaysOfMonths(y, 7, 13) = DaysOfMonths(y, 7, 12) + last_day_of_hebrew_month(y, 13)
    BY MonthsBeforeNisan
  <2> QED BY <2>1, <2>2
<1>5. /\ DaysOfMonths(y, 1, 0) = 0
      /\ DaysOfMonths(y, 1, 1) = 30
      /\ DaysOfMonths(y, 1, 2) = 59
      /\ DaysOfMonths(y, 1, 3) = 89
      /\ DaysOfMonths(y, 1, 4) = 118
      /\ DaysOfMonths(y, 1, 5) = 148
  BY MonthsFromNisan, HebrewMonthLengths
<1>6. CASE m < 7
  <2>1. /\ hebrew_to_fixed(y, m, d)
             = ny + d - 1 + (DaysOfMonths(y, 7, l) + DaysOfMonths(y, 1, m - 1))
        /\ MonthStart(y, m) = next - 177 + (59 * (m - 1) + 1) \div 2
    BY <1>1, <1>6 DEF hebrew_to_fixed, MonthStart
  <2>2. DaysOfMonths(y, 7, l) = n - 177
    BY <1>3, <1>4
  <2>3. DaysOfMonths(y, 1, m - 1) = (59 * (m - 1) + 1) \div 2
    BY <1>5, <1>6, <1>1
  <2> QED BY <1>1, <2>1, <2>2, <2>3
<1>7. CASE m >= 7
  <2>1. /\ hebrew_to_fixed(y, m, d) = ny + d - 1 + DaysOfMonths(y, 7, m - 1)
        /\ MonthStart(y, m)
             = ny + (59 * (m - 7) + 1) \div 2 + (IF m = 13 THEN 1 ELSE 0)
                 + (IF m >= 9 THEN a ELSE 0) - (IF m >= 10 THEN b ELSE 0)
    BY <1>1, <1>2, <1>7 DEF hebrew_to_fixed, MonthStart
  <2>2. DaysOfMonths(y, 7, m - 1)
          = (59 * (m - 7) + 1) \div 2 + (IF m = 13 THEN 1 ELSE 0)
              + (IF m >= 9 THEN a ELSE 0) - (IF m >= 10 THEN b ELSE 0)
    BY <1>1, <1>4, <1>7
  <2> QED BY <1>1, <2>1, <2>2
<1> QED BY <1>1, <1>6, <1>7

(* The months of a Hebrew year, from the 7th to the 12th or 13th and from the 1st to
   the 6th, fill it without a gap. *)
LEMMA HebrewMonthsFill ==
  ASSUME NEW y \in Int
  PROVE  /\ \A m \in 1..13 : MonthStart(y, m) \in Int
         /\ MonthStart(y, 7) = hebrew_new_year(y)
         /\ \A m \in 1..12 : m # 6 /\ m < last_month_of_hebrew_year(y) =>
              MonthStart(y, m + 1) = MonthStart(y, m) + last_day_of_hebrew_month(y, m)
         /\ MonthStart(y, 1) = MonthStart(y, last_month_of_hebrew_year(y))
                                 + last_day_of_hebrew_month(y, last_month_of_hebrew_year(y))
         /\ hebrew_new_year(y + 1) = MonthStart(y, 6) + last_day_of_hebrew_month(y, 6)
<1>1. PICK l \in {12, 13}, n \in Int, ny \in Int, next \in Int :
        /\ l = last_month_of_hebrew_year(y) /\ n = days_in_hebrew_year(y)
        /\ ny = hebrew_new_year(y) /\ next = hebrew_new_year(y + 1)
        /\ n = next - ny
        /\ l = 12 => n \in {353, 354, 355}
        /\ l = 13 => n \in {383, 384, 385}
  BY HebrewYear
<1>2. PICK a, b \in 0..1 : /\ a = IF n \in {355, 385} THEN 1 ELSE 0
                           /\ b = IF n \in {353, 383} THEN 1 ELSE 0
  OBVIOUS
<1>3. n = 354 + 30 * (l - 12) + a - b
  BY <1>1, <1>2
<1>4. /\ \A m \in 1..6 : MonthStart(y, m) = next - 177 + (59 * (m - 1) + 1) \div 2
      /\ \A m \in 7..13 : MonthStart(y, m)
             = ny + (59 * (m - 7) + 1) \div 2 + (IF m = 13 THEN 1 ELSE 0)
                 + (IF m >= 9 THEN a ELSE 0) - (IF m >= 10 THEN b ELSE 0)
  BY <1>1, <1>2 DEF MonthStart
<1>5. /\ \A m \in {1, 3, 5, 7, 11} : last_day_of_hebrew_month(y, m) = 30
      /\ \A m \in {2, 4, 6, 10, 13} : last_day_of_hebrew_month(y, m) = 29
      /\ last_day_of_hebrew_month(y, 12) = 29 + (l - 12)
      /\ last_day_of_hebrew_month(y, 8) = 29 + a
      /\ last_day_of_hebrew_month(y, 9) = 30 - b
  <2>1. /\ last_day_of_hebrew_month(y, 12) = IF last_month_of_hebrew_year(y) = 13 THEN 30 ELSE 29
        /\ last_day_of_hebrew_month(y, 8) = IF days_in_hebrew_year(y) \in {355, 385} THEN 30 ELSE 29
        /\ last_day_of_hebrew_month(y, 9) = IF days_in_hebrew_year(y) \in {353, 383} THEN 29 ELSE 30
    BY HebrewMonthLengths
  <2> QED BY <1>1, <1>2, <2>1, HebrewMonthLengths
<1>6. /\ \A m \in 1..13 : MonthStart(y, m) \in Int
      /\ MonthStart(y, 7) = ny
      /\ next = MonthStart(y, 6) + last_day_of_hebrew_month(y, 6)
  BY <1>1, <1>2, <1>4, <1>5
<1>7. ASSUME NEW m \in 1..12, m # 6, m < l
      PROVE  MonthStart(y, m + 1) = MonthStart(y, m) + last_day_of_hebrew_month(y, m)
  <2>1. CASE m \in 1..5
    BY <1>1, <1>4, <1>5, <2>1
  <2>2. CASE m \in 7..12
    BY <1>1, <1>2, <1>4, <1>5, <1>7, <2>2
  <2> QED BY <1>7, <2>1, <2>2
<1>8. MonthStart(y, 1) = MonthStart(y, l) + last_day_of_hebrew_month(y, l)
  BY <1>1, <1>2, <1>3, <1>4, <1>5
<1> QED BY <1>1, <1>6, <1>7, <1>8

(* A new year is near the mean: the day of new year y is (y - 1) times 35975351
   parts of 98496 of a day after the epoch, less about a year and at most a month. *)
NearMean(days, y) ==
  98496 * days >= 35975351 * y - 38630397 /\ 98496 * days <= 35975351 * y - 35480857

(* Every Hebrew new year is near its mean. *)
LEMMA HebrewNewYearNearMean ==
  ASSUME NEW y \in Int
  PROVE  NearMean(hebrew_new_year(y) - HEBREW_EPOCH, y)
<1>1. PICK m \in Int, r \in 0..18 : m = HebrewMonths(y) /\ 235 * y - 234 = 19 * m + r
  <2>1. PICK x \in Int : x = 235 * y - 234
    OBVIOUS
  <2>2. x = 19 * (x \div 19) + (x % 19) /\ x \div 19 \in Int /\ x % 19 \in 0..18
    OBVIOUS
  <2> QED BY <2>1, <2>2 DEF HebrewMonths
<1>2. PICK d \in Int, s \in Int : /\ d = MeanDays(y) /\ 765433 * m + 12084 = 25920 * d + s
                                  /\ 0 <= s /\ s < 25920
  <2>1. PICK x \in Int : x = 765433 * m + 12084
    OBVIOUS
  <2>2. /\ x = 25920 * (x \div 25920) + (x % 25920) /\ x \div 25920 \in Int /\ x % 25920 \in Int
        /\ 0 <= x % 25920 /\ x % 25920 < 25920
    OBVIOUS
  <2> QED BY <1>1, <2>1, <2>2 DEF MeanDays, HebrewParts
<1>3. PICK t \in 0..3 : hebrew_new_year(y) - HEBREW_EPOCH = d + t
  <2>1. hebrew_calendar_elapsed_days(y) \in {d, d + 1}
    BY <1>2, ElapsedIsMeanMoved DEF Moved
  <2>2. hebrew_year_length_correction(y) \in {0, 1, 2}
    BY DEF hebrew_year_length_correction
  <2> QED BY <2>1, <2>2 DEF hebrew_new_year, HEBREW_EPOCH
<1>4. /\ 5 * 98496 * d = 5 * 35975351 * y - 765433 * (234 + r) + 19 * (12084 - s)
  BY <1>1, <1>2
<1>5. /\ 98496 * (d + t) >= 35975351 * y - 38630397
      /\ 98496 * (d + t) <= 35975351 * y - 35480857
  BY <1>4, <1>2
<1> QED BY <1>3, <1>5, SMT DEF NearMean

(* The mean years of a number of days, rounded down. *)
LEMMA MeanYearsOfDays ==
  ASSUME NEW days \in Int
  PROVE  \E n \in Int : /\ n = MeanHebrewYears(days)
                        /\ 35975351 * n <= 98496 * days /\ 98496 * days < 35975351 * (n + 1)
<1>1. PICK a \in Int, b \in Int : /\ a = days \div 366 /\ b = days \div 365
                                  /\ 366 * a <= days /\ days < 366 * (a + 1)
                                  /\ 365 * b <= days /\ days < 365 * (b + 1)
  OBVIOUS
<1> DEFINE bounds == {days \div 366, days \div 365}
           lo == Min(bounds)
           hi == Max(bounds)
           Mean(n) == /\ 24311 * n <= 98496 * (days - 365 * n)
                      /\ 24311 * (n + 1) > 98496 * (days - 365 * (n + 1))
<1>2. /\ lo \in {a, b} /\ lo <= a /\ lo <= b
      /\ hi \in {a, b} /\ a <= hi /\ b <= hi
  <2>1. \E x \in {a, b} : \A y \in {a, b} : x <= y
    <3>1. CASE a <= b
      BY <3>1
    <3>2. CASE ~(a <= b)
      BY <3>2
    <3> QED BY <3>1, <3>2
  <2>2. \E x \in {a, b} : \A y \in {a, b} : x >= y
    <3>1. CASE a <= b
      BY <3>1
    <3>2. CASE ~(a <= b)
      BY <3>2
    <3> QED BY <3>1, <3>2
  <2>3. Min({a, b}) \in {a, b} /\ \A y \in {a, b} : Min({a, b}) <= y
    BY <2>1, Zenon DEF Min
  <2>4. Max({a, b}) \in {a, b} /\ \A y \in {a, b} : Max({a, b}) >= y
    BY <2>2, Zenon DEF Max
  <2>5. bounds = {a, b}
    BY <1>1
  <2>6. lo = Min({a, b}) /\ hi = Max({a, b})
    BY <2>5
  <2> HIDE DEF lo, hi
  <2> QED BY <2>3, <2>4, <2>6
<1>3. MeanHebrewYears(days) = CHOOSE n \in lo - 1..hi + 1 : Mean(n)
  BY DEF MeanHebrewYears
<1> HIDE DEF lo, hi, bounds
<1>4. \E n \in lo - 1..hi + 1 : Mean(n)
  <2>1. PICK n \in Int, r \in Int : 98496 * days = 35975351 * n + r /\ 0 <= r /\ r < 35975351
    <3>1. PICK x \in Int : x = 98496 * days
      OBVIOUS
    <3>2. /\ x = 35975351 * (x \div 35975351) + (x % 35975351)
          /\ x \div 35975351 \in Int /\ x % 35975351 \in Int
          /\ 0 <= x % 35975351 /\ x % 35975351 < 35975351
      OBVIOUS
    <3> QED BY <3>1, <3>2
  <2>2. n \in lo - 1..hi + 1
    BY <1>1, <1>2, <2>1
  <2>3. Mean(n)
    BY <2>1
  <2> QED BY <2>2, <2>3
<1>5. PICK n \in Int : n = MeanHebrewYears(days) /\ Mean(n)
  <2> DEFINE c == CHOOSE n \in lo - 1..hi + 1 : Mean(n)
  <2>1. c \in lo - 1..hi + 1 /\ Mean(c)
    <3> HIDE DEF Mean
    <3> QED BY <1>4, Zenon
  <2>2. c = MeanHebrewYears(days)
    BY <1>3
  <2> HIDE DEF c
  <2>3. c \in Int
    BY <1>1, <1>2, <2>1
  <2> QED BY <2>1, <2>2, <2>3
<1> QED BY <1>5

(* A set of whole numbers between two has a first one. *)
LEMMA FirstIsFound ==
  ASSUME NEW T, NEW first \in Int, NEW last \in Int, T \subseteq first..last, T # {}
  PROVE  Min(T) \in T /\ \A k \in T : Min(T) <= k
<1> DEFINE R == {p \in Nat \X Nat : p[1] < p[2]}
           S == {i \in Nat : first + i \in T}
<1>1. IsWellFoundedOn(R, Nat)
  BY NatLessThanWellFounded DEF OpToRel
<1>2. \A z \in T : z \in Int /\ z - first \in S
  OBVIOUS
<1>3. S \subseteq Nat /\ S # {}
  BY <1>2
<1>4. PICK x \in S : \A j \in S : ~(<<j, x>> \in R)
  <2> HIDE DEF S
  <2> QED BY <1>1, <1>3, WFMin
<1>5. x \in Nat /\ \A j \in S : x <= j
  <2>1. x \in Nat
    BY <1>3, <1>4
  <2>2. ASSUME NEW j \in S PROVE x <= j
    <3>1. j \in Nat /\ (j < x => <<j, x>> \in R)
      BY <2>1
    <3> HIDE DEF S, R
    <3> QED BY <1>4, <2>1, <2>2, <3>1
  <2> QED BY <2>1, <2>2
<1> HIDE DEF R
<1>6. PICK n \in Int : n = first + x
  BY <1>5
<1>7. n \in T
  BY <1>5, <1>6
<1>8. ASSUME NEW k \in T PROVE n <= k
  <2>1. k - first \in S /\ k \in Int
    BY <1>2
  <2> QED BY <1>5, <1>6, <2>1
<1>9. \E m \in T : \A k \in T : m <= k
  BY <1>7, <1>8
<1> QED BY <1>9, Zenon DEF Min

(* The year found for a day is the one it is in. *)
LEMMA HebrewYearOfDay ==
  ASSUME NEW date \in Int, NEW approx, approx = MeanHebrewYears(date - HEBREW_EPOCH) + 1,
         NEW y, y = Min({n \in approx - 1..approx + 2 : hebrew_new_year(n) > date}) - 1
  PROVE  y \in Int /\ hebrew_new_year(y) <= date /\ date < hebrew_new_year(y + 1)
<1>1. PICK days \in Int : days = date - HEBREW_EPOCH
  BY DEF HEBREW_EPOCH
<1>2. PICK a \in Int : /\ approx = a + 1
                       /\ 35975351 * a <= 98496 * days /\ 98496 * days < 35975351 * (a + 1)
  BY <1>1, MeanYearsOfDays, SMT
<1>3. PICK last \in Int : last = a + 3
  OBVIOUS
<1> DEFINE T == {n \in a..last : hebrew_new_year(n) > date}
<1>4. last \in T /\ a \notin T
  <2>1. /\ hebrew_new_year(a) \in Int /\ hebrew_new_year(last) \in Int
        /\ NearMean(hebrew_new_year(a) - HEBREW_EPOCH, a)
        /\ NearMean(hebrew_new_year(last) - HEBREW_EPOCH, last)
    BY HebrewNewYearNearMean, NewYears
  <2> QED BY <1>1, <1>2, <1>3, <2>1, SMT DEF HEBREW_EPOCH, NearMean
<1>5. T \subseteq a..last /\ T # {}
  BY <1>4
<1>6. PICK c : c = Min(T)
  OBVIOUS
<1>7. y = c - 1
  <2>1. approx - 1 = a /\ approx + 2 = last
    BY <1>2, <1>3, SMT
  <2> QED BY <1>6, <2>1
<1>8. c \in T /\ \A k \in T : c <= k
  <2> HIDE DEF T
  <2> QED BY <1>5, <1>6, FirstIsFound
<1>9. c \in Int /\ c # a /\ c - 1 \in a..last /\ (c - 1) + 1 = c
  BY <1>3, <1>4, <1>8
<1>10. hebrew_new_year(c - 1) \in Int /\ ~(c - 1 \in T)
  <2>1. PICK z \in Int : z = c - 1
    BY <1>9
  <2>2. hebrew_new_year(z) \in Int
    BY NewYears
  <2> QED BY <1>8, <1>9, <2>1, <2>2
<1> QED BY <1>7, <1>8, <1>9, <1>10

(* A date of the Hebrew calendar. *)
HebrewDay(y, m, d) == /\ y \in Int /\ m \in 1..last_month_of_hebrew_year(y)
                      /\ d \in 1..last_day_of_hebrew_month(y, m)

(* The months searched for a day that is in the year y, from the first on, and
   the month found. *)
LEMMA HebrewMonthOfDay ==
  ASSUME NEW date \in Int, NEW y \in Int,
         hebrew_new_year(y) <= date, date < hebrew_new_year(y + 1),
         NEW first, first = IF date < hebrew_to_fixed(y, 1, 1) THEN 7 ELSE 1,
         NEW m, m = Min({n \in first..13 :
                           date <= hebrew_to_fixed(y, n, last_day_of_hebrew_month(y, n))})
  PROVE  /\ m \in 1..last_month_of_hebrew_year(y)
         /\ MonthStart(y, m) <= date /\ date < MonthStart(y, m) + last_day_of_hebrew_month(y, m)
<1>1. PICK l \in {12, 13}, ny \in Int, next \in Int :
        l = last_month_of_hebrew_year(y) /\ ny = hebrew_new_year(y) /\ next = hebrew_new_year(y + 1)
  BY NewYears
<1>2. /\ \A k \in 1..13 : MonthStart(y, k) \in Int
      /\ MonthStart(y, 7) = ny
      /\ \A k \in 1..12 : k # 6 /\ k < l =>
           MonthStart(y, k + 1) = MonthStart(y, k) + last_day_of_hebrew_month(y, k)
      /\ MonthStart(y, 1) = MonthStart(y, l) + last_day_of_hebrew_month(y, l)
      /\ next = MonthStart(y, 6) + last_day_of_hebrew_month(y, 6)
  BY <1>1, HebrewMonthsFill
<1>3. \A k \in 1..13 : last_day_of_hebrew_month(y, k) \in Int
  BY HebrewMonthLengths
<1>4. \A k \in 1..l : /\ hebrew_to_fixed(y, k, 1) = MonthStart(y, k)
                      /\ hebrew_to_fixed(y, k, last_day_of_hebrew_month(y, k))
                           = MonthStart(y, k) + last_day_of_hebrew_month(y, k) - 1
  <2> SUFFICES ASSUME NEW k \in 1..l
               PROVE  /\ hebrew_to_fixed(y, k, 1) = MonthStart(y, k)
                      /\ hebrew_to_fixed(y, k, last_day_of_hebrew_month(y, k))
                           = MonthStart(y, k) + last_day_of_hebrew_month(y, k) - 1
    OBVIOUS
  <2>1. /\ k \in 1..last_month_of_hebrew_year(y) /\ MonthStart(y, k) \in Int
        /\ last_day_of_hebrew_month(y, k) \in Int
    <3>1. k \in 1..13
      BY <1>1
    <3> QED BY <1>1, <1>2, <1>3, <3>1
  <2>2. PICK one \in Int, end \in Int : one = 1 /\ end = last_day_of_hebrew_month(y, k)
    BY <2>1
  <2>3. /\ hebrew_to_fixed(y, k, one) = MonthStart(y, k) + one - 1
        /\ hebrew_to_fixed(y, k, end) = MonthStart(y, k) + end - 1
    BY <2>1, HebrewMonthStart
  <2> QED BY <2>1, <2>2, <2>3
<1> DEFINE T == {n \in first..13 : date <= hebrew_to_fixed(y, n, last_day_of_hebrew_month(y, n))}
<1>5. PICK end \in 1..l : /\ end \in T
                          /\ (first = 1 /\ end = 6) \/ (first = 7 /\ end = l)
                          /\ MonthStart(y, first) <= date
  <2>1. hebrew_to_fixed(y, 1, 1) = MonthStart(y, 1)
    BY <1>1, <1>4
  <2>2. CASE date < MonthStart(y, 1)
    <3>1. first = 7
      BY <2>1, <2>2
    <3>2. l \in T
      BY <1>1, <1>2, <1>3, <1>4, <2>2, <3>1
    <3> QED BY <1>1, <1>2, <3>1, <3>2
  <2>3. CASE ~(date < MonthStart(y, 1))
    <3>1. first = 1
      BY <2>1, <2>3
    <3>2. 6 \in T
      BY <1>1, <1>2, <1>3, <1>4, <3>1
    <3>3. 6 \in 1..l /\ MonthStart(y, first) <= date /\ 1 \in 1..l
      BY <1>1, <1>2, <2>3, <3>1
    <3> QED BY <3>1, <3>2, <3>3
  <2> QED BY <2>2, <2>3
<1>6. m \in T /\ \A k \in T : m <= k
  <2>1. T \subseteq first..13 /\ T # {} /\ first \in Int /\ 13 \in Int
    BY <1>5
  <2>2. m = Min(T)
    OBVIOUS
  <2>3. PICK last \in Int : last = 13
    OBVIOUS
  <2> HIDE DEF T
  <2> QED BY <2>1, <2>2, <2>3, FirstIsFound, ZenonT(60)
<1>7. m \in first..end /\ m \in 1..l
  BY <1>5, <1>6
<1>8. date < MonthStart(y, m) + last_day_of_hebrew_month(y, m)
  BY <1>1, <1>2, <1>3, <1>4, <1>6, <1>7
<1>9. MonthStart(y, m) <= date
  <2>1. CASE m = first
    BY <1>5, <2>1
  <2>2. CASE m # first
    <3>0. m \in Int
      BY <1>1, <1>7
    <3>1. PICK k \in Int : k = m - 1 /\ k + 1 = m
      BY ONLY <3>0
    <3>2. k \in first..13 /\ k \notin T /\ k \in 1..l /\ k # 6 /\ k < l /\ k \in 1..12
      BY <1>1, <1>5, <1>6, <1>7, <2>2, <3>1
    <3>3. MonthStart(y, m) = MonthStart(y, k) + last_day_of_hebrew_month(y, k)
      BY <1>2, <3>1, <3>2
    <3>4. ~(date <= hebrew_to_fixed(y, k, last_day_of_hebrew_month(y, k)))
      BY <3>2
    <3> QED BY <1>1, <1>2, <1>3, <1>4, <3>2, <3>3, <3>4
  <2> QED BY <2>1, <2>2
<1> QED BY <1>1, <1>7, <1>8, <1>9

(* A day's date in the Hebrew calendar, and the way back. *)
IsHebrewDate(date, y, m, d) == /\ HebrewDay(y, m, d)
                               /\ fixed_to_hebrew(date) = <<y, m, d>>
                               /\ hebrew_to_fixed(y, m, d) = date
                               /\ date = MonthStart(y, m) + d - 1

(* Every day has a Hebrew date, which is one the calendar has and leads back to it. *)
LEMMA HebrewDate ==
  ASSUME NEW date \in Int
  PROVE  \E y, m, d \in Int : IsHebrewDate(date, y, m, d)
<1> DEFINE approx == MeanHebrewYears(date - HEBREW_EPOCH) + 1
           y == Min({n \in approx - 1..approx + 2 : hebrew_new_year(n) > date}) - 1
           first == IF date < hebrew_to_fixed(y, 1, 1) THEN 7 ELSE 1
           m == Min({n \in first..13 :
                       date <= hebrew_to_fixed(y, n, last_day_of_hebrew_month(y, n))})
           d == date - hebrew_to_fixed(y, m, 1) + 1
<1>1. fixed_to_hebrew(date) = <<y, m, d>>
  BY Zenon DEF fixed_to_hebrew
<1>2. y \in Int /\ hebrew_new_year(y) <= date /\ date < hebrew_new_year(y + 1)
  <2>1. PICK a, z : a = approx /\ z = y
    OBVIOUS
  <2>2. a = MeanHebrewYears(date - HEBREW_EPOCH) + 1
    BY <2>1, Zenon
  <2>3. z = Min({n \in a - 1..a + 2 : hebrew_new_year(n) > date}) - 1
    BY <2>1, Zenon
  <2> HIDE DEF approx, y
  <2>4. z \in Int /\ hebrew_new_year(z) <= date /\ date < hebrew_new_year(z + 1)
    BY <2>2, <2>3, HebrewYearOfDay
  <2> QED BY <2>1, <2>4
<1> HIDE DEF y
<1>3. /\ m \in 1..last_month_of_hebrew_year(y)
      /\ MonthStart(y, m) <= date /\ date < MonthStart(y, m) + last_day_of_hebrew_month(y, m)
  <2>1. PICK f, n : f = first /\ n = m
    OBVIOUS
  <2>2. f = IF date < hebrew_to_fixed(y, 1, 1) THEN 7 ELSE 1
    BY <2>1, Zenon
  <2>3. n = Min({k \in f..13 :
                   date <= hebrew_to_fixed(y, k, last_day_of_hebrew_month(y, k))})
    BY <2>1, Zenon
  <2> HIDE DEF first, m
  <2>4. /\ n \in 1..last_month_of_hebrew_year(y)
        /\ MonthStart(y, n) <= date /\ date < MonthStart(y, n) + last_day_of_hebrew_month(y, n)
    BY <1>2, <2>2, <2>3, HebrewMonthOfDay
  <2> QED BY <2>1, <2>4
<1> HIDE DEF m
<1>4. m \in 1..13 /\ MonthStart(y, m) \in Int /\ last_day_of_hebrew_month(y, m) \in Int
  <2>1. m \in 1..13
    BY <1>2, <1>3, NewYears
  <2>2. /\ \A k \in 1..13 : MonthStart(y, k) \in Int
        /\ \A k \in 1..13 : last_day_of_hebrew_month(y, k) \in {29, 30}
    BY <1>2, HebrewMonthsFill, HebrewMonthLengths
  <2> QED BY <2>1, <2>2
<1>5. d = date - MonthStart(y, m) + 1
  <2>1. PICK one \in Int : one = 1
    OBVIOUS
  <2>2. hebrew_to_fixed(y, m, one) = MonthStart(y, m) + one - 1
    BY <1>2, <1>3, HebrewMonthStart
  <2> QED BY <1>4, <2>1, <2>2
<1> HIDE DEF d
<1>6. d \in Int /\ d \in 1..last_day_of_hebrew_month(y, m) /\ date = MonthStart(y, m) + d - 1
  BY <1>3, <1>4, <1>5
<1>7. hebrew_to_fixed(y, m, d) = date
  <2>1. hebrew_to_fixed(y, m, d) = MonthStart(y, m) + d - 1
    BY <1>2, <1>3, <1>6, HebrewMonthStart
  <2> QED BY <1>6, <2>1
<1>8. HebrewDay(y, m, d)
  BY <1>2, <1>3, <1>6 DEF HebrewDay
<1> QED BY <1>1, <1>2, <1>4, <1>6, <1>7, <1>8 DEF IsHebrewDate

(* The days before a year by their own formula, from the seventh month of the
   first year. *)
LEMMA DaysBeforeHebrewYear ==
  ASSUME NEW x \in Int
  PROVE  HebrewDays(x) = hebrew_new_year(x + 1) - HEBREW_EPOCH
<1> DEFINE c1(n) == (235 * n + 1) \div 19
           days(c) == 32336 * (c \div 1095)
                        + (15 * (c \div 1095) + 765433 * (c % 1095) + 12084) \div 25920
           v1(n) == days(c1(n))
           v2(n) == v1(n) + (((6 * (v1(n) % 7)) \div 7) % 2)
<1>1. ASSUME NEW n \in Int PROVE v2(n) = hebrew_calendar_elapsed_days(n + 1)
  <2>1. PICK z \in Int : z = n + 1
    OBVIOUS
  <2>2. PICK c \in Int : c = c1(n) /\ c = HebrewMonths(z)
    BY <2>1 DEF HebrewMonths
  <2>3. PICK q \in Int, r \in Int : q = c \div 1095 /\ r = c % 1095 /\ c = 1095 * q + r
    OBVIOUS
  <2>4. PICK u \in Int : u = 15 * q + 765433 * r + 12084
    OBVIOUS
  <2>5. 765433 * c + 12084 = u + 25920 * (32336 * q)
    BY <2>3, <2>4
  <2>6. PICK k \in Int : k = 32336 * q
    OBVIOUS
  <2>7. (u + 25920 * k) \div 25920 = k + u \div 25920
    OBVIOUS
  <2>8. MeanDays(z) = k + u \div 25920
    BY <2>2, <2>5, <2>6, <2>7 DEF MeanDays, HebrewParts
  <2>9. v1(n) = k + u \div 25920
    <3>1. days(c) = k + u \div 25920
      BY <2>3, <2>4, <2>6, SMT
    <3> HIDE DEF c1, days
    <3> QED BY <2>2, <3>1
  <2>10. PICK d \in Int : d = v1(n) /\ d = MeanDays(z)
    BY <2>8, <2>9
  <2> HIDE DEF v1
  <2>11. v2(n) = Moved(d)
    BY <2>10 DEF Moved
  <2> QED BY <2>1, <2>10, <2>11, ElapsedIsMeanMoved
<1>2. HebrewDays(x) = v2(x) + 2 * (((v2(x + 1) - v2(x) + 19) \div 15) % 2)
                        + (((v2(x) - v2(x - 1) + 7) \div 15) % 2)
  BY DEF HebrewDays
<1> HIDE DEF v2
<1>3. PICK y \in Int : y = x + 1
  OBVIOUS
<1>4. /\ v2(x) = hebrew_calendar_elapsed_days(y)
      /\ v2(x + 1) = hebrew_calendar_elapsed_days(y + 1)
      /\ v2(x - 1) = hebrew_calendar_elapsed_days(y - 1)
  <2>1. PICK w \in Int, z \in Int : w = x - 1 /\ z = x + 1 /\ w + 1 = y - 1
    BY <1>3
  <2>2. /\ v2(x) = hebrew_calendar_elapsed_days(x + 1)
        /\ v2(z) = hebrew_calendar_elapsed_days(z + 1)
        /\ v2(w) = hebrew_calendar_elapsed_days(w + 1)
    BY <1>1
  <2> QED BY <1>3, <2>1, <2>2
<1>5. \E e0, e1, e2 \in Int : ElapsedYears(y, e0, e1, e2)
  BY ElapsedBetween
<1>6. PICK e0, e1, e2 \in Int :
        /\ e0 = hebrew_calendar_elapsed_days(y - 1) /\ e1 = hebrew_calendar_elapsed_days(y)
        /\ e2 = hebrew_calendar_elapsed_days(y + 1)
        /\ e1 - e0 \in 353..356 \cup 382..385 /\ e2 - e1 \in 353..356 \cup 382..385
        /\ ~(e1 - e0 = 382 /\ e2 - e1 = 356)
  BY <1>5 DEF ElapsedYears
<1>7. HebrewDays(x) = e1 + 2 * (((e2 - e1 + 19) \div 15) % 2) + (((e1 - e0 + 7) \div 15) % 2)
  BY <1>2, <1>4, <1>6
<1>8. HebrewDays(x) = e1 + (IF e2 - e1 = 356 THEN 2 ELSE IF e1 - e0 = 382 THEN 1 ELSE 0)
  BY <1>6, <1>7
<1>9. hebrew_new_year(y) = HEBREW_EPOCH + e1
                            + (IF e2 - e1 = 356 THEN 2 ELSE IF e1 - e0 = 382 THEN 1 ELSE 0)
  BY <1>6 DEF hebrew_new_year, hebrew_year_length_correction
<1> QED BY <1>3, <1>6, <1>8, <1>9 DEF HEBREW_EPOCH

(* The formula for Julian day numbers gives the same day. *)
LEMMA HebrewFormula ==
  ASSUME NEW y \in Int, NEW m \in 1..last_month_of_hebrew_year(y), NEW d \in Int
  PROVE  hebrew_to_cjdn(y, m, d) = MonthStart(y, m) + d - 1 + CJDN
<1>1. PICK l \in {12, 13}, n \in Int, ny \in Int, next \in Int :
        /\ l = last_month_of_hebrew_year(y) /\ n = days_in_hebrew_year(y)
        /\ ny = hebrew_new_year(y) /\ next = hebrew_new_year(y + 1)
        /\ n = next - ny
        /\ l = 12 => n \in {353, 354, 355}
        /\ l = 13 => n \in {383, 384, 385}
  BY HebrewYear
<1>2. m \in 1..13
  BY <1>1
<1>3. PICK w \in Int : w = y - 1 /\ w + 1 = y
  OBVIOUS
<1>4. /\ HebrewDays(w) = ny + 1373427
      /\ HebrewDays(w + 1) = next + 1373427
      /\ HebrewDays(y) = next + 1373427
      /\ HebrewDays(y + 1) \in Int
  <2>1. PICK z \in Int : z = y + 1
    OBVIOUS
  <2>2. /\ HebrewDays(w) = hebrew_new_year(w + 1) - HEBREW_EPOCH
        /\ HebrewDays(y) = hebrew_new_year(y + 1) - HEBREW_EPOCH
        /\ HebrewDays(z) = hebrew_new_year(z + 1) - HEBREW_EPOCH
        /\ hebrew_new_year(z + 1) \in Int
    BY <1>3, DaysBeforeHebrewYear, NewYears
  <2> QED BY <1>1, <1>3, <2>1, <2>2 DEF HEBREW_EPOCH
<1> DEFINE c8(L) == ((L + 7) \div 2) % 15
           c9(L) == -(((385 - L) \div 2) % 15)
           c3(L) == (384 * (m - 1) + 7) \div 13 + c8(L) * ((m + 3) \div 12) + c9(L) * ((m + 2) \div 12)
<1>5. PICK x \in Int, L \in Int :
        /\ x = IF m < 7 THEN y ELSE w
        /\ L = HebrewDays(x + 1) - HebrewDays(x)
        /\ hebrew_to_cjdn(y, m, d) = 347821 + HebrewDays(x) + c3(L) + d - 1
        /\ m >= 7 => L = n
  <2>1. PICK x \in Int : x = y - 1 + (13 - m) \div 7
    BY <1>2
  <2>2. x = IF m < 7 THEN y ELSE w
    BY <1>2, <1>3, <2>1
  <2>3. PICK L \in Int : L = HebrewDays(x + 1) - HebrewDays(x)
    BY <1>1, <1>3, <1>4, <2>2
  <2>4. hebrew_to_cjdn(y, m, d) = 347821 + HebrewDays(x) + c3(L) + d - 1
    BY <2>1, <2>3, SMT DEF hebrew_to_cjdn
  <2> HIDE DEF c3
  <2>5. m >= 7 => L = n
    BY <1>1, <1>2, <1>3, <1>4, <2>2, <2>3
  <2> QED BY <2>2, <2>3, <2>4, <2>5
<1>6. CASE m < 7
  <2>3. hebrew_to_cjdn(y, m, d) = 347821 + HebrewDays(y) + c3(L) + d - 1
    BY <1>5, <1>6
  <2>4. c3(L) = (384 * (m - 1) + 7) \div 13
    <3>1. c8(L) \in Int /\ c9(L) \in Int /\ (m + 3) \div 12 = 0 /\ (m + 2) \div 12 = 0
      BY <1>2, <1>6
    <3> HIDE DEF c8, c9
    <3> QED BY <1>2, <3>1
  <2>5. (384 * (m - 1) + 7) \div 13 = (59 * (m - 1) + 1) \div 2
    BY <1>2, <1>6
  <2>6. MonthStart(y, m) = next - 177 + (59 * (m - 1) + 1) \div 2
    BY <1>1, <1>2, <1>6 DEF MonthStart
  <2> HIDE DEF c3
  <2> QED BY <1>1, <1>2, <1>4, <2>3, <2>4, <2>5, <2>6 DEF CJDN
<1>7. CASE m >= 7
  <2>3. hebrew_to_cjdn(y, m, d) = 347821 + HebrewDays(w) + c3(n) + d - 1
    BY <1>2, <1>5, <1>7
  <2>4. PICK a, b \in 0..1 : /\ a = IF n \in {355, 385} THEN 1 ELSE 0
                             /\ b = IF n \in {353, 383} THEN 1 ELSE 0
    OBVIOUS
  <2>5. c8(n) = a /\ c9(n) = -b
    BY <1>1, <2>4
  <2>6. c3(n) = (384 * (m - 1) + 7) \div 13 + (IF m >= 9 THEN a ELSE 0) - (IF m >= 10 THEN b ELSE 0)
    <3>1. /\ m >= 9 => (m + 3) \div 12 = 1
          /\ m < 9 => (m + 3) \div 12 = 0
          /\ m >= 10 => (m + 2) \div 12 = 1
          /\ m < 10 => (m + 2) \div 12 = 0
      BY <1>2, <1>7
    <3> HIDE DEF c8, c9
    <3> QED BY <1>2, <2>4, <2>5, <3>1
  <2>7. (384 * (m - 1) + 7) \div 13 = 177 + (59 * (m - 7) + 1) \div 2 + (IF m = 13 THEN 1 ELSE 0)
    BY <1>2, <1>7
  <2>8. MonthStart(y, m) = ny + (59 * (m - 7) + 1) \div 2 + (IF m = 13 THEN 1 ELSE 0)
                             + (IF m >= 9 THEN a ELSE 0) - (IF m >= 10 THEN b ELSE 0)
    BY <1>1, <1>2, <1>7, <2>4 DEF MonthStart
  <2> HIDE DEF c3
  <2> QED BY <1>1, <1>2, <1>4, <2>3, <2>4, <2>6, <2>7, <2>8 DEF CJDN
<1> QED BY <1>2, <1>6, <1>7

-----------------------------------------------------------------------------

(* A month of a calendar, its first day, the days in it, and the date of a day
   in it. *)
HasMonth(ct, y, m) ==
  /\ y \in Int /\ (ct = "julian" => y # 0)
  /\ m \in 1..(IF ct = "hebrew" THEN last_month_of_hebrew_year(y) ELSE numberOfMonths(ct))

First(ct, t) == date_to_fixed(t[1], t[2], 1, ct)

End(ct, y, m) == First(ct, NextMonth(ct, y, m))

InMonth(ct, date, y, m) ==
  /\ HasMonth(ct, y, m)
  /\ First(ct, <<y, m>>) <= date /\ date < End(ct, y, m)

DateIn(ct, date, y, m) ==
  /\ InMonth(ct, date, y, m)
  /\ fixed_to_date(date, ct) = <<y, m, date - First(ct, <<y, m>>) + 1>>

(* What makes days follow each other: every date is in its month, no day is in
   two months, and one month follows another after 28 days or more, or after the
   5 or 6 of a 13th month. *)
MonthsHold(ct) == \A date \in Int : \E y, m \in Int : DateIn(ct, date, y, m)
MonthsApart(ct) ==
  \A date, y, m, z, n \in Int :
    InMonth(ct, date, y, m) /\ InMonth(ct, date, z, n) => y = z /\ m = n
Follows(ct, y, m, z, n) ==
  /\ NextMonth(ct, y, m) = <<z, n>> /\ HasMonth(ct, z, n)
  /\ First(ct, <<y, m>>) \in Int /\ First(ct, <<z, n>>) \in Int
  /\ \/ First(ct, <<z, n>>) - First(ct, <<y, m>>) >= 28
     \/ m = 13 /\ First(ct, <<z, n>>) - First(ct, <<y, m>>) \in {5, 6}
Followed(ct, y, m) == \E z, n \in Int : Follows(ct, y, m, z, n)
MonthsFollow(ct) == \A y, m \in Int : HasMonth(ct, y, m) => Followed(ct, y, m)

NextDate(ct, date, next) ==
  LET t == fixed_to_date(date, ct)
      u == fixed_to_date(next, ct)
  IN  \/ u = <<t[1], t[2], t[3] + 1>>
      \/ /\ u = NextMonth(ct, t[1], t[2]) \o <<1>>
         /\ t[3] >= 28 \/ (t[2] = 13 /\ t[3] \in {5, 6})

(* In a calendar like that every day's date is followed by its next date. *)
LEMMA NextDateFollows ==
  ASSUME NEW ct, MonthsHold(ct), MonthsApart(ct), MonthsFollow(ct), NEW date \in Int
  PROVE  NextDate(ct, date, date + 1)
<1>1. PICK next \in Int : next = date + 1
  OBVIOUS
<1>2. PICK y \in Int, m \in Int : DateIn(ct, date, y, m)
  BY DEF MonthsHold
<1>3. PICK a \in Int, b \in Int : DateIn(ct, next, a, b)
  BY DEF MonthsHold
<1>4. HasMonth(ct, y, m)
  BY <1>2 DEF DateIn, InMonth
<1>5. PICK z \in Int, n \in Int : Follows(ct, y, m, z, n)
  BY <1>4 DEF MonthsFollow, Followed
<1>6. PICK p \in Int, q \in Int : p = First(ct, <<y, m>>) /\ q = First(ct, <<z, n>>)
  BY <1>5 DEF Follows
<1>7. p <= date /\ date < q /\ fixed_to_date(date, ct) = <<y, m, date - p + 1>>
  BY <1>2, <1>5, <1>6 DEF DateIn, InMonth, Follows, End
<1>8. CASE next < q
  <2>1. InMonth(ct, next, y, m)
    BY <1>1, <1>4, <1>5, <1>6, <1>7, <1>8 DEF InMonth, Follows, End
  <2>2. a = y /\ b = m
    BY <1>3, <2>1 DEF MonthsApart, DateIn
  <2>3. fixed_to_date(next, ct) = <<y, m, next - p + 1>>
    BY <1>3, <1>6, <2>2 DEF DateIn
  <2>4. next - p + 1 = (date - p + 1) + 1
    BY <1>1
  <2> QED BY <1>1, <1>7, <2>3, <2>4 DEF NextDate
<1>9. CASE ~(next < q)
  <2>1. next = q
    BY <1>1, <1>7, <1>9
  <2>2. PICK v \in Int, w \in Int : Follows(ct, z, n, v, w)
    BY <1>5 DEF MonthsFollow, Followed, Follows
  <2>3. InMonth(ct, next, z, n)
    BY <1>5, <1>6, <2>1, <2>2 DEF InMonth, Follows, End
  <2>4. a = z /\ b = n
    BY <1>3, <2>3 DEF MonthsApart, DateIn
  <2>5. fixed_to_date(next, ct) = <<z, n, next - q + 1>> /\ next - q + 1 = 1
    BY <1>3, <1>6, <2>1, <2>4 DEF DateIn
  <2>6. fixed_to_date(next, ct) = NextMonth(ct, y, m) \o <<1>>
    <3>1. NextMonth(ct, y, m) = <<z, n>>
      BY <1>5 DEF Follows
    <3> QED BY <2>5, <3>1
  <2>7. date - p + 1 >= 28 \/ (m = 13 /\ date - p + 1 \in {5, 6})
    <3>1. q - p >= 28 \/ (m = 13 /\ q - p \in {5, 6})
      BY <1>5, <1>6 DEF Follows
    <3> QED BY <1>1, <2>1, <3>1
  <2> QED BY <1>1, <1>7, <2>6, <2>7, SMTT(60) DEF NextDate
<1> QED BY <1>8, <1>9

(* The month after a month, calendar by calendar. *)
LEMMA NextMonths ==
  ASSUME NEW y \in Int, NEW m \in Int
  PROVE  /\ \A ct \in {"gregorian", "milankovic", "islamic", "indian"} :
              NextMonth(ct, y, m) = IF m = 12 THEN <<y + 1, 1>> ELSE <<y, m + 1>>
         /\ \A ct \in {"egyptian", "coptic", "ethiopian"} :
              NextMonth(ct, y, m) = IF m = 13 THEN <<y + 1, 1>> ELSE <<y, m + 1>>
         /\ NextMonth("julian", y, m)
              = IF m = 12 THEN <<IF y = -1 THEN 1 ELSE y + 1, 1>> ELSE <<y, m + 1>>
  BY DEF NextMonth, numberOfMonths

(* The months of a year like the Gregorian, which begins with January, and the
   month found for a day of it, which has not ended before that day. *)
LEMMA MonthsOfYear ==
  ASSUME NEW leap \in BOOLEAN
  PROVE  /\ BeforeMonth(1, leap) = 0
         /\ BeforeMonth(13, leap) = IF leap THEN 366 ELSE 365
         /\ \A m \in 1..13 : BeforeMonth(m, leap) \in Int
         /\ \A m \in 1..12 : BeforeMonth(m + 1, leap) - BeforeMonth(m, leap) >= 28
         /\ \A m, n \in 1..12 : m < n => BeforeMonth(m + 1, leap) <= BeforeMonth(n, leap)
  BY DEF BeforeMonth, quotient

(* The month found for a day of a year begins no later than that day and ends after it. *)
LEMMA MonthNotOver ==
  ASSUME NEW p, NEW leap, DayOfYear(p, leap)
  PROVE  /\ p >= BeforeMonth(MonthOf(p, leap), leap)
         /\ p < BeforeMonth(MonthOf(p, leap) + 1, leap)
<1>1. BeforeMonth(3, leap) = IF leap THEN 60 ELSE 59
  BY DEF BeforeMonth, quotient, DayOfYear
<1> QED BY <1>1 DEF BeforeMonth, quotient, DayOfYear, MonthOf

(* A Gregorian year ends where the next begins, before any later year. *)
LEMMA Januaries ==
  ASSUME NEW y \in Int
  PROVE  /\ gregorian_to_fixed(y, 1, 1) \in Int
         /\ gregorian_to_fixed(y + 1, 1, 1)
              = gregorian_to_fixed(y, 1, 1) + (IF isLeapYear(y) THEN 366 ELSE 365)
         /\ \A z \in Int : y < z => gregorian_to_fixed(y + 1, 1, 1) <= gregorian_to_fixed(z, 1, 1)
<1>1. PICK next \in Int : next = y + 1
  OBVIOUS
<1>2. /\ gregorian_to_fixed(next, 1, 1) = 365 * y + y \div 4 - y \div 100 + y \div 400 + 1
      /\ gregorian_to_fixed(y, 1, 1)
           = 365 * (y - 1) + (y - 1) \div 4 - (y - 1) \div 100 + (y - 1) \div 400 + 1
  BY <1>1, January, SMT
<1>3. /\ y \div 4 = (y - 1) \div 4 + (IF y % 4 = 0 THEN 1 ELSE 0)
      /\ y \div 100 = (y - 1) \div 100 + (IF y % 100 = 0 THEN 1 ELSE 0)
      /\ y \div 400 = (y - 1) \div 400 + (IF y % 400 = 0 THEN 1 ELSE 0)
  BY SMT
<1>4. /\ y % 400 = 0 => y % 100 = 0
      /\ y % 100 = 0 => y % 4 = 0
  BY SMT
<1>5. gregorian_to_fixed(next, 1, 1)
        = gregorian_to_fixed(y, 1, 1) + (IF isLeapYear(y) THEN 366 ELSE 365)
  BY <1>2, <1>3, <1>4, SMT DEF isLeapYear
<1>6. ASSUME NEW z \in Int, y < z
      PROVE  gregorian_to_fixed(next, 1, 1) <= gregorian_to_fixed(z, 1, 1)
  <2>1. gregorian_to_fixed(z, 1, 1)
          = 365 * (z - 1) + (z - 1) \div 4 - (z - 1) \div 100 + (z - 1) \div 400 + 1
    BY January, SMT
  <2>2. CASE z = next
    BY <1>1, <1>2, <2>2, SMT
  <2>3. CASE z # next
    BY <1>1, <1>2, <1>6, <2>1, <2>3, SMT
  <2> QED BY <2>2, <2>3
<1>7. gregorian_to_fixed(y, 1, 1) \in Int
  BY <1>2, SMT
<1> QED BY <1>1, <1>5, <1>6, <1>7

(* Of two months the earlier is over when the other begins. *)
Ordered(ct) ==
  \A y, m, z, n \in Int :
    HasMonth(ct, y, m) /\ HasMonth(ct, z, n) /\ (y < z \/ (y = z /\ m < n)) =>
      /\ End(ct, y, m) \in Int /\ First(ct, <<z, n>>) \in Int
      /\ End(ct, y, m) <= First(ct, <<z, n>>)

(* No day is in two months of a calendar whose months are in order. *)
LEMMA OrderedMonths ==
  ASSUME NEW ct, Ordered(ct)
  PROVE  MonthsApart(ct)
<1> SUFFICES ASSUME NEW date \in Int, NEW y \in Int, NEW m \in Int, NEW z \in Int, NEW n \in Int,
                    InMonth(ct, date, y, m), InMonth(ct, date, z, n)
             PROVE  y = z /\ m = n
  BY DEF MonthsApart
<1>1. /\ HasMonth(ct, y, m) /\ First(ct, <<y, m>>) <= date /\ date < End(ct, y, m)
      /\ HasMonth(ct, z, n) /\ First(ct, <<z, n>>) <= date /\ date < End(ct, z, n)
  BY DEF InMonth
<1>2. ~(y < z \/ (y = z /\ m < n))
  <2> SUFFICES ASSUME y < z \/ (y = z /\ m < n) PROVE FALSE
    OBVIOUS
  <2>1. /\ End(ct, y, m) \in Int /\ First(ct, <<z, n>>) \in Int
        /\ End(ct, y, m) <= First(ct, <<z, n>>)
    BY <1>1 DEF Ordered
  <2> QED BY <1>1, <2>1
<1>3. ~(z < y \/ (z = y /\ n < m))
  <2> SUFFICES ASSUME z < y \/ (z = y /\ n < m) PROVE FALSE
    OBVIOUS
  <2>1. /\ End(ct, z, n) \in Int /\ First(ct, <<y, m>>) \in Int
        /\ End(ct, z, n) <= First(ct, <<y, m>>)
    BY <1>1 DEF Ordered
  <2> QED BY <1>1, <2>1
<1> QED BY <1>2, <1>3

(* A calendar of years Y, each followed by s[y], with k months in each: N[y] is the
   first day of a year, B[y][m] how many days of it are before the month m, and
   B[y][k + 1] how many it has. *)
Regular(ct, k, Y, s, N, B) ==
  /\ k \in {12, 13} /\ Y \subseteq Int
  /\ \A y \in Y : s[y] \in Y /\ y < s[y] /\ N[y] \in Int /\ N[s[y]] = N[y] + B[y][k + 1]
  /\ \A y \in Y, z \in Y : y < z => N[s[y]] <= N[z]
  /\ \A y \in Y : B[y][1] = 0
  /\ \A y \in Y : \A m \in 1..k + 1 : B[y][m] \in Int
  /\ \A y \in Y : \A m \in 1..k : B[y][m + 1] - B[y][m] >= 28
                                   \/ (m = 13 /\ B[y][m + 1] - B[y][m] \in {5, 6})
  /\ \A y \in Y : \A m, n \in 1..k : m < n => B[y][m + 1] <= B[y][n]
  /\ \A y, m \in Int : HasMonth(ct, y, m) <=> y \in Y /\ m \in 1..k
  /\ \A y \in Y : \A m \in 1..k :
       /\ First(ct, <<y, m>>) = N[y] + B[y][m]
       /\ NextMonth(ct, y, m) = IF m = k THEN <<s[y], 1>> ELSE <<y, m + 1>>

(* Where a month of such a calendar begins and ends. *)
Spans(ct, N, B, y, m) ==
  /\ First(ct, <<y, m>>) = N[y] + B[y][m]
  /\ End(ct, y, m) = N[y] + B[y][m + 1]
  /\ N[y] \in Int /\ B[y][m] \in Int /\ B[y][m + 1] \in Int
  /\ Followed(ct, y, m)

(* Each month of such a calendar spans the days to the first of the next. *)
LEMMA EndOfMonth ==
  ASSUME NEW ct, NEW k, NEW Y, NEW s, NEW N, NEW B, Regular(ct, k, Y, s, N, B),
         NEW y \in Y, NEW m \in 1..k
  PROVE  Spans(ct, N, B, y, m)
<1>1. /\ k \in {12, 13} /\ Y \subseteq Int /\ s[y] \in Y /\ N[y] \in Int /\ N[s[y]] = N[y] + B[y][k + 1]
      /\ N[s[y]] \in Int
      /\ First(ct, <<y, m>>) = N[y] + B[y][m]
      /\ NextMonth(ct, y, m) = IF m = k THEN <<s[y], 1>> ELSE <<y, m + 1>>
  BY DEF Regular
<1>2. m \in Int /\ m + 1 \in Int /\ m \in 1..k + 1 /\ m + 1 \in 1..k + 1
  BY <1>1
<1>3. /\ B[y][m] \in Int /\ B[y][m + 1] \in Int
      /\ B[y][m + 1] - B[y][m] >= 28 \/ (m = 13 /\ B[y][m + 1] - B[y][m] \in {5, 6})
  BY <1>2 DEF Regular
<1>4. \A z \in Y : \A n \in 1..k : HasMonth(ct, z, n)
  BY <1>1 DEF Regular
<1>5. CASE m = k
  <2>0. s[y] \in Y /\ 1 \in 1..k
    BY <1>1
  <2>1. PICK z \in Y : \E n \in 1..k : z = s[y] /\ n = 1
    BY <2>0
  <2>7. PICK n \in 1..k : z = s[y] /\ n = 1
    BY <2>1
  <2>2. /\ First(ct, <<z, n>>) = N[z] + B[z][n] /\ B[z][n] = 0
    BY <2>7 DEF Regular
  <2>3. First(ct, <<z, n>>) = N[y] + B[y][m + 1]
    BY <1>1, <1>3, <1>5, <2>7, <2>2
  <2>4. NextMonth(ct, y, m) = <<z, n>>
    BY <1>1, <1>5, <2>7
  <2>5. z \in Int /\ n \in Int
    BY <1>1, <2>7
  <2>6. Follows(ct, y, m, z, n)
    BY <1>1, <1>3, <1>4, <2>3, <2>4 DEF Follows
  <2> QED BY <1>1, <1>3, <2>3, <2>4, <2>5, <2>6 DEF Followed, Spans, End
<1>6. CASE m # k
  <2>1. PICK n \in 1..k : n = m + 1
    BY <1>1, <1>6
  <2>2. First(ct, <<y, n>>) = N[y] + B[y][n]
    BY <2>1 DEF Regular
  <2>3. First(ct, <<y, n>>) = N[y] + B[y][m + 1]
    BY <2>1, <2>2
  <2>4. NextMonth(ct, y, m) = <<y, n>>
    BY <1>1, <1>6, <2>1
  <2>5. y \in Int /\ n \in Int
    BY <1>1, <2>1
  <2>6. Follows(ct, y, m, y, n)
    BY <1>1, <1>3, <1>4, <2>3, <2>4 DEF Follows
  <2> QED BY <1>1, <1>3, <2>3, <2>4, <2>5, <2>6 DEF Followed, Spans, End
<1> QED BY <1>5, <1>6

(* The months of such a calendar follow each other, and no day is in two. *)
LEMMA RegularFollows ==
  ASSUME NEW ct, NEW k, NEW Y, NEW s, NEW N, NEW B, Regular(ct, k, Y, s, N, B)
  PROVE  MonthsFollow(ct) /\ MonthsApart(ct)
<1>1. MonthsFollow(ct)
  <2> SUFFICES ASSUME NEW y \in Int, NEW m \in Int, HasMonth(ct, y, m)
               PROVE  Followed(ct, y, m)
    BY DEF MonthsFollow
  <2>1. y \in Y /\ m \in 1..k
    BY DEF Regular
  <2> QED BY <2>1, EndOfMonth DEF Spans
<1>2. Ordered(ct)
  <2> SUFFICES ASSUME NEW y \in Int, NEW m \in Int, NEW z \in Int, NEW n \in Int,
                      HasMonth(ct, y, m), HasMonth(ct, z, n), y < z \/ (y = z /\ m < n)
               PROVE  /\ End(ct, y, m) \in Int /\ First(ct, <<z, n>>) \in Int
                      /\ End(ct, y, m) <= First(ct, <<z, n>>)
    BY DEF Ordered
  <2>1. y \in Y /\ m \in 1..k /\ z \in Y /\ n \in 1..k /\ k \in {12, 13}
    BY DEF Regular
  <2>6. Spans(ct, N, B, y, m) /\ Spans(ct, N, B, z, n)
    BY <2>1, EndOfMonth
  <2>2. /\ End(ct, y, m) = N[y] + B[y][m + 1]
        /\ N[y] \in Int /\ B[y][m + 1] \in Int
    BY <2>6 DEF Spans
  <2>3. /\ First(ct, <<z, n>>) = N[z] + B[z][n]
        /\ N[z] \in Int /\ B[z][n] \in Int
    BY <2>6 DEF Spans
  <2>4. CASE y < z
    <3>1. PICK last \in Int : last = k + 1
      BY <2>1
    <3>2. PICK end \in Int : end = B[y][last]
      BY <2>1, <3>1 DEF Regular
    <3>3. N[s[y]] <= N[z] /\ N[s[y]] = N[y] + end
      BY <2>1, <2>4, <3>1, <3>2 DEF Regular
    <3>4. B[y][m + 1] <= end
      <4>1. CASE m = k
        BY <2>2, <3>1, <3>2, <4>1
      <4>2. CASE m # k
        <5>1. k \in 1..k /\ m < k
          BY <2>1, <4>2
        <5>2. B[y][m + 1] <= B[y][k] /\ B[y][k] \in Int
          BY <2>1, <5>1 DEF Regular
        <5>3. B[y][k + 1] - B[y][k] >= 28 \/ B[y][k + 1] - B[y][k] \in {5, 6}
          BY <2>1, <5>1 DEF Regular
        <5> QED BY <2>2, <3>1, <3>2, <5>2, <5>3
      <4> QED BY <4>1, <4>2
    <3>5. B[z][n] >= 0
      <4>1. CASE n = 1
        BY <2>1, <4>1 DEF Regular
      <4>2. CASE n # 1
        <5>1. PICK one \in 1..k : one = 1 /\ one < n
          BY <2>1, <4>2
        <5>2. B[z][one + 1] <= B[z][n] /\ B[z][one] = 0
          BY <2>1, <5>1 DEF Regular
        <5>3. B[z][one + 1] \in Int /\ B[z][one + 1] - B[z][one] >= 28
          BY <2>1, <5>1, EndOfMonth DEF Regular
        <5> QED BY <2>3, <5>2, <5>3
      <4> QED BY <4>1, <4>2
    <3> QED BY <2>2, <2>3, <3>2, <3>3, <3>4, <3>5
  <2>5. CASE y = z /\ m < n
    <3>1. B[y][m + 1] <= B[y][n]
      BY <2>1, <2>5 DEF Regular
    <3> QED BY <2>2, <2>3, <2>5, <3>1
  <2> QED BY <2>4, <2>5
<1> QED BY <1>1, <1>2, OrderedMonths

(* Such a calendar whose years begin with January. *)
JanuaryFirst(ct, Y, s, N, L) ==
  /\ Y \subseteq Int
  /\ \A y \in Y : /\ s[y] \in Y /\ y < s[y] /\ N[y] \in Int /\ L[y] \in BOOLEAN
                  /\ N[s[y]] = N[y] + IF L[y] THEN 366 ELSE 365
  /\ \A y \in Y, z \in Y : y < z => N[s[y]] <= N[z]
  /\ \A y, m \in Int : HasMonth(ct, y, m) <=> y \in Y /\ m \in 1..12
  /\ \A y \in Y : \A m \in 1..12 :
       /\ First(ct, <<y, m>>) = N[y] + BeforeMonth(m, L[y])
       /\ NextMonth(ct, y, m) = IF m = 12 THEN <<s[y], 1>> ELSE <<y, m + 1>>

(* How such a year is divided. *)
Divided(b, leap) ==
  /\ b[1] = 0 /\ b[13] = IF leap THEN 366 ELSE 365
  /\ \A m \in 1..13 : b[m] \in Int /\ b[m] = BeforeMonth(m, leap)
  /\ \A m \in 1..12 : b[m + 1] - b[m] >= 28
  /\ \A m, n \in 1..12 : m < n => b[m + 1] <= b[n]

(* The twelve months divide the year so, leap year or not. *)
LEMMA YearIsDivided ==
  ASSUME NEW leap \in BOOLEAN, NEW b, b = [m \in 1..13 |-> BeforeMonth(m, leap)]
  PROVE  Divided(b, leap)
<1>1. \A m \in 1..13 : b[m] = BeforeMonth(m, leap)
  OBVIOUS
<1>2. \A m \in 1..12 : b[m] = BeforeMonth(m, leap) /\ b[m + 1] = BeforeMonth(m + 1, leap)
  BY <1>1
<1>3. /\ BeforeMonth(1, leap) = 0
      /\ BeforeMonth(13, leap) = IF leap THEN 366 ELSE 365
      /\ \A m \in 1..13 : BeforeMonth(m, leap) \in Int
      /\ \A m \in 1..12 : BeforeMonth(m + 1, leap) - BeforeMonth(m, leap) >= 28
      /\ \A m, n \in 1..12 : m < n => BeforeMonth(m + 1, leap) <= BeforeMonth(n, leap)
  BY MonthsOfYear
<1>4. b[1] = 0 /\ b[13] = IF leap THEN 366 ELSE 365
  BY <1>1, <1>3
<1>5. \A m \in 1..13 : b[m] \in Int /\ b[m] = BeforeMonth(m, leap)
  BY <1>1, <1>3
<1>6. \A m \in 1..12 : b[m + 1] - b[m] >= 28
  BY <1>2, <1>3
<1>7. \A m, n \in 1..12 : m < n => b[m + 1] <= b[n]
  BY <1>2, <1>3
<1> QED BY ONLY <1>4, <1>5, <1>6, <1>7 DEF Divided

(* Years that begin with January follow each other regularly. *)
LEMMA JanuaryIsRegular ==
  ASSUME NEW ct, NEW Y, NEW s, NEW N, NEW L, JanuaryFirst(ct, Y, s, N, L)
  PROVE  \E B : Regular(ct, 12, Y, s, N, B)
<1>1. PICK B : B = [y \in Y |-> [m \in 1..13 |-> BeforeMonth(m, L[y])]]
  OBVIOUS
<1>2. ASSUME NEW y \in Y PROVE Divided(B[y], L[y])
  <2>1. PICK leap \in BOOLEAN : leap = L[y]
    BY DEF JanuaryFirst
  <2>2. B[y] = [m \in 1..13 |-> BeforeMonth(m, leap)]
    BY <1>1, <2>1
  <2>3. PICK b : b = B[y]
    OBVIOUS
  <2>4. Divided(b, leap)
    BY <2>2, <2>3, YearIsDivided
  <2> QED BY <2>1, <2>3, <2>4
<1>3. ASSUME NEW y \in Y, NEW m \in 1..12 PROVE First(ct, <<y, m>>) = N[y] + B[y][m]
  <2>1. First(ct, <<y, m>>) = N[y] + BeforeMonth(m, L[y])
    BY DEF JanuaryFirst
  <2>2. m \in 1..13
    OBVIOUS
  <2>3. B[y][m] = BeforeMonth(m, L[y])
    BY <1>2, <2>2 DEF Divided
  <2> QED BY <2>1, <2>3
<1>4. ASSUME NEW y \in Y PROVE N[s[y]] = N[y] + B[y][13]
  <2>1. N[s[y]] = N[y] + IF L[y] THEN 366 ELSE 365
    BY DEF JanuaryFirst
  <2>2. B[y][13] = IF L[y] THEN 366 ELSE 365
    BY <1>2 DEF Divided
  <2> QED BY <2>1, <2>2
<1>5. ASSUME NEW y \in Y
      PROVE  /\ B[y][1] = 0
             /\ \A m \in 1..13 : B[y][m] \in Int
             /\ \A m \in 1..12 : B[y][m + 1] - B[y][m] >= 28
             /\ \A m, n \in 1..12 : m < n => B[y][m + 1] <= B[y][n]
  BY <1>2 DEF Divided
<1>6. /\ 12 \in {12, 13} /\ Y \subseteq Int
      /\ \A y \in Y : s[y] \in Y /\ y < s[y] /\ N[y] \in Int
      /\ \A y \in Y, z \in Y : y < z => N[s[y]] <= N[z]
      /\ \A y, m \in Int : HasMonth(ct, y, m) <=> y \in Y /\ m \in 1..12
      /\ \A y \in Y : \A m \in 1..12 :
           NextMonth(ct, y, m) = IF m = 12 THEN <<s[y], 1>> ELSE <<y, m + 1>>
  BY ZenonT(60) DEF JanuaryFirst
<1>7. PICK k \in {12} : k = 12 /\ k + 1 = 13
  OBVIOUS
<1>8. /\ \A y \in Y : s[y] \in Y /\ y < s[y] /\ N[y] \in Int /\ N[s[y]] = N[y] + B[y][k + 1]
      /\ \A y \in Y : B[y][1] = 0
      /\ \A y \in Y : \A m \in 1..k + 1 : B[y][m] \in Int
      /\ \A y \in Y : \A m \in 1..k : B[y][m + 1] - B[y][m] >= 28
                                       \/ (m = 13 /\ B[y][m + 1] - B[y][m] \in {5, 6})
      /\ \A y \in Y : \A m, n \in 1..k : m < n => B[y][m + 1] <= B[y][n]
  <2>1. \A y \in Y : s[y] \in Y /\ y < s[y] /\ N[y] \in Int /\ N[s[y]] = N[y] + B[y][k + 1]
    BY <1>4, <1>6, <1>7
  <2>2. \A y \in Y : B[y][1] = 0
    BY <1>5
  <2>3. \A y \in Y : \A m \in 1..k + 1 : B[y][m] \in Int
    BY <1>5, <1>7
  <2>4. \A y \in Y : \A m \in 1..k : B[y][m + 1] - B[y][m] >= 28
    BY <1>5, <1>7
  <2>5. \A y \in Y : \A m, n \in 1..k : m < n => B[y][m + 1] <= B[y][n]
    BY <1>5, <1>7
  <2> QED BY <2>1, <2>2, <2>3, <2>4, <2>5
<1>9. /\ \A y \in Y : \A m \in 1..k : 
           /\ First(ct, <<y, m>>) = N[y] + B[y][m]
           /\ NextMonth(ct, y, m) = IF m = k THEN <<s[y], 1>> ELSE <<y, m + 1>>
      /\ \A y, m \in Int : HasMonth(ct, y, m) <=> y \in Y /\ m \in 1..k
      /\ k \in {12, 13}
  BY <1>3, <1>6, <1>7
<1>10. Regular(ct, k, Y, s, N, B)
  BY ONLY <1>6, <1>8, <1>9 DEF Regular
<1> QED BY <1>7, <1>10

(* What has to be known of a calendar. *)
GoesOn(ct) == MonthsHold(ct) /\ MonthsApart(ct) /\ MonthsFollow(ct)

(* A regular calendar goes on when every day is in a month of it. *)
LEMMA RegularGoesOn ==
  ASSUME NEW ct, NEW k, NEW Y, NEW s, NEW N, NEW B, Regular(ct, k, Y, s, N, B),
         \A date \in Int : \E y, m \in Int : DateIn(ct, date, y, m)
  PROVE  GoesOn(ct)
  BY RegularFollows DEF GoesOn, MonthsHold

(* The day p of a year is in the month that MonthOf finds. *)
JanuaryDay(ct, N, L, date, y, p) ==
  /\ p = date - N[y] /\ DayOfYear(p, L[y])
  /\ fixed_to_date(date, ct)
       = <<y, MonthOf(p, L[y]), date - First(ct, <<y, MonthOf(p, L[y])>>) + 1>>

(* A day whose date is found by MonthOf is in the month found. *)
LEMMA JanuaryDateIn ==
  ASSUME NEW ct, NEW Y, NEW s, NEW N, NEW L, JanuaryFirst(ct, Y, s, N, L),
         NEW date \in Int, NEW y \in Y, NEW p, JanuaryDay(ct, N, L, date, y, p)
  PROVE  \E z, n \in Int : DateIn(ct, date, z, n)
<1>1. PICK leap \in BOOLEAN : leap = L[y]
  BY DEF JanuaryFirst
<1>2. DayOfYear(p, leap) /\ p = date - N[y]
  BY <1>1 DEF JanuaryDay
<1>3. PICK m \in 1..12 : m = MonthOf(p, leap)
  BY <1>2, MonthOfDay
<1>4. /\ BeforeMonth(m, leap) <= p /\ p < BeforeMonth(m + 1, leap)
      /\ BeforeMonth(m, leap) \in Int /\ BeforeMonth(m + 1, leap) \in Int
  <2>1. /\ p >= BeforeMonth(MonthOf(p, leap), leap)
        /\ p < BeforeMonth(MonthOf(p, leap) + 1, leap)
    BY <1>2, MonthNotOver
  <2>2. m + 1 = MonthOf(p, leap) + 1
    BY <1>3
  <2>3. BeforeMonth(m, leap) \in Int /\ BeforeMonth(m + 1, leap) \in Int
    BY SMT DEF BeforeMonth, quotient
  <2> QED BY <1>3, <2>1, <2>2, <2>3
<1>5. /\ First(ct, <<y, m>>) = N[y] + BeforeMonth(m, leap)
      /\ NextMonth(ct, y, m) = IF m = 12 THEN <<s[y], 1>> ELSE <<y, m + 1>>
      /\ N[y] \in Int /\ s[y] \in Y
      /\ N[s[y]] = N[y] + IF leap THEN 366 ELSE 365
  <2>1. N[s[y]] = N[y] + IF leap THEN 366 ELSE 365
    <3>1. N[s[y]] = N[y] + IF L[y] THEN 366 ELSE 365
      BY DEF JanuaryFirst
    <3> QED BY <1>1, <3>1
  <2>2. First(ct, <<y, m>>) = N[y] + BeforeMonth(m, L[y])
    BY DEF JanuaryFirst
  <2>3. /\ NextMonth(ct, y, m) = IF m = 12 THEN <<s[y], 1>> ELSE <<y, m + 1>>
        /\ N[y] \in Int /\ s[y] \in Y
    BY ZenonT(60) DEF JanuaryFirst
  <2> QED BY <1>1, <2>1, <2>2, <2>3
<1>6. /\ BeforeMonth(1, leap) = 0 /\ BeforeMonth(13, leap) = IF leap THEN 366 ELSE 365
  BY MonthsOfYear
<1>7. End(ct, y, m) = N[y] + BeforeMonth(m + 1, leap)
  <2>1. CASE m = 12
    <3>1. PICK z \in Y : z = s[y] /\ N[z] = N[y] + BeforeMonth(13, leap)
      BY <1>5, <1>6
    <3>2. L[z] \in BOOLEAN /\ N[z] \in Int /\ 1 \in 1..12
      BY DEF JanuaryFirst
    <3>3. First(ct, <<z, 1>>) = N[z] + BeforeMonth(1, L[z])
      BY <3>2 DEF JanuaryFirst
    <3>4. BeforeMonth(1, L[z]) = 0
      BY <3>2, MonthsOfYear
    <3>5. First(ct, <<z, 1>>) = N[z]
      BY <3>2, <3>3, <3>4
    <3>6. m + 1 = 13
      BY <2>1
    <3> QED BY <1>5, <2>1, <3>1, <3>5, <3>6 DEF End
  <2>2. CASE m # 12
    <3>1. PICK n \in 1..12 : n = m + 1
      BY <2>2
    <3>2. First(ct, <<y, n>>) = N[y] + BeforeMonth(n, leap)
      BY <1>1 DEF JanuaryFirst
    <3> QED BY <1>5, <2>2, <3>1, <3>2 DEF End
  <2> QED BY <2>1, <2>2
<1>8. HasMonth(ct, y, m) /\ y \in Int /\ date = N[y] + p
  <2>1. y \in Int
    BY DEF JanuaryFirst
  <2>2. HasMonth(ct, y, m)
    BY <2>1 DEF JanuaryFirst
  <2>3. date = N[y] + p
    BY <1>2, <1>5 DEF DayOfYear
  <2> QED BY <2>1, <2>2, <2>3
<1>9. p \in Int
  BY <1>2 DEF DayOfYear
<1>10. fixed_to_date(date, ct) = <<y, m, date - First(ct, <<y, m>>) + 1>>
  BY <1>1, <1>3 DEF JanuaryDay
<1>11. First(ct, <<y, m>>) <= date /\ date < End(ct, y, m)
  BY <1>4, <1>5, <1>7, <1>8, <1>9
<1>12. DateIn(ct, date, y, m)
  BY <1>8, <1>10, <1>11 DEF DateIn, InMonth, End
<1> QED BY <1>8, <1>12

(* The Gregorian calendar. *)
Successor == [y \in Int |-> y + 1]
GregorianNewYear == [y \in Int |-> gregorian_to_fixed(y, 1, 1)]
GregorianLeap == [y \in Int |-> isLeapYear(y)]

(* The first of a month by the days of its year before it. *)
LEMMA GregorianMonths ==
  ASSUME NEW y \in Int, NEW m \in 1..13
  PROVE  gregorian_to_fixed(y, m, 1) = gregorian_to_fixed(y, 1, 1) + BeforeMonth(m, isLeapYear(y))
<1>1. PICK leap \in BOOLEAN : leap = isLeapYear(y)
  BY January
<1> QED BY <1>1, SMT DEF gregorian_to_fixed, BeforeMonth, quotient

(* Gregorian years begin with January. *)
LEMMA GregorianJanuary ==
  JanuaryFirst("gregorian", Int, Successor, GregorianNewYear, GregorianLeap)
<1>1. PICK ct : ct = "gregorian"
  OBVIOUS
<1>3. PICK s, N, L : s = Successor /\ N = GregorianNewYear /\ L = GregorianLeap
  OBVIOUS
<1>4. ASSUME NEW y \in Int
      PROVE  /\ s[y] = y + 1 /\ L[y] = isLeapYear(y) /\ L[y] \in BOOLEAN
             /\ N[y] = gregorian_to_fixed(y, 1, 1)
             /\ N[s[y]] = gregorian_to_fixed(y + 1, 1, 1)
  BY <1>3, January DEF Successor, GregorianNewYear, GregorianLeap
<1>5. ASSUME NEW y \in Int
      PROVE  /\ N[y] \in Int
             /\ N[s[y]] = N[y] + IF L[y] THEN 366 ELSE 365
             /\ \A z \in Int : y < z => N[s[y]] <= N[z]
  <2>1. PICK next \in Int : next = y + 1
    OBVIOUS
  <2>2. /\ gregorian_to_fixed(y, 1, 1) \in Int
        /\ gregorian_to_fixed(next, 1, 1)
              = gregorian_to_fixed(y, 1, 1) + (IF isLeapYear(y) THEN 366 ELSE 365)
        /\ \A z \in Int : y < z => gregorian_to_fixed(next, 1, 1) <= gregorian_to_fixed(z, 1, 1)
    BY <2>1, Januaries
  <2>3. N[s[y]] = gregorian_to_fixed(next, 1, 1)
    BY <2>1, <1>4
  <2> QED BY <2>2, <2>3, <1>4
<1>6. ASSUME NEW y \in Int, NEW m \in 1..12
      PROVE  /\ First(ct, <<y, m>>) = N[y] + BeforeMonth(m, L[y])
             /\ NextMonth(ct, y, m) = IF m = 12 THEN <<s[y], 1>> ELSE <<y, m + 1>>
  <2>1. First(ct, <<y, m>>) = gregorian_to_fixed(y, m, 1)
    BY <1>1, Conversions DEF First
  <2>2. gregorian_to_fixed(y, m, 1) = gregorian_to_fixed(y, 1, 1) + BeforeMonth(m, isLeapYear(y))
    BY GregorianMonths
  <2>3. NextMonth(ct, y, m) = IF m = 12 THEN <<y + 1, 1>> ELSE <<y, m + 1>>
    BY <1>1, NextMonths
  <2> QED BY <1>4, <2>1, <2>2, <2>3
<1>7. \A y, m \in Int : HasMonth(ct, y, m) <=> y \in Int /\ m \in 1..12
  BY <1>1, NumbersOfMonths DEF HasMonth
<1>8. JanuaryFirst(ct, Int, s, N, L)
  <2>1. \A y \in Int : /\ s[y] \in Int /\ y < s[y] /\ N[y] \in Int /\ L[y] \in BOOLEAN
                    /\ N[s[y]] = N[y] + IF L[y] THEN 366 ELSE 365
    BY <1>4, <1>5
  <2>2. \A y \in Int, z \in Int : y < z => N[s[y]] <= N[z]
    BY <1>5
  <2>3. \A y \in Int : \A m \in 1..12 :
          /\ First(ct, <<y, m>>) = N[y] + BeforeMonth(m, L[y])
          /\ NextMonth(ct, y, m) = IF m = 12 THEN <<s[y], 1>> ELSE <<y, m + 1>>
    BY <1>6
  <2> QED BY ONLY <1>7, <2>1, <2>2, <2>3 DEF JanuaryFirst
<1> QED BY <1>1, <1>3, <1>8

(* The Gregorian calendar goes on. *)
LEMMA GregorianGoesOn == GoesOn("gregorian")
<1>0. PICK ct : ct = "gregorian"
  OBVIOUS
<1>1. PICK s, N, L : /\ s = Successor /\ N = GregorianNewYear /\ L = GregorianLeap
                     /\ JanuaryFirst(ct, Int, s, N, L)
  BY <1>0, GregorianJanuary
<1>2. ASSUME NEW date \in Int PROVE \E y, m \in Int : DateIn(ct, date, y, m)
  <2>1. PICK y \in Int : y = gregorian_year_from_fixed(date)
    BY GregorianYear
  <2>2. PICK leap \in BOOLEAN : leap = isLeapYear(y)
    BY January
  <2>3. PICK jan \in Int, p \in Int :
          jan = gregorian_to_fixed(y, 1, 1) /\ p = date - jan /\ DayOfYear(p, leap)
    <3>1. /\ 0 <= date - gregorian_to_fixed(y, 1, 1)
          /\ date - gregorian_to_fixed(y, 1, 1) <= IF leap THEN 365 ELSE 364
      BY <2>1, <2>2, GregorianYear
    <3>2. gregorian_to_fixed(y, 1, 1) \in Int
      BY <2>1, January
    <3> QED BY <3>1, <3>2 DEF DayOfYear
  <2>4. PICK m \in 1..12 : m = MonthOf(p, leap)
    BY <2>3, MonthOfDay
  <2>5. date < gregorian_to_fixed(y, 3, 1) <=> p < BeforeMonth(3, leap)
    <3>1. BeforeMonth(3, leap) \in Int
      BY SMT DEF BeforeMonth, quotient
    <3>2. gregorian_to_fixed(y, 3, 1) = jan + BeforeMonth(3, leap)
      BY <2>2, <2>3, GregorianMonths, SMT
    <3> QED BY <2>3, <3>1, <3>2, SMT
  <2>6. fixed_to_gregorian(date) = <<y, m, date - gregorian_to_fixed(y, m, 1) + 1>>
    BY <2>1, <2>2, <2>3, <2>4, <2>5, SMT DEF fixed_to_gregorian, InYear, MonthOf
  <2>7. fixed_to_date(date, ct) = <<y, m, date - First(ct, <<y, m>>) + 1>>
    BY <1>0, <2>6, Conversions DEF First
  <2>8. N[y] = jan /\ L[y] = leap
    BY <1>1, <2>2, <2>3 DEF GregorianNewYear, GregorianLeap
  <2>9. JanuaryDay(ct, N, L, date, y, p)
    BY <2>3, <2>4, <2>7, <2>8 DEF JanuaryDay
  <2> QED BY <1>1, <2>9, JanuaryDateIn
<1>3. PICK B : Regular(ct, 12, Int, s, N, B)
  BY <1>1, JanuaryIsRegular
<1> QED BY <1>0, <1>2, <1>3, RegularGoesOn

(* The Julian calendar, which has no year 0. *)
JulianYears == Int \ {0}
JulianSuccessor == [y \in JulianYears |-> IF y = -1 THEN 1 ELSE y + 1]
JulianNewYear == [y \in JulianYears |-> julian_to_fixed(y, 1, 1)]
JulianLeap == [y \in JulianYears |-> julian_leap_year(y)]

(* The first of a Julian month by the days of its year before it. *)
LEMMA JulianMonths ==
  ASSUME NEW y \in Int, NEW m \in 1..13
  PROVE  /\ julian_leap_year(y) \in BOOLEAN /\ julian_to_fixed(y, 1, 1) \in Int
         /\ julian_to_fixed(y, m, 1) = julian_to_fixed(y, 1, 1) + BeforeMonth(m, julian_leap_year(y))
<1>1. PICK leap \in BOOLEAN : leap = julian_leap_year(y)
  BY DEF julian_leap_year
<1> QED BY <1>1, SMT DEF julian_to_fixed, BeforeMonth, quotient, JULIAN_EPOCH

(* A Julian year ends where the next begins, the year -1 where the year 1 does. *)
LEMMA JulianNewYears ==
  ASSUME NEW y \in JulianYears, NEW next \in JulianYears, next = IF y = -1 THEN 1 ELSE y + 1
  PROVE  /\ julian_to_fixed(next, 1, 1)
              = julian_to_fixed(y, 1, 1) + IF julian_leap_year(y) THEN 366 ELSE 365
         /\ \A z \in JulianYears :
              y < z => julian_to_fixed(next, 1, 1) <= julian_to_fixed(z, 1, 1)
<1>1. \A z \in Int : julian_to_fixed(z, 1, 1)
                       = -1 + 365 * (IF z < 0 THEN z ELSE z - 1) + (IF z < 0 THEN z ELSE z - 1) \div 4
  BY SMT DEF julian_to_fixed, BeforeMonth, quotient, JULIAN_EPOCH
<1>2. y \in Int /\ y # 0 /\ next \in Int /\ next # 0
  BY DEF JulianYears
<1>3. PICK a \in Int, b \in Int : /\ a = (IF y < 0 THEN y ELSE y - 1)
                                  /\ b = (IF next < 0 THEN next ELSE next - 1)
  BY <1>2
<1>4. b = a + 1
  BY <1>2, <1>3
<1>5. b \div 4 = a \div 4 + (IF b % 4 = 0 THEN 1 ELSE 0)
  BY <1>4, SMT
<1>6. julian_leap_year(y) <=> b % 4 = 0
  BY <1>2, <1>3, <1>4, SMT DEF julian_leap_year
<1>7. julian_to_fixed(next, 1, 1) = -1 + 365 * b + b \div 4
  BY <1>1, <1>2, <1>3
<1>8. julian_to_fixed(y, 1, 1) = -1 + 365 * a + a \div 4
  BY <1>1, <1>2, <1>3
<1>9. julian_to_fixed(next, 1, 1)
        = julian_to_fixed(y, 1, 1) + IF julian_leap_year(y) THEN 366 ELSE 365
  BY <1>4, <1>5, <1>6, <1>7, <1>8, SMT
<1>10. ASSUME NEW z \in JulianYears, y < z
       PROVE  julian_to_fixed(next, 1, 1) <= julian_to_fixed(z, 1, 1)
  <2>1. z \in Int /\ z # 0
    BY DEF JulianYears
  <2>2. PICK c \in Int : c = (IF z < 0 THEN z ELSE z - 1)
    BY <2>1
  <2>3. julian_to_fixed(z, 1, 1) = -1 + 365 * c + c \div 4
    BY <1>1, <2>1, <2>2
  <2>4. b <= c
    BY <1>2, <1>3, <1>10, <2>1, <2>2
  <2>5. b \div 4 <= c \div 4
    BY <2>4, SMT
  <2> QED BY <1>7, <2>3, <2>4, <2>5, SMT
<1> QED BY <1>9, <1>10

(* Julian years begin with January. *)
LEMMA JulianJanuary ==
  JanuaryFirst("julian", JulianYears, JulianSuccessor, JulianNewYear, JulianLeap)
<1>1. PICK ct : ct = "julian"
  OBVIOUS
<1>2. PICK Y : Y = JulianYears /\ Y = Int \ {0}
  BY DEF JulianYears
<1>3. PICK s, N, L : s = JulianSuccessor /\ N = JulianNewYear /\ L = JulianLeap
  OBVIOUS
<1>4. ASSUME NEW y \in Y
      PROVE  /\ y \in Int /\ s[y] \in Y /\ s[y] = IF y = -1 THEN 1 ELSE y + 1
             /\ L[y] = julian_leap_year(y) /\ L[y] \in BOOLEAN
             /\ N[y] = julian_to_fixed(y, 1, 1) /\ N[y] \in Int
  <2>1. s[y] = IF y = -1 THEN 1 ELSE y + 1
    BY <1>2, <1>3 DEF JulianSuccessor
  <2>2. L[y] = julian_leap_year(y) /\ N[y] = julian_to_fixed(y, 1, 1)
    BY <1>2, <1>3 DEF JulianLeap, JulianNewYear
  <2>3. y \in Int /\ 1 \in 1..13
    BY <1>2
  <2>4. julian_leap_year(y) \in BOOLEAN /\ julian_to_fixed(y, 1, 1) \in Int
    BY <2>3, JulianMonths
  <2>5. s[y] \in Y
    BY <1>2, <2>1, <2>3
  <2> QED BY <2>1, <2>2, <2>3, <2>4, <2>5
<1>5. ASSUME NEW y \in Y
      PROVE  /\ N[s[y]] = N[y] + IF L[y] THEN 366 ELSE 365
             /\ \A z \in Y : y < z => N[s[y]] <= N[z]
  <2>1. PICK next \in Y : next = s[y]
    BY <1>4
  <2>2. y \in JulianYears /\ next \in JulianYears /\ next = IF y = -1 THEN 1 ELSE y + 1
    BY <1>2, <1>4, <2>1
  <2>3. /\ julian_to_fixed(next, 1, 1)
              = julian_to_fixed(y, 1, 1) + IF julian_leap_year(y) THEN 366 ELSE 365
        /\ \A z \in JulianYears :
              y < z => julian_to_fixed(next, 1, 1) <= julian_to_fixed(z, 1, 1)
    BY <2>2, JulianNewYears
  <2>4. N[next] = julian_to_fixed(next, 1, 1)
    BY <1>4
  <2> QED BY <1>2, <1>4, <2>1, <2>3, <2>4
<1>6. ASSUME NEW y \in Y, NEW m \in 1..12
      PROVE  /\ First(ct, <<y, m>>) = N[y] + BeforeMonth(m, L[y])
             /\ NextMonth(ct, y, m) = IF m = 12 THEN <<s[y], 1>> ELSE <<y, m + 1>>
  <2>1. First(ct, <<y, m>>) = julian_to_fixed(y, m, 1)
    BY <1>1, Conversions DEF First
  <2>2. julian_to_fixed(y, m, 1) = julian_to_fixed(y, 1, 1) + BeforeMonth(m, julian_leap_year(y))
    BY <1>4, JulianMonths
  <2>3. NextMonth(ct, y, m) = IF m = 12 THEN <<IF y = -1 THEN 1 ELSE y + 1, 1>> ELSE <<y, m + 1>>
    <3>1. y \in Int /\ m \in Int
      BY <1>4
    <3>2. NextMonth("julian", y, m)
            = IF m = 12 THEN <<IF y = -1 THEN 1 ELSE y + 1, 1>> ELSE <<y, m + 1>>
      BY <3>1, NextMonths
    <3> QED BY <1>1, <3>2
  <2> QED BY <1>4, <2>1, <2>2, <2>3
<1>7. \A y, m \in Int : HasMonth(ct, y, m) <=> y \in Y /\ m \in 1..12
  BY <1>1, <1>2, NumbersOfMonths DEF HasMonth
<1>8. JanuaryFirst(ct, Y, s, N, L)
  <2>1. \A y \in Y : /\ s[y] \in Y /\ y < s[y] /\ N[y] \in Int /\ L[y] \in BOOLEAN
                    /\ N[s[y]] = N[y] + IF L[y] THEN 366 ELSE 365
    BY <1>4, <1>5
  <2>2. \A y \in Y, z \in Y : y < z => N[s[y]] <= N[z]
    BY <1>5
  <2>3. \A y \in Y : \A m \in 1..12 :
          /\ First(ct, <<y, m>>) = N[y] + BeforeMonth(m, L[y])
          /\ NextMonth(ct, y, m) = IF m = 12 THEN <<s[y], 1>> ELSE <<y, m + 1>>
    BY <1>6
  <2>4. Y \subseteq Int
    BY <1>2
  <2> QED BY ONLY <1>7, <2>1, <2>2, <2>3, <2>4 DEF JanuaryFirst
<1> QED BY <1>1, <1>2, <1>3, <1>8

(* The Julian calendar goes on, from the year -1 to the year 1. *)
LEMMA JulianGoesOn == GoesOn("julian")
<1>0. PICK ct : ct = "julian"
  OBVIOUS
<1>1. PICK Y, s, N, L : /\ Y = JulianYears /\ Y = Int \ {0}
                        /\ s = JulianSuccessor /\ N = JulianNewYear /\ L = JulianLeap
                        /\ JanuaryFirst(ct, Y, s, N, L)
  BY <1>0, JulianJanuary DEF JulianYears
<1>2. ASSUME NEW date \in Int PROVE \E y, m \in Int : DateIn(ct, date, y, m)
  <2>0. PICK approx \in Int : approx = (4 * (date - JULIAN_EPOCH) + 1464) \div 1461
    BY DEF JULIAN_EPOCH
  <2>1. PICK y \in Y : y = IF approx <= 0 THEN approx - 1 ELSE approx
    <3>1. (IF approx <= 0 THEN approx - 1 ELSE approx) \in Int \ {0}
      OBVIOUS
    <3> QED BY <1>1, <3>1
  <2>10. y \in Int
    BY <1>1
  <2>2. PICK leap \in BOOLEAN : leap = julian_leap_year(y)
    BY DEF julian_leap_year
  <2>3. PICK jan \in Int, p \in Int :
          jan = julian_to_fixed(y, 1, 1) /\ p = date - jan /\ DayOfYear(p, leap)
    <3>1. /\ 0 <= date - julian_to_fixed(y, 1, 1)
          /\ date - julian_to_fixed(y, 1, 1) <= IF leap THEN 365 ELSE 364
          /\ julian_to_fixed(y, 1, 1) \in Int
      BY <2>0, <2>1, <2>2, <2>10, JulianYear
    <3> QED BY <3>1 DEF DayOfYear
  <2>4. PICK m \in 1..12 : m = MonthOf(p, leap)
    BY <2>3, MonthOfDay
  <2>5. date < julian_to_fixed(y, 3, 1) <=> p < BeforeMonth(3, leap)
    <3>1. BeforeMonth(3, leap) \in Int
      BY SMT DEF BeforeMonth, quotient
    <3>2. julian_to_fixed(y, 3, 1) = jan + BeforeMonth(3, leap)
      BY <2>2, <2>3, <2>10, JulianMonths, SMT
    <3> QED BY <2>3, <3>1, <3>2, SMT
  <2>6. fixed_to_julian(date) = <<y, m, date - julian_to_fixed(y, m, 1) + 1>>
    BY <2>0, <2>1, <2>2, <2>3, <2>4, <2>5, <2>10, SMT DEF fixed_to_julian, InYear, MonthOf
  <2>7. fixed_to_date(date, ct) = <<y, m, date - First(ct, <<y, m>>) + 1>>
    BY <1>0, <2>6, Conversions DEF First
  <2>8. N[y] = jan /\ L[y] = leap
    BY <1>1, <2>2, <2>3 DEF JulianNewYear, JulianLeap
  <2>9. JanuaryDay(ct, N, L, date, y, p)
    BY <2>3, <2>4, <2>7, <2>8 DEF JanuaryDay
  <2> QED BY <1>1, <2>9, JanuaryDateIn
<1>3. PICK B : Regular(ct, 12, Y, s, N, B)
  BY <1>1, JanuaryIsRegular
<1> QED BY <1>0, <1>2, <1>3, RegularGoesOn

(* A calendar whose years, each begun with the day N[y], differ in the length
   of the last of k months only: b[m] days are before the month m. *)
Uniform(ct, k, N, b) ==
  /\ k \in {12, 13} /\ b[1] = 0
  /\ \A m \in 1..k : b[m] \in Int
  /\ \A m, n \in 1..k : m < n => b[n] - b[m] >= 28 * (n - m)
  /\ \A y \in Int : /\ N[y] \in Int
                    /\ N[y + 1] - N[y] - b[k] >= 28
                       \/ (k = 13 /\ N[y + 1] - N[y] - b[k] \in {5, 6})
  /\ \A y, z \in Int : y < z => N[y + 1] <= N[z]
  /\ \A y, m \in Int : HasMonth(ct, y, m) <=> m \in 1..k
  /\ \A y \in Int : \A m \in 1..k :
       /\ First(ct, <<y, m>>) = N[y] + b[m]
       /\ NextMonth(ct, y, m) = IF m = k THEN <<y + 1, 1>> ELSE <<y, m + 1>>

(* The years of such a calendar follow each other regularly. *)
LEMMA UniformIsRegular ==
  ASSUME NEW ct, NEW k, NEW N, NEW b, Uniform(ct, k, N, b)
  PROVE  \E B : Regular(ct, k, Int, Successor, N, B)
<1>1. k \in {12, 13} /\ b[1] = 0
  BY DEF Uniform
<1>2. PICK s, B : /\ s = Successor
                  /\ B = [y \in Int |-> [m \in 1..k + 1 |->
                            IF m = k + 1 THEN N[y + 1] - N[y] ELSE b[m]]]
  OBVIOUS
<1>3. ASSUME NEW y \in Int, NEW m \in 1..k + 1
      PROVE  B[y][m] = IF m = k + 1 THEN N[y + 1] - N[y] ELSE b[m]
  BY <1>2
<1>4. ASSUME NEW y \in Int
      PROVE  /\ s[y] = y + 1 /\ y < s[y] /\ N[y] \in Int /\ N[y + 1] \in Int
             /\ N[y + 1] - N[y] - b[k] >= 28 \/ (k = 13 /\ N[y + 1] - N[y] - b[k] \in {5, 6})
             /\ b[k] \in Int
  <2>1. s[y] = y + 1 /\ y < s[y]
    BY <1>2 DEF Successor
  <2>2. PICK next \in Int : next = y + 1
    OBVIOUS
  <2>3. N[next] \in Int /\ N[y] \in Int
    BY DEF Uniform
  <2>4. N[y + 1] - N[y] - b[k] >= 28 \/ (k = 13 /\ N[y + 1] - N[y] - b[k] \in {5, 6})
    BY DEF Uniform
  <2>5. b[k] \in Int
    BY <1>1 DEF Uniform
  <2> QED BY <2>1, <2>2, <2>3, <2>4, <2>5
<1>5. ASSUME NEW y \in Int, NEW m \in 1..k PROVE B[y][m] = b[m] /\ b[m] \in Int
  <2>1. m \in 1..k + 1 /\ m # k + 1
    BY <1>1
  <2> QED BY <1>3, <2>1 DEF Uniform
<1>6. ASSUME NEW y \in Int PROVE B[y][k + 1] = N[y + 1] - N[y]
  BY <1>1, <1>3
<1>7. ASSUME NEW y \in Int
      PROVE  s[y] \in Int /\ y < s[y] /\ N[y] \in Int /\ N[s[y]] = N[y] + B[y][k + 1]
  BY <1>4, <1>6
<1>8. \A y \in Int, z \in Int : y < z => N[s[y]] <= N[z]
  BY <1>4 DEF Uniform
<1>9. \A y \in Int : B[y][1] = 0
  BY <1>1, <1>5
<1>10. ASSUME NEW y \in Int, NEW m \in 1..k + 1 PROVE B[y][m] \in Int
  <2>1. CASE m = k + 1
    BY <1>4, <1>6, <2>1
  <2>2. CASE m # k + 1
    <3>1. m \in 1..k
      BY <1>1, <2>2
    <3> QED BY <1>5, <3>1
  <2> QED BY <2>1, <2>2
<1>11. ASSUME NEW y \in Int, NEW m \in 1..k
       PROVE  B[y][m + 1] - B[y][m] >= 28 \/ (m = 13 /\ B[y][m + 1] - B[y][m] \in {5, 6})
  <2>1. CASE m = k
    BY <1>4, <1>5, <1>6, <2>1
  <2>2. CASE m # k
    <3>1. PICK n \in 1..k : n = m + 1 /\ m < n
      BY <1>1, <2>2
    <3>2. b[n] - b[m] >= 28 * (n - m) /\ n - m = 1
      BY <3>1 DEF Uniform
    <3>3. B[y][n] = b[n] /\ B[y][m] = b[m] /\ b[n] \in Int /\ b[m] \in Int
      BY <1>5
    <3> QED BY <3>1, <3>2, <3>3
  <2> QED BY <2>1, <2>2
<1>12. ASSUME NEW y \in Int, NEW m \in 1..k, NEW n \in 1..k, m < n
       PROVE  B[y][m + 1] <= B[y][n]
  <2>1. PICK l \in 1..k : l = m + 1 /\ (l = n \/ l < n)
    BY <1>1, <1>12
  <2>2. B[y][l] = b[l] /\ B[y][n] = b[n] /\ b[l] \in Int /\ b[n] \in Int
    BY <1>5
  <2>3. l < n => b[n] - b[l] >= 28 * (n - l)
    BY DEF Uniform
  <2>4. l < n => n - l >= 1
    BY <1>1
  <2>5. l \in Int /\ n \in Int
    BY <1>1
  <2> QED BY <2>1, <2>2, <2>3, <2>4, <2>5
<1>13. \A y, m \in Int : HasMonth(ct, y, m) <=> y \in Int /\ m \in 1..k
  BY DEF Uniform
<1>14. ASSUME NEW y \in Int, NEW m \in 1..k
       PROVE  /\ First(ct, <<y, m>>) = N[y] + B[y][m]
              /\ NextMonth(ct, y, m) = IF m = k THEN <<s[y], 1>> ELSE <<y, m + 1>>
  BY <1>4, <1>5 DEF Uniform
<1>15. PICK Y : Y = Int
  OBVIOUS
<1>16. /\ k \in {12, 13} /\ Y \subseteq Int
       /\ \A y \in Y : s[y] \in Y /\ y < s[y] /\ N[y] \in Int /\ N[s[y]] = N[y] + B[y][k + 1]
       /\ \A y \in Y, z \in Y : y < z => N[s[y]] <= N[z]
       /\ \A y \in Y : B[y][1] = 0
       /\ \A y \in Y : \A m \in 1..k + 1 : B[y][m] \in Int
       /\ \A y \in Y : \A m \in 1..k : B[y][m + 1] - B[y][m] >= 28
                                        \/ (m = 13 /\ B[y][m + 1] - B[y][m] \in {5, 6})
       /\ \A y \in Y : \A m, n \in 1..k : m < n => B[y][m + 1] <= B[y][n]
       /\ \A y, m \in Int : HasMonth(ct, y, m) <=> y \in Y /\ m \in 1..k
       /\ \A y \in Y : \A m \in 1..k :
            /\ First(ct, <<y, m>>) = N[y] + B[y][m]
            /\ NextMonth(ct, y, m) = IF m = k THEN <<s[y], 1>> ELSE <<y, m + 1>>
  <2>1. \A y \in Y : s[y] \in Y /\ y < s[y] /\ N[y] \in Int /\ N[s[y]] = N[y] + B[y][k + 1]
    BY <1>7, <1>15
  <2>2. /\ \A y \in Y, z \in Y : y < z => N[s[y]] <= N[z]
        /\ \A y \in Y : B[y][1] = 0
        /\ \A y, m \in Int : HasMonth(ct, y, m) <=> y \in Y /\ m \in 1..k
    BY <1>8, <1>9, <1>13, <1>15
  <2>3. \A y \in Y : \A m \in 1..k + 1 : B[y][m] \in Int
    BY <1>10, <1>15
  <2>4. \A y \in Y : \A m \in 1..k : B[y][m + 1] - B[y][m] >= 28
                                      \/ (m = 13 /\ B[y][m + 1] - B[y][m] \in {5, 6})
    BY <1>11, <1>15
  <2>5. \A y \in Y : \A m, n \in 1..k : m < n => B[y][m + 1] <= B[y][n]
    BY <1>12, <1>15
  <2>6. \A y \in Y : \A m \in 1..k :
          /\ First(ct, <<y, m>>) = N[y] + B[y][m]
          /\ NextMonth(ct, y, m) = IF m = k THEN <<s[y], 1>> ELSE <<y, m + 1>>
    BY <1>14, <1>15
  <2> QED BY ONLY <1>1, <1>15, <2>1, <2>2, <2>3, <2>4, <2>5, <2>6
<1>17. Regular(ct, k, Y, s, N, B)
  BY ONLY <1>16 DEF Regular
<1> QED BY <1>2, <1>15, <1>17

(* A day of the month m of such a calendar. *)
UniformDay(ct, k, N, b, date, y, m) ==
  /\ y \in Int /\ m \in 1..k
  /\ N[y] + b[m] <= date
  /\ date < IF m = k THEN N[y + 1] ELSE N[y] + b[m + 1]
  /\ fixed_to_date(date, ct) = <<y, m, date - (N[y] + b[m]) + 1>>

(* Such a calendar goes on when each day's date counts from the first of its month. *)
LEMMA UniformGoesOn ==
  ASSUME NEW ct, NEW k, NEW N, NEW b, Uniform(ct, k, N, b),
         \A date \in Int : \E y, m \in Int : UniformDay(ct, k, N, b, date, y, m)
  PROVE  GoesOn(ct)
<1>1. ASSUME NEW date \in Int, NEW y \in Int, NEW m \in Int, UniformDay(ct, k, N, b, date, y, m)
      PROVE  DateIn(ct, date, y, m)
  <2>1. k \in {12, 13} /\ m \in 1..k
    BY <1>1 DEF Uniform, UniformDay
  <2>2. HasMonth(ct, y, m)
    BY <2>1 DEF Uniform
  <2>3. First(ct, <<y, m>>) = N[y] + b[m]
    BY <2>1 DEF Uniform
  <2>4. NextMonth(ct, y, m) = IF m = k THEN <<y + 1, 1>> ELSE <<y, m + 1>>
    BY <2>1 DEF Uniform
  <2>5. First(ct, NextMonth(ct, y, m)) = IF m = k THEN N[y + 1] ELSE N[y] + b[m + 1]
    <3>1. CASE m = k
      <4>1. PICK z \in Int, n \in 1..k : z = y + 1 /\ n = 1
        <5>1. y + 1 \in Int /\ 1 \in 1..k
          BY <2>1
        <5>2. PICK z \in Int : z = y + 1
          OBVIOUS
        <5>3. PICK n \in 1..k : n = 1
          BY <5>1
        <5> QED BY <5>2, <5>3
      <4>2. First(ct, <<z, n>>) = N[z] + b[n] /\ b[n] = 0 /\ N[z] \in Int
        BY <4>1 DEF Uniform
      <4>3. NextMonth(ct, y, m) = <<z, n>>
        BY <2>4, <3>1, <4>1
      <4> QED BY <3>1, <4>1, <4>2, <4>3
    <3>2. CASE m # k
      <4>1. PICK n \in 1..k : n = m + 1
        BY <2>1, <3>2
      <4>2. First(ct, <<y, n>>) = N[y] + b[n]
        BY DEF Uniform
      <4> QED BY <2>4, <3>2, <4>1, <4>2
    <3> QED BY <3>1, <3>2
  <2>6. /\ First(ct, <<y, m>>) <= date /\ date < First(ct, NextMonth(ct, y, m))
        /\ fixed_to_date(date, ct) = <<y, m, date - First(ct, <<y, m>>) + 1>>
    BY <1>1, <2>3, <2>5 DEF UniformDay
  <2> QED BY <2>2, <2>6 DEF DateIn, InMonth, End
<1>2. \A date \in Int : \E y, m \in Int : DateIn(ct, date, y, m)
  BY <1>1
<1>3. PICK B : Regular(ct, k, Int, Successor, N, B)
  BY UniformIsRegular
<1> QED BY <1>2, <1>3, RegularGoesOn

(* The Islamic calendar. *)
LEMMA IslamicGoesOn == GoesOn("islamic")
<1>0. PICK ct : ct = "islamic"
  OBVIOUS
<1>1. PICK k \in {12} : k = 12
  OBVIOUS
<1>2. PICK N, b : /\ N = [y \in Int |-> islamic_to_fixed(y, 1, 1)]
                  /\ b = [m \in 1..k |-> 29 * (m - 1) + m \div 2]
  OBVIOUS
<1>3. \A m \in 1..k : b[m] = 29 * (m - 1) + m \div 2 /\ b[m] \in Int
  BY <1>1, <1>2
<1>4. \A y, m \in Int : m >= 1 =>
         islamic_to_fixed(y, m, 1)
           = 227015 + 354 * (y - 1) + ((11 * y + 3) \div 30) + 29 * (m - 1) + m \div 2
  BY SMT DEF islamic_to_fixed, quotient, ISLAMIC_EPOCH
<1>5. \A y \in Int : /\ N[y] = 227015 + 354 * (y - 1) + ((11 * y + 3) \div 30) /\ N[y] \in Int
                     /\ N[y + 1] = 227015 + 354 * y + ((11 * (y + 1) + 3) \div 30)
  <2> SUFFICES ASSUME NEW y \in Int
               PROVE  /\ N[y] = 227015 + 354 * (y - 1) + ((11 * y + 3) \div 30) /\ N[y] \in Int
                      /\ N[y + 1] = 227015 + 354 * y + ((11 * (y + 1) + 3) \div 30)
    OBVIOUS
  <2>1. PICK z \in Int : z = y + 1
    OBVIOUS
  <2>2. N[y] = islamic_to_fixed(y, 1, 1) /\ N[z] = islamic_to_fixed(z, 1, 1)
    BY <1>2
  <2>3. /\ islamic_to_fixed(y, 1, 1) = 227015 + 354 * (y - 1) + ((11 * y + 3) \div 30)
        /\ islamic_to_fixed(z, 1, 1) = 227015 + 354 * (z - 1) + ((11 * z + 3) \div 30)
    BY <1>4, SMT
  <2> QED BY <2>1, <2>2, <2>3, SMT
<1>6. Uniform(ct, k, N, b)
  <2>1. k \in {12, 13} /\ b[1] = 0 /\ \A m \in 1..k : b[m] \in Int
    BY <1>1, <1>3
  <2>2. \A m, n \in 1..k : m < n => b[n] - b[m] >= 28 * (n - m)
    BY <1>1, <1>3
  <2>3. \A y \in Int : N[y + 1] - N[y] - b[k] >= 28
    <3>1. b[k] = 325
      BY <1>1, <1>3, SMT
    <3> QED BY <1>5, <3>1, SMT
  <2>4. \A y, z \in Int : y < z => N[y + 1] <= N[z]
    BY <1>5, SMT
  <2>5. \A y, m \in Int : HasMonth(ct, y, m) <=> m \in 1..k
    BY <1>0, <1>1, NumbersOfMonths DEF HasMonth
  <2>6. ASSUME NEW y \in Int, NEW m \in 1..k
        PROVE  /\ First(ct, <<y, m>>) = N[y] + b[m]
               /\ NextMonth(ct, y, m) = IF m = k THEN <<y + 1, 1>> ELSE <<y, m + 1>>
    <3>1. m \in Int /\ m >= 1
      BY <1>1
    <3>2. First(ct, <<y, m>>) = islamic_to_fixed(y, m, 1)
      BY <1>0, Conversions DEF First
    <3>3. NextMonth(ct, y, m) = IF m = 12 THEN <<y + 1, 1>> ELSE <<y, m + 1>>
      BY <1>0, <3>1, NextMonths
    <3>4. islamic_to_fixed(y, m, 1) = N[y] + b[m]
      BY <1>3, <1>4, <1>5, <3>1, SMT
    <3> QED BY <1>1, <3>2, <3>3, <3>4
  <2>7. \A y \in Int : N[y] \in Int
    BY <1>5
  <2> QED BY ONLY <2>1, <2>2, <2>3, <2>4, <2>5, <2>6, <2>7 DEF Uniform
<1>7. ASSUME NEW date \in Int
      PROVE  \E y, m \in Int : UniformDay(ct, k, N, b, date, y, m)
  <2>1. PICK y \in Int : y = (30 * (date - ISLAMIC_EPOCH) + 10646) \div 10631
    BY SMT DEF ISLAMIC_EPOCH
  <2>14. PICK a \in Int, c \in Int : a = N[y] /\ c = N[y + 1]
    <3>1. PICK z \in Int : z = y + 1
      OBVIOUS
    <3>2. N[y] \in Int /\ N[z] \in Int
      BY <1>5, SMT
    <3> QED BY <3>1, <3>2
  <2>2. PICK p \in Int : p = date - a /\ p = date - islamic_to_fixed(y, 1, 1)
    BY <1>2, <2>14
  <2>3. PICK e \in Int : e = c - a
    OBVIOUS
  <2>4. 0 <= p /\ p < e /\ e \in {354, 355}
    <3>0. a = 227015 + 354 * (y - 1) + ((11 * y + 3) \div 30)
      BY <1>5, <2>14, SMT
    <3>4. c = 227015 + 354 * y + ((11 * (y + 1) + 3) \div 30)
      BY <1>5, <2>14, SMT
    <3>1. 0 <= p
      BY <2>1, <2>2, <3>0, SMT DEF ISLAMIC_EPOCH
    <3>2. e \in {354, 355}
      BY <2>3, <3>0, <3>4, SMT
    <3>3. date < c
      BY <2>1, <3>4, SMT DEF ISLAMIC_EPOCH
    <3> QED BY <2>2, <2>3, <3>1, <3>2, <3>3, SMT
  <2>5. PICK m \in 1..12 : m = (11 * p + 330) \div 325
    BY <2>4, SMT
  <2>6. /\ 29 * (m - 1) + m \div 2 <= p
        /\ m # 12 => p < 29 * m + ((m + 1) \div 2)
    BY <2>4, <2>5, SMT
  <2>7. fixed_to_islamic(date) = <<y, m, date - islamic_to_fixed(y, m, 1) + 1>>
    BY <2>1, <2>2, <2>5 DEF fixed_to_islamic
  <2>8. m \in 1..k /\ m \in Int /\ m >= 1
    BY <1>1
  <2>9. islamic_to_fixed(y, m, 1) = N[y] + b[m]
    BY <1>3, <1>4, <1>5, <2>8, SMT
  <2>10. m # k => b[m + 1] = 29 * m + ((m + 1) \div 2)
    <3>1. CASE m # k
      <4>1. PICK n \in 1..k : n = m + 1
        BY <1>1, <3>1
      <4> QED BY <1>3, <4>1, SMT
    <3> QED BY <3>1
  <2>11. N[y] + b[m] <= date
    <3>1. b[m] = 29 * (m - 1) + m \div 2
      BY <1>3, <2>8
    <3> QED BY <2>2, <2>6, <2>8, <2>14, <3>1, SMT
  <2>12. date < IF m = k THEN N[y + 1] ELSE N[y] + b[m + 1]
    <3>1. CASE m = k
      BY <2>2, <2>3, <2>4, <2>14, <3>1, SMT
    <3>2. CASE m # k
      <4>1. p < 29 * m + ((m + 1) \div 2) /\ b[m + 1] = 29 * m + ((m + 1) \div 2)
        BY <1>1, <2>6, <2>10, <3>2, SMT
      <4> QED BY <2>2, <2>8, <2>14, <3>2, <4>1, SMT
    <3> QED BY <3>1, <3>2
  <2>13. fixed_to_date(date, ct) = <<y, m, date - (N[y] + b[m]) + 1>>
    BY <1>0, <2>7, <2>9, Conversions
  <2> QED BY <2>8, <2>11, <2>12, <2>13 DEF UniformDay
<1> QED BY <1>0, <1>6, <1>7, UniformGoesOn

(* The calendars of twelve months of 30 days and a short one. *)
ThirtyDays(ct, N) ==
  /\ \A y \in Int : /\ N[y] \in Int /\ N[y + 1] \in Int
                    /\ N[y + 1] - N[y] \in {365, 366}
  /\ \A y, z \in Int : y < z => N[y + 1] <= N[z]
  /\ \A y, m \in Int : First(ct, <<y, m>>) = N[y] + 30 * (m - 1)

ThirtyDay(ct, N, date, y, p) ==
  /\ p = date - N[y] /\ 0 <= p /\ date < N[y + 1]
  /\ fixed_to_date(date, ct) = <<y, p \div 30 + 1, (p % 30) + 1>>

(* Such a calendar goes on when each day's date counts thirties from the new year. *)
LEMMA ThirtyGoesOn ==
  ASSUME NEW ct \in {"egyptian", "coptic", "ethiopian"}, NEW N, ThirtyDays(ct, N),
         \A date \in Int : \E y, p \in Int : ThirtyDay(ct, N, date, y, p)
  PROVE  GoesOn(ct)
<1>1. PICK k \in {13} : k = 13
  OBVIOUS
<1>2. PICK b : b = [m \in 1..k |-> 30 * (m - 1)]
  OBVIOUS
<1>3. \A m \in 1..k : b[m] = 30 * (m - 1) /\ b[m] \in Int
  BY <1>1, <1>2
<1>4. Uniform(ct, k, N, b)
  <2>1. k \in {12, 13} /\ b[1] = 0 /\ \A m \in 1..k : b[m] \in Int
    BY <1>1, <1>3
  <2>2. \A m, n \in 1..k : m < n => b[n] - b[m] >= 28 * (n - m)
    BY <1>1, <1>3, SMTT(60)
  <2>3. \A y \in Int : N[y + 1] - N[y] - b[k] \in {5, 6}
    <3>1. b[k] = 360
      BY <1>1, <1>3
    <3> QED BY <3>1 DEF ThirtyDays
  <2>4. \A y, z \in Int : y < z => N[y + 1] <= N[z]
    BY DEF ThirtyDays
  <2>5. \A y, m \in Int : HasMonth(ct, y, m) <=> m \in 1..k
    <3>1. ct # "hebrew" /\ ct # "julian" /\ numberOfMonths(ct) = 13
      BY NumbersOfMonths
    <3> QED BY <1>1, <3>1 DEF HasMonth
  <2>6. ASSUME NEW y \in Int, NEW m \in 1..k
        PROVE  /\ First(ct, <<y, m>>) = N[y] + b[m]
               /\ NextMonth(ct, y, m) = IF m = k THEN <<y + 1, 1>> ELSE <<y, m + 1>>
    <3>1. m \in Int /\ b[m] = 30 * (m - 1)
      BY <1>1, <1>3
    <3>2. First(ct, <<y, m>>) = N[y] + 30 * (m - 1)
      BY <3>1 DEF ThirtyDays
    <3>3. NextMonth(ct, y, m) = IF m = 13 THEN <<y + 1, 1>> ELSE <<y, m + 1>>
      BY <3>1, NextMonths
    <3> QED BY <1>1, <3>1, <3>2, <3>3
  <2>7. \A y \in Int : N[y] \in Int
    BY DEF ThirtyDays
  <2>8. k = 13
    BY <1>1
  <2> QED BY ONLY <2>1, <2>2, <2>3, <2>4, <2>5, <2>6, <2>7, <2>8 DEF Uniform
<1>5. ASSUME NEW date \in Int
      PROVE  \E y, m \in Int : UniformDay(ct, k, N, b, date, y, m)
  <2>1. PICK y \in Int, p \in Int : ThirtyDay(ct, N, date, y, p)
    OBVIOUS
  <2>2. PICK a \in Int, c \in Int : a = N[y] /\ c = N[y + 1] /\ c - a \in {365, 366}
    <3>1. N[y] \in Int /\ N[y + 1] \in Int /\ N[y + 1] - N[y] \in {365, 366}
      BY DEF ThirtyDays
    <3>2. PICK a \in Int : a = N[y]
      BY <3>1
    <3>3. PICK c \in Int : c = N[y + 1]
      BY <3>1
    <3>4. c - a \in {365, 366}
      BY <3>1, <3>2, <3>3
    <3> QED BY <3>2, <3>3, <3>4, ZenonT(60)
  <2>3. /\ p = date - a /\ 0 <= p /\ date < c
        /\ fixed_to_date(date, ct) = <<y, p \div 30 + 1, (p % 30) + 1>>
    BY <2>1, <2>2 DEF ThirtyDay
  <2>4. PICK m \in 1..13 : m = p \div 30 + 1
    <3>1. 0 <= p /\ p < 366 /\ p \in Int
      BY <2>2, <2>3
    <3>2. p \div 30 + 1 \in 1..13
      BY <3>1, SMT
    <3> QED BY <3>2
  <2>5. m \in 1..k /\ m \in Int /\ b[m] = 30 * (m - 1)
    BY <1>1, <1>3
  <2>6. (p % 30) + 1 = date - (N[y] + b[m]) + 1
    BY <2>2, <2>3, <2>4, <2>5
  <2>7. fixed_to_date(date, ct) = <<y, m, date - (N[y] + b[m]) + 1>>
    BY <2>3, <2>4, <2>6
  <2>8. N[y] + b[m] <= date
    BY <2>2, <2>3, <2>4, <2>5
  <2>9. date < IF m = k THEN N[y + 1] ELSE N[y] + b[m + 1]
    <3>1. CASE m = k
      BY <2>2, <2>3, <3>1
    <3>2. CASE m # k
      <4>1. PICK n \in 1..k : n = m + 1 /\ b[n] = 30 * m
        BY <1>1, <1>3, <3>2
      <4>2. p < 30 * m
        BY <2>3, <2>4
      <4> QED BY <2>2, <2>3, <3>2, <4>1, <4>2
    <3> QED BY <3>1, <3>2
  <2> QED BY <2>5, <2>7, <2>8, <2>9 DEF UniformDay
<1> QED BY <1>4, <1>5, UniformGoesOn

(* The Egyptian calendar goes on: every year has 365 days. *)
LEMMA EgyptianGoesOn == GoesOn("egyptian")
<1>0. PICK ct \in {"egyptian"} : ct = "egyptian"
  OBVIOUS
<1>1. PICK N : N = [y \in Int |-> egyptian_to_fixed(y, 1, 1)]
  OBVIOUS
<1>2. \A y, m \in Int : egyptian_to_fixed(y, m, 1) = EGYPTIAN_EPOCH + 365 * (y - 1) + 30 * (m - 1)
  BY SMT DEF egyptian_to_fixed, EGYPTIAN_EPOCH
<1>3. PICK epoch \in Int : epoch = EGYPTIAN_EPOCH
  BY DEF EGYPTIAN_EPOCH
<1>4. \A y \in Int : N[y] = epoch + 365 * (y - 1)
  BY <1>1, <1>2, <1>3
<1>5. ThirtyDays(ct, N)
  <2>1. ASSUME NEW y \in Int PROVE N[y] \in Int /\ N[y + 1] \in Int /\ N[y + 1] - N[y] \in {365, 366}
    <3>1. PICK next \in Int : next = y + 1
      OBVIOUS
    <3>2. N[next] = epoch + 365 * y
      BY <1>4, <3>1
    <3> QED BY <1>4, <3>1, <3>2
  <2>2. ASSUME NEW y \in Int, NEW z \in Int, y < z PROVE N[y + 1] <= N[z]
    <3>1. PICK next \in Int : next = y + 1
      OBVIOUS
    <3>2. N[next] = epoch + 365 * y /\ N[z] = epoch + 365 * (z - 1)
      BY <1>4, <3>1
    <3> QED BY <2>2, <3>1, <3>2
  <2>3. \A y, m \in Int : First(ct, <<y, m>>) = N[y] + 30 * (m - 1)
    <3>1. \A y, m \in Int : First(ct, <<y, m>>) = egyptian_to_fixed(y, m, 1)
      BY <1>0, Conversions DEF First
    <3>2. \A y, m \in Int : egyptian_to_fixed(y, m, 1) = epoch + 365 * (y - 1) + 30 * (m - 1)
      BY <1>2, <1>3
    <3>3. ASSUME NEW y \in Int, NEW m \in Int PROVE First(ct, <<y, m>>) = N[y] + 30 * (m - 1)
      <4>1. N[y] = epoch + 365 * (y - 1)
        BY <1>4
      <4>2. First(ct, <<y, m>>) = epoch + 365 * (y - 1) + 30 * (m - 1)
        BY <3>1, <3>2
      <4> QED BY <4>1, <4>2
    <3> QED BY <3>3
  <2> QED BY <2>1, <2>2, <2>3 DEF ThirtyDays
<1>6. ASSUME NEW date \in Int PROVE \E y, p \in Int : ThirtyDay(ct, N, date, y, p)
  <2>1. PICK days \in Int : days = date - epoch
    OBVIOUS
  <2>2. PICK year \in Int, p \in Int : year = days \div 365 /\ p = days % 365
    OBVIOUS
  <2>3. days = 365 * year + p /\ 0 <= p /\ p < 365
    BY <2>2
  <2>4. PICK y \in Int, next \in Int : y = year + 1 /\ next = y + 1
    OBVIOUS
  <2>5. N[y] = epoch + 365 * year /\ N[next] = epoch + 365 * (year + 1)
    BY <1>4, <2>4
  <2>6. fixed_to_egyptian(date) = <<y, p \div 30 + 1, days - 365 * year - 30 * (p \div 30) + 1>>
    BY <1>3, <2>1, <2>2, <2>4 DEF fixed_to_egyptian
  <2>7. days - 365 * year - 30 * (p \div 30) + 1 = (p % 30) + 1
    BY <2>3
  <2>8. fixed_to_date(date, ct) = <<y, p \div 30 + 1, (p % 30) + 1>>
    BY <1>0, <2>6, <2>7, Conversions
  <2>9. p = date - N[y] /\ 0 <= p /\ date < N[y + 1]
    BY <2>1, <2>3, <2>4, <2>5
  <2> QED BY <2>8, <2>9 DEF ThirtyDay
<1> QED BY <1>0, <1>5, <1>6, ThirtyGoesOn

(* The first day of a Coptic year, and the Coptic date of a day. *)
CopticNewYear(y) == 103605 + 365 * (y - 1) + y \div 4

(* A Coptic year ends where the next begins, after 365 or 366 days. *)
LEMMA CopticYears ==
  ASSUME NEW y \in Int
  PROVE  /\ CopticNewYear(y) \in Int /\ CopticNewYear(y + 1) \in Int
         /\ CopticNewYear(y + 1) - CopticNewYear(y) \in {365, 366}
         /\ \A z \in Int : y < z => CopticNewYear(y + 1) <= CopticNewYear(z)
         /\ \A m \in Int : coptic_to_fixed(y, m, 1) = CopticNewYear(y) + 30 * (m - 1)
<1>1. /\ CopticNewYear(y) \in Int /\ CopticNewYear(y + 1) \in Int
      /\ CopticNewYear(y + 1) - CopticNewYear(y) \in {365, 366}
  BY SMT DEF CopticNewYear
<1>2. \A z \in Int : y < z => CopticNewYear(y + 1) <= CopticNewYear(z)
  BY SMT DEF CopticNewYear
<1>3. \A m \in Int : coptic_to_fixed(y, m, 1) = CopticNewYear(y) + 30 * (m - 1)
  BY SMT DEF CopticNewYear, coptic_to_fixed, COPTIC_EPOCH
<1> QED BY <1>1, <1>2, <1>3

IsCopticDay(date, y, p) ==
  /\ p = date - CopticNewYear(y) /\ 0 <= p /\ date < CopticNewYear(y + 1)
  /\ fixed_to_coptic(date) = <<y, p \div 30 + 1, (p % 30) + 1>>

(* Every day has its Coptic date, counted in thirties from the new year. *)
LEMMA CopticDay ==
  ASSUME NEW date \in Int
  PROVE  \E y, p \in Int : IsCopticDay(date, y, p)
<1>1. PICK y \in Int : y = (4 * (date - COPTIC_EPOCH) + 1463) \div 1461
  BY SMT DEF COPTIC_EPOCH
<1>2. PICK a \in Int, c \in Int : a = CopticNewYear(y) /\ c = CopticNewYear(y + 1)
  <2>1. CopticNewYear(y) \in Int /\ CopticNewYear(y + 1) \in Int
    BY CopticYears
  <2> QED BY <2>1
<1>3. PICK p \in Int : p = date - a
  OBVIOUS
<1>4. 0 <= p /\ date < c
  BY <1>1, <1>2, <1>3, SMT DEF CopticNewYear, COPTIC_EPOCH
<1>5. PICK m \in Int : m = p \div 30 + 1
  BY SMT
<1>6. coptic_to_fixed(y, 1, 1) = a
  BY <1>2, SMT DEF CopticNewYear, coptic_to_fixed, COPTIC_EPOCH
<1>7. coptic_to_fixed(y, m, 1) = a + 30 * (m - 1)
  BY <1>2, SMT DEF CopticNewYear, coptic_to_fixed, COPTIC_EPOCH
<1>8. date - coptic_to_fixed(y, m, 1) + 1 = (p % 30) + 1
  BY <1>3, <1>5, <1>7, SMT
<1>9. fixed_to_coptic(date) = <<y, m, date - coptic_to_fixed(y, m, 1) + 1>>
  BY <1>1, <1>3, <1>5, <1>6 DEF fixed_to_coptic
<1>10. fixed_to_coptic(date) = <<y, p \div 30 + 1, (p % 30) + 1>>
  BY <1>5, <1>8, <1>9
<1>11. IsCopticDay(date, y, p)
  BY <1>2, <1>3, <1>4, <1>10 DEF IsCopticDay
<1> QED BY <1>11

(* The Coptic calendar, and the Ethiopian, which is the same some days later. *)
LEMMA CopticLikeGoesOn ==
  ASSUME NEW ct \in {"coptic", "ethiopian"}, NEW late \in Int,
         \A y, m \in Int : First(ct, <<y, m>>) = coptic_to_fixed(y, m, 1) - late,
         \A date \in Int : fixed_to_date(date, ct) = fixed_to_coptic(date + late)
  PROVE  GoesOn(ct)
<1>1. PICK N : N = [y \in Int |-> CopticNewYear(y) - late]
  OBVIOUS
<1>2. \A y \in Int : N[y] = CopticNewYear(y) - late
  BY <1>1
<1>3. ThirtyDays(ct, N)
  <2>1. ASSUME NEW y \in Int PROVE N[y] \in Int /\ N[y + 1] \in Int /\ N[y + 1] - N[y] \in {365, 366}
    <3>1. PICK next \in Int : next = y + 1
      OBVIOUS
    <3>2. PICK a \in Int, c \in Int : a = CopticNewYear(y) /\ c = CopticNewYear(next)
      BY <3>1, CopticYears
    <3>3. c - a \in {365, 366}
      BY <3>1, <3>2, CopticYears
    <3>4. N[y] = a - late /\ N[next] = c - late
      BY <1>2, <3>2
    <3>5. N[next] - N[y] = c - a
      BY <3>4
    <3> QED BY <3>1, <3>3, <3>4, <3>5
  <2>2. ASSUME NEW y \in Int, NEW z \in Int, y < z PROVE N[y + 1] <= N[z]
    <3>1. PICK next \in Int : next = y + 1
      OBVIOUS
    <3>2. PICK c \in Int, e \in Int : c = CopticNewYear(next) /\ e = CopticNewYear(z)
      BY CopticYears
    <3>3. c <= e
      BY <2>2, <3>1, <3>2, CopticYears
    <3>4. N[next] = c - late /\ N[z] = e - late
      BY <1>2, <3>2
    <3> QED BY <3>1, <3>3, <3>4
  <2>3. ASSUME NEW y \in Int, NEW m \in Int PROVE First(ct, <<y, m>>) = N[y] + 30 * (m - 1)
    <3>1. coptic_to_fixed(y, m, 1) = CopticNewYear(y) + 30 * (m - 1) /\ CopticNewYear(y) \in Int
      BY CopticYears
    <3>2. N[y] = CopticNewYear(y) - late
      BY <1>2
    <3>3. First(ct, <<y, m>>) = coptic_to_fixed(y, m, 1) - late
      OBVIOUS
    <3> QED BY <3>1, <3>2, <3>3
  <2> QED BY <2>1, <2>2, <2>3 DEF ThirtyDays
<1>4. ASSUME NEW date \in Int PROVE \E y, p \in Int : ThirtyDay(ct, N, date, y, p)
  <2>1. PICK day0 \in Int : day0 = date + late
    OBVIOUS
  <2>2. PICK y \in Int, p \in Int : IsCopticDay(day0, y, p)
    BY CopticDay
  <2>3. PICK a \in Int, c \in Int : a = CopticNewYear(y) /\ c = CopticNewYear(y + 1)
    BY CopticYears
  <2>4. N[y] = a - late /\ N[y + 1] = c - late
    BY <1>2, <2>3
  <2>5. p = day0 - a /\ 0 <= p /\ day0 < c
    BY <2>2, <2>3 DEF IsCopticDay
  <2>6. p = date - N[y] /\ 0 <= p /\ date < N[y + 1]
    BY <2>1, <2>4, <2>5
  <2>7. fixed_to_date(date, ct) = <<y, p \div 30 + 1, (p % 30) + 1>>
    BY <2>1, <2>2 DEF IsCopticDay
  <2> QED BY <2>6, <2>7 DEF ThirtyDay
<1>5. PICK cal \in {"egyptian", "coptic", "ethiopian"} : cal = ct
  OBVIOUS
<1>6. ThirtyDays(cal, N) /\ \A date \in Int : \E y, p \in Int : ThirtyDay(cal, N, date, y, p)
  BY <1>3, <1>4, <1>5
<1> QED BY ONLY <1>5, <1>6, ThirtyGoesOn

(* The Coptic calendar goes on. *)
LEMMA CopticGoesOn == GoesOn("coptic")
<1>1. PICK ct \in {"coptic", "ethiopian"} : ct = "coptic"
  OBVIOUS
<1>2. PICK late \in Int : late = 0
  OBVIOUS
<1>3. ASSUME NEW y \in Int, NEW m \in Int
      PROVE  First(ct, <<y, m>>) = coptic_to_fixed(y, m, 1) - late
  <2>1. First(ct, <<y, m>>) = coptic_to_fixed(y, m, 1)
    BY <1>1, Conversions DEF First
  <2>2. coptic_to_fixed(y, m, 1) \in Int
    BY SMT DEF coptic_to_fixed, COPTIC_EPOCH
  <2> QED BY <1>2, <2>1, <2>2
<1>4. ASSUME NEW date \in Int PROVE fixed_to_date(date, ct) = fixed_to_coptic(date + late)
  <2>1. date + late = date
    BY <1>2
  <2> QED BY <1>1, <2>1, Conversions
<1> QED BY <1>1, <1>3, <1>4, CopticLikeGoesOn

(* The Ethiopian calendar is the Coptic with other years, and goes on with it. *)
LEMMA EthiopianGoesOn == GoesOn("ethiopian")
<1>1. PICK ct \in {"coptic", "ethiopian"} : ct = "ethiopian"
  OBVIOUS
<1>2. PICK late \in Int : late = COPTIC_EPOCH - ETHIOPIAN_EPOCH
  BY DEF COPTIC_EPOCH, ETHIOPIAN_EPOCH
<1>3. ASSUME NEW y \in Int, NEW m \in Int
      PROVE  First(ct, <<y, m>>) = coptic_to_fixed(y, m, 1) - late
  <2>1. First(ct, <<y, m>>) = ethiopian_to_fixed(y, m, 1)
    BY <1>1, Conversions DEF First
  <2>2. coptic_to_fixed(y, m, 1) \in Int
    BY SMT DEF coptic_to_fixed, COPTIC_EPOCH
  <2> QED BY <1>2, <2>1, <2>2, SMT DEF ethiopian_to_fixed, COPTIC_EPOCH, ETHIOPIAN_EPOCH
<1>4. ASSUME NEW date \in Int PROVE fixed_to_date(date, ct) = fixed_to_coptic(date + late)
  <2>1. date - ETHIOPIAN_EPOCH + COPTIC_EPOCH = date + late
    BY <1>2, SMT DEF COPTIC_EPOCH, ETHIOPIAN_EPOCH
  <2> QED BY <1>1, <2>1, Conversions DEF fixed_to_ethiopian
<1> QED BY <1>1, <1>3, <1>4, CopticLikeGoesOn

(* The Milankovic calendar: the days before the March of a year, and its leap years. *)
BeforeMarch(y) == (328718 * (y \div 100) + 6) \div 9 + (36525 * (y % 100)) \div 100

MilankovicLeapYear(y) == y % 4 = 0 /\ (y % 100 # 0 \/ (y \div 100) % 9 \in {2, 6})

(* A Milankovic year counted from March ends where the next begins, before any later. *)
LEMMA MarchYears ==
  ASSUME NEW y \in Int
  PROVE  /\ BeforeMarch(y) \in Int /\ MilankovicLeapYear(y) \in BOOLEAN
         /\ BeforeMarch(y + 1) = BeforeMarch(y) + IF MilankovicLeapYear(y + 1) THEN 366 ELSE 365
         /\ \A z \in Int : y <= z => BeforeMarch(y) <= BeforeMarch(z)
<1>1. PICK c \in Int, r \in 0..99 : c = y \div 100 /\ r = y % 100 /\ y = 100 * c + r
  <2>1. PICK c \in Int, r \in Int : c = y \div 100 /\ r = y % 100
    OBVIOUS
  <2>2. r \in 0..99 /\ y = 100 * c + r
    BY <2>1
  <2> QED BY <2>1, <2>2
<1>2. BeforeMarch(y) = (328718 * c + 6) \div 9 + (36525 * r) \div 100
  BY <1>1 DEF BeforeMarch
<1>3. BeforeMarch(y) \in Int /\ MilankovicLeapYear(y) \in BOOLEAN
  BY <1>2, SMT DEF MilankovicLeapYear
<1>4. BeforeMarch(y + 1) = BeforeMarch(y) + IF MilankovicLeapYear(y + 1) THEN 366 ELSE 365
  <2>0. PICK next \in Int : next = y + 1
    OBVIOUS
  <2>1. CASE r < 99
    <3>1. next \div 100 = c /\ next % 100 = r + 1
      BY <1>1, <2>0, <2>1, SMT
    <3>2. BeforeMarch(next) = (328718 * c + 6) \div 9 + (36525 * (r + 1)) \div 100
      BY <3>1 DEF BeforeMarch
    <3>3. (36525 * (r + 1)) \div 100 = (36525 * r) \div 100 + IF (r + 1) % 4 = 0 THEN 366 ELSE 365
      BY SMT
    <3>4. next % 4 = 0 <=> (r + 1) % 4 = 0
      BY <1>1, <2>0, SMT
    <3>5. MilankovicLeapYear(next) <=> (r + 1) % 4 = 0
      BY <3>1, <3>4 DEF MilankovicLeapYear
    <3> QED BY <1>2, <2>0, <3>2, <3>3, <3>5, SMT
  <2>2. CASE r = 99
    <3>1. next \div 100 = c + 1 /\ next % 100 = 0 /\ next % 4 = 0
      BY <1>1, <2>0, <2>2, SMT
    <3>2. BeforeMarch(next) = (328718 * (c + 1) + 6) \div 9
      BY <3>1, SMT DEF BeforeMarch
    <3>3. (36525 * r) \div 100 = 36159
      BY <2>2, SMT
    <3>4. (328718 * (c + 1) + 6) \div 9
            = (328718 * c + 6) \div 9 + 36159 + IF (c + 1) % 9 \in {2, 6} THEN 366 ELSE 365
      BY SMTT(30)
    <3>5. MilankovicLeapYear(next) <=> (c + 1) % 9 \in {2, 6}
      BY <3>1 DEF MilankovicLeapYear
    <3> QED BY <1>2, <2>0, <3>2, <3>3, <3>4, <3>5, SMT
  <2> QED BY <2>1, <2>2
<1>5. ASSUME NEW z \in Int, y <= z PROVE BeforeMarch(y) <= BeforeMarch(z)
  <2>1. PICK e \in Int, s \in 0..99 : e = z \div 100 /\ s = z % 100 /\ z = 100 * e + s
    <3>1. PICK e \in Int, s \in Int : e = z \div 100 /\ s = z % 100
      OBVIOUS
    <3>2. s \in 0..99 /\ z = 100 * e + s
      BY <3>1
    <3> QED BY <3>1, <3>2
  <2>2. BeforeMarch(z) = (328718 * e + 6) \div 9 + (36525 * s) \div 100
    BY <2>1 DEF BeforeMarch
  <2>3. c < e \/ (c = e /\ r <= s)
    BY <1>1, <1>5, <2>1, SMT
  <2>4. (36525 * r) \div 100 <= 36159 /\ (36525 * s) \div 100 >= 0
    BY SMT
  <2>5. c < e => (328718 * e + 6) \div 9 - (328718 * c + 6) \div 9 >= 36159
    BY SMT
  <2>6. r <= s => (36525 * r) \div 100 <= (36525 * s) \div 100
    BY SMT
  <2> QED BY <1>2, <2>2, <2>3, <2>4, <2>5, <2>6, SMT
<1> QED BY <1>3, <1>4, <1>5

(* Where a month of the Milankovic calendar begins. *)
FromMarch(y, m) ==
  /\ MarchYear(y, m) = IF m <= 2 THEN y - 1 ELSE y
  /\ MarchMonth(m) = IF m <= 2 THEN m + 9 ELSE m - 3
  /\ First("milankovic", <<y, m>>)
       = BeforeMarch(MarchYear(y, m)) + DaysOfMarchMonths(MarchMonth(m)) - 305

(* The first of a Milankovic month, counted from March. *)
LEMMA MilankovicMonth ==
  ASSUME NEW y \in Int, NEW m \in 1..12
  PROVE  FromMarch(y, m)
<1>1. PICK ct : ct = "milankovic"
  OBVIOUS
<1>2. /\ MarchYear(y, m) = IF m <= 2 THEN y - 1 ELSE y
      /\ MarchMonth(m) = IF m <= 2 THEN m + 9 ELSE m - 3
  BY SMT DEF MarchYear, MarchMonth
<1>3. PICK a \in Int, x \in 0..11 : a = MarchYear(y, m) /\ x = MarchMonth(m)
  BY <1>2, SMT
<1>4. First(ct, <<y, m>>) = milankovic_to_cjdn(y, m, 1) - CJDN
  BY <1>1, Conversions DEF First
<1>5. PICK c \in Int, r \in Int : c = (328718 * (a \div 100) + 6) \div 9 /\ r = (36525 * (a % 100)) \div 100
  BY SMT
<1>6. PICK n \in Int : n = DaysOfMarchMonths(x)
  BY SMT DEF DaysOfMarchMonths
<1>7. milankovic_to_cjdn(y, m, 1) = c + (r + n + 1 + 1721119)
  BY <1>3, <1>5, <1>6, SMT DEF milankovic_to_cjdn, DaysAfterCenturies
<1>8. BeforeMarch(a) = c + r
  BY <1>5 DEF BeforeMarch
<1>9. First(ct, <<y, m>>) = BeforeMarch(a) + n - 305
  BY <1>4, <1>7, <1>8, SMT DEF CJDN
<1> QED BY <1>1, <1>2, <1>3, <1>6, <1>9 DEF FromMarch

MilankovicNewYear == [y \in Int |-> BeforeMarch(y - 1) + 1]
MilankovicLeap == [y \in Int |-> MilankovicLeapYear(y)]

(* Milankovic years begin with January. *)
LEMMA MilankovicJanuary ==
  JanuaryFirst("milankovic", Int, Successor, MilankovicNewYear, MilankovicLeap)
<1>1. PICK ct : ct = "milankovic"
  OBVIOUS
<1>3. PICK s, N, L : s = Successor /\ N = MilankovicNewYear /\ L = MilankovicLeap
  OBVIOUS
<1>4. ASSUME NEW y \in Int
      PROVE  /\ s[y] = y + 1 /\ L[y] = MilankovicLeapYear(y) /\ L[y] \in BOOLEAN
             /\ N[y] = BeforeMarch(y - 1) + 1 /\ N[y] \in Int
             /\ N[s[y]] = BeforeMarch(y) + 1
             /\ BeforeMarch(y) = BeforeMarch(y - 1) + IF L[y] THEN 366 ELSE 365
             /\ BeforeMarch(y) \in Int /\ BeforeMarch(y - 1) \in Int
  <2>1. PICK before \in Int, next \in Int : before = y - 1 /\ next = y + 1
    OBVIOUS
  <2>2. s[y] = y + 1 /\ L[y] = MilankovicLeapYear(y) /\ N[y] = BeforeMarch(y - 1) + 1
    BY <1>3 DEF Successor, MilankovicLeap, MilankovicNewYear
  <2>3. N[next] = BeforeMarch(next - 1) + 1 /\ next - 1 = y
    BY <1>3, <2>1 DEF MilankovicNewYear
  <2>4. /\ MilankovicLeapYear(y) \in BOOLEAN /\ BeforeMarch(y) \in Int /\ BeforeMarch(before) \in Int
        /\ BeforeMarch(before + 1)
             = BeforeMarch(before) + IF MilankovicLeapYear(before + 1) THEN 366 ELSE 365
    BY MarchYears
  <2>5. before + 1 = y
    BY <2>1
  <2> QED BY <2>1, <2>2, <2>3, <2>4, <2>5
<1>5. ASSUME NEW y \in Int
      PROVE  /\ N[s[y]] = N[y] + IF L[y] THEN 366 ELSE 365
             /\ \A z \in Int : y < z => N[s[y]] <= N[z]
  <2>1. N[s[y]] = N[y] + IF L[y] THEN 366 ELSE 365
    BY <1>4
  <2>2. ASSUME NEW z \in Int, y < z PROVE N[s[y]] <= N[z]
    <3>1. PICK before \in Int : before = z - 1 /\ y <= before
      BY <2>2
    <3>2. BeforeMarch(y) <= BeforeMarch(before) /\ BeforeMarch(y) \in Int /\ BeforeMarch(before) \in Int
      BY <3>1, MarchYears
    <3>3. N[z] = BeforeMarch(before) + 1 /\ N[s[y]] = BeforeMarch(y) + 1
      BY <1>4, <3>1
    <3> QED BY <3>2, <3>3
  <2> QED BY <2>1, <2>2
<1>6. ASSUME NEW y \in Int, NEW m \in 1..12
      PROVE  /\ First(ct, <<y, m>>) = N[y] + BeforeMonth(m, L[y])
             /\ NextMonth(ct, y, m) = IF m = 12 THEN <<s[y], 1>> ELSE <<y, m + 1>>
  <2>1. PICK leap \in BOOLEAN : leap = L[y]
    BY <1>4
  <2>2. PICK a \in Int, e \in Int : a = BeforeMarch(y - 1) /\ e = BeforeMarch(y)
    BY <1>4
  <2>3. e = a + IF leap THEN 366 ELSE 365
    BY <1>4, <2>1, <2>2
  <2>4. First(ct, <<y, m>>)
          = (IF m <= 2 THEN a ELSE e) + DaysOfMarchMonths(IF m <= 2 THEN m + 9 ELSE m - 3) - 305
    <3>1. /\ MarchYear(y, m) = IF m <= 2 THEN y - 1 ELSE y
          /\ MarchMonth(m) = IF m <= 2 THEN m + 9 ELSE m - 3
          /\ First("milankovic", <<y, m>>)
               = BeforeMarch(MarchYear(y, m)) + DaysOfMarchMonths(MarchMonth(m)) - 305
      BY MilankovicMonth, ZenonT(60) DEF FromMarch
    <3>2. BeforeMarch(MarchYear(y, m)) = IF m <= 2 THEN a ELSE e
      BY <2>2, <3>1
    <3> QED BY <1>1, <3>1, <3>2
  <2>5. First(ct, <<y, m>>) = a + 1 + BeforeMonth(m, leap)
    BY <2>3, <2>4, SMT DEF DaysOfMarchMonths, BeforeMonth, quotient
  <2>6. N[y] = a + 1
    BY <1>4, <2>2
  <2>7. NextMonth(ct, y, m) = IF m = 12 THEN <<y + 1, 1>> ELSE <<y, m + 1>>
    <3>1. m \in Int
      OBVIOUS
    <3> QED BY <1>1, <3>1, NextMonths
  <2>8. s[y] = y + 1
    BY <1>4
  <2>9. First(ct, <<y, m>>) = N[y] + BeforeMonth(m, L[y])
    BY <2>1, <2>5, <2>6
  <2> QED BY <2>7, <2>8, <2>9
<1>7. \A y, m \in Int : HasMonth(ct, y, m) <=> y \in Int /\ m \in 1..12
  BY <1>1, NumbersOfMonths DEF HasMonth
<1>8. JanuaryFirst(ct, Int, s, N, L)
  <2>1. \A y \in Int : /\ s[y] \in Int /\ y < s[y] /\ N[y] \in Int /\ L[y] \in BOOLEAN
                    /\ N[s[y]] = N[y] + IF L[y] THEN 366 ELSE 365
    BY <1>4, <1>5
  <2>2. \A y \in Int, z \in Int : y < z => N[s[y]] <= N[z]
    BY <1>5
  <2>3. \A y \in Int : \A m \in 1..12 :
          /\ First(ct, <<y, m>>) = N[y] + BeforeMonth(m, L[y])
          /\ NextMonth(ct, y, m) = IF m = 12 THEN <<s[y], 1>> ELSE <<y, m + 1>>
    BY <1>6
  <2> QED BY ONLY <1>7, <2>1, <2>2, <2>3 DEF JanuaryFirst
<1> QED BY <1>1, <1>3, <1>8

(* The date that has so many days of a century before it: n years of them from
   March on, and x months, are over. *)
CenturyDay(c, days, n, x, d) ==
  /\ n \in 0..99 /\ x \in 0..11 /\ d \in 1..31
  /\ InCentury(c, days) = <<100 * c + n + (IF x >= 10 THEN 1 ELSE 0),
                            IF x >= 10 THEN x - 9 ELSE x + 3, d>>
  /\ (36525 * n) \div 100 + DaysOfMarchMonths(x) + d = days + 1
  /\ x < 11 => DaysOfMarchMonths(x) + d <= DaysOfMarchMonths(x + 1)
  /\ x = 11 /\ n < 99 => days < (36525 * (n + 1)) \div 100

(* A day of a century by its year, its month from March and its day. *)
LEMMA DayOfCentury ==
  ASSUME NEW c \in Int, NEW days \in Int, 0 <= days, days < 36525
  PROVE  \E n, x, d \in Int : CenturyDay(c, days, n, x, d)
<1>1. PICK n \in Int, k \in Int : /\ 100 * days + 99 = 36525 * n + k /\ 0 <= k /\ k < 36525
                                  /\ n = (100 * days + 99) \div 36525 /\ k = (100 * days + 99) % 36525
  BY SMT
<1>2. PICK x \in Int, r \in Int : /\ 5 * (k \div 100) + 2 = 153 * x + r /\ 0 <= r /\ r < 153
                                  /\ x = (5 * (k \div 100) + 2) \div 153
                                  /\ r = (5 * (k \div 100) + 2) % 153
  BY SMT
<1>3. n \in 0..99 /\ x \in 0..11
  BY <1>1, <1>2, SMT
<1>4. PICK c0 \in 0..1 : c0 = (x + 2) \div 12 /\ (c0 = 1 <=> x >= 10)
  BY <1>3, SMT
<1>5. InCentury(c, days) = <<100 * c + n + c0, x - 12 * c0 + 3, r \div 5 + 1>>
  BY <1>1, <1>2, <1>4, SMT DEF InCentury
<1>6. PICK d \in 1..31 : d = r \div 5 + 1
  BY <1>2, SMT
<1>7. (36525 * n) \div 100 + DaysOfMarchMonths(x) + d = days + 1
  BY <1>1, <1>2, <1>3, <1>6, SMT DEF DaysOfMarchMonths
<1>8. x < 11 => DaysOfMarchMonths(x) + d <= DaysOfMarchMonths(x + 1)
  BY <1>2, <1>3, <1>6, SMT DEF DaysOfMarchMonths
<1>9. x = 11 /\ n < 99 => days < (36525 * (n + 1)) \div 100
  BY <1>1, <1>3, SMT
<1>10. /\ 100 * c + n + c0 = 100 * c + n + (IF x >= 10 THEN 1 ELSE 0)
       /\ x - 12 * c0 + 3 = IF x >= 10 THEN x - 9 ELSE x + 3
  BY <1>3, <1>4, SMT
<1>11. CenturyDay(c, days, n, x, d)
  BY <1>3, <1>5, <1>6, <1>7, <1>8, <1>9, <1>10 DEF CenturyDay
<1> QED BY <1>1, <1>2, <1>6, <1>11

(* The Milankovic calendar goes on. *)
LEMMA MilankovicGoesOn == GoesOn("milankovic")
<1>0. PICK ct : ct = "milankovic"
  OBVIOUS
<1>1. PICK s, N, L : /\ s = Successor /\ N = MilankovicNewYear /\ L = MilankovicLeap
                     /\ JanuaryFirst(ct, Int, s, N, L)
  BY <1>0, MilankovicJanuary
<1>2. ASSUME NEW date \in Int PROVE \E y, m \in Int : DateIn(ct, date, y, m)
  <2>1. PICK J \in Int : J = date + CJDN
    BY DEF CJDN
  <2>2. PICK c \in Int, days \in Int : /\ c = (9 * (J - 1721120) + 2) \div 328718
                                       /\ days = ((9 * (J - 1721120) + 2) % 328718) \div 9
    BY SMT
  <2>3. PICK century \in Int, next \in Int : /\ century = (328718 * c + 6) \div 9
                                             /\ next = (328718 * (c + 1) + 6) \div 9
    BY SMT
  <2>4. /\ 0 <= days /\ days < 36525
        /\ century + days = date + 305 /\ date + 305 < next
    <3>1. 0 <= days /\ days < 36525 /\ century + days + 1721120 = J
      BY <2>2, <2>3, SMTT(30)
    <3>2. J - 1721120 < next
      BY <2>2, <2>3, SMTT(30)
    <3> QED BY <2>1, <3>1, <3>2, SMT DEF CJDN
  <2>5. PICK n \in Int, x \in Int, d \in Int : CenturyDay(c, days, n, x, d)
    BY <2>4, DayOfCentury
  <2>6. /\ n \in 0..99 /\ x \in 0..11 /\ d \in 1..31
        /\ InCentury(c, days) = <<100 * c + n + (IF x >= 10 THEN 1 ELSE 0),
                                  IF x >= 10 THEN x - 9 ELSE x + 3, d>>
        /\ (36525 * n) \div 100 + DaysOfMarchMonths(x) + d = days + 1
        /\ x < 11 => DaysOfMarchMonths(x) + d <= DaysOfMarchMonths(x + 1)
        /\ x = 11 /\ n < 99 => days < (36525 * (n + 1)) \div 100
    BY <2>5 DEF CenturyDay
  <2>7. PICK y \in Int : y = 100 * c + n + (IF x >= 10 THEN 1 ELSE 0)
    BY <2>6
  <2>8. PICK m \in 1..12 : m = IF x >= 10 THEN x - 9 ELSE x + 3
    BY <2>6
  <2>9. PICK march \in Int : march = 100 * c + n
    OBVIOUS
  <2>10. fixed_to_date(date, ct) = <<y, m, d>>
    <3>1. cjdn_to_milankovic(J) = InCentury(c, days)
      BY <2>2, SMT DEF cjdn_to_milankovic
    <3>2. InCentury(c, days) = <<y, m, d>>
      BY <2>6, <2>7, <2>8
    <3>3. fixed_to_date(date, ct) = cjdn_to_milankovic(date + CJDN)
      BY <1>0, Conversions
    <3> QED BY <2>1, <3>1, <3>2, <3>3
  <2>11. PICK years \in Int, months \in Int :
           years = (36525 * n) \div 100 /\ months = DaysOfMarchMonths(x)
    BY <2>6, SMT DEF DaysOfMarchMonths
  <2>12. BeforeMarch(march) = century + years
    <3>1. march \div 100 = c /\ march % 100 = n
      BY <2>6, <2>9, SMT
    <3> QED BY <2>3, <2>11, <3>1 DEF BeforeMarch
  <2>13. First(ct, <<y, m>>) = century + years + months - 305
    <3>0. FromMarch(y, m)
      BY MilankovicMonth
    <3>1. /\ MarchYear(y, m) = IF m <= 2 THEN y - 1 ELSE y
          /\ MarchMonth(m) = IF m <= 2 THEN m + 9 ELSE m - 3
          /\ First("milankovic", <<y, m>>)
               = BeforeMarch(MarchYear(y, m)) + DaysOfMarchMonths(MarchMonth(m)) - 305
      BY <3>0 DEF FromMarch
    <3>2. MarchYear(y, m) = march /\ MarchMonth(m) = x
      BY <2>6, <2>7, <2>8, <2>9, <3>1
    <3> QED BY <1>0, <2>11, <2>12, <3>1, <3>2
  <2>14. d = date - First(ct, <<y, m>>) + 1 /\ First(ct, <<y, m>>) <= date
    BY <2>4, <2>6, <2>11, <2>13
  <2>15. NextMonth(ct, y, m) = IF m = 12 THEN <<y + 1, 1>> ELSE <<y, m + 1>>
    <3>1. m \in Int
      OBVIOUS
    <3> QED BY <1>0, <3>1, NextMonths
  <2>16. date < End(ct, y, m)
    <3>1. CASE x < 11
      <4>1. PICK z \in Int : z = IF x = 9 THEN y + 1 ELSE y
        OBVIOUS
      <4>2. PICK l \in 1..12 : l = IF x = 9 THEN 1 ELSE m + 1
        BY <2>6, <2>8, <3>1
      <4>3. NextMonth(ct, y, m) = <<z, l>>
        <5>1. m = 12 <=> x = 9
          BY <2>6, <2>8
        <5> QED BY <2>15, <4>1, <4>2, <5>1
      <4>4. /\ MarchYear(z, l) = IF l <= 2 THEN z - 1 ELSE z
            /\ MarchMonth(l) = IF l <= 2 THEN l + 9 ELSE l - 3
            /\ First("milankovic", <<z, l>>)
                 = BeforeMarch(MarchYear(z, l)) + DaysOfMarchMonths(MarchMonth(l)) - 305
        BY MilankovicMonth, ZenonT(60) DEF FromMarch
      <4>5. MarchYear(z, l) = march /\ MarchMonth(l) = x + 1
        BY <2>6, <2>7, <2>8, <2>9, <3>1, <4>1, <4>2, <4>4
      <4>6. PICK end \in Int : end = DaysOfMarchMonths(x + 1)
        BY <2>6, SMT DEF DaysOfMarchMonths
      <4>7. End(ct, y, m) = century + years + end - 305
        BY <1>0, <2>12, <4>3, <4>4, <4>5, <4>6 DEF End
      <4>8. months + d <= end
        BY <2>6, <2>11, <3>1, <4>6
      <4> QED BY <2>4, <2>6, <2>11, <4>7, <4>8
    <3>2. CASE x = 11
      <4>1. PICK l \in 1..12 : l = 3
        OBVIOUS
      <4>2. NextMonth(ct, y, m) = <<y, l>> /\ y = march + 1
        BY <2>7, <2>8, <2>9, <2>15, <3>2, <4>1
      <4>0. FromMarch(y, l)
        BY MilankovicMonth
      <4>3. /\ MarchYear(y, l) = IF l <= 2 THEN y - 1 ELSE y
            /\ MarchMonth(l) = IF l <= 2 THEN l + 9 ELSE l - 3
            /\ First("milankovic", <<y, l>>)
                 = BeforeMarch(MarchYear(y, l)) + DaysOfMarchMonths(MarchMonth(l)) - 305
        BY <4>0 DEF FromMarch
      <4>4. MarchYear(y, l) = y /\ MarchMonth(l) = 0
        BY <4>1, <4>3
      <4>5. DaysOfMarchMonths(0) = 0
        BY SMT DEF DaysOfMarchMonths
      <4>6. BeforeMarch(y) \in Int
        BY MarchYears
      <4>7. End(ct, y, m) = BeforeMarch(y) - 305
        BY <1>0, <4>2, <4>3, <4>4, <4>5, <4>6 DEF End
      <4>8. CASE n < 99
        <5>1. y \div 100 = c /\ y % 100 = n + 1
          BY <2>6, <2>9, <4>2, <4>8, SMT
        <5>2. BeforeMarch(y) = century + (36525 * (n + 1)) \div 100
          BY <2>3, <5>1 DEF BeforeMarch
        <5>3. days < (36525 * (n + 1)) \div 100
          BY <2>6, <3>2, <4>8
        <5> QED BY <2>4, <2>6, <4>7, <5>2, <5>3
      <4>9. CASE n = 99
        <5>1. y \div 100 = c + 1 /\ y % 100 = 0
          BY <2>6, <2>9, <4>2, <4>9, SMT
        <5>2. BeforeMarch(y) = next
          BY <2>3, <5>1, SMT DEF BeforeMarch
        <5> QED BY <2>4, <4>7, <5>2
      <4> QED BY <2>6, <4>8, <4>9
    <3> QED BY <2>6, <3>1, <3>2
  <2>17. HasMonth(ct, y, m)
    BY <1>0, NumbersOfMonths DEF HasMonth
  <2>18. DateIn(ct, date, y, m)
    BY <2>10, <2>14, <2>16, <2>17 DEF DateIn, InMonth, End
  <2> QED BY <2>18
<1>3. PICK B : Regular(ct, 12, Int, s, N, B)
  BY <1>1, JanuaryIsRegular
<1> QED BY <1>0, <1>2, <1>3, RegularGoesOn

(* The Indian calendar: the days before a month, whose year has a first month of
   so many, and the new year. *)
BeforeIndianMonth(m, first) ==
  IF m = 1 THEN 0
  ELSE first + 31 * (IF m - 2 > 5 THEN 5 ELSE m - 2) + (IF m >= 8 THEN 30 * (m - 7) ELSE 0)

IndianNewYearDay == [y \in Int |-> gregorian_to_cjdn(y + 78, 1, 1) + 80 - CJDN]
IndianFirst == [y \in Int |-> FirstIndianMonth(isLeapYear(y + 78))]

(* An Indian year ends where the next begins, and its first month has 30 or 31 days. *)
LEMMA IndianYears ==
  ASSUME NEW y \in Int
  PROVE  /\ IndianFirst[y] \in {30, 31} /\ IndianNewYearDay[y] \in Int
         /\ IndianNewYearDay[y + 1] = IndianNewYearDay[y] + 335 + IndianFirst[y]
         /\ \A z \in Int : y < z => IndianNewYearDay[y + 1] <= IndianNewYearDay[z]
         /\ \A m \in Int : First("indian", <<y, m>>)
                             = IndianNewYearDay[y] + BeforeIndianMonth(m, IndianFirst[y])
<1>1. PICK g \in Int, next \in Int : g = y + 78 /\ next = g + 1
  OBVIOUS
<1>2. PICK first \in {30, 31} : first = FirstIndianMonth(isLeapYear(g))
  BY DEF FirstIndianMonth
<1>3. IndianFirst[y] = first /\ IndianNewYearDay[y] = gregorian_to_cjdn(g, 1, 1) + 80 - CJDN
  BY <1>1, <1>2 DEF IndianFirst, IndianNewYearDay
<1>4. /\ gregorian_to_cjdn(g, 3, IF isLeapYear(g) THEN 21 ELSE 22) = gregorian_to_cjdn(g, 1, 1) + 80
      /\ gregorian_to_cjdn(next, 1, 1) = gregorian_to_cjdn(g, 1, 1) + 335 + first
      /\ gregorian_to_cjdn(g, 1, 1) \in Int /\ gregorian_to_cjdn(next, 1, 1) \in Int
  <2>1. /\ gregorian_to_cjdn(g, 3, IF isLeapYear(g) THEN 21 ELSE 22) = gregorian_to_cjdn(g, 1, 1) + 80
        /\ gregorian_to_cjdn(g + 1, 1, 1)
             = gregorian_to_cjdn(g, 1, 1) + IF isLeapYear(g) THEN 366 ELSE 365
        /\ gregorian_to_cjdn(g, 1, 1) \in Int
    BY IndianNewYear
  <2> QED BY <2>1, <1>1, <1>2, SMT DEF FirstIndianMonth
<1>5. PICK z0 \in Int : z0 = y + 1 /\ z0 + 78 = next
  BY <1>1
<1>6. IndianNewYearDay[z0] = gregorian_to_cjdn(next, 1, 1) + 80 - CJDN
  BY <1>5 DEF IndianNewYearDay
<1>7. IndianNewYearDay[z0] = IndianNewYearDay[y] + 335 + first /\ IndianNewYearDay[y] \in Int
  BY <1>3, <1>4, <1>6, SMT DEF CJDN
<1>8. ASSUME NEW z \in Int, y < z PROVE IndianNewYearDay[z0] <= IndianNewYearDay[z]
  <2>1. PICK h \in Int : h = z + 78 /\ g < h
    BY <1>1, <1>8
  <2>2. IndianNewYearDay[z] = gregorian_to_cjdn(h, 1, 1) + 80 - CJDN
    BY <2>1 DEF IndianNewYearDay
  <2>3. /\ gregorian_to_cjdn(next, 1, 1) = gregorian_to_fixed(next, 1, 1) + CJDN
        /\ gregorian_to_cjdn(h, 1, 1) = gregorian_to_fixed(h, 1, 1) + CJDN
    BY GregorianFormula, SMT
  <2>4. gregorian_to_fixed(next, 1, 1) <= gregorian_to_fixed(h, 1, 1)
    <3>1. \A x \in Int : g < x => gregorian_to_fixed(g + 1, 1, 1) <= gregorian_to_fixed(x, 1, 1)
      BY Januaries, ZenonT(60)
    <3>2. gregorian_to_fixed(g + 1, 1, 1) <= gregorian_to_fixed(h, 1, 1)
      BY <2>1, <3>1
    <3> QED BY <1>1, <3>2
  <2>5. gregorian_to_fixed(next, 1, 1) \in Int /\ gregorian_to_fixed(h, 1, 1) \in Int
    BY Januaries
  <2> QED BY <1>6, <2>2, <2>3, <2>4, <2>5, SMT DEF CJDN
<1>9. ASSUME NEW m \in Int
      PROVE  First("indian", <<y, m>>) = IndianNewYearDay[y] + BeforeIndianMonth(m, IndianFirst[y])
  <2>1. First("indian", <<y, m>>) = indian_to_cjdn(y, m, 1) - CJDN
    BY Conversions DEF First
  <2>2. PICK jan \in Int : jan = gregorian_to_cjdn(g, 1, 1)
    BY <1>4
  <2>3. indian_to_cjdn(y, m, 1) = jan + 80 + BeforeIndianMonth(m, first) + 1 - 1
    BY <1>1, <1>2, <1>4, <2>2, SMT DEF indian_to_cjdn, BeforeIndianMonth
  <2>4. BeforeIndianMonth(m, first) \in Int
    BY SMT DEF BeforeIndianMonth
  <2> QED BY <1>3, <2>1, <2>2, <2>3, <2>4, SMT DEF CJDN
<1> QED BY <1>2, <1>3, <1>5, <1>7, <1>8, <1>9

(* How an Indian year is divided into months. *)
LEMMA IndianMonths ==
  ASSUME NEW first \in {30, 31}
  PROVE  /\ BeforeIndianMonth(1, first) = 0 /\ BeforeIndianMonth(13, first) = 335 + first
         /\ \A m \in 1..13 : BeforeIndianMonth(m, first) \in Int
         /\ \A m \in 1..12 : BeforeIndianMonth(m + 1, first) - BeforeIndianMonth(m, first) >= 28
         /\ \A m, n \in 1..12 : m < n =>
              BeforeIndianMonth(m + 1, first) <= BeforeIndianMonth(n, first)
  BY DEF BeforeIndianMonth

(* Indian years follow each other regularly. *)
LEMMA IndianRegular == \E B : Regular("indian", 12, Int, Successor, IndianNewYearDay, B)
<1>0. PICK ct : ct = "indian"
  OBVIOUS
<1>1. PICK k \in {12} : k = 12 /\ k + 1 = 13
  OBVIOUS
<1>2. PICK s, N, F : s = Successor /\ N = IndianNewYearDay /\ F = IndianFirst
  OBVIOUS
<1>3. PICK B : B = [y \in Int |-> [m \in 1..13 |-> BeforeIndianMonth(m, F[y])]]
  OBVIOUS
<1>4. PICK Y : Y = Int
  OBVIOUS
<1>5. ASSUME NEW y \in Y
      PROVE  /\ y \in Int /\ F[y] \in {30, 31} /\ s[y] = y + 1 /\ s[y] \in Y /\ N[y] \in Int
             /\ N[s[y]] = N[y] + 335 + F[y]
             /\ \A z \in Y : y < z => N[s[y]] <= N[z]
             /\ \A m \in Int : First(ct, <<y, m>>) = N[y] + BeforeIndianMonth(m, F[y])
  <2>1. y \in Int
    BY <1>4
  <2>2. s[y] = y + 1 /\ s[y] \in Y
    BY <1>2, <1>4, <2>1 DEF Successor
  <2>3. /\ F[y] \in {30, 31} /\ N[y] \in Int
        /\ N[y + 1] = N[y] + 335 + F[y]
        /\ \A z \in Int : y < z => N[y + 1] <= N[z]
        /\ \A m \in Int : First(ct, <<y, m>>) = N[y] + BeforeIndianMonth(m, F[y])
    BY <1>0, <1>2, <2>1, IndianYears
  <2> QED BY <1>4, <2>1, <2>2, <2>3
<1>6. ASSUME NEW y \in Y, NEW m \in 1..13 PROVE B[y][m] = BeforeIndianMonth(m, F[y])
  BY <1>3, <1>4
<1>7. ASSUME NEW y \in Y
      PROVE  /\ B[y][1] = 0 /\ B[y][13] = 335 + F[y]
             /\ \A m \in 1..13 : B[y][m] \in Int
             /\ \A m \in 1..12 : B[y][m + 1] - B[y][m] >= 28
             /\ \A m, n \in 1..12 : m < n => B[y][m + 1] <= B[y][n]
  <2>1. PICK first \in {30, 31} : first = F[y]
    BY <1>5
  <2>2. \A m \in 1..13 : B[y][m] = BeforeIndianMonth(m, first)
    BY <1>6, <2>1
  <2>3. \A m \in 1..12 : B[y][m] = BeforeIndianMonth(m, first)
                         /\ B[y][m + 1] = BeforeIndianMonth(m + 1, first)
    BY <2>2
  <2>4. B[y][1] = 0 /\ B[y][13] = 335 + F[y]
    BY <2>1, <2>2, IndianMonths
  <2>5. \A m \in 1..13 : B[y][m] \in Int
    BY <2>2, IndianMonths
  <2>6. \A m \in 1..12 : B[y][m + 1] - B[y][m] >= 28
    BY <2>3, IndianMonths
  <2>7. \A m, n \in 1..12 : m < n => B[y][m + 1] <= B[y][n]
    BY <2>3, IndianMonths
  <2> QED BY <2>4, <2>5, <2>6, <2>7
<1>8. ASSUME NEW y \in Y, NEW m \in 1..k
      PROVE  /\ First(ct, <<y, m>>) = N[y] + B[y][m]
             /\ NextMonth(ct, y, m) = IF m = k THEN <<s[y], 1>> ELSE <<y, m + 1>>
  <2>1. m \in Int /\ m \in 1..13
    BY <1>1
  <2>2. First(ct, <<y, m>>) = N[y] + BeforeIndianMonth(m, F[y])
    BY <1>5, <2>1
  <2>3. B[y][m] = BeforeIndianMonth(m, F[y])
    BY <1>6, <2>1
  <2>4. y \in Int /\ s[y] = y + 1
    BY <1>5
  <2>5. NextMonth(ct, y, m) = IF m = 12 THEN <<y + 1, 1>> ELSE <<y, m + 1>>
    BY <1>0, <2>1, <2>4, NextMonths
  <2> QED BY <1>1, <2>2, <2>3, <2>4, <2>5
<1>9. /\ Y \subseteq Int /\ k \in {12, 13}
      /\ \A y \in Y : s[y] \in Y /\ y < s[y] /\ N[y] \in Int /\ N[s[y]] = N[y] + B[y][k + 1]
      /\ \A y \in Y, z \in Y : y < z => N[s[y]] <= N[z]
      /\ \A y \in Y : B[y][1] = 0
  <2>1. ASSUME NEW y \in Y
        PROVE  s[y] \in Y /\ y < s[y] /\ N[y] \in Int /\ N[s[y]] = N[y] + B[y][k + 1]
    <3>1. B[y][k + 1] = 335 + F[y]
      BY <1>1, <1>7
    <3>2. /\ y \in Int /\ F[y] \in {30, 31} /\ s[y] = y + 1 /\ s[y] \in Y /\ N[y] \in Int
          /\ N[s[y]] = N[y] + 335 + F[y]
      BY <1>5
    <3> QED BY <3>1, <3>2
  <2>2. \A y \in Y, z \in Y : y < z => N[s[y]] <= N[z]
    BY <1>5
  <2> QED BY <1>1, <1>4, <1>7, <2>1, <2>2
<1>10. /\ \A y \in Y : \A m \in 1..k + 1 : B[y][m] \in Int
       /\ \A y \in Y : \A m \in 1..k : B[y][m + 1] - B[y][m] >= 28
                                        \/ (m = 13 /\ B[y][m + 1] - B[y][m] \in {5, 6})
       /\ \A y \in Y : \A m, n \in 1..k : m < n => B[y][m + 1] <= B[y][n]
  <2>1. \A y \in Y : \A m \in 1..k + 1 : B[y][m] \in Int
    BY <1>1, <1>7
  <2>2. \A y \in Y : \A m \in 1..k : B[y][m + 1] - B[y][m] >= 28
    BY <1>1, <1>7
  <2>3. \A y \in Y : \A m, n \in 1..k : m < n => B[y][m + 1] <= B[y][n]
    BY <1>1, <1>7
  <2> QED BY <2>1, <2>2, <2>3
<1>11. \A y, m \in Int : HasMonth(ct, y, m) <=> y \in Y /\ m \in 1..k
  BY <1>0, <1>1, <1>4, NumbersOfMonths DEF HasMonth
<1>12. Regular(ct, k, Y, s, N, B)
  BY ONLY <1>8, <1>9, <1>10, <1>11 DEF Regular
<1> QED BY <1>0, <1>1, <1>2, <1>4, <1>12

(* The month of an Indian year whose day p it is. *)
IndianMonthOf(p, first) ==
  IF p < first THEN 1
  ELSE IF p - first < 155 THEN (p - first) \div 31 + 2 ELSE (p - first - 155) \div 30 + 7

(* A day of an Indian year is in the month found for it. *)
LEMMA IndianMonthOfDay ==
  ASSUME NEW first \in {30, 31}, NEW p \in Int, 0 <= p, p < 335 + first,
         NEW m, m = IndianMonthOf(p, first)
  PROVE  /\ m \in 1..12
         /\ BeforeIndianMonth(m, first) \in Int /\ BeforeIndianMonth(m + 1, first) \in Int
         /\ BeforeIndianMonth(m, first) <= p /\ p < BeforeIndianMonth(m + 1, first)
<1>1. CASE p < first
  BY <1>1, SMT DEF IndianMonthOf, BeforeIndianMonth
<1>2. CASE p >= first /\ p - first < 155
  <2>1. PICK n \in 0..4 : n = (p - first) \div 31 /\ m = n + 2
    BY <1>2, SMT DEF IndianMonthOf
  <2>2. 31 * n <= p - first /\ p - first < 31 * (n + 1)
    BY <1>2, <2>1, SMT
  <2> QED BY <2>1, <2>2, SMT DEF BeforeIndianMonth
<1>3. CASE p - first >= 155
  <2>1. PICK n \in 0..5 : n = (p - first - 155) \div 30 /\ m = n + 7
    BY <1>3, SMT DEF IndianMonthOf
  <2>2. 30 * n <= p - first - 155 /\ p - first - 155 < 30 * (n + 1)
    BY <1>3, <2>1, SMT
  <2> QED BY <2>1, <2>2, SMT DEF BeforeIndianMonth
<1> QED BY <1>1, <1>2, <1>3, SMT

(* The Indian date of a day, by the day's place in its year.  The code takes
   the length of the first month from the Gregorian year of the day, which for
   the days before the Indian new year is the wrong one, but no such day is in
   the first month, and from the second month on that length cancels out. *)
IsIndianDay(J, y, p, first) ==
  /\ first = IndianFirst[y] /\ p = J - CJDN - IndianNewYearDay[y]
  /\ 0 <= p /\ p < 335 + first
  /\ cjdn_to_indian(J)
       = <<y, IndianMonthOf(p, first), p - BeforeIndianMonth(IndianMonthOf(p, first), first) + 1>>

(* Every day has its Indian date, before the new year in the year before. *)
LEMMA IndianDay ==
  ASSUME NEW J \in Int
  PROVE  \E y \in Int, p \in Int, first \in {30, 31} : IsIndianDay(J, y, p, first)
<1>1. PICK year \in Int, jan1 \in Int :
        /\ year = cjdn_to_gregorian(J)[1]
        /\ jan1 = gregorian_to_cjdn(year, 1, 1)
        /\ jan1 <= J /\ J <= jan1 + IF isLeapYear(year) THEN 365 ELSE 364
  BY DayOfCjdnYear
<1>2. PICK since \in Int : since = J - jan1 - 80
  OBVIOUS
<1>3. PICK y \in Int, g \in Int : y = (IF since < 0 THEN year - 79 ELSE year - 78) /\ g = y + 78
  OBVIOUS
<1>4. PICK first \in {30, 31}, of \in {30, 31} :
        first = FirstIndianMonth(isLeapYear(g)) /\ of = FirstIndianMonth(isLeapYear(year))
  <2>1. PICK first \in {30, 31} : first = FirstIndianMonth(isLeapYear(g))
    BY DEF FirstIndianMonth
  <2>2. PICK of \in {30, 31} : of = FirstIndianMonth(isLeapYear(year))
    BY DEF FirstIndianMonth
  <2> QED BY <2>1, <2>2
<1>5. PICK newYear \in Int :
        /\ newYear = gregorian_to_cjdn(g, 1, 1) + 80
        /\ gregorian_to_cjdn(g + 1, 1, 1) = newYear + 255 + first
  <2>1. /\ gregorian_to_cjdn(g + 1, 1, 1)
             = gregorian_to_cjdn(g, 1, 1) + IF isLeapYear(g) THEN 366 ELSE 365
        /\ gregorian_to_cjdn(g, 1, 1) \in Int
    BY IndianNewYear
  <2> QED BY <2>1, <1>4, SMT DEF FirstIndianMonth
<1>6. IndianFirst[y] = first /\ IndianNewYearDay[y] = newYear - CJDN
  <2>1. /\ IndianFirst[y] = FirstIndianMonth(isLeapYear(g))
        /\ IndianNewYearDay[y] = gregorian_to_cjdn(g, 1, 1) + 80 - CJDN
    BY <1>3 DEF IndianFirst, IndianNewYearDay
  <2>2. IndianFirst[y] = first
    BY <1>4, <2>1
  <2>3. PICK jan \in Int : jan = gregorian_to_cjdn(g, 1, 1)
    BY IndianNewYear
  <2>4. newYear = jan + 80
    BY <1>5, <2>3
  <2>5. IndianNewYearDay[y] = jan + 80 - CJDN
    BY <2>1, <2>3
  <2>6. IndianNewYearDay[y] = newYear - CJDN
    BY <2>4, <2>5, SMT DEF CJDN
  <2> QED BY <2>2, <2>6
<1>7. PICK p \in Int : p = J - newYear
  OBVIOUS
<1>8. 0 <= p /\ p < 335 + first
  <2>1. CASE since >= 0
    <3>1. g = year
      BY <1>3, <2>1
    <3>2. p = since
      BY <1>1, <1>2, <1>5, <1>7, <3>1
    <3> QED BY <1>1, <1>2, <1>4, <2>1, <3>1, <3>2, SMT DEF FirstIndianMonth
  <2>2. CASE since < 0
    <3>1. g + 1 = year
      BY <1>3, <2>2
    <3>2. jan1 = newYear + 255 + first
      BY <1>1, <1>5, <3>1
    <3> QED BY <1>1, <1>2, <1>4, <1>7, <2>2, <3>2
  <2> QED BY <2>1, <2>2
<1>9. PICK m \in 1..12 : m = IndianMonthOf(p, first)
  <2>1. PICK m : m = IndianMonthOf(p, first)
    OBVIOUS
  <2>2. m \in 1..12
    BY <1>8, <2>1, IndianMonthOfDay
  <2> QED BY <2>1, <2>2
<1>10. cjdn_to_indian(J) = <<y, m, p - BeforeIndianMonth(m, first) + 1>>
  <2>1. CASE since >= 0
    <3>1. g = year /\ of = first /\ p = since
      BY <1>1, <1>2, <1>3, <1>4, <1>5, <1>7, <2>1
    <3>2. cjdn_to_indian(J) =
            IF p < first THEN <<y, 1, p + 1>>
            ELSE IF p - first < 155
            THEN <<y, (p - first) \div 31 + 2, ((p - first) % 31) + 1>>
            ELSE <<y, (p - first - 155) \div 30 + 7, ((p - first - 155) % 30) + 1>>
      BY <1>1, <1>2, <1>3, <1>4, <2>1, <3>1, SMT DEF cjdn_to_indian
    <3>3. CASE p < first
      <4>1. m = 1 /\ p - BeforeIndianMonth(m, first) + 1 = p + 1
        BY <1>9, <3>3 DEF IndianMonthOf, BeforeIndianMonth
      <4> QED BY <3>2, <3>3, <4>1
    <3>4. CASE p >= first /\ p - first < 155
      <4>1. m = (p - first) \div 31 + 2
        BY <1>9, <3>4 DEF IndianMonthOf
      <4>2. p - BeforeIndianMonth(m, first) + 1 = ((p - first) % 31) + 1
        BY <3>4, <4>1, SMT DEF BeforeIndianMonth
      <4> QED BY <3>2, <3>4, <4>1, <4>2
    <3>5. CASE p - first >= 155
      <4>1. m = (p - first - 155) \div 30 + 7
        BY <1>9, <3>5 DEF IndianMonthOf
      <4>2. p - BeforeIndianMonth(m, first) + 1 = ((p - first - 155) % 30) + 1
        BY <1>8, <3>5, <4>1, SMT DEF BeforeIndianMonth
      <4> QED BY <3>2, <3>5, <4>1, <4>2
    <3> QED BY <3>3, <3>4, <3>5
  <2>2. CASE since < 0
    <3>1. g + 1 = year /\ jan1 = newYear + 255 + first
      BY <1>1, <1>3, <1>5, <2>2
    <3>2. p = since + 335 + first /\ since >= -80
      BY <1>1, <1>2, <1>7, <3>1
    <3>3. cjdn_to_indian(J) = <<y, (since + 180) \div 30 + 7, ((since + 180) % 30) + 1>>
      BY <1>1, <1>2, <1>3, <2>2, <3>2, SMT DEF cjdn_to_indian, FirstIndianMonth
    <3>4. p - first - 155 = since + 180 /\ p - first >= 155 /\ ~(p < first) /\ ~(p - first < 155)
      BY <3>2
    <3>5. m = (since + 180) \div 30 + 7
      BY <1>9, <3>4 DEF IndianMonthOf
    <3>6. p - BeforeIndianMonth(m, first) + 1 = ((since + 180) % 30) + 1
      BY <1>8, <2>2, <3>2, <3>5, SMT DEF BeforeIndianMonth
    <3> QED BY <3>3, <3>5, <3>6
  <2> QED BY <2>1, <2>2
<1>11. p = J - CJDN - IndianNewYearDay[y]
  BY <1>6, <1>7, SMT DEF CJDN
<1>12. IsIndianDay(J, y, p, first)
  BY <1>6, <1>8, <1>9, <1>10, <1>11 DEF IsIndianDay
<1> QED BY <1>12

(* The Indian calendar goes on. *)
LEMMA IndianGoesOn == GoesOn("indian")
<1>0. PICK ct : ct = "indian"
  OBVIOUS
<1>1. PICK s, N, F : s = Successor /\ N = IndianNewYearDay /\ F = IndianFirst
  OBVIOUS
<1>2. ASSUME NEW date \in Int PROVE \E y, m \in Int : DateIn(ct, date, y, m)
  <2>1. PICK J \in Int : J = date + CJDN
    BY DEF CJDN
  <2>2. PICK y \in Int, p \in Int, first \in {30, 31} : IsIndianDay(J, y, p, first)
    BY IndianDay
  <2>3. /\ first = F[y] /\ p = J - CJDN - N[y] /\ 0 <= p /\ p < 335 + first
        /\ cjdn_to_indian(J) = <<y, IndianMonthOf(p, first),
                                 p - BeforeIndianMonth(IndianMonthOf(p, first), first) + 1>>
    BY <1>1, <2>2 DEF IsIndianDay
  <2>4. PICK m : m = IndianMonthOf(p, first)
    OBVIOUS
  <2>5. /\ m \in 1..12
        /\ BeforeIndianMonth(m, first) \in Int /\ BeforeIndianMonth(m + 1, first) \in Int
        /\ BeforeIndianMonth(m, first) <= p /\ p < BeforeIndianMonth(m + 1, first)
    BY <2>3, <2>4, IndianMonthOfDay
  <2>6. PICK a \in Int : a = N[y]
    BY <1>1, IndianYears
  <2>7. p = date - a
    BY <2>1, <2>3, <2>6, SMT DEF CJDN
  <2>8. \A l \in Int : First(ct, <<y, l>>) = a + BeforeIndianMonth(l, first)
    BY <1>0, <1>1, <2>3, <2>6, IndianYears
  <2>9. First(ct, <<y, m>>) = a + BeforeIndianMonth(m, first)
    BY <2>5, <2>8
  <2>10. NextMonth(ct, y, m) = IF m = 12 THEN <<y + 1, 1>> ELSE <<y, m + 1>>
    <3>1. m \in Int
      BY <2>5
    <3> QED BY <1>0, <3>1, NextMonths
  <2>11. End(ct, y, m) = a + BeforeIndianMonth(m + 1, first)
    <3>1. CASE m = 12
      <4>1. PICK z \in Int : z = y + 1
        OBVIOUS
      <4>2. N[z] = a + 335 + first /\ F[z] \in {30, 31}
        BY <1>1, <2>3, <2>6, <4>1, IndianYears
      <4>3. PICK f \in {30, 31} : f = F[z]
        BY <4>2
      <4>4. First(ct, <<z, 1>>) = N[z] + BeforeIndianMonth(1, F[z])
        BY <1>0, <1>1, IndianYears
      <4>5. BeforeIndianMonth(1, f) = 0 /\ BeforeIndianMonth(13, first) = 335 + first
        BY IndianMonths
      <4>6. First(ct, <<z, 1>>) = a + BeforeIndianMonth(13, first)
        BY <4>2, <4>3, <4>4, <4>5
      <4>7. m + 1 = 13
        BY <3>1
      <4> QED BY <2>10, <3>1, <4>1, <4>6, <4>7 DEF End
    <3>2. CASE m # 12
      <4>1. PICK l \in Int : l = m + 1
        BY <2>5
      <4> QED BY <2>8, <2>10, <3>2, <4>1 DEF End
    <3> QED BY <3>1, <3>2
  <2>12. fixed_to_date(date, ct) = <<y, m, date - First(ct, <<y, m>>) + 1>>
    <3>1. fixed_to_date(date, ct) = cjdn_to_indian(date + CJDN)
      BY <1>0, Conversions
    <3>2. p - BeforeIndianMonth(m, first) + 1 = date - First(ct, <<y, m>>) + 1
      BY <2>5, <2>7, <2>9
    <3> QED BY <2>1, <2>3, <2>4, <3>1, <3>2
  <2>13. First(ct, <<y, m>>) <= date /\ date < End(ct, y, m)
    BY <2>5, <2>7, <2>9, <2>11
  <2>14. HasMonth(ct, y, m) /\ m \in Int
    BY <1>0, <2>5, NumbersOfMonths DEF HasMonth
  <2>15. DateIn(ct, date, y, m)
    BY <2>12, <2>13, <2>14 DEF DateIn, InMonth, End
  <2> QED BY <2>14, <2>15
<1>3. PICK B : Regular(ct, 12, Int, s, N, B)
  BY <1>0, <1>1, IndianRegular
<1> QED BY <1>0, <1>2, <1>3, RegularGoesOn

(* The order of the months of a Hebrew year, which begins with the seventh. *)
HebrewBefore(m, n) == \/ m < n /\ (m >= 7 \/ n < 7)
                      \/ m >= 7 /\ n < 7

(* The day after a month of a Hebrew year. *)
MonthEnd(y, m) == MonthStart(y, m) + last_day_of_hebrew_month(y, m)

(* The months of a Hebrew year are in that order, each ends where the next begins, and
   the sixth with the year. *)
LEMMA HebrewMonthEnds ==
  ASSUME NEW y \in Int, NEW m \in 1..last_month_of_hebrew_year(y)
  PROVE  /\ m \in 1..13 /\ MonthStart(y, m) \in Int /\ MonthEnd(y, m) \in Int
         /\ MonthEnd(y, m) - MonthStart(y, m) \in {29, 30}
         /\ hebrew_new_year(y) <= MonthStart(y, m) /\ MonthEnd(y, m) <= hebrew_new_year(y + 1)
         /\ m = 6 => MonthEnd(y, m) = hebrew_new_year(y + 1)
         /\ m # 6 /\ m < last_month_of_hebrew_year(y) => MonthEnd(y, m) = MonthStart(y, m + 1)
         /\ m = last_month_of_hebrew_year(y) => MonthEnd(y, m) = MonthStart(y, 1)
         /\ \A n \in 1..last_month_of_hebrew_year(y) :
              HebrewBefore(m, n) => MonthEnd(y, m) <= MonthStart(y, n)
<1>1. PICK l \in {12, 13}, n \in Int, ny \in Int, next \in Int :
        /\ l = last_month_of_hebrew_year(y) /\ n = days_in_hebrew_year(y)
        /\ ny = hebrew_new_year(y) /\ next = hebrew_new_year(y + 1)
        /\ n = next - ny
        /\ l = 12 => n \in {353, 354, 355}
        /\ l = 13 => n \in {383, 384, 385}
  BY HebrewYear
<1>2. PICK a, b \in 0..1 : /\ a = IF n \in {355, 385} THEN 1 ELSE 0
                           /\ b = IF n \in {353, 383} THEN 1 ELSE 0
  OBVIOUS
<1>3. n = 354 + 30 * (l - 12) + a - b
  BY <1>1, <1>2
<1>4. /\ \A k \in 1..6 : MonthStart(y, k) = next - 177 + (59 * (k - 1) + 1) \div 2
      /\ \A k \in 7..13 : MonthStart(y, k)
             = ny + (59 * (k - 7) + 1) \div 2 + (IF k = 13 THEN 1 ELSE 0)
                 + (IF k >= 9 THEN a ELSE 0) - (IF k >= 10 THEN b ELSE 0)
  BY <1>1, <1>2 DEF MonthStart
<1>5. /\ \A k \in 1..13 : MonthStart(y, k) \in Int
      /\ MonthStart(y, 7) = ny
      /\ \A k \in 1..12 : k # 6 /\ k < l =>
           MonthStart(y, k + 1) = MonthStart(y, k) + last_day_of_hebrew_month(y, k)
      /\ MonthStart(y, 1) = MonthStart(y, l) + last_day_of_hebrew_month(y, l)
      /\ next = MonthStart(y, 6) + last_day_of_hebrew_month(y, 6)
  <2>1. /\ \A k \in 1..13 : MonthStart(y, k) \in Int
        /\ MonthStart(y, 7) = hebrew_new_year(y)
        /\ \A k \in 1..12 : k # 6 /\ k < last_month_of_hebrew_year(y) =>
             MonthStart(y, k + 1) = MonthStart(y, k) + last_day_of_hebrew_month(y, k)
        /\ MonthStart(y, 1) = MonthStart(y, last_month_of_hebrew_year(y))
             + last_day_of_hebrew_month(y, last_month_of_hebrew_year(y))
        /\ hebrew_new_year(y + 1) = MonthStart(y, 6) + last_day_of_hebrew_month(y, 6)
    BY HebrewMonthsFill
  <2> QED BY <1>1, <2>1
<1>6. m \in 1..13 /\ m \in 1..l
  BY <1>1
<1>7. /\ last_day_of_hebrew_month(y, m) \in {29, 30}
      /\ MonthEnd(y, m) = MonthStart(y, m) + last_day_of_hebrew_month(y, m)
  BY <1>6, HebrewMonthLengths DEF MonthEnd
<1>8. /\ MonthStart(y, m) \in Int /\ MonthEnd(y, m) \in Int
      /\ MonthEnd(y, m) - MonthStart(y, m) \in {29, 30}
  BY <1>5, <1>6, <1>7
<1>9. /\ m = 6 => MonthEnd(y, m) = next
      /\ m # 6 /\ m < l => MonthEnd(y, m) = MonthStart(y, m + 1)
      /\ m = l => MonthEnd(y, m) = MonthStart(y, 1)
  <2>1. m < l => m \in 1..12
    BY <1>1, <1>6
  <2> QED BY <1>5, <1>6, <1>7, <2>1
<1>10. ASSUME NEW k \in 1..l, HebrewBefore(m, k)
       PROVE  MonthEnd(y, m) <= MonthStart(y, k)
  <2>0. k \in 1..13
    BY <1>1
  <2>1. CASE m < 7 /\ k < 7
    <3>1. m < k /\ m \in 1..5 /\ k \in 2..6 /\ m # 6 /\ m < l
      BY <1>1, <1>6, <1>10, <2>0, <2>1 DEF HebrewBefore
    <3>2. PICK j \in 2..6 : j = m + 1 /\ j <= k
      BY <3>1
    <3>3. MonthEnd(y, m) = MonthStart(y, j)
      BY <1>9, <3>1, <3>2
    <3> QED BY <1>1, <1>4, <3>1, <3>2, <3>3
  <2>2. CASE m >= 7 /\ k >= 7
    <3>1. m < k /\ m \in 7..12 /\ k \in 8..13 /\ m # 6 /\ m < l
      BY <1>1, <1>6, <1>10, <2>0, <2>2 DEF HebrewBefore
    <3>2. PICK j \in 8..13 : j = m + 1 /\ j <= k
      BY <3>1
    <3>3. MonthEnd(y, m) = MonthStart(y, j)
      BY <1>9, <3>1, <3>2
    <3> QED BY <1>1, <1>2, <1>4, <3>1, <3>2, <3>3
  <2>3. CASE m >= 7 /\ k < 7
    <3>1. MonthStart(y, 1) <= MonthStart(y, k)
      BY <1>1, <1>4, <2>0, <2>3
    <3>2. CASE m = l
      BY <1>9, <3>1, <3>2
    <3>3. CASE m < l
      <4>1. MonthEnd(y, m) = MonthStart(y, m + 1) /\ m \in 7..12
        BY <1>1, <1>6, <1>9, <2>3, <3>3
      <4>2. PICK j \in 8..13 : j = m + 1 /\ j <= l
        BY <1>1, <3>3, <4>1
      <4>3. MonthStart(y, j) <= ny + n - 177
        BY <1>1, <1>2, <1>3, <1>4, <4>2
      <4>4. MonthStart(y, 1) = ny + n - 177
        BY <1>1, <1>4
      <4> QED BY <1>1, <1>5, <2>0, <3>1, <4>1, <4>2, <4>3, <4>4
    <3> QED BY <1>1, <1>6, <3>2, <3>3
  <2> QED BY <1>6, <1>10, <2>0, <2>1, <2>2, <2>3 DEF HebrewBefore
<1>11. ny <= MonthStart(y, m)
  BY <1>1, <1>2, <1>3, <1>4, <1>6
<1>12. MonthEnd(y, m) <= next
  <2>1. CASE m = 6
    BY <1>1, <1>9, <2>1
  <2>2. CASE m # 6
    <3>1. HebrewBefore(m, 6) /\ 6 \in 1..l
      BY <1>1, <1>6, <2>2 DEF HebrewBefore
    <3>2. MonthEnd(y, m) <= MonthStart(y, 6)
      BY <1>10, <3>1
    <3>3. last_day_of_hebrew_month(y, 6) = 29 /\ MonthStart(y, 6) \in Int
      BY <1>5, HebrewMonthLengths
    <3> QED BY <1>1, <1>5, <1>8, <3>2, <3>3
  <2> QED BY <2>1, <2>2
<1> QED BY <1>1, <1>6, <1>8, <1>9, <1>10, <1>11, <1>12

(* The new years of the Hebrew calendar follow each other in order. *)
LEMMA HebrewYearsInOrder ==
  ASSUME NEW y \in Int, NEW z \in Int, y < z
  PROVE  hebrew_new_year(y + 1) <= hebrew_new_year(z)
<1>1. PICK a \in Int : a = y + 1
  OBVIOUS
<1>2. CASE a = z
  <2>1. hebrew_new_year(z) \in Int
    BY NewYears
  <2> QED BY <1>1, <1>2, <2>1
<1>3. CASE a < z
  <2>1. PICK p \in Int, q \in Int : p = hebrew_new_year(a) /\ q = hebrew_new_year(z)
    BY NewYears
  <2>2. NearMean(p - HEBREW_EPOCH, a) /\ NearMean(q - HEBREW_EPOCH, z)
    BY <2>1, HebrewNewYearNearMean
  <2>3. /\ 98496 * (p - HEBREW_EPOCH) <= 35975351 * a - 35480857
        /\ 98496 * (q - HEBREW_EPOCH) >= 35975351 * z - 38630397
    BY <2>2, SMT DEF NearMean
  <2>4. HEBREW_EPOCH \in Int
    BY SMT DEF HEBREW_EPOCH
  <2>5. p <= q
    BY <1>3, <2>3, <2>4, SMT
  <2> QED BY <1>1, <2>1, <2>5
<1> QED BY <1>1, <1>2, <1>3

(* A month of the Hebrew calendar as the others see theirs. *)
LEMMA HebrewMonth ==
  ASSUME NEW ct, ct = "hebrew", NEW y \in Int, NEW m \in Int
  PROVE  /\ HasMonth(ct, y, m) <=> m \in 1..last_month_of_hebrew_year(y)
         /\ HasMonth(ct, y, m) =>
              /\ First(ct, <<y, m>>) = MonthStart(y, m)
              /\ End(ct, y, m) = MonthEnd(y, m)
              /\ NextMonth(ct, y, m)
                   = IF m = 6 THEN <<y + 1, 7>>
                     ELSE IF m = last_month_of_hebrew_year(y) THEN <<y, 1>> ELSE <<y, m + 1>>
              /\ NextMonth(ct, y, m) \in Int \X Int
              /\ HasMonth(ct, NextMonth(ct, y, m)[1], NextMonth(ct, y, m)[2])
<1>1. HasMonth(ct, y, m) <=> m \in 1..last_month_of_hebrew_year(y)
  BY DEF HasMonth
<1>2. \A z, n \in Int : n \in 1..last_month_of_hebrew_year(z) =>
        First(ct, <<z, n>>) = MonthStart(z, n)
  <2> SUFFICES ASSUME NEW z \in Int, NEW n \in Int, n \in 1..last_month_of_hebrew_year(z)
               PROVE  First(ct, <<z, n>>) = MonthStart(z, n)
    OBVIOUS
  <2>1. PICK one \in Int : one = 1
    OBVIOUS
  <2>2. hebrew_to_fixed(z, n, one) = MonthStart(z, n) + one - 1
    BY HebrewMonthStart
  <2>3. MonthStart(z, n) \in Int
    BY HebrewMonthEnds
  <2>4. date_to_fixed(z, n, 1, ct) = hebrew_to_fixed(z, n, 1)
    BY HebrewConversions
  <2>5. First(ct, <<z, n>>) = date_to_fixed(z, n, 1, ct)
    BY DEF First
  <2> QED BY <2>1, <2>2, <2>3, <2>4, <2>5
<1>3. ASSUME m \in 1..last_month_of_hebrew_year(y)
      PROVE  /\ End(ct, y, m) = MonthEnd(y, m)
             /\ NextMonth(ct, y, m)
                  = IF m = 6 THEN <<y + 1, 7>>
                    ELSE IF m = last_month_of_hebrew_year(y) THEN <<y, 1>> ELSE <<y, m + 1>>
             /\ NextMonth(ct, y, m) \in Int \X Int
             /\ HasMonth(ct, NextMonth(ct, y, m)[1], NextMonth(ct, y, m)[2])
  <2>0. PICK l \in {12, 13}, l2 \in {12, 13}, next \in Int :
          /\ l = last_month_of_hebrew_year(y)
          /\ next = y + 1 /\ l2 = last_month_of_hebrew_year(next)
    <3>1. PICK next \in Int : next = y + 1
      OBVIOUS
    <3>2. last_month_of_hebrew_year(y) \in {12, 13} /\ last_month_of_hebrew_year(next) \in {12, 13}
      BY NewYears
    <3> QED BY <3>1, <3>2
  <2>1. NextMonth(ct, y, m)
          = IF m = 6 THEN <<y + 1, 7>>
            ELSE IF m = last_month_of_hebrew_year(y) THEN <<y, 1>> ELSE <<y, m + 1>>
    <3>1. CASE m = 6
      BY <2>0, <3>1 DEF NextMonth
    <3>2. CASE m # 6 /\ m = last_month_of_hebrew_year(y)
      BY <3>2 DEF NextMonth
    <3>3. CASE m # 6 /\ m # last_month_of_hebrew_year(y)
      BY <3>3 DEF NextMonth
    <3> QED BY <3>1, <3>2, <3>3
  <2>2. PICK z \in Int, n \in Int :
          /\ z = (IF m = 6 THEN y + 1 ELSE y)
          /\ n = (IF m = 6 THEN 7 ELSE IF m = l THEN 1 ELSE m + 1)
    OBVIOUS
  <2>3. NextMonth(ct, y, m) = <<z, n>> /\ n \in 1..last_month_of_hebrew_year(z)
    <3>1. NextMonth(ct, y, m) = <<z, n>>
      BY <2>0, <2>1, <2>2
    <3>2. CASE m = 6
      BY <2>0, <2>2, <3>1, <3>2
    <3>3. CASE m # 6
      BY <1>3, <2>0, <2>2, <3>1, <3>3
    <3> QED BY <3>2, <3>3
  <2>4. HasMonth(ct, z, n)
    BY <2>3 DEF HasMonth
  <2>5. End(ct, y, m) = MonthStart(z, n)
    BY <1>2, <2>3 DEF End
  <2>6. MonthStart(z, n) = MonthEnd(y, m)
    <3>1. /\ m = 6 => MonthEnd(y, m) = hebrew_new_year(y + 1)
          /\ m # 6 /\ m < last_month_of_hebrew_year(y) => MonthEnd(y, m) = MonthStart(y, m + 1)
          /\ m = last_month_of_hebrew_year(y) => MonthEnd(y, m) = MonthStart(y, 1)
      BY <1>3, HebrewMonthEnds
    <3>2. MonthStart(next, 7) = hebrew_new_year(next)
      BY HebrewMonthsFill
    <3>3. CASE m = 6
      BY <2>0, <2>2, <3>1, <3>2, <3>3
    <3>4. CASE m # 6 /\ m = l
      BY <2>0, <2>2, <3>1, <3>4
    <3>5. CASE m # 6 /\ m # l
      BY <1>3, <2>0, <2>2, <3>1, <3>5
    <3> QED BY <3>3, <3>4, <3>5
  <2>7. NextMonth(ct, y, m) \in Int \X Int
    BY <2>3
  <2>8. HasMonth(ct, NextMonth(ct, y, m)[1], NextMonth(ct, y, m)[2])
    BY <2>3, <2>4
  <2> QED BY <2>1, <2>5, <2>6, <2>7, <2>8
<1> QED BY <1>1, <1>2, <1>3

(* The Hebrew calendar goes on. *)
LEMMA HebrewGoesOn == GoesOn("hebrew")
<1>0. PICK ct : ct = "hebrew"
  OBVIOUS
<1>1. MonthsHold(ct)
  <2> SUFFICES ASSUME NEW date \in Int
               PROVE  \E y, m \in Int : DateIn(ct, date, y, m)
    BY DEF MonthsHold
  <2>1. PICK y \in Int, m \in Int, d \in Int : IsHebrewDate(date, y, m, d)
    BY HebrewDate
  <2>2. /\ m \in 1..last_month_of_hebrew_year(y) /\ d \in 1..last_day_of_hebrew_month(y, m)
        /\ fixed_to_hebrew(date) = <<y, m, d>> /\ date = MonthStart(y, m) + d - 1
    BY <2>1 DEF IsHebrewDate, HebrewDay
  <2>3. /\ HasMonth(ct, y, m)
        /\ First(ct, <<y, m>>) = MonthStart(y, m) /\ End(ct, y, m) = MonthEnd(y, m)
    BY <1>0, <2>2, HebrewMonth
  <2>4. MonthStart(y, m) \in Int /\ last_day_of_hebrew_month(y, m) \in {29, 30}
    <3>1. m \in 1..13 /\ MonthStart(y, m) \in Int
      BY <2>2, HebrewMonthEnds
    <3> QED BY <3>1, HebrewMonthLengths
  <2>5. MonthStart(y, m) <= date /\ date < MonthEnd(y, m) /\ d = date - MonthStart(y, m) + 1
    BY <2>2, <2>4 DEF MonthEnd
  <2>6. fixed_to_date(date, ct) = fixed_to_hebrew(date)
    BY <1>0, HebrewConversions
  <2> QED BY <2>2, <2>3, <2>5, <2>6 DEF DateIn, InMonth
<1>2. MonthsApart(ct)
  <2> SUFFICES ASSUME NEW date \in Int, NEW y \in Int, NEW m \in Int, NEW z \in Int, NEW n \in Int,
                      InMonth(ct, date, y, m), InMonth(ct, date, z, n)
               PROVE  y = z /\ m = n
    BY DEF MonthsApart
  <2>1. /\ m \in 1..last_month_of_hebrew_year(y)
        /\ MonthStart(y, m) <= date /\ date < MonthEnd(y, m)
    BY <1>0, HebrewMonth DEF InMonth
  <2>2. /\ n \in 1..last_month_of_hebrew_year(z)
        /\ MonthStart(z, n) <= date /\ date < MonthEnd(z, n)
    BY <1>0, HebrewMonth, ZenonT(60) DEF InMonth
  <2>3. /\ m \in 1..13 /\ MonthStart(y, m) \in Int /\ MonthEnd(y, m) \in Int
        /\ hebrew_new_year(y) <= MonthStart(y, m) /\ MonthEnd(y, m) <= hebrew_new_year(y + 1)
    BY <2>1, HebrewMonthEnds
  <2>4. /\ n \in 1..13 /\ MonthStart(z, n) \in Int /\ MonthEnd(z, n) \in Int
        /\ hebrew_new_year(z) <= MonthStart(z, n) /\ MonthEnd(z, n) <= hebrew_new_year(z + 1)
    BY <2>2, HebrewMonthEnds
  <2>5. /\ hebrew_new_year(y) \in Int /\ hebrew_new_year(z) \in Int
        /\ hebrew_new_year(y + 1) \in Int /\ hebrew_new_year(z + 1) \in Int
    BY NewYears
  <2>6. ~(y < z)
    <3>1. SUFFICES ASSUME y < z PROVE FALSE
      OBVIOUS
    <3>2. hebrew_new_year(y + 1) <= hebrew_new_year(z)
      BY <3>1, HebrewYearsInOrder
    <3> QED BY <2>1, <2>2, <2>3, <2>4, <2>5, <3>2
  <2>7. ~(z < y)
    <3>1. SUFFICES ASSUME z < y PROVE FALSE
      OBVIOUS
    <3>2. hebrew_new_year(z + 1) <= hebrew_new_year(y)
      BY <3>1, HebrewYearsInOrder
    <3> QED BY <2>1, <2>2, <2>3, <2>4, <2>5, <3>2
  <2>8. y = z
    BY <2>6, <2>7
  <2>9. ~HebrewBefore(m, n)
    <3>1. SUFFICES ASSUME HebrewBefore(m, n) PROVE FALSE
      OBVIOUS
    <3>2. MonthEnd(y, m) <= MonthStart(y, n)
      BY <2>1, <2>2, <2>8, <3>1, HebrewMonthEnds
    <3> QED BY <2>1, <2>2, <2>3, <2>4, <2>8, <3>2
  <2>10. ~HebrewBefore(n, m)
    <3>1. SUFFICES ASSUME HebrewBefore(n, m) PROVE FALSE
      OBVIOUS
    <3>2. MonthEnd(y, n) <= MonthStart(y, m)
      BY <2>1, <2>2, <2>8, <3>1, HebrewMonthEnds
    <3> QED BY <2>1, <2>2, <2>3, <2>4, <2>8, <3>2
  <2> QED BY <2>3, <2>4, <2>8, <2>9, <2>10 DEF HebrewBefore
<1>3. MonthsFollow(ct)
  <2> SUFFICES ASSUME NEW y \in Int, NEW m \in Int, HasMonth(ct, y, m)
               PROVE  Followed(ct, y, m)
    BY DEF MonthsFollow
  <2>1. /\ m \in 1..last_month_of_hebrew_year(y)
        /\ First(ct, <<y, m>>) = MonthStart(y, m) /\ End(ct, y, m) = MonthEnd(y, m)
    BY <1>0, HebrewMonth
  <2>2. /\ NextMonth(ct, y, m) \in Int \X Int
        /\ HasMonth(ct, NextMonth(ct, y, m)[1], NextMonth(ct, y, m)[2])
    BY <1>0, HebrewMonth
  <2>3. PICK z \in Int, n \in Int : NextMonth(ct, y, m) = <<z, n>>
    BY <2>2
  <2>4. HasMonth(ct, z, n) /\ First(ct, <<z, n>>) = MonthEnd(y, m)
    BY <2>1, <2>2, <2>3 DEF End
  <2>5. /\ MonthStart(y, m) \in Int /\ MonthEnd(y, m) \in Int
        /\ MonthEnd(y, m) - MonthStart(y, m) \in {29, 30}
    BY <2>1, HebrewMonthEnds
  <2>6. Follows(ct, y, m, z, n)
    BY <2>1, <2>3, <2>4, <2>5 DEF Follows
  <2> QED BY <2>6 DEF Followed
<1> QED BY <1>0, <1>1, <1>2, <1>3 DEF GoesOn

(* Every calendar goes on. *)
LEMMA EveryCalendarGoesOn == \A ct \in Calendars : GoesOn(ct)
  BY GregorianGoesOn, JulianGoesOn, IslamicGoesOn, EgyptianGoesOn, CopticGoesOn, EthiopianGoesOn,
     MilankovicGoesOn, IndianGoesOn, HebrewGoesOn DEF Calendars

-----------------------------------------------------------------------------

(* In every calendar the date of every day leads back to that day: date_to_fixed
   undoes fixed_to_date, and no day has a date that the calendar has not. *)
THEOREM EveryDateReturns ==
  ASSUME NEW date \in Int, NEW ct \in Calendars
  PROVE  ReturnsTo(date, ct)
<1>1. ReturnsTo(date, "hebrew")
  <2>1. PICK y, m, d \in Int : IsHebrewDate(date, y, m, d)
    BY HebrewDate
  <2>2. m \in 1..13 /\ d \in 1..31
    <3>1. last_month_of_hebrew_year(y) \in {12, 13}
      BY NewYears
    <3>2. m \in 1..13
      BY <2>1, <3>1 DEF IsHebrewDate, HebrewDay
    <3>3. last_day_of_hebrew_month(y, m) \in {29, 30}
      BY <3>2, HebrewMonthLengths
    <3> QED BY <2>1, <3>2, <3>3 DEF IsHebrewDate, HebrewDay
  <2> QED BY <2>1, <2>2, HebrewConversions DEF ReturnsTo, IsHebrewDate
<1> QED
  BY <1>1, FourReturn, CopticReturns, MilankovicReturns, IndianReturns DEF Calendars

(* The day is a whole number. *)
LEMMA DayIsInt == WalkSpec => [](day \in Int)
<1>1. WalkInit => day \in Int
  BY WalkAssumption DEF WalkInit
<1>2. day \in Int /\ [WalkNext]_day => (day \in Int)'
  BY DEF WalkNext
<1> QED BY <1>1, <1>2, PTL DEF WalkSpec

(* The same of the days that go by, wherever they begin. *)
THEOREM DatesAlwaysReturn == WalkSpec => []DatesReturn
<1>1. day \in Int => DatesReturn
  BY EveryDateReturns DEF DatesReturn
<1> QED BY <1>1, DayIsInt, PTL

(* So do the Hebrew dates, and the formula that never looks at the lengths of
   months gives their day too. *)
THEOREM HebrewDatesReturn == WalkSpec => []HebrewReturns
<1> SUFFICES day \in Int => HebrewReturns
  BY DayIsInt, PTL
<1> SUFFICES ASSUME day \in Int PROVE HebrewReturns
  OBVIOUS
<1>1. ReturnsTo(day, "hebrew")
  BY EveryDateReturns DEF Calendars
<1>2. PICK date \in Int : date = day
  OBVIOUS
<1>3. PICK y, m, d \in Int : IsHebrewDate(date, y, m, d)
  BY HebrewDate
<1>4. hebrew_to_cjdn(y, m, d) = MonthStart(y, m) + d - 1 + CJDN
  BY <1>3, HebrewFormula DEF IsHebrewDate, HebrewDay
<1>5. hebrew_to_cjdn(y, m, d) = day + CJDN
  BY <1>2, <1>3, <1>4 DEF IsHebrewDate
<1> QED
  BY <1>1, <1>2, <1>3, <1>5, HebrewConversions DEF HebrewReturns, IsHebrewDate

(* The formulas that date_to_cjdn has for the Gregorian, the Julian, the
   Islamic and the Egyptian calendar give the day numbers of date_to_fixed, on
   every day. *)
THEOREM FormulasAlwaysAgree == WalkSpec => []FormulasAgree
<1> SUFFICES day \in Int => FormulasAgree
  BY DayIsInt, PTL
<1> SUFFICES ASSUME day \in Int PROVE FormulasAgree
  OBVIOUS
<1>1. LET g == fixed_to_date(day, "gregorian")
      IN  gregorian_to_cjdn(g[1], g[2], g[3]) = day + CJDN
  <2>1. PICK y \in Int, m \in 1..12, d \in 1..31 :
          fixed_to_gregorian(day) = <<y, m, d>> /\ gregorian_to_fixed(y, m, d) = day
    BY GregorianDate
  <2>2. gregorian_to_cjdn(y, m, d) = day + CJDN
    BY <2>1, GregorianFormula, SMT
  <2> QED BY <2>1, <2>2, Conversions
<1>2. LET j == fixed_to_date(day, "julian")
      IN  julian_to_cjdn(IF j[1] < 0 THEN j[1] + 1 ELSE j[1], j[2], j[3]) = day + CJDN
  <2>1. PICK y \in Int, m \in 1..12, d \in 1..31 :
          fixed_to_julian(day) = <<y, m, d>> /\ julian_to_fixed(y, m, d) = day /\ y # 0
    BY JulianDate
  <2>2. julian_to_cjdn(IF y < 0 THEN y + 1 ELSE y, m, d) = day + CJDN
    BY <2>1, JulianFormula, SMT
  <2> QED BY <2>1, <2>2, Conversions
<1>3. LET i == fixed_to_date(day, "islamic")
      IN  islamic_to_cjdn(i[1], i[2], i[3]) = day + CJDN
  <2>1. PICK y \in Int, m \in 1..12, d \in 1..31 :
          fixed_to_islamic(day) = <<y, m, d>> /\ islamic_to_fixed(y, m, d) = day
    BY IslamicDate
  <2>2. islamic_to_cjdn(y, m, d) = day + CJDN
    BY <2>1, IslamicFormula, SMT
  <2> QED BY <2>1, <2>2, Conversions
<1>4. LET e == fixed_to_date(day, "egyptian")
      IN  egyptian_to_cjdn(e[1], e[2], e[3]) = day + CJDN
  <2>1. PICK y \in Int, m \in 1..13, d \in 1..31 :
          fixed_to_egyptian(day) = <<y, m, d>> /\ egyptian_to_fixed(y, m, d) = day
    BY EgyptianDate
  <2>2. egyptian_to_cjdn(y, m, d) = day + CJDN
    BY <2>1, EgyptianFormula, SMT
  <2> QED BY <2>1, <2>2, Conversions
<1> QED BY <1>1, <1>2, <1>3, <1>4 DEF FormulasAgree

(* From one day to the next each calendar's date goes on to its next, in the
   month or on the first of the month after it: no date is skipped and none
   comes twice. *)
THEOREM NextDay == WalkSpec => NextDayIsNextDate
<1>1. ASSUME day \in Int, [WalkNext]_day
      PROVE  [\A ct \in Calendars : NextDate(ct, day, day')]_day
  <2>1. CASE day' = day
    BY <2>1
  <2>2. CASE WalkNext
    <3>1. PICK date \in Int : date = day
      BY <1>1
    <3>2. day' = date + 1
      BY <2>2, <3>1 DEF WalkNext
    <3>3. ASSUME NEW ct \in Calendars
          PROVE  NextDate(ct, date, date + 1)
      <4>1. GoesOn(ct)
        BY EveryCalendarGoesOn
      <4> QED BY <4>1, NextDateFollows DEF GoesOn
    <3> QED BY <3>1, <3>2, <3>3
  <2> QED BY <1>1, <2>1, <2>2
<1>2. ASSUME [\A ct \in Calendars : NextDate(ct, day, day')]_day
      PROVE  [\A ct \in Calendars :
                LET t == fixed_to_date(day, ct)
                    u == fixed_to_date(day', ct)
                IN  \/ u = <<t[1], t[2], t[3] + 1>>
                    \/ /\ u = NextMonth(ct, t[1], t[2]) \o <<1>>
                       /\ t[3] >= 28 \/ (t[2] = 13 /\ t[3] \in {5, 6})]_day
  BY <1>2 DEF NextDate
<1> QED BY <1>1, <1>2, DayIsInt, PTL DEF WalkSpec, NextDayIsNextDate
=============================================================================
