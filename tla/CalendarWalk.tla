---------------------------- MODULE CalendarWalk ----------------------------
(***************************************************************************)
(* One day after another, in stretches of days: the calendars are pure     *)
(* functions, and the state is the day that is converted.                  *)
(***************************************************************************)
EXTENDS Calendars

CONSTANTS Starts,   \* first days of the stretches
          Stretch   \* their length

ASSUME WalkAssumption == Starts \subseteq Int /\ Stretch \in Nat

VARIABLE day

WalkInit == day \in Starts
WalkNext == /\ day' = day + 1
        /\ \E s \in Starts : day + 1 \in s..s + Stretch
WalkSpec == WalkInit /\ [][WalkNext]_day

\* A calendar's date of a day leads back to that day, and is one that the
\* calendar has.
ReturnsTo(date, ct) ==
  LET t == fixed_to_date(date, ct)
  IN  /\ date_to_fixed(t[1], t[2], t[3], ct) = date
      /\ t[2] \in 1..numberOfMonths(ct)
      /\ t[3] \in 1..31

\* Dates lead back to their day in every calendar whose years are counted by
\* formulas alone.
DatesReturn == \A ct \in Calendars \ {"hebrew"} : ReturnsTo(day, ct)

\* So do those of the Hebrew calendar, whose years and months are searched for,
\* and hebrew_to_cjdn, which never looks at the lengths of months, agrees.
HebrewReturns ==
  LET h == fixed_to_date(day, "hebrew")
  IN  /\ ReturnsTo(day, "hebrew")
      /\ hebrew_to_cjdn(h[1], h[2], h[3]) = day + CJDN

\* The formulas with Julian day numbers that date_to_cjdn has for the same
\* calendars give the same days; for the Julian one they count a year 0.
FormulasAgree ==
  LET g == fixed_to_date(day, "gregorian")
      j == fixed_to_date(day, "julian")
      i == fixed_to_date(day, "islamic")
      e == fixed_to_date(day, "egyptian")
  IN  /\ gregorian_to_cjdn(g[1], g[2], g[3]) = day + CJDN
      /\ julian_to_cjdn(IF j[1] < 0 THEN j[1] + 1 ELSE j[1], j[2], j[3]) = day + CJDN
      /\ islamic_to_cjdn(i[1], i[2], i[3]) = day + CJDN
      /\ egyptian_to_cjdn(e[1], e[2], e[3]) = day + CJDN

\* The month after month m of year y.  Year 1 of the Julian calendar follows
\* year -1, and a Hebrew year begins with its seventh month.
NextMonth(ct, y, m) ==
  CASE ct = "hebrew" /\ m = 6 -> <<y + 1, 7>>
    [] ct = "hebrew" /\ m = last_month_of_hebrew_year(y) -> <<y, 1>>
    [] ct = "julian" /\ m = 12 /\ y = -1 -> <<1, 1>>
    [] ct # "hebrew" /\ m = numberOfMonths(ct) /\ ~(ct = "julian" /\ y = -1) -> <<y + 1, 1>>
    [] OTHER -> <<y, m + 1>>

\* The next day has the next date in every calendar: one more in the month, or,
\* after at least 28 days or the 5 or 6 of a 13th month, the first of the next.
NextDayIsNextDate ==
  [][\A ct \in Calendars :
       LET t == fixed_to_date(day, ct)
           u == fixed_to_date(day', ct)
       IN  \/ u = <<t[1], t[2], t[3] + 1>>
           \/ /\ u = NextMonth(ct, t[1], t[2]) \o <<1>>
              /\ t[3] >= 28 \/ (t[2] = 13 /\ t[3] \in {5, 6})]_day
=============================================================================
