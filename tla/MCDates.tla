------------------------------ MODULE MCDates ------------------------------
(* Dates around leap days, leap seconds, the ends of years and of the table,  *)
(* and amounts just short of, equal to and beyond each carry.                 *)
EXTENDS Dates

MCFirstDates ==
  {DateTime(2017, 1, 1, 0, 59, 60), DateTime(2017, 1, 1, 0, 59, 59),
   DateTime(2017, 1, 1, 1, 0, 0), DateTime(2015, 7, 1, 0, 59, 60),
   DateTime(2016, 12, 31, 13, 0, 0), DateTime(1972, 7, 1, 0, 59, 60),
   DateTime(1971, 12, 31, 23, 59, 59), DateTime(2017, 7, 30, 12, 0, 0),
   DateTime(2017, 7, 31, 0, 0, 0), DateTime(2018, 12, 30, 7, 30, 5),
   DateTime(1999, 12, 31, 0, 0, 0), DateTime(2000, 2, 29, 0, 0, 0),
   DateTime(2004, 1, 31, 12, 0, 0), DateTime(1900, 3, 1, 0, 0, 0),
   DateTime(1, 1, 1, 0, 0, 0), DateTime(0, 2, 29, 0, 0, 0), DateTime(-1, 12, 31, 23, 59, 59)}

MCDays == {-146130, -731, -365, -31, -1, 0, 1, 28, 60, 366, 146097, 14609701}
MCMonths == {-25, -12, -1, 1, 11, 13}
MCYears == {-101, -1, 1, 4}
MCMinutes == {-1500, -61, -1, 1, 60, 1439, 2880}
MCSeconds == {-31622401, -86401, -3600, -59, -1, 0, 1, 60, 3599, 86400, 86402, 40000000}
MCReach == 1940..2060
MCTimestamps == {-86401, -1, 0, 78796800, 1483228799}
============================================================================
