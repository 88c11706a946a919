SPECIFICATION Spec
CONSTANTS
  Zone = 60
  FirstDates <- MCFirstDates
  Days <- MCDays
  Months <- MCMonths
  Years <- MCYears
  Minutes <- MCMinutes
  Seconds <- MCSeconds
  Timestamps <- MCTimestamps
  Reach <- MCReach
  MaxCalls = 2
CHECK_DEADLOCK FALSE
INVARIANTS TypeOK DatesAreExact TimesAreExact SecondsToIsElapsed
           WeeksFollow
