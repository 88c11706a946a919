SPECIFICATION WalkSpec
CONSTANTS
  Starts <- MCStarts
  Stretch = 800
CHECK_DEADLOCK FALSE
INVARIANTS DatesReturn HebrewReturns FormulasAgree
PROPERTY NextDayIsNextDate
