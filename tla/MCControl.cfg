SPECIFICATION Spec
CONSTANTS
  Limits = {0, 1, 2}
  Bases = {3, 40}
  Series = 2
  MaxThrows = 1
CHECK_DEADLOCK FALSE
INVARIANTS TypeOK SettingsRestored OwnControl
PROPERTIES AbortSticks CallEnds
