SPECIFICATION Spec
CONSTANTS
  a1 = a1  a2 = a2  a3 = a3
  x = x  long = long  longer = longer
  Items = {a1, a2, a3}
  NoItem = NoItem
  Definitions <- MCDefinitions
  Length <- MCLength
  UFV_LENGTHS = 2
  MaxCalls = 4
SYMMETRY Addresses
CHECK_DEADLOCK FALSE
INVARIANTS TypeOK TablesInStep StillHasWhatIsListed InactiveIsShadowed NameIsUnique
