\* A file is read once.
CHECK_DEADLOCK FALSE
SPECIFICATION Spec
CONSTANTS
  Texts <- EveryText
  Eligible <- OnRoster
  Labels = {"Available", "Lunch"}
  Midnight = 4
  BatchSize = 2
  MaxWrites = 2
PROPERTIES ImplementsIngest
