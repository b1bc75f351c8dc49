\* The store does nothing unless it is called: with every generation used up
\* and finished there is nothing left to call.
CHECK_DEADLOCK FALSE
SPECIFICATION Spec
CONSTANTS
  k1 = k1
  k2 = k2
  c1 = c1
  c2 = c2
  s1 = s1
  s2 = s2
  Key = {k1, k2}
  Content = {c1}
  Stat = {s1}
  Severity = {"error"}
  MaxGen = 3
  NoContent = NoContent
  NoStat = NoStat
SYMMETRY Symmetry
INVARIANTS TypeOK LineageSound BronzeOneHop NoErrorPublished
PROPERTIES FinishedFrozen OnlyStagedKeysMove UndoneStaysUndone ImplementsActiveCut
