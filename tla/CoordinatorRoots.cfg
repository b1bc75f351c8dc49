CONSTANTS
  t1 = t1
  t2 = t2
  r1 = r1
  r2 = r2
  a1 = a1
  b1 = b1
  b2 = b2
  c1 = c1
  Roster = fte
  Schedule = shifts
  NoContent = noContent
  NoRoot = noRoot
  NoThread = noThread
  Thread = {t1}
  Root = {r1, r2}
  Actual = {}
  Calls = {c1}
  Content = {b1}
  Blocking = {}
  QuietRewrites = FALSE
  BusyStore = FALSE
  MaxTicks = 2
  MaxGen = 2
SPECIFICATION Spec
SYMMETRY Symmetry
INVARIANTS RootsNeverMix
PROPERTIES ImplementsStore
