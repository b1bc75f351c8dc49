CONSTANTS
  t1 = t1
  t2 = t2
  r1 = r1
  r2 = r2
  a1 = a1
  b1 = b1
  b2 = b2
  c1 = c1
  Roster = fte
  Schedule = shifts
  NoContent = noContent
  NoRoot = noRoot
  NoThread = noThread
  Thread = {t1, t2}
  Root = {r1}
  Actual = {a1}
  Calls = {}
  Content = {b1}
  Blocking = {}
  QuietRewrites = TRUE
  BusyStore = TRUE
  MaxTicks = 1
  MaxGen = 1
SPECIFICATION FairSpec
INVARIANTS TypeOK OneRefreshShown
PROPERTIES EveryRefreshEnds AlwaysAdmitsAgain
