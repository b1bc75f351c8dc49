\* The runs of the instance, and the calls, are used up.
CHECK_DEADLOCK FALSE
SPECIFICATION PathSpec
CONSTANTS
  Pages = {"one", "two"}
  Kinds <- EachKind
  MaxRuns = 2
  Nobody = Nobody
  Text <- TwoLengths
  Situations <- Each
INVARIANTS WorkersEndWithTheirProbe PassesAreOfThisRun AlwaysWhole SavedIsSaved
PROPERTIES RunsEnd
