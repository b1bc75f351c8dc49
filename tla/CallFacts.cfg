SPECIFICATION FactsSpec
CONSTANTS
  Exports <- EveryExport
  Headings = {"plain", "bracketed"}
  FileCount = 2
  Times = {1, 2}
  Mapped = {"sales", "care"}
  Suffixed = {"sales"}
  Roster = {"ann", "bob"}
  Quarter = 2
  Short = 2
  Target = 3
  MaxWrites = 1
INVARIANTS IntervalsAddUp
PROPERTIES EachLegOnce
