\* With an unusable workbook that nobody replaces, every refresh ends where it began.
CHECK_DEADLOCK FALSE
SPECIFICATION Spec
CONSTANTS
  Workbooks <- EveryBook
  ScheduleTexts <- Texts
  FileCount = 2
  Times = {1, 2}
  Midnight = 4
  MaxWrites = 1
INVARIANTS NewestScheduleWins ShiftsHaveOneAgent CutOfOneRoster DuplicatesKeepOne
