\* No refresh is asked for any more and both pages are up to date.
CHECK_DEADLOCK FALSE
SPECIFICATION PagesFairSpec
CONSTANTS
  LatestDate <- DateOfEach
  NoDate = 0
  MaxChanges = 2
  MaxRefreshes = 2
INVARIANTS NeverBackToOlder
 
