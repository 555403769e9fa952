SPECIFICATION FairSpec
CHECK_DEADLOCK FALSE
CONSTANTS
  Seats <- MCSeats
  PackSize = 2
  DraftRounds = 2
  MaxPeople = 2
  BestOf = 3
  HasDeadline = TRUE
  MaxMatches = 2
  MaxFaults = 1
INVARIANTS TypeOK NobodyLeftWaiting PacksCounted PackTimed BoundToItsMatch WinnerAgrees
PROPERTIES KeepsLedger DraftEnds RoundsEnd
