CONSTANTS
  anna = anna
  bert = bert
  cleo = cleo
  None = None
  Players <- MCPlayers
  Eligible <- MCPlayers
  EntryGap = 1
  Window = 1
  Lockout = 1
  MaxMatches = 2
  MaxClock = 3
  Scenes <- MCScenes
SPECIFICATION PageSpec
INVARIANTS RanksKept OffersSettle
PROPERTIES OnlyWinnersOvertake EntryBoundaryKept
CHECK_DEADLOCK FALSE
