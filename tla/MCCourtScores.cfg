CONSTANTS
  Courts = {1}
  Scores = {0, 1}
  Zero = 0
  Handlers = {h1}
  MaxOps = 3
  MaxFaults = 1
  MaxOutages = 1
  None = None
  BoardScenes <- SmallBoards
  Missing = Missing
  fixture = fixture
  Unassigned = Unassigned
  Fixtures = {fixture}
  CourtCount = 2
  Grace = 1
  LastTick = 3
  AutoScenes <- SmallMatches
SPECIFICATION BothSpec
INVARIANTS PollsSoundly PollerAgrees BoardSound CourtsFollow
PROPERTIES ChangeIsShown
CHECK_DEADLOCK FALSE
