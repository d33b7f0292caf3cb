SPECIFICATION Spec
CONSTANTS
  p1 = p1  p2 = p2  p3 = p3  p4 = p4  admin = admin
  vf = vf  hf = hf  f = f  g1 = g1
  Open = Open
  None = None
  Users = {admin, p1}
  Players = {p1, p2, p3, p4}
  Admins = {admin}
  Format <- BestOfThree
  Brackets <- SmallBrackets
  MaxLoads = 2
  Formats <- ManyFormats
  MaxPoints = 10
  EntryScenes <- SmallSituations
INVARIANTS ScoresAgree BracketKept OfferedIsAccepted EntriesAnnouncedOnce GroupCurrent ListsCurrent
CHECK_DEADLOCK FALSE
