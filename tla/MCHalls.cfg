SPECIFICATION Spec
CONSTANTS g1 = g1
 g2 = g2
 s1 = s1
 s2 = s2
 p1 = p1
 p2 = p2
 p3 = p3
 Grids = {g1, g2}
 Slots = {s1, s2}
 People = {p1, p2, p3}
 Player = p1
 Shown = g1
 Admin = adm
 GridOf <- MCGridOf
 FairBase = 1
 FairPercent = 50
 Scenes <- MCScenes
 MaxCapacity = 2
 MaxWrites = 2
 MaxTicks = 1
PROPERTIES PlacesGivenAsPromised CatchesUp
CHECK_DEADLOCK FALSE
