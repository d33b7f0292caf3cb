SPECIFICATION Spec
CONSTANTS MaxCommands = 3
 MaxSockets = 2
 MaxDisturbances = 2
 MaxRefusals = 2
 Spent <- MCSpent
PROPERTIES NavigationSound Settles
CHECK_DEADLOCK FALSE
