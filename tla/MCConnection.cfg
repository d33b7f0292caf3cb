SPECIFICATION Spec
CONSTANTS Sockets = {1, 2, 3}
 MaxWrites = 1
 MaxDisturbances = 2
INVARIANTS SocketsSound NoReloadLoop
PROPERTIES Recovers
CHECK_DEADLOCK FALSE
