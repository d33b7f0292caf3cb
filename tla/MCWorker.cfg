CONSTANTS
  w1 = w1
  w2 = w2
  job = job
  mail = mail
  foreign = foreign
  None = None
  Workers <- MCWorkers
  Items <- MCItems
  Outbox <- MCOutbox
  Supported <- MCSupported
  MaxAttempts = 2
  MaxFaults = 1
SPECIFICATION FairSpec
INVARIANTS SettledTruthfully
PROPERTIES EverySettled Implements
CHECK_DEADLOCK FALSE
