CONSTANTS
  entry = entry
  result = result
  Handlers = {h1, h2}
  Intents = {entry, result}
  MaxTries = 1
  Retries = 1
  MaxFaults = 1
  MaxLoadFaults = 1
  None = None
SPECIFICATION MCSpec
INVARIANTS OnceAndSeen
PROPERTIES CacheNeverBack ImplementsWrites Progresses
CHECK_DEADLOCK FALSE
