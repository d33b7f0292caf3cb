SPECIFICATION Spec
CONSTANTS
  Scenes <- MCScenes
  Browsers = {1, 2}
  Accounts = {1, 2}
  Tokens = {1, 2, 3, 4}
  Requests = {1, 2, 3}
  MaxSessions = 2
INVARIANTS SessionsSound LoginNotOverwritten
PROPERTIES PagesSettle
CHECK_DEADLOCK FALSE
