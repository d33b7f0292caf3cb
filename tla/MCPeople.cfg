SPECIFICATION Spec
CONSTANTS
  Imports <- SmallImports
  Importer = 1
  PeopleScenes <- SmallScenes
  Consoles = {p1, p2}
  Subjects = {x, y}
  Departed = {y}
  Modes = {1, 2}
  LoggingScenes <- SmallLogging
  CoreProfiles = {"core"}
  AllProfiles = {"core", "mobile"}
  WorkflowScenes <- SmallWorkflow
CHECK_DEADLOCK FALSE
INVARIANTS ImportSound WrittenAsPreviewed WorkflowSound
PROPERTY SettingsKept
