SPECIFICATION Spec
CONSTANTS
  InboxScenes <- SmallInboxes
  PageSize = 1
  HistoryScenes <- SmallHistories
  EntriesPerPage = 1
  CommentsPerPage = 1
  PreferenceScenes <- SmallPreferences
  RoleHidden = {3}
  QueueSize = 2
  BeaconSize = 1
  Rules <- SmallRules
  DiagnosticsScenes <- SmallDays
INVARIANTS PagesSettle  EventsSound
PROPERTY PreferencesKept
CHECK_DEADLOCK FALSE
