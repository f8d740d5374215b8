SPECIFICATION Spec
CONSTANTS
  Viewers <- SomeViewers
  MaxDialogs = 2
  MaxSends = 2
  MaxEdits = 1
  Detours = {"accounts", "help"}
INVARIANTS OfferedIsAllowed AppliedOnce SettledIsFresh
PROPERTIES OwnAnswers StaysAway SavedCloses
CHECK_DEADLOCK FALSE
