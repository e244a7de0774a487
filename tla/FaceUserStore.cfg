SPECIFICATION Spec
CONSTANTS
  Users = {ann, bob, eve}
  MaxSaves = 3
  MaxFailures = 2
INVARIANTS
  SavedIsDurable
PROPERTIES
  RestartKeepsList
