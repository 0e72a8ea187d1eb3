CONSTANTS
  Ctx = {c1, c2, c3}
  NULL = NULL
  Name = {1, 2}
  HANDLE_SPACE = 4
  DEFAULT_SLOT_SIZE = 2
  Harbor = 1
  Launchers = 1
  Aborts = TRUE
SPECIFICATION Spec
INVARIANTS Findable NamesFound RetireAllSweeps
