CONSTANTS
  Ctx = {c1, c2, c3}
  NULL = NULL
  Name = {}
  HANDLE_SPACE = 8
  DEFAULT_SLOT_SIZE = 2
  Harbor = 0
  Launchers = 2
  Aborts = FALSE
SPECIFICATION Spec
INVARIANT RehashNeverCollides
