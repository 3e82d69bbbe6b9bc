SPECIFICATION Spec
CONSTANTS
  Objects = {x, y, z}
  MaxParses = 4
CHECK_DEADLOCK FALSE
INVARIANTS
  ObligationFollowsErrors
  NoFalseAccusation
  FailuresAreKept
