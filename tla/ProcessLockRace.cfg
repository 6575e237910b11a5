SPECIFICATION LockSpec
CONSTANTS
  Pids = {p1, p2}
  NoPid = NoPid
  OneAtATime = FALSE
CHECK_DEADLOCK FALSE
INVARIANTS
  OneHolder
