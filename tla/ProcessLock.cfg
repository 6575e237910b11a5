SPECIFICATION FairLockSpec
CONSTANTS
  Pids = {p1, p2, p3, p4}
  NoPid = NoPid
  OneAtATime = TRUE
CHECK_DEADLOCK FALSE
INVARIANTS
  OneHolder
  HolderOwnsFile
PROPERTIES
  StartAnswered
