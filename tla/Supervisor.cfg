SPECIFICATION Spec
CONSTANTS
  Pids = {p1, p2}
  NoPid = NoPid
  OneAtATime = TRUE
  MaxJobs = 2
  MaxErrors = 1
CHECK_DEADLOCK FALSE
INVARIANTS
  TypeOK
  RunningJobHasOwner
PROPERTIES
  LockSpec
  JobsSettleOnce
  StopEnds
  StatusRecovers
  ReloadOfOwnRestarts
