SPECIFICATION FairSpec
CONSTANTS
  Pid = {1}
  MaxGen = 1
  Kinds = {"walk", "broken", "leak"}
  Moves = {"age", "orphan"}
  KillMode = TRUE
  MaxKills = 2
  FanoutN = 1
  Faults = {"spool", "state", "crash", "rotate"}
  Parents = {"shell"}
  InitParent = "init"
INVARIANTS TypeOK TrailComplete RememberedIsWritten OneUnrecordedAttempt NoAlertSwallowed OnlyWalksSignalled
PROPERTIES AlertEventually
