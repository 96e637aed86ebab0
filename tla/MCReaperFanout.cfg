SPECIFICATION FairSpec
CONSTANTS
  Pid = {1, 2}
  MaxGen = 1
  Kinds = {"walk"}
  Moves = {"age", "block"}
  KillMode = TRUE
  MaxKills = 2
  FanoutN = 2
  Faults = {}
  Parents = {"shell"}
  InitParent = "init"
PROPERTIES WalkEnds FanoutEnds
