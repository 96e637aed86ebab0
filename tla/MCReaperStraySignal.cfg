SPECIFICATION Spec
CONSTANTS
  Pid = {1}
  MaxGen = 2
  Kinds = {"walk", "plain"}
  Moves = {"age", "orphan", "block"}
  KillMode = TRUE
  MaxKills = 2
  FanoutN = 2
  Faults = {"reuse"}
  Parents = {"shell"}
  InitParent = "init"
INVARIANTS OnlyWalksSignalled
