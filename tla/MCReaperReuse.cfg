SPECIFICATION Spec
CONSTANTS
  Pid = {1}
  MaxGen = 2
  Kinds = {"walk", "opaque", "plain"}
  Moves = {"age", "block"}
  KillMode = TRUE
  MaxKills = 1
  FanoutN = 2
  Faults = {"reuse","signal","slices","procs"}
  Parents = {"shell"}
  InitParent = "init"
INVARIANTS OpaqueIsSustained BlindIsRecorded NoFalseDeath GreenMeansGone
