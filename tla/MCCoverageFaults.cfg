SPECIFICATION Spec
CONSTANTS
  Name = {"rg", "fd"}
  Interval = 2
  MaxUptime = 3
  MaxBoot = 2
  Period = 1
  MaxMissed = 1
  Faults = {"spool", "lost", "rename", "uptime", "install"}
INVARIANTS TypeOK FarmIsExact UnlinkIsSaid OneRecordPerName HighWater DriftHasHorizon
