SPECIFICATION Spec
CONSTANTS
  MountPoint = {"m1"}
  Fs = {"nfs", "ceph"}
  Interval = 3
  MaxUptime = 5
  MaxBoot = 2
  Period = 2
  MaxStops = 1
  Faults = {"spool", "lost", "rename", "uptime", "install"}
INVARIANTS SilenceHasHorizon
PROPERTIES Promise
