SPECIFICATION Spec
CONSTANTS
  MountPoint = {"m1", "m2"}
  Fs = {"nfs"}
  Interval = 2
  MaxUptime = 4
  MaxBoot = 2
  Period = 1
  MaxStops = 0
  Faults = {"uptime"}
INVARIANTS AnnouncedAtFirstPoll AnsweredAtNextPoll
PROPERTIES AnsweredOnce
