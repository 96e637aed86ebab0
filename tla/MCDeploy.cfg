SPECIFICATION Spec
CONSTANTS
    Version = {1, 2}
    Entry = {marker, shim}
    Dir = {shim}
    Marker = marker
    Helper = shim
    Gid = {g1}
    Faults = {"systemd", "cmd", "flaw", "hook", "gap", "spool", "crash", "reboot"}
INVARIANTS
    TypeOK
    ArmedIsAccepted
    StatusIsTrue
    RemovedStaysRemoved
    RecordedIsRevoked
