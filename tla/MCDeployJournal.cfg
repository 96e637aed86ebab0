SPECIFICATION Spec
CONSTANTS
    Version = {1}
    Entry = {marker, shim}
    Dir = {shim}
    Marker = marker
    Helper = shim
    Gid = {g1, g2}
    Faults = {"crash"}
INVARIANTS
    HeldIsRecorded
