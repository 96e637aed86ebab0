SPECIFICATION Spec
CONSTANTS
    Questions = {"argv", "mounts", "chain", "groups", "spool", "preflight", "payload", "acl", "journal", "hook"}
    ArgvLength = 3
    FileLength = 7
    Atom = {"0", "1", "3", "5", "9", "r", "d", "e", "n", "f", "x", "l", "C", "D", "E", "H", "L", "S", "-", ",", ";", "+", "{}", ".", "!", "skip", "an option", "pat", "b", "recurse", "dereference-recurse", "exec", "ok", "maxdepth", "xdev"}
    Name = {"a", "b"}
    MaxLength = 2
    MaxRank = 1
    MaxDepth = 2
    Absolute <- OneAbsolute
    Uid = {0, 1, 2, 3}
    Gid = {1, 2}
    Root = 0
    User = 1
    SpoolGid = 1
    OtherGid = 2
    Login = {"n", "o"}
    Number = {1, 2}
    Marker = "marker"
    Trail = {"trail"}
    Stranger = {"stranger"}
    PayloadPath <- PayloadPaths
    Source <- PayloadSources
    DirSource <- PayloadDirs
    Lock <- PayloadLock
    Content = {1, 2}
    UserLine = {"user"}
INVARIANTS
    ReadAsTheToolDoes
    BackstopSeesRefused
    AllowedIsWithinPolicy
    RefusedForAReason
    AcceptedIsOutOfReach
    AcceptedGroupHasNoPerson
    SpoolIsJudgedAsLeft
    DryRunIsEnough
    PayloadIsAsRecorded
    ReadersAreNamed
    UsersLinesKept
CHECK_DEADLOCK FALSE
