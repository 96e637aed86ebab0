---------------------------- MODULE SpoolScope -----------------------------
(***************************************************************************)
(* The spool as the deployer judges it, repairs it and leaves it:          *)
(* node/deploy.py, audit_dir_blockers(), spool_mode_repairs(),             *)
(* repair_spool() and create_spool().                                      *)
(*                                                                         *)
(* A spool is the entry at its name with the files in it.  Between the     *)
(* judgement and the repair a group that may write above the spool can put *)
(* another entry at its name; each step takes the spool it finds.          *)
(***************************************************************************)
EXTENDS Integers, FiniteSets

CONSTANTS
    Marker,     \* the name of the spool's marker
    Trail,      \* the other names the installer owns
    Stranger,   \* names it does not
    Root,       \* root's user id
    User,       \* some other one
    Reader,     \* the gid the install asserts
    OtherGid    \* another one

Owned == Trail \cup {Marker}
File == Owned \cup Stranger

\* What a mode may have of which the code tells apart: write beyond its
\* owner, setuid, setgid, and a read scope that is not the one asserted.
Bits == {"write", "suid", "sgid", "scope"}

SPOOL_DIR_MODE == {"sgid"}
SPOOL_FILE_MODE == {}

\* An inode, as lstat() shows it.  A link leads to a directory elsewhere, to an
\* entry of the spool, or to nothing.
Kind == {"missing", "dir", "file", "fifo", "linkDir", "linkIn", "dangling"}
Inode == [kind : Kind, uid : {Root, User}, gid : {Reader, OtherGid},
          mode : SUBSET Bits]
Link == {"linkDir", "linkIn", "dangling"}

\* A spool: the entry at its name, and the files in it if it is a directory.
Self == "self"
Names == File \cup {Self}
Spool == {s \in [Names -> Inode] :
             s[Self].kind # "dir" => \A n \in File : s[n].kind = "missing"}

IsRootsDir(i) == i.kind = "dir" /\ i.uid = Root

-----------------------------------------------------------------------------
(* What the install repairs. *)

\* _spool_dir_repairable() and _spool_file_repairable().
SpoolDirRepairable(i) ==
    i.kind = "dir" /\ i.uid = Root /\ i.mode \cap {"write", "suid"} = {}

SpoolFileRepairable(i) ==
    i.kind = "file" /\ i.uid = Root /\ i.mode \cap {"suid", "sgid"} = {}

Wanted(n) == IF n = Self THEN SPOOL_DIR_MODE ELSE SPOOL_FILE_MODE

Repairable(s, n) ==
    IF n = Self THEN SpoolDirRepairable(s[n]) ELSE SpoolFileRepairable(s[n])

\* spool_mode_repairs(), with the gid or, for the judgement, without it.
SpoolModeRepairs(s, gids) ==
    IF ~SpoolDirRepairable(s[Self]) THEN {}
    ELSE {n \in Owned \cup {Self} :
             /\ Repairable(s, n)
             /\ s[n].mode # Wanted(n) \/ s[n].gid \notin gids}

Asserted(n) == [kind |-> IF n = Self THEN "dir" ELSE "file",
                uid |-> Root, gid |-> Reader, mode |-> Wanted(n)]

\* Bug: the descriptor is not judged again.
RepairAsListed(listed, found) ==
    LET repairs == SpoolModeRepairs(listed, {Reader})
    IN  [n \in Names |->
            IF repairs # {} /\ n \in Owned \cup {Self}
               /\ found[Self].kind = "dir" /\ found[n].kind \in {"dir", "file"}
            THEN Asserted(n) ELSE found[n]]

\* repair_spool(): it opens the spool and then each file without following a
\* link, and judges again what it has opened.
RepairSpool(listed, found) ==
    LET repairs == SpoolModeRepairs(listed, {Reader})
    IN  [n \in Names |->
            IF repairs # {} /\ IsRootsDir(found[Self]) /\ n \in Owned \cup {Self}
               /\ Repairable(found, n)
            THEN Asserted(n) ELSE found[n]]

\* _open_spool_dir() and the marker write_spool_marker() can open for writing:
\* no link, no directory, no fifo that nobody reads, and root's own.
SpoolOpens(s) == s[Self].kind = "missing" \/ IsRootsDir(s[Self])

MarkerOpens(s) ==
    \/ s[Marker].kind = "missing"
    \/ s[Marker].kind = "file" /\ s[Marker].uid = Root

\* create_spool(): it makes what is missing, and asserts the spool's group and
\* mode before it comes to the marker.
CreateSpool(s) ==
    IF ~SpoolOpens(s) THEN [refused |-> TRUE, spool |-> s]
    ELSE [refused |-> ~MarkerOpens(s),
          spool |-> [s EXCEPT
              ![Self] = Asserted(Self),
              ![Marker] = IF MarkerOpens(s) THEN Asserted(Marker) ELSE @]]

-----------------------------------------------------------------------------
(* What it refuses. *)

\* What unowned_by() has against a name of the spool; the walk does not reach
\* the files of a spool that is itself a link, or no directory.
Unowned(s, n) ==
    IF s[n].kind = "missing" THEN "none"
    ELSE IF s[n].uid # Root THEN "ownership"
    ELSE IF s[n].kind \in Link
         THEN IF n # Self /\ s[n].kind = "linkIn" THEN "none" ELSE "symlink"
    ELSE IF "write" \in s[n].mode THEN "permissive"
    ELSE IF s[n].mode \cap {"suid", "sgid"} # {} THEN "setuid"
    ELSE "none"

Walked(s) == IF s[Self].kind = "dir" THEN Names ELSE {Self}

\* _is_spools_own_setgid().
IsSpoolsOwnSetgid(s, n) ==
    n = Self /\ s[n].kind = "dir" /\ "sgid" \in s[n].mode
    /\ "suid" \notin s[n].mode

\* Bug: a mode the install repairs is not told from one it does not.
ExcusedAnyway(s, n) == n \in Owned /\ s[n].uid = Root

\* A finding the install is about to mend, or that is no finding.
Excused(s, n) ==
    \/ Unowned(s, n) = "permissive"
       /\ n \in SpoolModeRepairs(s, {Reader, OtherGid})
    \/ Unowned(s, n) = "setuid" /\ IsSpoolsOwnSetgid(s, n)

\* audit_dir_blockers(), below an ancestry that is judged elsewhere.
AuditDirBlockers(s) ==
    IF s[Self].kind \in {"file", "fifo", "linkIn", "dangling"} THEN {Self}
    ELSE IF s[Self].kind = "missing" THEN {}
    ELSE {n \in Walked(s) : Unowned(s, n) # "none" /\ ~Excused(s, n)}
         \cup {n \in Owned : s[Self].kind = "dir" /\ s[n].kind \in Link}

-----------------------------------------------------------------------------
(* What it promises. *)

\* The install's own writes, over the spool it finds.
Installed(listed, found) == CreateSpool(RepairSpool(listed, found))

\* A spool the judgement accepts is refused by neither step, if it is left as
\* it was judged and nothing but a file has the marker's name; every file of
\* a name the installer owns then has the one group and the one mode, the
\* spool has its own, and a stranger's file is as it was.  What is accepted
\* and what is repaired agree.  node/deploy.py:1713-1738.
JudgedAsLeft(s) ==
    AuditDirBlockers(s) = {} /\ s[Marker].kind \in {"missing", "file"} =>
        LET end == Installed(s, s)
        IN  /\ ~end.refused
            /\ end.spool[Self] = Asserted(Self)
            /\ end.spool[Marker] = Asserted(Marker)
            /\ \A n \in Owned : s[n].kind = "file" => end.spool[n] = Asserted(n)
            /\ \A n \in Stranger : end.spool[n] = s[n]

\* Whatever has come to the spool's name since the judgement, an inode that is
\* not root's, that is a link, or whose name is not the installer's keeps its
\* owner, group and mode; and what anybody could have rewritten, or run as
\* root, is never made to look as if nobody could, but for the spool's own
\* directory once it has been opened as root's.  node/deploy.py:1539-1558.
OnlyItsOwn(listed, found) ==
    LET repaired == RepairSpool(listed, found)
        end == Installed(listed, found).spool
    IN  /\ found[Self].kind # "missing" /\ ~IsRootsDir(found[Self]) =>
               end = found
        /\ \A n \in File :
               /\ found[n].kind # "missing"
               /\ found[n].uid # Root \/ found[n].kind # "file" \/ n \in Stranger
               => end[n] = found[n]
        /\ "suid" \in found[Self].mode \/ "write" \in found[Self].mode =>
               repaired[Self] = found[Self]
        /\ \A n \in Trail :
              found[n].mode \cap {"suid", "sgid"} # {} => end[n] = found[n]
=============================================================================
