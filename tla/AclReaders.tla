---------------------------- MODULE AclReaders -----------------------------
(***************************************************************************)
(* Who reads what an install leaves behind: node/deploy.py,                *)
(* _spool_search() and spool_read_grants() over the spool, and             *)
(* journal_grant_gaps() over the journal.                                  *)
(*                                                                         *)
(* The code never asks who is in a group.  What it answers instead is held *)
(* against the kernel's evaluation of POSIX ACLs for every membership an   *)
(* account could have.                                                     *)
(***************************************************************************)
EXTENDS Integers, FiniteSets

CONSTANTS
    Uid,        \* user ids
    Gid,        \* group ids
    Root,       \* root's user id
    SpoolGid    \* the spool's group

Perm == {"r", "x"}

\* A map from some of S to permissions.
Entries(S) == UNION {[T -> SUBSET Perm] : T \in SUBSET S}

\* An access ACL.  A mask is a set of one set of permissions, or of none.
Acl == [users : Entries(Uid \ {Root}), groups : Entries(Gid),
        owning : SUBSET Perm, mask : {{}} \cup {{m} : m \in SUBSET Perm}]

\* An inode: its owner's, group's and others' bits, and the ACL if it has one.
Inode == [uid : Uid, gid : Gid, owner : SUBSET Perm, group : SUBSET Perm,
          other : SUBSET Perm, acl : {{}} \cup {{a} : a \in Acl}]

\* What an entry grants under the mask.
Masked(bits, acl) == {p \in bits : \A m \in acl.mask : p \in m}

\* The named users of an inode, and its group-class entries: the owning
\* group's and the named groups', which may be the same group twice.
NamedUsers(i) == UNION {DOMAIN a.users : a \in i.acl}

UserBits(i, u) == UNION {Masked(a.users[u], a) : a \in i.acl}

GroupClass(i) == {i.gid} \cup UNION {DOMAIN a.groups : a \in i.acl}

GroupBits(i, g) ==
    IF i.acl = {} THEN i.group
    ELSE UNION {Masked((IF g \in DOMAIN a.groups THEN a.groups[g] ELSE {})
                       \cup (IF g = i.gid THEN a.owning ELSE {}), a) : a \in i.acl}

-----------------------------------------------------------------------------
(* The kernel: an account is a user id and the groups it is in. *)

Account == [uid : Uid, gids : SUBSET Gid]

May(a, p, i) ==
    IF a.uid = Root THEN TRUE
    ELSE IF a.uid = i.uid THEN p \in i.owner
    ELSE IF a.uid \in NamedUsers(i) THEN p \in UserBits(i, a.uid)
    ELSE IF a.gids \cap GroupClass(i) # {}
         THEN \E g \in a.gids \cap GroupClass(i) : p \in GroupBits(i, g)
         ELSE p \in i.other

-----------------------------------------------------------------------------
(* _spool_search(). *)

\* What "can it search the spool" is answered with: plainly, or with the
\* condition on its memberships.
Answer == {"yes", "no", "if a group searches", "unless only denying groups",
           "but a denied member", "if another way"}

Searching(i) == {g \in GroupClass(i) : "x" \in GroupBits(i, g)}
Denied(i) == {u \in NamedUsers(i) : "x" \notin UserBits(i, u)}

UserSearch(i, u) ==
    IF u = Root THEN "yes"
    ELSE IF u = i.uid THEN IF "x" \in i.owner THEN "yes" ELSE "no"
    ELSE IF u \in NamedUsers(i) THEN IF u \in Denied(i) THEN "no" ELSE "yes"
    ELSE IF Searching(i) = GroupClass(i) /\ "x" \in i.other THEN "yes"
    ELSE IF Searching(i) = {} /\ "x" \notin i.other THEN "no"
    ELSE IF "x" \in i.other THEN "unless only denying groups"
    ELSE "if a group searches"

\* Bug: the entry of the group is taken to decide for every member of it.
GroupSearchPlain(i, g) == IF g \in Searching(i) THEN "yes" ELSE "no"

GroupSearch(i, g) ==
    IF g \in Searching(i)
    THEN IF Denied(i) = {} THEN "yes" ELSE "but a denied member"
    ELSE IF /\ g \notin GroupClass(i) /\ "x" \in i.other
            /\ Searching(i) = GroupClass(i) /\ Denied(i) = {} THEN "yes"
    ELSE IF \/ Searching(i) # {}
            \/ NamedUsers(i) # Denied(i)
            \/ g \notin GroupClass(i) /\ "x" \in i.other THEN "if another way"
    ELSE "no"

Search(i, kind, id) ==
    IF kind = "user" THEN UserSearch(i, id) ELSE GroupSearch(i, id)

\* Those an answer is about; the owner's entry and root come before any other.
Meant(i, kind, id) ==
    {a \in Account :
        IF kind = "user" THEN a.uid = id
        ELSE id \in a.gids /\ a.uid \notin {Root, i.uid}}

\* Whom an answer says may search.
Said(answer, i, a) ==
    CASE answer = "yes" -> TRUE
      [] answer = "no" -> FALSE
      [] answer = "if a group searches" -> a.gids \cap Searching(i) # {}
      [] answer = "unless only denying groups" ->
            a.gids \cap GroupClass(i) # {} => a.gids \cap Searching(i) # {}
      [] answer = "but a denied member" -> a.uid \notin Denied(i)
      [] OTHER -> May(a, "x", i)

\* The answer holds for every membership of the user, and every member of the
\* group; it is plain whenever no membership changes it, and only then.
\* node/deploy.py:3073-3091.
SearchIsTrue(i, kind, id) ==
    LET answer == Search(i, kind, id)
        meant == Meant(i, kind, id)
    IN  /\ \A a \in meant : May(a, "x", i) <=> Said(answer, i, a)
        /\ answer \notin {"yes", "no"} =>
               /\ \E a \in meant : May(a, "x", i)
               /\ \E a \in meant : ~May(a, "x", i)

-----------------------------------------------------------------------------
(* spool_read_grants(). *)

Principal == ({"user"} \X Uid) \cup ({"group"} \X Gid)

\* The named entries of an inode with read, but for the spool's group.
ReadEntries(i) ==
    {<<"user", u>> : u \in {n \in NamedUsers(i) : "r" \in UserBits(i, n)}}
    \cup {<<"group", g>> : g \in
            {n \in (UNION {DOMAIN a.groups : a \in i.acl}) \ {SpoolGid} :
                \E a \in i.acl : "r" \in Masked(a.groups[n], a)}}

\* Bug: an entry that turns on membership is left out.
ReadersSure(spool, file) ==
    {p \in ReadEntries(file) : Search(spool, p[1], p[2]) = "yes"}

\* The readers of a file of the spool it says: as a grant, or with the
\* condition; an entry that cannot be searched to is nobody's.
Readers(spool, file) ==
    {p \in ReadEntries(file) : Search(spool, p[1], p[2]) # "no"}

\* The spool and a trail as the install leaves them.
AsInstalled(spool, file) ==
    /\ \A i \in {spool, file} :
           i.uid = Root /\ i.gid = SpoolGid /\ i.other = {}
    /\ \A a \in spool.acl : a.mask = {{"r", "x"}}
    /\ \A a \in file.acl : a.mask = {{"r"}}

\* Whoever reads a trail is root, is in the spool's group, or is named.
\* node/deploy.py:3126-3150.
NoUnnamedReader(spool, file) ==
    AsInstalled(spool, file) =>
        \A a \in Account :
            May(a, "x", spool) /\ May(a, "r", file) =>
                \/ a.uid = Root
                \/ SpoolGid \in a.gids
                \/ <<"user", a.uid>> \in Readers(spool, file)
                \/ \E g \in a.gids : <<"group", g>> \in Readers(spool, file)

-----------------------------------------------------------------------------
(* journal_grant_gaps(). *)

\* A directory or a file of the journal: it is there, its access ACL, and
\* what its default ACL has for the group, in a set of at most one.
JournalInode ==
    [there : BOOLEAN, inode : Inode,
     default : {{}} \cup {{p} : p \in SUBSET Perm}]

\* Bug: the mask is not applied.
AccessGapUnmasked(j, g, want) ==
    ~\E a \in j.inode.acl : g \in DOMAIN a.groups /\ want \subseteq a.groups[g]

\* _grant_gap() on the access ACL, and on the default ACL, which no mask caps.
AccessGap(j, g, want) ==
    ~\E a \in j.inode.acl :
        g \in DOMAIN a.groups /\ want \subseteq Masked(a.groups[g], a)

DefaultGap(j, g) == ~\E p \in j.default : {"r", "x"} \subseteq p

DirGap(j, g) == AccessGap(j, g, {"r", "x"}) \/ DefaultGap(j, g)

\* A journal root r has r.root, this machine's directory r.dir in it, the files
\* of that one, and in r.blind which of the two this caller may not look at.
\* _dir_state() and journal_machine_dirs(), for one root.
MachineDir(r) ==
    IF "root" \in r.blind THEN "unchecked"
    ELSE IF ~r.root.there THEN "absent"
    ELSE IF "dir" \in r.blind THEN "unchecked"
    ELSE IF r.dir.there THEN "present" ELSE "absent"

\* journal_certain_failure(): the install will report gaps, by what this caller
\* could see; id is what it made of the machine id.
CertainFailure(id, roots) ==
    \/ id = "absent"
    \/ id = "present" /\ \A r \in roots : MachineDir(r) = "absent"

\* journal_grant_gaps(), as root: a root that is not there, or has nothing of
\* this machine, is passed over, but not all of them.
NoGaps(id, roots, g) ==
    /\ id = "present"
    /\ \A r \in roots :
           /\ r.root.there => ~DirGap(r.root, g)
           /\ r.root.there /\ r.dir.there =>
                  ~DirGap(r.dir, g) /\ \A f \in r.files : ~AccessGap(f, g, {"r"})
    /\ \E r \in roots : r.root.there /\ r.dir.there

\* Where it finds no gap, every member of the group who is not the owner, nor
\* named there, reads every file of this machine's journal, and a file that
\* journald makes later inherits the grant; and a failure that a dry run calls
\* certain is one.  node/deploy.py:3302-3305 and 3318-3334.
NoGapMeansRead(id, roots, g) ==
    /\ NoGaps(id, roots, g) =>
         \A r \in {r \in roots : r.root.there /\ r.dir.there} :
             /\ \A a \in Account :
                    (/\ g \in a.gids
                     /\ \A j \in {r.root, r.dir} \cup r.files :
                            a.uid # j.inode.uid /\ a.uid \notin NamedUsers(j.inode)) =>
                    /\ May(a, "x", r.root.inode) /\ May(a, "x", r.dir.inode)
                    /\ \A f \in r.files : May(a, "r", f.inode)
             /\ \A p \in r.dir.default : "r" \in p
    /\ CertainFailure(id, roots) => ~NoGaps(id, roots, g)
=============================================================================
