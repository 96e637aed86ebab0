----------------------------- MODULE PathTrust -----------------------------
(***************************************************************************)
(* Who else could change what root is about to run or write: the           *)
(* directories above a path, the access ACLs on them and the groups a site *)
(* trusts there.  node/deploy.py, untrusted_prefix_chain() and             *)
(* resolve_trusted_groups().                                               *)
(*                                                                         *)
(* An operator of the code answers yes or no, and not with its sentence.   *)
(* Beside the code's rules stand the kernel's: which account may write a   *)
(* directory, rename an entry of it or take a name in it.                  *)
(***************************************************************************)
EXTENDS Integers, Sequences, FiniteSets

CONSTANTS
    Uid,        \* user ids
    Gid,        \* group ids
    Root        \* root's user id

\* An access ACL: whether there is one the code can read, and the named users
\* and groups whose entries hold write.
Acl == [known : {"none", "read", "opaque"}, users : SUBSET Uid,
        groups : SUBSET Gid]
NoAcl == [known |-> "none", users |-> {}, groups |-> {}]

\* A component of a path as lstat() shows it.  One that is "hidden" is there and
\* lstat() fails over it, for an I/O error or a stale handle; the rest of its
\* record is what nobody could look at.  "dir" is whatever is no link: the code
\* asks no more.
Component ==
    [kind : {"missing", "link", "dir", "hidden"}, uid : Uid, gid : Gid,
     gw : BOOLEAN, ow : BOOLEAN, sticky : BOOLEAN,
     acl : {a \in Acl : a.known = "none" => a = NoAcl}]

-----------------------------------------------------------------------------
(* The directories above a path. *)

\* _acl_write_beyond(): the group bits of a directory with an ACL are its
\* mask, so somebody the ACL names may be the one who writes.  The mask of a
\* directory that is group-writable lets every entry's write through.
AclWriteBeyond(acl, T) ==
    \/ acl.known = "opaque"
    \/ acl.known = "read" /\ (acl.users # {} \/ ~(acl.groups \subseteq T))

\* _untrusted(), where T are the trusted gids.  The chain below asks it only of
\* what lexists() has just shown, so there it does not meet a failing lstat().
Untrusted(d, stickyIsEnough, T) ==
    \/ d.kind # "dir"
    \/ d.uid # Root
    \/ /\ d.gw /\ ~d.ow /\ d.gid \in T
       /\ AclWriteBeyond(d.acl, T)
    \/ /\ ~(d.gw /\ ~d.ow /\ d.gid \in T)
       /\ d.gw \/ d.ow
       /\ ~(stickyIsEnough /\ d.sticky)

\* os.path.lexists(): any failure of lstat() is taken for a missing name.
Lexists(c) == c.kind \notin {"missing", "hidden"}

\* The components of a path from / down to the first that lexists() denies.
Existing(path) == {i \in DOMAIN path : \A j \in 1..i : Lexists(path[j])}

\* Bug: a sticky directory is taken to hold a missing name back too.
LastIsUntrustedButSticky(path, i, T) == Untrusted(path[i], TRUE, T)

\* The last directory there is must keep everybody off the name below it that
\* is missing, or taken to be.
LastIsUntrusted(path, i, T) == Untrusted(path[i], FALSE, T)

\* untrusted_prefix_chain(): the components root should not trust.  Trusted
\* gids and the sticky bit are for strict ancestors alone.
UntrustedPrefixChain(path, T) ==
    {i \in Existing(path) :
        \/ Untrusted(path[i], i # Len(path), IF i # Len(path) THEN T ELSE {})
        \/ i + 1 \in DOMAIN path \ Existing(path) /\ LastIsUntrusted(path, i, T)}

-----------------------------------------------------------------------------
(* The kernel's side. *)

Account == [uid : Uid, gids : SUBSET Gid]

\* An account that may add to and remove from a directory, at most: group
\* bits that hold a member of the group back from the others' are left out.
MayWrite(a, d) ==
    \/ a.uid \in {Root, d.uid}
    \/ d.ow
    \/ d.gw /\ \/ d.gid \in a.gids
               \/ a.uid \in d.acl.users
               \/ a.gids \cap d.acl.groups # {}

\* One that may rename or remove an entry of it.
MayReplace(a, d, entry) ==
    MayWrite(a, d) /\ (d.sticky => a.uid \in {Root, d.uid, entry.uid})

\* lstat() succeeds from / down to a component.
InView(path, i) == \A j \in 1..i : path[j].kind \in {"link", "dir"}

\* As far down a path as root can look there is no link, and a may neither
\* replace what comes next, be it shown or hidden, nor take its name if it is
\* missing, nor change the path's own entries.
OutOfReach(a, path) ==
    \A i \in {k \in DOMAIN path : InView(path, k)} :
        /\ path[i].kind # "link"
        /\ i = Len(path) => ~MayWrite(a, path[i])
        /\ i < Len(path) => IF path[i + 1].kind = "missing"
                             THEN ~MayWrite(a, path[i])
                             ELSE ~MayReplace(a, path[i], path[i + 1])

\* A chain the check accepts is out of reach of every account but root and
\* the members of the trusted groups, and what is in the path itself is out of
\* their reach too, as far down as lstat() succeeds: nobody may exchange a
\* component that it fails over, and of what that one is, or has below it, the
\* check knows nothing.  node/deploy.py:1022-1047.
AcceptedIsOutOfReach(path, T) ==
    UntrustedPrefixChain(path, T) = {} =>
        \A a \in Account : a.uid # Root =>
            /\ a.gids \cap T = {} => OutOfReach(a, path)
            /\ path # << >> /\ InView(path, Len(path)) => ~MayWrite(a, path[Len(path)])
=============================================================================
