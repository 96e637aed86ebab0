-------------------------- MODULE NodeChecksProofs --------------------------
(***************************************************************************)
(* What the run checks of the deployer's judgements on a few accounts,     *)
(* names and files, proved for all of them.                                *)
(***************************************************************************)
EXTENDS NodeChecks, FiniteSets, OrderFacts, TLAPS

-----------------------------------------------------------------------------
(* The chain above a file of root's. *)

\* An accepted chain has only directories of root's in it.
LEMMA AcceptedIsRoots ==
    ASSUME NEW path \in Seq(PT!Component), NEW T \in SUBSET Gid,
           PT!UntrustedPrefixChain(path, T) = {},
           NEW i \in PT!Existing(path)
    PROVE  path[i].kind = "dir" /\ path[i].uid = Root
<1>1. ~PT!Untrusted(path[i], i # Len(path), IF i # Len(path) THEN T ELSE {})
  BY DEF PT!UntrustedPrefixChain
<1>2. QED
  BY <1>1 DEF PT!Untrusted

\* lexists() shows what the kernel shows.
LEMMA ExistingIsInView ==
    ASSUME NEW path \in Seq(PT!Component)
    PROVE  \A i \in DOMAIN path : i \in PT!Existing(path) <=> PT!InView(path, i)
<1> SUFFICES ASSUME NEW i \in DOMAIN path
             PROVE  i \in PT!Existing(path) <=> PT!InView(path, i)
  OBVIOUS
<1>1. ASSUME NEW j \in 1..i PROVE PT!Lexists(path[j]) <=> path[j].kind \in {"link", "dir"}
  <2>1. path[j] \in PT!Component
    OBVIOUS
  <2>2. path[j].kind \in {"missing", "link", "dir", "hidden"}
    BY <2>1 DEF PT!Component
  <2>3. QED
    BY <2>2 DEF PT!Lexists
<1>2. QED
  BY <1>1 DEF PT!Existing, PT!InView

\* Who may write a directory the check trusts with no sticky bit to help it:
\* root, and the members of a trusted group.
LEMMA TrustedIsNotWritten ==
    ASSUME NEW d \in PT!Component, NEW T \in SUBSET Gid,
           NEW a \in PT!Account, a.uid # Root, a.gids \cap T = {},
           ~PT!Untrusted(d, FALSE, T)
    PROVE  ~PT!MayWrite(a, d)
<1>1. d.uid = Root
  BY DEF PT!Untrusted
<1>2. ~d.ow
  BY DEF PT!Untrusted
<1>3. SUFFICES ASSUME d.gw, PT!MayWrite(a, d) PROVE FALSE
  <2>1. a.uid \notin {Root, d.uid}
    BY <1>1
  <2>2. QED
    BY <1>2, <2>1 DEF PT!MayWrite
<1>4. d.gid \in T /\ ~PT!AclWriteBeyond(d.acl, T)
  BY <1>2, <1>3 DEF PT!Untrusted
<1>5. d.acl \in PT!Acl /\ (d.acl.known = "none" => d.acl = PT!NoAcl)
  BY DEF PT!Component
<1>6. d.acl.users = {} /\ d.acl.groups \subseteq T
  <2>1. d.acl.known \in {"none", "read", "opaque"}
    BY <1>5 DEF PT!Acl
  <2>2. QED
    BY <1>4, <1>5, <2>1 DEF PT!AclWriteBeyond, PT!NoAcl
<1>7. QED
  BY <1>1, <1>2, <1>3, <1>4, <1>6 DEF PT!MayWrite

\* A chain the check accepts is out of reach of every account but root's and
\* the members of the groups a site trusts above the path, and the path's own
\* entries of everybody's, as far down as lstat() succeeds, with the first name
\* at which it does not: untrusted_prefix_chain(), node/deploy.py:1026-1093.
THEOREM AcceptedChain ==
    ASSUME NEW path \in Seq(PT!Component), NEW T \in SUBSET Gid
    PROVE  PT!AcceptedIsOutOfReach(path, T)
<1> SUFFICES ASSUME PT!UntrustedPrefixChain(path, T) = {},
                    NEW a \in PT!Account, a.uid # Root
             PROVE  /\ a.gids \cap T = {} => PT!OutOfReach(a, path)
                    /\ Len(path) \in PT!Existing(path) => ~PT!MayWrite(a, path[Len(path)])
  <2>1. path # << >> => Len(path) \in DOMAIN path
    OBVIOUS
  <2>2. QED
    BY <2>1, ExistingIsInView DEF PT!AcceptedIsOutOfReach
<1>1. ASSUME Len(path) \in PT!Existing(path)
      PROVE  ~PT!MayWrite(a, path[Len(path)])
  <2>1. path[Len(path)] \in PT!Component
    BY <1>1 DEF PT!Existing
  <2>2. ~PT!Untrusted(path[Len(path)], FALSE, {})
    BY <1>1 DEF PT!UntrustedPrefixChain
  <2>3. a.gids \cap {} = {}
    OBVIOUS
  <2>4. QED
    BY <2>1, <2>2, <2>3, TrustedIsNotWritten
<1>2. ASSUME a.gids \cap T = {}, NEW i \in PT!Existing(path)
      PROVE  /\ path[i].kind = "dir"
             /\ i + 1 \in PT!Existing(path) => ~PT!MayReplace(a, path[i], path[i + 1])
             /\ i + 1 \in DOMAIN path \ PT!Existing(path) => ~PT!MayWrite(a, path[i])
  <2>1. path[i] \in PT!Component /\ i \in DOMAIN path
    BY DEF PT!Existing
  <2>2. path[i].kind = "dir" /\ path[i].uid = Root
    BY AcceptedIsRoots
  <2>3. ASSUME i + 1 \in PT!Existing(path)
        PROVE  ~PT!MayReplace(a, path[i], path[i + 1])
    <3>1. path[i + 1].uid = Root
      BY <2>3, AcceptedIsRoots
    <3>2. i # Len(path)
      BY <2>3 DEF PT!Existing
    <3>3. ~PT!Untrusted(path[i], TRUE, T)
      BY <3>2 DEF PT!UntrustedPrefixChain
    <3>4. CASE path[i].sticky
      BY <2>2, <3>1, <3>4 DEF PT!MayReplace
    <3>5. CASE ~path[i].sticky
      <4>1. ~PT!Untrusted(path[i], FALSE, T)
        BY <3>3, <3>5 DEF PT!Untrusted
      <4>2. QED
        BY <1>2, <2>1, <4>1, TrustedIsNotWritten DEF PT!MayReplace
    <3>6. QED
      BY <3>4, <3>5
  <2>4. ASSUME i + 1 \in DOMAIN path \ PT!Existing(path)
        PROVE  ~PT!MayWrite(a, path[i])
    <3>1. ~PT!Untrusted(path[i], FALSE, T)
      BY <2>4 DEF PT!UntrustedPrefixChain, PT!LastIsUntrusted
    <3>2. QED
      BY <1>2, <2>1, <3>1, TrustedIsNotWritten
  <2>5. QED
    BY <2>2, <2>3, <2>4
<1>3. ASSUME a.gids \cap T = {} PROVE PT!OutOfReach(a, path)
  <2> SUFFICES ASSUME NEW i \in DOMAIN path, PT!InView(path, i)
               PROVE  /\ path[i].kind # "link"
                      /\ i = Len(path) => ~PT!MayWrite(a, path[i])
                      /\ i < Len(path) => IF path[i + 1].kind = "missing"
                                          THEN ~PT!MayWrite(a, path[i])
                                          ELSE ~PT!MayReplace(a, path[i], path[i + 1])
    BY DEF PT!OutOfReach
  <2>1. i \in PT!Existing(path)
    BY ExistingIsInView
  <2>2. path[i].kind = "dir"
    BY AcceptedIsRoots, <2>1
  <2>3. i = Len(path) => ~PT!MayWrite(a, path[i])
    BY <1>1, <2>1
  <2>4. CASE i < Len(path) /\ i + 1 \in PT!Existing(path)
    <3>1. path[i + 1].kind # "missing"
      BY <2>4 DEF PT!Existing, PT!Lexists
    <3>2. ~PT!MayReplace(a, path[i], path[i + 1])
      BY <1>2, <1>3, <2>1, <2>4
    <3>3. QED
      BY <2>2, <2>3, <3>1, <3>2
  <2>5. CASE i < Len(path) /\ i + 1 \notin PT!Existing(path)
    <3>1. i + 1 \in DOMAIN path
      BY <2>5
    <3>2. ~PT!MayWrite(a, path[i])
      BY <1>2, <1>3, <2>1, <2>5, <3>1
    <3>3. QED
      BY <2>2, <2>3, <3>2 DEF PT!MayReplace
  <2>6. QED
    BY <2>2, <2>3, <2>4, <2>5
<1>4. QED
  BY <1>1, <1>3

-----------------------------------------------------------------------------
(* What a dry run foretells. *)

\* Root may look at everything, and comes to every check.
LEMMA RootSeesAll ==
    ASSUME NEW node \in PF!Node
    PROVE  /\ \A what : ~PF!Hidden(what, node, "root")
           /\ PF!Inspectable(node, "root") = PF!Path
           /\ PF!Made(node, "root", FALSE) = PF!Check
           /\ \A check \in PF!Check : ~PF!Unknown(check, node, "root")
<1>1. \A what : ~PF!Hidden(what, node, "root")
  BY DEF PF!Hidden, PF!Privileged
<1>2. PF!Inspectable(node, "root") = PF!Path
  BY <1>1 DEF PF!Inspectable
<1>3. PF!Made(node, "root", FALSE) = PF!Check
  BY <1>1 DEF PF!Made
<1>4. \A check \in PF!Check : ~PF!Unknown(check, node, "root")
  BY <1>1, <1>2 DEF PF!Unknown, PF!Check
<1>5. QED
  BY <1>1, <1>2, <1>3, <1>4

\* An install refuses over what root finds unfit, and over nothing else.
LEMMA InstallRefusesBlocked ==
    ASSUME NEW node \in PF!Node
    PROVE  PF!InstallRefuses(node) <=>
               \/ \E check \in PF!Check : PF!Blocked(check, node, "root")
               \/ node.payload = "unfit"
<1>1. PF!Refuses(node, "root", FALSE) <=> \E check \in PF!Check : PF!Blocked(check, node, "root")
  BY RootSeesAll DEF PF!Refuses
<1>2. PF!PayloadRefused(node, "root") <=> node.payload = "unfit"
  BY RootSeesAll DEF PF!PayloadRefused
<1>3. QED
  BY <1>1, <1>2 DEF PF!InstallRefuses

\* What a caller finds unfit root does, unless the caller may not so much as
\* list the spool.
LEMMA BlockedIsBlockedForRoot ==
    ASSUME NEW node \in PF!Node, NEW c \in PF!Caller \ {"other"}, NEW check \in PF!Check,
           PF!Blocked(check, node, c)
    PROVE  PF!Blocked(check, node, "root")
<1>1. CASE check = "trusted_groups"
  BY <1>1, RootSeesAll DEF PF!Blocked
<1>2. CASE check = "paths"
  <2>1. PICK p \in PF!Inspectable(node, c) : PF!ChainRefused(p, node, c)
    BY <1>2 DEF PF!Blocked
  <2>2. p \in PF!Path /\ (p = "spool_dir" => ~PF!Hidden("login_defs", node, c))
    BY <2>1 DEF PF!Inspectable
  <2>3. node.chain[p] = "grouped" => p = "spool_dir"
    BY <2>2 DEF PF!Node
  <2>4. node.chain[p] = "unfit"
    BY <2>1, <2>2, <2>3 DEF PF!ChainRefused
  <2>5. QED
    BY <1>2, <2>2, <2>4, RootSeesAll DEF PF!Blocked, PF!ChainRefused
<1>3. CASE check = "journal_dropin"
  <2>1. node.journal_dropin = "unfit"
    BY <1>3 DEF PF!Blocked
  <2>2. QED
    BY <1>3, <2>1, RootSeesAll DEF PF!Blocked, PF!Path
<1>4. CASE check = "spool"
  <2>1. node.spool = "unfit"
    BY <1>4 DEF PF!Blocked, PF!SpoolRefused
  <2>2. QED
    BY <1>4, <2>1, RootSeesAll DEF PF!Blocked, PF!SpoolRefused
<1>5. CASE check = "prefix_reach"
  BY <1>5, RootSeesAll DEF PF!Blocked
<1>6. CASE check = "prefix_contents"
  BY <1>6, RootSeesAll DEF PF!Blocked
<1>7. CASE check \in {"arguments", "spool_group", "staging"}
  BY <1>7 DEF PF!Blocked
<1>8. QED
  BY <1>1, <1>2, <1>3, <1>4, <1>5, <1>6, <1>7 DEF PF!Check

\* A caller who was told of nothing that it was not checked could look at all
\* the checks look at.
LEMMA NothingWasHidden ==
    ASSUME NEW node \in PF!Node, NEW c \in PF!Caller, PF!NotChecked(node, c) = {}
    PROVE  /\ \A what \in {"login_defs", "spool_dir", "prefix", "prefix_list",
                           "payload"} : ~PF!Hidden(what, node, c)
           /\ PF!Inspectable(node, c) = PF!Path
           /\ PF!Made(node, c, TRUE) = PF!Check \ {"staging"}
<1>1. ~PF!Hidden("payload", node, c)
  BY DEF PF!NotChecked
<1>2. \A check \in PF!Made(node, c, TRUE) : ~PF!Unknown(check, node, c)
  BY DEF PF!NotChecked
<1>3. {"trusted_groups", "paths", "spool", "prefix_reach"} \subseteq PF!Made(node, c, TRUE)
  BY DEF PF!Made, PF!Check
<1>4. ~PF!Hidden("login_defs", node, c) /\ ~PF!Hidden("spool_dir", node, c)
  BY <1>2, <1>3 DEF PF!Unknown
<1>5. ~PF!Hidden("prefix", node, c)
  BY <1>2, <1>3 DEF PF!Unknown
<1>6. PF!Inspectable(node, c) = PF!Path
  BY <1>2, <1>3 DEF PF!Unknown
<1>7. ~PF!Hidden("prefix_list", node, c)
  <2>1. "prefix_contents" \in PF!Made(node, c, TRUE)
    BY <1>5 DEF PF!Made, PF!Check
  <2>2. QED
    BY <1>2, <2>1 DEF PF!Unknown
<1>8. PF!Made(node, c, TRUE) = PF!Check \ {"staging"}
  BY <1>5, <1>7 DEF PF!Made
<1>9. QED
  BY <1>1, <1>4, <1>5, <1>6, <1>7, <1>8

\* What such a caller was not refused for, root is not.
LEMMA UnblockedIsUnblockedForRoot ==
    ASSUME NEW node \in PF!Node, NEW c \in PF!Caller, PF!NotChecked(node, c) = {},
           NEW check \in PF!Check \ {"staging"}, PF!Blocked(check, node, "root")
    PROVE  PF!Blocked(check, node, c)
<1>1. CASE check = "trusted_groups"
  BY <1>1, NothingWasHidden DEF PF!Blocked
<1>2. CASE check = "paths"
  <2>1. PICK p \in PF!Inspectable(node, "root") : PF!ChainRefused(p, node, "root")
    BY <1>2 DEF PF!Blocked
  <2>2. p \in PF!Inspectable(node, c)
    BY <2>1, NothingWasHidden, RootSeesAll
  <2>3. PF!ChainRefused(p, node, c)
    BY <2>1, RootSeesAll DEF PF!ChainRefused
  <2>4. QED
    BY <1>2, <2>2, <2>3 DEF PF!Blocked
<1>3. CASE check = "journal_dropin"
  <2>1. node.journal_dropin = "unfit"
    BY <1>3 DEF PF!Blocked
  <2>2. QED
    BY <1>3, <2>1, NothingWasHidden DEF PF!Blocked, PF!Path
<1>4. CASE check = "spool"
  <2>1. PF!SpoolRefused(node, c)
    BY <1>4 DEF PF!Blocked, PF!SpoolRefused
  <2>2. QED
    BY <1>4, <2>1, NothingWasHidden DEF PF!Blocked
<1>5. CASE check = "prefix_reach"
  BY <1>5, NothingWasHidden DEF PF!Blocked
<1>6. CASE check = "prefix_contents"
  BY <1>6, NothingWasHidden DEF PF!Blocked
<1>7. CASE check \in {"arguments", "spool_group"}
  BY <1>7 DEF PF!Blocked
<1>8. QED
  BY <1>1, <1>2, <1>3, <1>4, <1>5, <1>6, <1>7 DEF PF!Check

\* A dry run by any user foretells the install: what it neither refuses nor
\* names as not checked the install does not refuse, but for the staging
\* parent, and it refuses nobody who may list the spool without reason, what
\* install.sh's own dry run refuses aside.
\* preflight() and system_preview(), node/deploy.py:2128-2383 and 889-922.
THEOREM DryRunForetells ==
    ASSUME NEW node \in PF!Node
    PROVE  PF!DryRunIsEnough(node)
<1>1. ASSUME NEW c \in PF!Caller, ~PF!PreviewRefuses(node, c),
             PF!NotChecked(node, c) = {}, node.staging = "fit"
      PROVE  ~PF!InstallRefuses(node)
  <2>1. ASSUME NEW check \in PF!Check PROVE ~PF!Blocked(check, node, "root")
    <3>1. CASE check = "staging"
      BY <1>1, <3>1 DEF PF!Blocked
    <3>2. CASE check # "staging"
      <4>1. check \in PF!Made(node, c, TRUE)
        BY <1>1, <2>1, <3>2, NothingWasHidden
      <4>2. ~PF!Blocked(check, node, c)
        BY <1>1, <4>1 DEF PF!PreviewRefuses, PF!Refuses
      <4>3. QED
        BY <1>1, <2>1, <3>2, <4>2, UnblockedIsUnblockedForRoot
    <3>3. QED
      BY <3>1, <3>2
  <2>2. node.payload # "unfit"
    BY <1>1, NothingWasHidden DEF PF!PreviewRefuses, PF!PayloadRefused
  <2>3. QED
    BY <2>1, <2>2, InstallRefusesBlocked
<1>2. ASSUME NEW c \in PF!Caller \ {"other"}, PF!PreviewRefuses(node, c),
             c \notin node.installer_refuses
      PROVE  PF!InstallRefuses(node)
  <2>1. CASE PF!PayloadRefused(node, c)
    BY <2>1, InstallRefusesBlocked DEF PF!PayloadRefused
  <2>2. CASE PF!Refuses(node, c, TRUE)
    <3>1. PICK check \in PF!Made(node, c, TRUE) :
              \/ PF!Blocked(check, node, c)
              \/ PF!Privileged(c) /\ PF!Unknown(check, node, c)
      BY <2>2 DEF PF!Refuses
    <3>2. check \in PF!Check
      BY <3>1 DEF PF!Made
    <3>3. PF!Blocked(check, node, c)
      BY <3>1, <3>2, RootSeesAll DEF PF!Privileged
    <3>4. QED
      BY <3>2, <3>3, BlockedIsBlockedForRoot, InstallRefusesBlocked
  <2>3. QED
    BY <1>2, <2>1, <2>2 DEF PF!PreviewRefuses
<1>3. QED
  BY <1>1, <1>2 DEF PF!DryRunIsEnough

-----------------------------------------------------------------------------
(* The spool: what is in it, and its repair. *)

\* No name is two things at once.
LEMMA Apart ==
    /\ SS!Self \notin SS!File
    /\ Marker \notin Trail
    /\ Stranger \cap SS!Owned = {}
BY NodeChecksAssumption DEF SS!File, SS!Owned

LEMMA InodeIsAsserted ==
    ASSUME NEW s \in SS!Spool, NEW n \in SS!Names,
           s[n].kind = SS!Asserted(n).kind, s[n].uid = Root,
           s[n].gid = SpoolGid, s[n].mode = SS!Wanted(n)
    PROVE  s[n] = SS!Asserted(n)
<1>1. s[n] \in SS!Inode
  BY DEF SS!Spool
<1>2. QED
  BY <1>1 DEF SS!Inode, SS!Asserted

\* What the repair makes of one name.
LEMMA RepairedName ==
    ASSUME NEW listed \in SS!Spool, NEW found \in SS!Spool, NEW n \in SS!Names
    PROVE  /\ SS!RepairSpool(listed, found)[n] \in {found[n], SS!Asserted(n)}
           /\ SS!RepairSpool(listed, found)[n] # found[n] =>
                  n \in SS!Owned \cup {SS!Self} /\ SS!Repairable(found, n)
BY DEF SS!RepairSpool

LEMMA RepairIsFunction ==
    ASSUME NEW listed \in SS!Spool, NEW found \in SS!Spool
    PROVE  /\ SS!RepairSpool(listed, found) =
                  [n \in SS!Names |-> SS!RepairSpool(listed, found)[n]]
           /\ ~SS!IsRootsDir(found[SS!Self]) => SS!RepairSpool(listed, found) = found
<1>1. SS!RepairSpool(listed, found) = [n \in SS!Names |-> SS!RepairSpool(listed, found)[n]]
  BY DEF SS!RepairSpool
<1>2. ASSUME ~SS!IsRootsDir(found[SS!Self]) PROVE SS!RepairSpool(listed, found) = found
  <2>1. found = [n \in SS!Names |-> found[n]]
    BY DEF SS!Spool
  <2>2. SS!RepairSpool(listed, found) = [n \in SS!Names |-> found[n]]
    BY <1>2 DEF SS!RepairSpool
  <2>3. QED
    BY <2>1, <2>2
<1>3. QED
  BY <1>1, <1>2

\* create_spool() writes the spool's own inode and its marker's, and no other.
LEMMA CreatedName ==
    ASSUME NEW s, s = [n \in SS!Names |-> s[n]], NEW n \in SS!Names
    PROVE  /\ ~SS!SpoolOpens(s) => SS!CreateSpool(s).spool = s
           /\ n \notin {SS!Self, Marker} => SS!CreateSpool(s).spool[n] = s[n]
           /\ ~SS!MarkerOpens(s) /\ n # SS!Self => SS!CreateSpool(s).spool[n] = s[n]
           /\ SS!SpoolOpens(s) /\ SS!MarkerOpens(s) => ~SS!CreateSpool(s).refused
           /\ SS!SpoolOpens(s) => SS!CreateSpool(s).spool[SS!Self] = SS!Asserted(SS!Self)
           /\ SS!SpoolOpens(s) /\ SS!MarkerOpens(s) =>
                  SS!CreateSpool(s).spool[Marker] = SS!Asserted(Marker)
<1>1. SS!Self \in SS!Names /\ Marker \in SS!Names /\ SS!Self # Marker
  BY Apart DEF SS!Names, SS!File, SS!Owned
<1>2. CASE ~SS!SpoolOpens(s)
  BY <1>2 DEF SS!CreateSpool
<1>3. CASE SS!SpoolOpens(s)
  <2> DEFINE made == [s EXCEPT ![SS!Self] = SS!Asserted(SS!Self),
                               ![Marker] = IF SS!MarkerOpens(s) THEN SS!Asserted(Marker) ELSE @]
  <2>1. SS!CreateSpool(s).spool = made /\ SS!CreateSpool(s).refused = ~SS!MarkerOpens(s)
    BY <1>3 DEF SS!CreateSpool
  <2>2. /\ made[SS!Self] = SS!Asserted(SS!Self)
        /\ made[Marker] = IF SS!MarkerOpens(s) THEN SS!Asserted(Marker) ELSE s[Marker]
        /\ n \notin {SS!Self, Marker} => made[n] = s[n]
    BY <1>1
  <2> HIDE DEF made
  <2>3. QED
    BY <1>3, <2>1, <2>2
<1>4. QED
  BY <1>2, <1>3

-----------------------------------------------------------------------------
(* What an install makes of a spool. *)

\* Whatever a group that may write above the spool has put at its name since
\* it was judged, the install changes nothing that is not its own.
\* _open_spool_dir(), repair_spool() and create_spool(),
\* node/deploy.py:1527-1664.
THEOREM OnlyOwnIsChanged ==
    ASSUME NEW listed \in SS!Spool, NEW found \in SS!Spool
    PROVE  SS!OnlyItsOwn(listed, found)
<1> DEFINE repaired == SS!RepairSpool(listed, found)
           end == SS!CreateSpool(repaired).spool
<1>1. SS!Self \in SS!Names /\ Marker \in SS!Names /\ SS!File \subseteq SS!Names
  BY DEF SS!Names, SS!File, SS!Owned
<1>2. repaired = [n \in SS!Names |-> repaired[n]]
  BY RepairIsFunction
<1>3. ASSUME found[SS!Self].kind # "missing", ~SS!IsRootsDir(found[SS!Self])
      PROVE  end = found
  <2>1. repaired = found
    BY <1>3, RepairIsFunction
  <2>2. ~SS!SpoolOpens(repaired)
    BY <1>3, <2>1 DEF SS!SpoolOpens
  <2>3. QED
    BY <1>1, <1>2, <2>1, <2>2, CreatedName
<1>4. ASSUME NEW n \in SS!File, found[n].kind # "missing",
             found[n].uid # Root \/ found[n].kind # "file" \/ n \in Stranger
      PROVE  end[n] = found[n]
  <2>1. n # SS!Self /\ n \in SS!Names
    BY <1>1, Apart
  <2>2. ~(n \in SS!Owned \cup {SS!Self} /\ SS!Repairable(found, n))
    BY <1>4, <2>1, Apart DEF SS!Repairable, SS!SpoolFileRepairable
  <2>3. repaired[n] = found[n]
    BY <2>1, <2>2, RepairedName
  <2>4. CASE n = Marker
    <3>1. n \in SS!Owned /\ n \notin Stranger
      BY <2>4, Apart DEF SS!Owned
    <3>2. ~SS!MarkerOpens(repaired)
      BY <1>4, <2>3, <2>4, <3>1 DEF SS!MarkerOpens
    <3>3. QED
      BY <1>2, <2>1, <2>3, <3>2, CreatedName
  <2>5. CASE n # Marker
    BY <1>2, <2>1, <2>3, <2>5, CreatedName
  <2>6. QED
    BY <2>4, <2>5
<1>5. ASSUME "suid" \in found[SS!Self].mode \/ "write" \in found[SS!Self].mode
      PROVE  repaired[SS!Self] = found[SS!Self]
  <2>1. ~SS!Repairable(found, SS!Self)
    BY <1>5 DEF SS!Repairable, SS!SpoolDirRepairable
  <2>2. QED
    BY <1>1, <2>1, RepairedName
<1>6. ASSUME NEW n \in Trail, found[n].mode \cap {"suid", "sgid"} # {}
      PROVE  end[n] = found[n]
  <2>1. n \in SS!Names /\ n \notin {SS!Self, Marker}
    BY Apart DEF SS!Names, SS!File, SS!Owned
  <2>2. ~SS!Repairable(found, n)
    BY <1>6, <2>1 DEF SS!Repairable, SS!SpoolFileRepairable
  <2>3. QED
    BY <1>2, <2>1, <2>2, RepairedName, CreatedName
<1>7. QED
  BY <1>3, <1>4, <1>5, <1>6 DEF SS!OnlyItsOwn, SS!Installed

\* What the audit of a spool's own directory accepts.
LEMMA AcceptedSpool ==
    ASSUME NEW s \in SS!Spool, SS!AuditDirBlockers(s) = {}
    PROVE  \/ s[SS!Self].kind = "missing"
           \/ /\ SS!SpoolDirRepairable(s[SS!Self])
              /\ \A n \in SS!Owned : s[n].kind = "file" => SS!SpoolFileRepairable(s[n])
<1>1. SS!Self \in SS!Names /\ s[SS!Self] \in SS!Inode
  BY DEF SS!Spool, SS!Names
<1>2. s[SS!Self].kind \in SS!Kind
  BY <1>1 DEF SS!Inode
<1>3. s[SS!Self].kind \in {"missing", "dir", "linkDir"}
  BY <1>2 DEF SS!AuditDirBlockers, SS!Kind
<1>4. ASSUME s[SS!Self].kind # "missing", NEW n \in SS!Walked(s)
      PROVE  SS!Unowned(s, n) = "none" \/ SS!Excused(s, n)
  BY <1>3, <1>4 DEF SS!AuditDirBlockers
<1>5. ASSUME s[SS!Self].kind # "missing"
      PROVE  SS!Self \in SS!Walked(s)
  BY <1>1 DEF SS!Walked
<1>6. ASSUME s[SS!Self].kind = "linkDir" PROVE FALSE
  <2>1. SS!Unowned(s, SS!Self) \in {"ownership", "symlink"}
    BY <1>6 DEF SS!Unowned, SS!Link
  <2>2. ~SS!Excused(s, SS!Self)
    BY <2>1 DEF SS!Excused
  <2>3. SS!Self \in SS!Walked(s)
    BY <1>5, <1>6
  <2>4. QED
    BY <1>4, <1>6, <2>1, <2>2, <2>3
<1>7. ASSUME s[SS!Self].kind = "dir" PROVE SS!SpoolDirRepairable(s[SS!Self])
  <2>1. SS!Unowned(s, SS!Self) = "none" \/ SS!Excused(s, SS!Self)
    BY <1>4, <1>5, <1>7
  <2>2. s[SS!Self].uid = Root
    <3>1. SUFFICES ASSUME s[SS!Self].uid # Root PROVE FALSE
      OBVIOUS
    <3>2. SS!Unowned(s, SS!Self) = "ownership"
      BY <1>7, <3>1 DEF SS!Unowned
    <3>3. QED
      BY <2>1, <3>2 DEF SS!Excused
  <2>3. "write" \notin s[SS!Self].mode
    <3>1. SUFFICES ASSUME "write" \in s[SS!Self].mode PROVE FALSE
      OBVIOUS
    <3>2. SS!Unowned(s, SS!Self) = "permissive"
      BY <1>7, <2>2, <3>1 DEF SS!Unowned, SS!Link
    <3>3. SS!Self \notin SS!SpoolModeRepairs(s, {SpoolGid, OtherGid})
      BY <3>1 DEF SS!SpoolModeRepairs, SS!SpoolDirRepairable
    <3>4. QED
      BY <2>1, <3>2, <3>3 DEF SS!Excused
  <2>4. "suid" \notin s[SS!Self].mode
    <3>1. SUFFICES ASSUME "suid" \in s[SS!Self].mode PROVE FALSE
      OBVIOUS
    <3>2. SS!Unowned(s, SS!Self) = "setuid"
      BY <1>7, <2>2, <2>3, <3>1 DEF SS!Unowned, SS!Link
    <3>3. QED
      BY <2>1, <3>1, <3>2 DEF SS!Excused, SS!IsSpoolsOwnSetgid
  <2>5. QED
    BY <1>7, <2>2, <2>3, <2>4 DEF SS!SpoolDirRepairable
<1>8. ASSUME s[SS!Self].kind = "dir", NEW n \in SS!Owned, s[n].kind = "file"
      PROVE  SS!SpoolFileRepairable(s[n])
  <2>1. n \in SS!Names /\ n # SS!Self /\ n \in SS!Walked(s)
    BY <1>8, Apart DEF SS!Names, SS!File, SS!Walked
  <2>2. SS!Unowned(s, n) = "none" \/ SS!Excused(s, n)
    BY <1>4, <1>8, <2>1
  <2>3. CASE SS!Unowned(s, n) = "none"
    BY <1>8, <2>3 DEF SS!Unowned, SS!Link, SS!SpoolFileRepairable
  <2>4. CASE SS!Excused(s, n)
    <3>1. n \in SS!SpoolModeRepairs(s, {SpoolGid, OtherGid})
      BY <2>1, <2>4 DEF SS!Excused, SS!IsSpoolsOwnSetgid
    <3>2. QED
      BY <2>1, <3>1 DEF SS!SpoolModeRepairs, SS!Repairable
  <2>5. QED
    BY <2>2, <2>3, <2>4
<1>9. QED
  BY <1>3, <1>6, <1>7, <1>8

\* What the repair leaves of an accepted spool: each file of a name the
\* installer owns has the one group and the one mode, and a stranger's is as
\* it was.
LEMMA RepairedSpool ==
    ASSUME NEW s \in SS!Spool, NEW n \in SS!Owned,
           SS!SpoolDirRepairable(s[SS!Self]),
           s[n].kind = "file", SS!SpoolFileRepairable(s[n])
    PROVE  SS!RepairSpool(s, s)[n] = SS!Asserted(n)
<1>1. n \in SS!Names /\ n # SS!Self
  BY Apart DEF SS!Names, SS!File
<1>2. SS!Repairable(s, n) /\ SS!IsRootsDir(s[SS!Self])
  BY <1>1 DEF SS!Repairable, SS!IsRootsDir, SS!SpoolDirRepairable
<1>3. CASE SS!SpoolModeRepairs(s, {SpoolGid}) # {}
  BY <1>1, <1>2, <1>3 DEF SS!RepairSpool
<1>4. CASE SS!SpoolModeRepairs(s, {SpoolGid}) = {}
  <2>1. s[n].mode = SS!Wanted(n) /\ s[n].gid = SpoolGid
    BY <1>2, <1>4 DEF SS!SpoolModeRepairs
  <2>2. s[n].uid = Root /\ s[n].kind = SS!Asserted(n).kind
    BY <1>1 DEF SS!SpoolFileRepairable, SS!Asserted
  <2>3. s[n] = SS!Asserted(n)
    BY <1>1, <2>1, <2>2, InodeIsAsserted
  <2>4. QED
    BY <1>1, <2>3, RepairedName
<1>5. QED
  BY <1>3, <1>4

\* A spool the audit accepts, left as it was judged and with nothing but a
\* file at the marker's name, is refused by neither step of the install, and
\* is then as the code asserts it.  audit_dir_blockers() and
\* spool_mode_repairs() agree, node/deploy.py:1481-1520 and 1703-1795.
THEOREM AcceptedSpoolIsMended ==
    ASSUME NEW s \in SS!Spool
    PROVE  SS!JudgedAsLeft(s)
<1> SUFFICES ASSUME SS!AuditDirBlockers(s) = {}, s[Marker].kind \in {"missing", "file"}
             PROVE  LET end == SS!Installed(s, s)
                    IN  /\ ~end.refused
                        /\ end.spool[SS!Self] = SS!Asserted(SS!Self)
                        /\ end.spool[Marker] = SS!Asserted(Marker)
                        /\ \A n \in SS!Owned :
                              s[n].kind = "file" => end.spool[n] = SS!Asserted(n)
                        /\ \A n \in Stranger : end.spool[n] = s[n]
  BY DEF SS!JudgedAsLeft
<1> DEFINE repaired == SS!RepairSpool(s, s)
           end == SS!CreateSpool(repaired)
<1>1. /\ SS!Self \in SS!Names /\ Marker \in SS!Names /\ SS!Owned \subseteq SS!Names
      /\ Stranger \subseteq SS!Names /\ Marker \in SS!Owned /\ SS!Self # Marker
  BY Apart DEF SS!Names, SS!File, SS!Owned
<1>2. repaired = [n \in SS!Names |-> repaired[n]]
  BY RepairIsFunction
<1>3. SS!SpoolOpens(repaired)
  <2>1. CASE s[SS!Self].kind = "missing"
    <3>1. repaired[SS!Self] = s[SS!Self]
      BY <1>1, <2>1, RepairedName DEF SS!Repairable, SS!SpoolDirRepairable
    <3>2. QED
      BY <2>1, <3>1 DEF SS!SpoolOpens
  <2>2. CASE SS!SpoolDirRepairable(s[SS!Self])
    <3>1. SS!IsRootsDir(s[SS!Self]) /\ SS!IsRootsDir(SS!Asserted(SS!Self))
      BY <2>2 DEF SS!SpoolDirRepairable, SS!IsRootsDir, SS!Asserted
    <3>2. repaired[SS!Self] \in {s[SS!Self], SS!Asserted(SS!Self)}
      BY <1>1, RepairedName
    <3>3. QED
      BY <3>1, <3>2 DEF SS!SpoolOpens
  <2>3. QED
    BY <2>1, <2>2, AcceptedSpool
<1>4. ASSUME NEW n \in SS!Owned, s[n].kind = "file"
      PROVE  repaired[n] = SS!Asserted(n)
  <2>1. s[SS!Self].kind # "missing"
    BY <1>4 DEF SS!Spool, SS!File
  <2>2. SS!SpoolDirRepairable(s[SS!Self]) /\ SS!SpoolFileRepairable(s[n])
    BY <1>4, <2>1, AcceptedSpool
  <2>3. QED
    BY <1>4, <2>2, RepairedSpool
<1>5. SS!MarkerOpens(repaired)
  <2>1. CASE s[Marker].kind = "file"
    <3>1. repaired[Marker] = SS!Asserted(Marker)
      BY <1>1, <1>4, <2>1
    <3>2. QED
      BY <1>1, <3>1 DEF SS!MarkerOpens, SS!Asserted
  <2>2. CASE s[Marker].kind = "missing"
    <3>1. repaired[Marker] = s[Marker]
      BY <1>1, <2>2, RepairedName DEF SS!Repairable, SS!SpoolFileRepairable
    <3>2. QED
      BY <2>2, <3>1 DEF SS!MarkerOpens
  <2>3. QED
    BY <2>1, <2>2
<1>6. /\ ~end.refused
      /\ end.spool[SS!Self] = SS!Asserted(SS!Self)
      /\ end.spool[Marker] = SS!Asserted(Marker)
  BY <1>1, <1>2, <1>3, <1>5, CreatedName
<1>7. ASSUME NEW n \in SS!Owned, s[n].kind = "file"
      PROVE  end.spool[n] = SS!Asserted(n)
  <2>1. n # SS!Self /\ n \in SS!Names
    BY <1>1, <1>7, Apart DEF SS!File
  <2>2. CASE n = Marker
    BY <1>6, <2>2
  <2>3. CASE n # Marker
    <3>1. repaired[n] = SS!Asserted(n)
      BY <1>4, <1>7
    <3>2. QED
      BY <1>2, <2>1, <2>3, <3>1, CreatedName
  <2>4. QED
    BY <2>2, <2>3
<1>8. ASSUME NEW n \in Stranger PROVE end.spool[n] = s[n]
  <2>1. n \in SS!Names /\ n \notin SS!Owned \cup {SS!Self}
    BY <1>1, <1>8, Apart DEF SS!File
  <2>2. repaired[n] = s[n]
    BY <2>1, RepairedName
  <2>3. QED
    BY <1>1, <1>2, <2>1, <2>2, CreatedName
<1>9. QED
  BY <1>6, <1>7, <1>8 DEF SS!Installed

-----------------------------------------------------------------------------
(* The kernel's evaluation, by what an account is to an inode. *)

\* A named user is decided by its entry.
LEMMA NamedMay ==
    ASSUME NEW i, NEW p, NEW a \in AR!Account, a.uid \notin {Root, i.uid},
           a.uid \in AR!NamedUsers(i)
    PROVE  AR!May(a, p, i) <=> p \in AR!UserBits(i, a.uid)
BY DEF AR!May

\* Any other account is decided by the group entries it matches.
LEMMA GroupMay ==
    ASSUME NEW i, NEW p, NEW a \in AR!Account, a.uid \notin {Root, i.uid},
           a.uid \notin AR!NamedUsers(i), a.gids \cap AR!GroupClass(i) # {}
    PROVE  AR!May(a, p, i) <=> \E g \in a.gids \cap AR!GroupClass(i) : p \in AR!GroupBits(i, g)
BY DEF AR!May

\* By the others' bits, if it matches none.
LEMMA OtherMay ==
    ASSUME NEW i, NEW p, NEW a \in AR!Account, a.uid \notin {Root, i.uid},
           a.uid \notin AR!NamedUsers(i), a.gids \cap AR!GroupClass(i) = {}
    PROVE  AR!May(a, p, i) <=> p \in i.other
BY DEF AR!May

-----------------------------------------------------------------------------
(* Who may search the spool. *)

\* The answer about a user is the kernel's, whatever groups the user is in.
LEMMA UserAnswer ==
    ASSUME NEW i, NEW u \in Uid, NEW a \in AR!Account, a.uid = u
    PROVE  AR!May(a, "x", i) <=> AR!Said(AR!UserSearch(i, u), i, a)
<1>1. CASE u = Root
  BY <1>1 DEF AR!May, AR!UserSearch, AR!Said
<1>2. CASE u # Root /\ u = i.uid
  BY <1>2 DEF AR!May, AR!UserSearch, AR!Said
<1>3. CASE u \notin {Root, i.uid} /\ u \in AR!NamedUsers(i)
  BY <1>3, NamedMay DEF AR!UserSearch, AR!Said, AR!Denied
<1>4. CASE u \notin {Root, i.uid} /\ u \notin AR!NamedUsers(i)
  <2> DEFINE matched == a.gids \cap AR!GroupClass(i)
  <2>1. AR!May(a, "x", i) <=>
            IF matched # {} THEN matched \cap AR!Searching(i) # {} ELSE "x" \in i.other
    BY <1>4, GroupMay, OtherMay DEF AR!Searching
  <2>2. AR!Searching(i) \subseteq AR!GroupClass(i)
    BY DEF AR!Searching
  <2>3. CASE AR!Searching(i) = AR!GroupClass(i) /\ "x" \in i.other
    BY <1>4, <2>1, <2>3 DEF AR!UserSearch, AR!Said
  <2>4. CASE AR!Searching(i) = {} /\ "x" \notin i.other
    BY <1>4, <2>1, <2>4 DEF AR!UserSearch, AR!Said
  <2>5. CASE "x" \in i.other /\ AR!Searching(i) # AR!GroupClass(i)
    <3>1. AR!UserSearch(i, u) = "unless only denying groups"
      BY <1>4, <2>5 DEF AR!UserSearch
    <3>2. QED
      BY <2>1, <2>2, <2>5, <3>1 DEF AR!Said
  <2>6. CASE "x" \notin i.other /\ AR!Searching(i) # {}
    <3>1. AR!UserSearch(i, u) = "if a group searches"
      BY <1>4, <2>6 DEF AR!UserSearch
    <3>2. QED
      BY <2>1, <2>2, <2>6, <3>1 DEF AR!Said
  <2>7. QED
    BY <2>3, <2>4, <2>5, <2>6
<1>5. QED
  BY <1>1, <1>2, <1>3, <1>4

\* The answer about a group is the kernel's for every member of it.
LEMMA GroupAnswer ==
    ASSUME NEW i, NEW g \in Gid, NEW a \in AR!Account, g \in a.gids,
           a.uid \notin {Root, i.uid}
    PROVE  AR!May(a, "x", i) <=> AR!Said(AR!GroupSearch(i, g), i, a)
<1> DEFINE matched == a.gids \cap AR!GroupClass(i)
           answer == AR!GroupSearch(i, g)
<1>1. AR!May(a, "x", i) <=>
          IF a.uid \in AR!NamedUsers(i) THEN a.uid \notin AR!Denied(i)
          ELSE IF matched # {} THEN matched \cap AR!Searching(i) # {} ELSE "x" \in i.other
  BY NamedMay, GroupMay, OtherMay DEF AR!Searching, AR!Denied
<1>2. AR!Searching(i) \subseteq AR!GroupClass(i) /\ AR!Denied(i) \subseteq AR!NamedUsers(i)
  BY DEF AR!Searching, AR!Denied
<1>3. CASE g \in AR!Searching(i)
  <2>1. AR!May(a, "x", i) <=> a.uid \notin AR!Denied(i)
    BY <1>1, <1>2, <1>3
  <2>2. answer = IF AR!Denied(i) = {} THEN "yes" ELSE "but a denied member"
    BY <1>3 DEF AR!GroupSearch
  <2>3. QED
    BY <2>1, <2>2 DEF AR!Said
<1>4. CASE g \notin AR!Searching(i)
  <2>1. CASE answer = "yes"
    <3>1. AR!Searching(i) = AR!GroupClass(i) /\ AR!Denied(i) = {} /\ "x" \in i.other
      BY <1>4, <2>1 DEF AR!GroupSearch
    <3>2. QED
      BY <1>1, <2>1, <3>1 DEF AR!Said
  <2>2. CASE answer = "if another way"
    BY <2>2 DEF AR!Said
  <2>3. CASE answer = "no"
    <3>1. /\ AR!Searching(i) = {} /\ AR!NamedUsers(i) = AR!Denied(i)
          /\ g \in AR!GroupClass(i) \/ "x" \notin i.other
      BY <1>4, <2>3 DEF AR!GroupSearch
    <3>2. QED
      BY <1>1, <2>3, <3>1 DEF AR!Said
  <2>4. answer \in {"yes", "if another way", "no"}
    BY <1>4 DEF AR!GroupSearch
  <2>5. QED
    BY <2>1, <2>2, <2>3, <2>4
<1>5. QED
  BY <1>3, <1>4

\* A condition on a user is one: some membership meets it and another does
\* not.
LEMMA UserCondition ==
    ASSUME NEW i \in AR!Inode, NEW u \in Uid, AR!UserSearch(i, u) \notin {"yes", "no"}
    PROVE  /\ \E a \in AR!Meant(i, "user", u) : AR!May(a, "x", i)
           /\ \E a \in AR!Meant(i, "user", u) : ~AR!May(a, "x", i)
<1> DEFINE In(G) == [uid |-> u, gids |-> G]
<1>1. u \notin {Root, i.uid} /\ u \notin AR!NamedUsers(i)
  BY DEF AR!UserSearch
<1>2. \A G \in SUBSET Gid : In(G) \in AR!Account /\ In(G) \in AR!Meant(i, "user", u)
  BY DEF AR!Account, AR!Meant
<1>3. AR!GroupClass(i) \subseteq Gid /\ AR!Searching(i) \subseteq AR!GroupClass(i)
  BY DEF AR!GroupClass, AR!Searching, AR!Inode, AR!Acl, AR!Entries
<1>4. AR!May(In({}), "x", i) <=> "x" \in i.other
  BY <1>1, <1>2, OtherMay
<1>5. \A g \in AR!GroupClass(i) : AR!May(In({g}), "x", i) <=> g \in AR!Searching(i)
  BY <1>1, <1>2, <1>3, GroupMay DEF AR!Searching
<1>6. CASE "x" \in i.other
  <2>0. AR!Searching(i) # AR!GroupClass(i)
    BY <1>1, <1>6 DEF AR!UserSearch
  <2>1. PICK g \in AR!GroupClass(i) : g \notin AR!Searching(i)
    BY <1>3, <2>0
  <2>2. {} \in SUBSET Gid /\ {g} \in SUBSET Gid
    BY <1>3, <2>1
  <2>3. AR!May(In({}), "x", i) /\ ~AR!May(In({g}), "x", i)
    BY <1>4, <1>5, <1>6, <2>1
  <2>4. QED
    BY <1>2, <2>2, <2>3
<1>7. CASE "x" \notin i.other
  <2>1. PICK g \in AR!Searching(i) : TRUE
    BY <1>1, <1>7 DEF AR!UserSearch
  <2>2. {} \in SUBSET Gid /\ {g} \in SUBSET Gid
    BY <1>3, <2>1
  <2>3. ~AR!May(In({}), "x", i) /\ AR!May(In({g}), "x", i)
    BY <1>3, <1>4, <1>5, <1>7, <2>1
  <2>4. QED
    BY <1>2, <2>2, <2>3
<1>8. QED
  BY <1>6, <1>7

\* A condition on a group is one, where the inode is root's and somebody is
\* named nowhere: some member meets it and another does not.
LEMMA GroupCondition ==
    ASSUME NEW i \in AR!Inode, i.uid = Root, NEW g \in Gid,
           NEW free \in Uid \ {Root}, free \notin AR!NamedUsers(i),
           AR!GroupSearch(i, g) \notin {"yes", "no"}
    PROVE  /\ \E a \in AR!Meant(i, "group", g) : AR!May(a, "x", i)
           /\ \E a \in AR!Meant(i, "group", g) : ~AR!May(a, "x", i)
<1> DEFINE One(u, G) == [uid |-> u, gids |-> G \cup {g}]
<1>1. \A u \in Uid \ {Root}, G \in SUBSET Gid :
          One(u, G) \in AR!Account /\ One(u, G) \in AR!Meant(i, "group", g)
  BY DEF AR!Account, AR!Meant
<1>2. /\ AR!GroupClass(i) \subseteq Gid /\ AR!Searching(i) \subseteq AR!GroupClass(i)
      /\ AR!Denied(i) \subseteq AR!NamedUsers(i) /\ AR!NamedUsers(i) \subseteq Uid \ {Root}
  BY DEF AR!GroupClass, AR!Searching, AR!Denied, AR!NamedUsers, AR!Inode, AR!Acl, AR!Entries
<1>3. \A u \in AR!NamedUsers(i) : AR!May(One(u, {}), "x", i) <=> u \notin AR!Denied(i)
  <2> SUFFICES ASSUME NEW u \in AR!NamedUsers(i)
               PROVE  AR!May(One(u, {}), "x", i) <=> u \notin AR!Denied(i)
    OBVIOUS
  <2>1. One(u, {}) \in AR!Account /\ u \notin {Root, i.uid}
    BY <1>1, <1>2
  <2>2. AR!May(One(u, {}), "x", i) <=> "x" \in AR!UserBits(i, u)
    BY <2>1, NamedMay
  <2>3. QED
    BY <2>2 DEF AR!Denied
<1>4. \A h \in AR!GroupClass(i) :
          AR!May(One(free, {h}), "x", i) <=> {g, h} \cap AR!Searching(i) # {}
  <2> SUFFICES ASSUME NEW h \in AR!GroupClass(i)
               PROVE  AR!May(One(free, {h}), "x", i) <=> {g, h} \cap AR!Searching(i) # {}
    OBVIOUS
  <2> DEFINE a == One(free, {h})
  <2>1. {h} \in SUBSET Gid
    BY <1>2
  <2>2. a \in AR!Account /\ a.uid = free /\ a.gids = {g, h}
    BY <1>1, <2>1
  <2>3. a.gids \cap AR!GroupClass(i) # {}
    BY <2>2
  <2>4. AR!May(a, "x", i) <=> \E k \in a.gids \cap AR!GroupClass(i) : "x" \in AR!GroupBits(i, k)
    <3> HIDE DEF a
    <3> QED
      BY <2>2, <2>3, GroupMay
  <2>5. QED
    BY <2>2, <2>4 DEF AR!Searching
<1>5. ASSUME g \notin AR!GroupClass(i)
      PROVE  AR!May(One(free, {}), "x", i) <=> "x" \in i.other
  BY <1>1, <1>5, OtherMay
<1>6. CASE g \in AR!Searching(i)
  <2>1. PICK u \in AR!Denied(i) : TRUE
    BY <1>6 DEF AR!GroupSearch
  <2>2. QED
    BY <1>1, <1>2, <1>3, <1>4, <1>6, <2>1
<1>7. CASE g \notin AR!Searching(i)
  <2>1. \/ AR!Searching(i) # {}
        \/ AR!NamedUsers(i) # AR!Denied(i)
        \/ g \notin AR!GroupClass(i) /\ "x" \in i.other
    BY <1>7 DEF AR!GroupSearch
  <2>2. \E a \in AR!Meant(i, "group", g) : AR!May(a, "x", i)
    <3>1. CASE AR!Searching(i) # {}
      <4>1. PICK h \in AR!Searching(i) : TRUE
        BY <3>1
      <4>2. h \in AR!GroupClass(i) /\ h \in Gid
        BY <1>2, <4>1
      <4>3. AR!May(One(free, {h}), "x", i)
        BY <1>4, <4>1, <4>2
      <4>4. QED
        BY <1>1, <4>2, <4>3
    <3>2. CASE AR!NamedUsers(i) # AR!Denied(i)
      <4>1. PICK u \in AR!NamedUsers(i) : u \notin AR!Denied(i)
        BY <1>2, <3>2
      <4>2. AR!May(One(u, {}), "x", i)
        BY <1>3, <4>1
      <4>3. QED
        BY <1>1, <1>2, <4>1, <4>2
    <3>3. CASE g \notin AR!GroupClass(i) /\ "x" \in i.other
      <4>1. AR!May(One(free, {}), "x", i)
        BY <1>5, <3>3
      <4>2. QED
        BY <1>1, <4>1
    <3>4. QED
      BY <2>1, <3>1, <3>2, <3>3
  <2>3. \/ g \in AR!GroupClass(i)
        \/ "x" \notin i.other
        \/ AR!Searching(i) # AR!GroupClass(i)
        \/ AR!Denied(i) # {}
    BY <1>7 DEF AR!GroupSearch
  <2>4. \E a \in AR!Meant(i, "group", g) : ~AR!May(a, "x", i)
    <3>1. CASE g \in AR!GroupClass(i)
      BY <1>1, <1>2, <1>4, <1>7, <3>1
    <3>2. CASE g \notin AR!GroupClass(i) /\ "x" \notin i.other
      BY <1>1, <1>5, <3>2
    <3>3. CASE g \notin AR!GroupClass(i) /\ AR!Searching(i) # AR!GroupClass(i)
      <4>1. PICK h \in AR!GroupClass(i) : h \notin AR!Searching(i)
        BY <1>2, <3>3
      <4>2. QED
        BY <1>1, <1>2, <1>4, <1>7, <4>1
    <3>4. CASE AR!Denied(i) # {}
      BY <1>1, <1>2, <1>3, <3>4
    <3>5. QED
      BY <2>3, <3>1, <3>2, <3>3, <3>4
  <2>5. QED
    BY <2>2, <2>4
<1>8. QED
  BY <1>6, <1>7

\* _spool_search() answers as the kernel would for every membership, and says
\* a condition only where there is one, over a spool that is root's:
\* node/deploy.py:3071-3132.
THEOREM SearchAnswers ==
    ASSUME NEW i \in AR!Inode, i.uid = Root,
           NEW free \in Uid \ {Root}, free \notin AR!NamedUsers(i)
    PROVE  /\ \A u \in Uid : AR!SearchIsTrue(i, "user", u)
           /\ \A g \in Gid : AR!SearchIsTrue(i, "group", g)
<1>1. ASSUME NEW u \in Uid PROVE AR!SearchIsTrue(i, "user", u)
  <2>1. \A a \in AR!Meant(i, "user", u) : AR!May(a, "x", i) <=> AR!Said(AR!UserSearch(i, u), i, a)
    BY UserAnswer DEF AR!Meant
  <2>2. QED
    BY <2>1, UserCondition DEF AR!SearchIsTrue, AR!Search
<1>2. ASSUME NEW g \in Gid PROVE AR!SearchIsTrue(i, "group", g)
  <2>1. \A a \in AR!Meant(i, "group", g) : AR!May(a, "x", i) <=> AR!Said(AR!GroupSearch(i, g), i, a)
    BY GroupAnswer DEF AR!Meant
  <2>2. QED
    BY <2>1, GroupCondition DEF AR!SearchIsTrue, AR!Search
<1>3. QED
  BY <1>1, <1>2

-----------------------------------------------------------------------------
(* Who reads a trail, and the journal. *)

\* A plain no is nobody's.
LEMMA SaidNo ==
    ASSUME NEW i, NEW a
    PROVE  ~AR!Said("no", i, a)
BY DEF AR!Said

\* Nobody reads a trail whom spool_read_grants() does not name, but root and
\* the spool's own group: node/deploy.py:3135-3209.
THEOREM ReadersAreNamedOrKnown ==
    ASSUME NEW spool \in AR!Inode, NEW file \in AR!Inode
    PROVE  AR!NoUnnamedReader(spool, file)
<1> SUFFICES ASSUME AR!AsInstalled(spool, file), NEW a \in AR!Account,
                    AR!May(a, "x", spool), AR!May(a, "r", file),
                    a.uid # Root, SpoolGid \notin a.gids
             PROVE  \/ <<"user", a.uid>> \in AR!Readers(spool, file)
                    \/ \E g \in a.gids : <<"group", g>> \in AR!Readers(spool, file)
  BY DEF AR!NoUnnamedReader
<1>1. /\ spool.uid = Root /\ file.uid = Root
      /\ file.gid = SpoolGid /\ file.other = {}
  BY DEF AR!AsInstalled
<1>2. a.uid \in Uid /\ a.gids \subseteq Gid
  BY DEF AR!Account
<1>3. CASE a.uid \in AR!NamedUsers(file)
  <2>1. <<"user", a.uid>> \in AR!ReadEntries(file)
    BY <1>1, <1>3, NamedMay DEF AR!ReadEntries
  <2>2. AR!May(a, "x", spool) <=> AR!Said(AR!UserSearch(spool, a.uid), spool, a)
    BY <1>2, UserAnswer
  <2>3. AR!UserSearch(spool, a.uid) # "no"
    BY <2>2, SaidNo
  <2>4. <<"user", a.uid>>[1] = "user" /\ <<"user", a.uid>>[2] = a.uid
    OBVIOUS
  <2>5. QED
    BY <2>1, <2>3, <2>4 DEF AR!Readers, AR!Search
<1>4. CASE a.uid \notin AR!NamedUsers(file)
  <2>1. PICK g \in a.gids \cap AR!GroupClass(file) : "r" \in AR!GroupBits(file, g)
    BY <1>1, <1>4, GroupMay, OtherMay
  <2>2. g # file.gid
    BY <1>1, <2>1
  <2>3. PICK acl \in file.acl : g \in DOMAIN acl.groups /\ "r" \in AR!Masked(acl.groups[g], acl)
    <3>1. file.acl # {}
      BY <2>1, <2>2 DEF AR!GroupClass
    <3>2. PICK acl \in file.acl :
              "r" \in AR!Masked((IF g \in DOMAIN acl.groups THEN acl.groups[g] ELSE {})
                             \cup (IF g = file.gid THEN acl.owning ELSE {}), acl)
      BY <2>1, <3>1 DEF AR!GroupBits
    <3>3. QED
      BY <2>2, <3>2 DEF AR!Masked
  <2>4. <<"group", g>> \in AR!ReadEntries(file)
    <3>1. g \in (UNION {DOMAIN acls.groups : acls \in file.acl}) \ {SpoolGid}
      BY <1>1, <2>2, <2>3
    <3>2. QED
      BY <2>3, <3>1 DEF AR!ReadEntries
  <2>5. AR!GroupSearch(spool, g) # "no"
    <3>1. CASE a.uid = Root
      BY <3>1
    <3>2. CASE a.uid # Root
      <4>1. AR!May(a, "x", spool) <=> AR!Said(AR!GroupSearch(spool, g), spool, a)
        BY <1>1, <1>2, <2>1, <3>2, GroupAnswer
      <4>2. QED
        BY <4>1, SaidNo
    <3>3. QED
      BY <3>1, <3>2
  <2>6. <<"group", g>>[1] = "group" /\ <<"group", g>>[2] = g
    OBVIOUS
  <2>7. QED
    BY <2>1, <2>4, <2>5, <2>6 DEF AR!Readers, AR!Search
<1>5. QED
  BY <1>3, <1>4

\* An entry that lets a group through the mask lets every member through who
\* is not the owner, nor named.
LEMMA EntryLets ==
    ASSUME NEW j, NEW g, NEW want, ~AR!AccessGap(j, g, want), NEW p \in want,
           NEW a \in AR!Account, g \in a.gids, a.uid # j.inode.uid,
           a.uid \notin AR!NamedUsers(j.inode)
    PROVE  AR!May(a, p, j.inode)
<1>1. PICK acl \in j.inode.acl :
          g \in DOMAIN acl.groups /\ want \subseteq AR!Masked(acl.groups[g], acl)
  BY DEF AR!AccessGap
<1>2. g \in AR!GroupClass(j.inode)
  BY <1>1 DEF AR!GroupClass
<1>3. p \in AR!GroupBits(j.inode, g)
  <2>1. p \in AR!Masked((IF g \in DOMAIN acl.groups THEN acl.groups[g] ELSE {})
                     \cup (IF g = j.inode.gid THEN acl.owning ELSE {}), acl)
    BY <1>1 DEF AR!Masked
  <2>2. QED
    BY <1>1, <2>1 DEF AR!GroupBits
<1>4. CASE a.uid = Root
  BY <1>4 DEF AR!May
<1>5. CASE a.uid # Root
  BY <1>2, <1>3, <1>5, GroupMay
<1>6. QED
  BY <1>4, <1>5

\* Where journal_grant_gaps() finds no gap the group reads this machine's
\* journal, now and as it grows; and what a dry run calls a certain failure
\* is one: node/deploy.py:3266-3367.
THEOREM NoGapLetsTheGroupRead ==
    ASSUME NEW id, NEW g \in Gid, NEW roots,
           \A r \in roots : r.dir \in AR!JournalInode
    PROVE  AR!NoGapMeansRead(id, roots, g)
<1>1. ASSUME AR!NoGaps(id, roots, g), NEW r \in roots, r.root.there, r.dir.there,
             NEW a \in AR!Account, g \in a.gids,
             \A j \in {r.root, r.dir} \cup r.files :
                 a.uid # j.inode.uid /\ a.uid \notin AR!NamedUsers(j.inode)
      PROVE  /\ AR!May(a, "x", r.root.inode) /\ AR!May(a, "x", r.dir.inode)
             /\ \A f \in r.files : AR!May(a, "r", f.inode)
  <2>1. /\ ~AR!AccessGap(r.root, g, {"r", "x"}) /\ ~AR!AccessGap(r.dir, g, {"r", "x"})
        /\ \A f \in r.files : ~AR!AccessGap(f, g, {"r"})
    BY <1>1 DEF AR!NoGaps, AR!DirGap
  <2>2. QED
    BY <1>1, <2>1, EntryLets
<1>2. ASSUME AR!NoGaps(id, roots, g), NEW r \in roots, r.root.there, r.dir.there,
             NEW p \in r.dir.default
      PROVE  "r" \in p
  <2>1. PICK q \in r.dir.default : {"r", "x"} \subseteq q
    BY <1>2 DEF AR!NoGaps, AR!DirGap, AR!DefaultGap
  <2>2. r.dir.default \in {{}} \cup {{s} : s \in SUBSET AR!Perm}
    BY <1>2 DEF AR!JournalInode
  <2>3. p = q
    BY <1>2, <2>2
  <2>4. QED
    BY <2>1, <2>3
<1>3. ASSUME AR!CertainFailure(id, roots), AR!NoGaps(id, roots, g) PROVE FALSE
  <2>1. PICK r \in roots : r.root.there /\ r.dir.there
    BY <1>3 DEF AR!NoGaps
  <2>2. AR!MachineDir(r) # "absent"
    BY <2>1 DEF AR!MachineDir
  <2>3. id = "present"
    BY <1>3 DEF AR!NoGaps
  <2>4. QED
    BY <1>3, <2>1, <2>2, <2>3 DEF AR!CertainFailure
<1>4. QED
  BY <1>1, <1>2, <1>3 DEF AR!NoGapMeansRead

-----------------------------------------------------------------------------
(* A payload and its record. *)

\* A payload as it may lie on a disk: what is below a name that is there has a
\* directory above it.
PayloadTree ==
    {t \in [PayloadPath -> PR!Entry] :
        \A p, q \in PayloadPath :
            PR!Under(q, p) /\ t[p].kind # "missing" => t[q].kind = "dir"}

\* A record as the build writes it: of files of the payload, and not of itself.
PayloadLocks == UNION {PR!Records([P -> Content]) : P \in SUBSET (PayloadPath \ {Lock})}

\* The order of the payload's paths.
LEMMA PayloadOrder ==
    /\ \A p, q, r \in PayloadPath : PR!Under(p, q) /\ PR!Under(q, r) => PR!Under(p, r)
    /\ \A p, q, r \in PayloadPath : PR!Under(p, r) /\ PR!Under(q, r) =>
           p = q \/ PR!Under(p, q) \/ PR!Under(q, p)
    /\ \A p, q \in PayloadPath : PR!Under(p, q) => Len(p) < Len(q) /\ p # q
    /\ \A p \in PayloadPath : Len(p) \in Nat
<1>1. \A p \in PayloadPath : p \in Seq(STRING)
  BY NodeChecksAssumption
<1>2. \A p, q : PR!Under(p, q) <=> IsStrictPrefix(p, q)
  BY DEF PR!Under, PR!IsStrictPrefix, PR!IsPrefix, IsStrictPrefix, IsPrefix
<1>3. \A p \in PayloadPath : Len(p) \in Nat
  BY <1>1
<1>4. ASSUME NEW p \in PayloadPath, NEW q \in PayloadPath, PR!Under(p, q)
      PROVE  Len(p) < Len(q) /\ p # q
  <2>1. p \in Seq(STRING) /\ q \in Seq(STRING) /\ IsStrictPrefix(p, q)
    BY <1>1, <1>2, <1>4
  <2>2. Len(p) < Len(q)
    BY <2>1, StrictPrefixes
  <2>3. QED
    BY <1>3, <2>2
<1>5. ASSUME NEW p \in PayloadPath, NEW q \in PayloadPath, NEW r \in PayloadPath
      PROVE  /\ PR!Under(p, q) /\ PR!Under(q, r) => PR!Under(p, r)
             /\ PR!Under(p, r) /\ PR!Under(q, r) =>
                    p = q \/ PR!Under(p, q) \/ PR!Under(q, p)
  <2>1. p \in Seq(STRING) /\ q \in Seq(STRING) /\ r \in Seq(STRING)
    BY <1>1
  <2>2. IsStrictPrefix(p, q) /\ IsStrictPrefix(q, r) => IsStrictPrefix(p, r)
    BY <2>1, StrictPrefixes
  <2>3. IsStrictPrefix(p, r) /\ IsStrictPrefix(q, r) =>
            p = q \/ IsStrictPrefix(p, q) \/ IsStrictPrefix(q, p)
    BY <2>1, StrictPrefixes
  <2>4. QED
    BY <1>2, <2>2, <2>3
<1>6. QED
  BY <1>3, <1>4, <1>5

\* What is between a source's directory and a path below it.
Between(d, p) == {q \in PayloadPath : (q = d \/ PR!Under(d, q)) /\ PR!Under(q, p)}

LEMMA SourceFacts ==
    /\ Lock \in Source /\ Lock \notin DirSource
    /\ \A d \in DirSource : d \in Source /\ d \in PayloadPath
    /\ \A s \in Source : s \in PayloadPath
    /\ \A s \in Source, p \in PayloadPath : ~PR!Under(p, s)
    /\ \A s \in Source : ~PR!UnderSource(s)
BY NodeChecksAssumption DEF PR!UnderSource

\* Every directory above a path below a source is that source's or below it.
LEMMA AboveIsBetween ==
    ASSUME NEW d \in DirSource, NEW p \in PayloadPath, PR!Under(d, p),
           NEW q \in PayloadPath, PR!Under(q, p)
    PROVE  q \in Between(d, p)
BY SourceFacts, PayloadOrder DEF Between

\* The walk comes to what is there below a source, unless a directory that it
\* does come to is closed.
LEMMA WalkComes ==
    ASSUME NEW tree \in PayloadTree, NEW d \in DirSource, d \in PR!FitEntries(tree),
           NEW p \in PayloadPath, PR!Under(d, p), tree[p].kind # "missing",
           p \notin PR!Reached(tree)
    PROVE  \E q \in PR!Opened(tree) : tree[q].kind = "dir" /\ tree[q].closed
<1> DEFINE C == {q \in Between(d, p) : tree[q].closed}
           L == {Len(q) : q \in C}
<1>1. d \in PayloadPath
  BY SourceFacts
<1>2. \A q \in Between(d, p) : tree[q].kind = "dir" /\ q \in PayloadPath
  BY DEF Between, PayloadTree
<1>3. C # {}
  <2>1. PICK q \in PayloadPath : /\ (q = d \/ PR!Under(d, q)) /\ PR!Under(q, p)
                                /\ ~(tree[q].kind = "dir" /\ ~tree[q].closed)
    BY DEF PR!Reached
  <2>2. q \in Between(d, p)
    BY <2>1 DEF Between
  <2>3. QED
    BY <1>2, <2>1, <2>2
<1>4. L \in SUBSET Nat /\ L # {}
  <2>1. \A q \in C : Len(q) \in Nat
    BY <1>2, PayloadOrder
  <2> HIDE DEF C
  <2>2. QED
    BY <1>3, <2>1
<1>5. PICK q \in C : \A r \in C : Len(q) <= Len(r)
  <2> HIDE DEF C
  <2>1. PICK n \in L : \A y \in L : n <= y
    BY <1>4, LeastNat
  <2>2. PICK q \in C : n = Len(q)
    BY <2>1
  <2>3. QED
    BY <2>1, <2>2
<1>6. tree[q].kind = "dir" /\ tree[q].closed /\ q \in Between(d, p) /\ q \in PayloadPath
  BY <1>2, <1>5
<1>7. CASE q = d
  <2>1. q \notin PR!Irregular(tree)
    BY <1>6 DEF PR!Irregular
  <2>2. QED
    BY <1>6, <1>7, <2>1 DEF PR!Opened
<1>8. CASE q # d
  <2>1. PR!Under(d, q) /\ PR!Under(q, p)
    BY <1>6, <1>8 DEF Between
  <2>2. ASSUME NEW r \in PayloadPath, r = d \/ PR!Under(d, r), PR!Under(r, q)
        PROVE  tree[r].kind = "dir" /\ ~tree[r].closed
    <3>1. r \in Between(d, p) /\ Len(r) < Len(q) /\ Len(r) \in Nat /\ Len(q) \in Nat
      BY <1>6, <2>1, <2>2, PayloadOrder DEF Between
    <3>2. r \notin C
      BY <1>5, <3>1
    <3>3. QED
      BY <1>2, <3>1, <3>2
  <2>3. q \in PR!Reached(tree)
    BY <1>6, <2>1, <2>2 DEF PR!Reached
  <2>4. q \notin PR!Irregular(tree)
    BY <1>6 DEF PR!Irregular
  <2>5. QED
    BY <1>6, <2>3, <2>4 DEF PR!Opened
<1>9. QED
  BY <1>7, <1>8

LEMMA TreeEntries ==
    ASSUME NEW tree \in PayloadTree
    PROVE  /\ \A p \in PayloadPath :
                  /\ tree[p].kind \in {"missing", "file", "dir", "link", "fifo"}
                  /\ tree[p].closed \in BOOLEAN
           /\ \A p, q \in PayloadPath :
                  PR!Under(q, p) /\ tree[p].kind # "missing" => tree[q].kind = "dir"
BY DEF PayloadTree, PR!Entry

LEMMA LockFacts ==
    ASSUME NEW lock \in PayloadLocks
    PROVE  /\ \A p \in PR!Expected(lock) : p \in PayloadPath /\ p # Lock
           /\ \A p \in PR!Expected(lock) : p \in Source \ DirSource \/ PR!UnderSource(p)
           /\ lock.parses \in BOOLEAN /\ lock.ours \in BOOLEAN
<1>1. PICK P \in SUBSET (PayloadPath \ {Lock}) : lock \in PR!Records([P -> Content])
  BY DEF PayloadLocks
<1>2. /\ lock.parses \in BOOLEAN /\ lock.ours \in BOOLEAN
      /\ lock.files \in [P -> Content]
  BY <1>1 DEF PR!Records
<1>3. DOMAIN lock.files = P
  BY <1>2
<1>4. QED
  BY <1>2, <1>3 DEF PR!Expected

LEMMA ReachedFacts ==
    ASSUME NEW tree, NEW p \in PR!Reached(tree)
    PROVE  p \in PayloadPath /\ tree[p].kind # "missing" /\ PR!UnderSource(p)
BY DEF PR!Reached, PR!UnderSource

\* What the check lets pass is what the record lists.
LEMMA PassedIsAsRecorded ==
    ASSUME NEW tree \in PayloadTree, NEW lock \in PayloadLocks,
           PR!PayloadBlockers(tree, lock, TRUE) = {}
    PROVE  PR!AsRecorded(tree, lock)
<1>1. /\ Source \subseteq PR!FitEntries(tree)
      /\ PR!CannotRead(tree, lock) = {}
  BY DEF PR!PayloadBlockers
<1>2. \A s \in Source : /\ tree[s].kind = IF s \in DirSource THEN "dir" ELSE "file"
                       /\ s \in PR!Opened(tree)
  BY <1>1 DEF PR!FitEntries, PR!Opened, PR!Irregular
<1>3. ~tree[Lock].closed
  <2>1. CASE PR!Readable(tree, lock)
    BY <2>1 DEF PR!Readable
  <2>2. CASE ~PR!Readable(tree, lock)
    BY <1>1, <2>2, SourceFacts DEF PR!CannotRead
  <2>3. QED
    BY <2>1, <2>2
<1>4. lock.parses /\ lock.ours
  BY <1>1, <1>3, SourceFacts DEF PR!PayloadBlockers
<1>5. PR!Readable(tree, lock)
  BY <1>1, <1>3, <1>4, SourceFacts DEF PR!Readable
<1>6. /\ PR!Differs(tree, lock) = {} /\ PR!Irregular(tree) = {}
      /\ PR!MissingBelow(tree, lock) = {}
  BY <1>5 DEF PR!PayloadBlockers
<1>7. \A p \in PR!Opened(tree) : ~tree[p].closed
  BY <1>1, <1>5 DEF PR!CannotRead
<1>8. \A p \in PR!Opened(tree) :
         tree[p].kind = "file" /\ p # Lock =>
             p \in PR!Expected(lock) /\ tree[p].content = lock.files[p]
  BY <1>6, <1>7 DEF PR!Differs, PR!Judged
<1>9. \A p \in PR!Reached(tree) :
         p \in PR!Opened(tree) /\ p # Lock /\ tree[p].kind \in {"file", "dir"}
  <2> SUFFICES ASSUME NEW p \in PR!Reached(tree)
               PROVE  p \in PR!Opened(tree) /\ p # Lock /\ tree[p].kind \in {"file", "dir"}
    OBVIOUS
  <2>1. p \in PayloadPath /\ tree[p].kind # "missing" /\ p # Lock
    BY ReachedFacts, SourceFacts
  <2>2. p \notin PR!Irregular(tree)
    BY <1>6
  <2>3. tree[p].kind \notin {"link", "fifo"}
    BY <2>2 DEF PR!Irregular
  <2>4. QED
    BY <2>1, <2>2, <2>3, TreeEntries DEF PR!Opened
<1>10. ASSUME NEW p \in PayloadPath, PR!UnderSource(p), tree[p].kind # "missing"
       PROVE  p \in PR!Reached(tree)
  <2>1. PICK d \in DirSource : PR!Under(d, p)
    BY <1>10 DEF PR!UnderSource
  <2>2. d \in PR!FitEntries(tree)
    BY <1>1, SourceFacts
  <2>3. QED
    BY <1>7, <1>10, <2>1, <2>2, WalkComes
<1>11. PR!Unwalked(tree) = {}
  BY <1>1, <1>6, <1>7, SourceFacts DEF PR!Unwalked
<1>12. ASSUME NEW p \in PR!Expected(lock)
       PROVE  tree[p].kind = "file" /\ tree[p].content = lock.files[p]
  <2>1. p \in PayloadPath /\ p # Lock /\ (p \in Source \ DirSource \/ PR!UnderSource(p))
    BY LockFacts
  <2>2. CASE p \in Source \ DirSource
    BY <1>2, <1>8, <2>1, <2>2
  <2>3. CASE PR!UnderSource(p)
    <3>1. p \in PR!Reached(tree) /\ tree[p].kind # "dir"
      BY <1>6, <1>11, <2>3 DEF PR!MissingBelow
    <3>2. QED
      BY <1>8, <1>9, <3>1
  <2>4. QED
    BY <2>1, <2>2, <2>3
<1>13. Source \ (DirSource \cup {Lock}) \subseteq PR!Expected(lock)
  BY <1>2, <1>8
<1>14. \A p \in PayloadPath :
          PR!UnderSource(p) => tree[p].kind \in {"missing", "dir"} \/ p \in PR!Expected(lock)
  BY <1>8, <1>9, <1>10
<1>15. \A p \in PayloadPath :
          p \in Source \/ PR!UnderSource(p) => tree[p].kind = "missing" \/ ~tree[p].closed
  BY <1>2, <1>7, <1>9, <1>10
<1>16. QED
  BY <1>2, <1>4, <1>5, <1>12, <1>13, <1>14, <1>15 DEF PR!AsRecorded

\* What is as the record lists is let pass.
LEMMA AsRecordedPasses ==
    ASSUME NEW tree \in PayloadTree, NEW lock \in PayloadLocks,
           PR!AsRecorded(tree, lock)
    PROVE  PR!PayloadBlockers(tree, lock, TRUE) = {}
<1>1. /\ PR!Readable(tree, lock) /\ lock.ours /\ lock.parses /\ ~tree[Lock].closed
      /\ \A p \in Source : tree[p].kind = IF p \in DirSource THEN "dir" ELSE "file"
      /\ \A p \in PR!Expected(lock) : tree[p].kind = "file" /\ tree[p].content = lock.files[p]
      /\ Source \ (DirSource \cup {Lock}) \subseteq PR!Expected(lock)
      /\ \A p \in PayloadPath :
             PR!UnderSource(p) => tree[p].kind \in {"missing", "dir"} \/ p \in PR!Expected(lock)
      /\ \A p \in PayloadPath :
             p \in Source \/ PR!UnderSource(p) => tree[p].kind = "missing" \/ ~tree[p].closed
  BY DEF PR!AsRecorded, PR!Readable
<1>2. Source \subseteq PR!FitEntries(tree)
  BY <1>1 DEF PR!FitEntries
<1>3. \A p \in PR!Opened(tree) : p \in PayloadPath /\ tree[p].kind # "missing"
                                /\ (p \in Source \/ PR!UnderSource(p))
  BY <1>1, ReachedFacts, SourceFacts DEF PR!Opened, PR!FitEntries
<1>4. PR!CannotRead(tree, lock) = {}
  BY <1>1, <1>3 DEF PR!CannotRead
<1>5. PR!Differs(tree, lock) = {}
  BY <1>1, <1>3 DEF PR!Differs, PR!Judged
<1>6. PR!Irregular(tree) = {}
  BY <1>1, ReachedFacts DEF PR!Irregular
<1>7. ASSUME NEW p \in PR!Expected(lock), PR!UnderSource(p)
      PROVE  p \in PR!Reached(tree) /\ tree[p].kind # "dir"
  <2>1. p \in PayloadPath /\ tree[p].kind = "file"
    BY <1>1, LockFacts
  <2>2. PICK d \in DirSource : PR!Under(d, p)
    BY <1>7 DEF PR!UnderSource
  <2>3. ASSUME NEW q \in PayloadPath, q = d \/ PR!Under(d, q), PR!Under(q, p)
        PROVE  tree[q].kind = "dir" /\ ~tree[q].closed
    <3>1. tree[q].kind = "dir"
      BY <2>1, <2>3, TreeEntries
    <3>2. q \in Source \/ PR!UnderSource(q)
      BY <2>3, SourceFacts DEF PR!UnderSource
    <3>3. QED
      BY <1>1, <3>1, <3>2
  <2>4. QED
    BY <1>2, <2>1, <2>2, <2>3, SourceFacts DEF PR!Reached
<1>8. PR!MissingBelow(tree, lock) = {}
  BY <1>7 DEF PR!MissingBelow
<1>9. QED
  BY <1>1, <1>2, <1>4, <1>5, <1>6, <1>8 DEF PR!PayloadBlockers

\* The check before an install refuses a payload exactly when it is not what its
\* record lists, and a dry run by any user refuses no other and says what it
\* could not read: for every payload and record.  payload_blockers(),
\* node/deploy.py:2416-2560.
THEOREM PayloadIsRefusedExactly ==
    ASSUME NEW tree \in PayloadTree, NEW lock \in PayloadLocks
    PROVE  PR!RefusedExactly(tree, lock)
<1>1. PR!PayloadBlockers(tree, lock, TRUE) = {} <=> PR!AsRecorded(tree, lock)
  BY PassedIsAsRecorded, AsRecordedPasses
<1>2. PR!PayloadBlockers(tree, lock, FALSE) \subseteq PR!PayloadBlockers(tree, lock, TRUE)
  BY DEF PR!PayloadBlockers
<1>3. PR!PayloadUnknown(tree, lock, FALSE) = {} =>
          PR!PayloadBlockers(tree, lock, FALSE) = PR!PayloadBlockers(tree, lock, TRUE)
  BY DEF PR!PayloadBlockers, PR!PayloadUnknown
<1>4. QED
  BY <1>1, <1>2, <1>3 DEF PR!RefusedExactly

\* An accepted payload verifies.
LEMMA AcceptedVerifies ==
    ASSUME NEW tree \in PayloadTree, NEW lock \in PayloadLocks,
           PR!AsRecorded(tree, lock)
    PROVE  PR!Verify(tree, lock) = PR!VERIFY_OK
<1>1. /\ PR!Readable(tree, lock) /\ lock.ours
      /\ \A p \in PR!Expected(lock) : tree[p].kind = "file" /\ tree[p].content = lock.files[p]
      /\ \A p \in PayloadPath :
             PR!UnderSource(p) => tree[p].kind \in {"missing", "dir"} \/ p \in PR!Expected(lock)
      /\ \A p \in PayloadPath :
             p \in Source \/ PR!UnderSource(p) => tree[p].kind = "missing" \/ ~tree[p].closed
  BY DEF PR!AsRecorded
<1>2. ASSUME NEW p \in PR!Expected(lock)
      PROVE  PR!Exists(tree, p) /\ tree[p].kind = "file" /\ ~tree[p].closed
  <2>1. p \in PayloadPath /\ tree[p].kind = "file" /\ (p \in Source \/ PR!UnderSource(p))
    BY <1>1, LockFacts
  <2>2. ASSUME NEW q \in PayloadPath, PR!Under(q, p)
        PROVE  tree[q].kind = "dir" /\ ~tree[q].closed
    <3>1. tree[q].kind = "dir"
      BY <2>1, <2>2, TreeEntries
    <3>2. p \notin Source
      BY <2>2, SourceFacts
    <3>3. PICK d \in DirSource : PR!Under(d, p)
      BY <2>1, <3>2 DEF PR!UnderSource
    <3>4. q \in Between(d, p)
      BY <2>1, <2>2, <3>3, AboveIsBetween
    <3>5. q \in Source \/ PR!UnderSource(q)
      BY <3>4, SourceFacts DEF Between, PR!UnderSource
    <3>6. QED
      BY <1>1, <3>1, <3>5
  <2>3. QED
    BY <1>1, <2>1, <2>2 DEF PR!Exists
<1>3. PR!PresentUnder(tree) \subseteq PR!Expected(lock)
  BY <1>1 DEF PR!PresentUnder, PR!Listed, PR!UnderSource
<1>4. PR!Drift(tree, lock) = {} /\ PR!Unchecked(tree, lock) = {}
  BY <1>1, <1>2, <1>3 DEF PR!Drift, PR!Unchecked
<1>5. QED
  BY <1>1, <1>4 DEF PR!Verify

\* What verifies, with nothing in it that os.walk() passes over, is as recorded.
LEMMA VerifiedIsAsRecorded ==
    ASSUME NEW tree \in PayloadTree, NEW lock \in PayloadLocks,
           PR!Verify(tree, lock) = PR!VERIFY_OK,
           \A p \in PayloadPath : tree[p].kind \notin {"link", "fifo"},
           \A s \in Source \ {Lock} : \E p \in PR!Expected(lock) : p = s \/ PR!Under(s, p),
           \A p \in PayloadPath : tree[p].kind = "dir" => ~tree[p].closed
    PROVE  PR!AsRecorded(tree, lock)
<1>1. /\ PR!Readable(tree, lock) /\ lock.ours
      /\ PR!Drift(tree, lock) = {} /\ PR!Unchecked(tree, lock) = {}
  BY DEF PR!Verify, PR!VERIFY_OK, PR!VERIFY_UNKNOWN, PR!VERIFY_DRIFT
<1>2. \A p \in PayloadPath : tree[p].kind \in {"missing", "file", "dir"}
  BY TreeEntries
<1>3. ASSUME NEW p \in PR!Expected(lock)
      PROVE  /\ PR!Exists(tree, p) /\ tree[p].kind = "file" /\ ~tree[p].closed
             /\ tree[p].content = lock.files[p]
  <2>1. PR!Exists(tree, p) /\ tree[p].kind # "missing"
    BY <1>1 DEF PR!Drift, PR!Exists
  <2>2. tree[p].kind # "dir" /\ ~tree[p].closed
    BY <1>1, <2>1 DEF PR!Unchecked
  <2>3. tree[p].content = lock.files[p]
    BY <1>1, <2>2 DEF PR!Drift
  <2>4. QED
    BY <1>2, <2>1, <2>2, <2>3, LockFacts
<1>4. tree[Lock].kind = "file" /\ ~tree[Lock].closed
  BY <1>1, SourceFacts DEF PR!Readable, PR!FitEntries
<1>5. ASSUME NEW s \in Source, s # Lock
      PROVE  /\ s \in DirSource => tree[s].kind = "dir"
             /\ s \notin DirSource => s \in PR!Expected(lock)
  <2>1. PICK p \in PR!Expected(lock) : p = s \/ PR!Under(s, p)
    BY <1>5
  <2>2. p \in PayloadPath /\ s \in PayloadPath
        /\ (p \in Source \ DirSource \/ PR!UnderSource(p))
    BY LockFacts, SourceFacts
  <2>3. CASE p = s
    BY <2>1, <2>2, <2>3, SourceFacts
  <2>4. CASE PR!Under(s, p)
    <3>1. tree[s].kind = "dir"
      BY <1>3, <2>2, <2>4 DEF PR!Exists
    <3>2. PICK d \in DirSource : PR!Under(d, p)
      BY <2>2, <2>4, SourceFacts DEF PR!UnderSource
    <3>3. s = d
      BY <2>2, <2>4, <3>2, SourceFacts, PayloadOrder
    <3>4. QED
      BY <3>1, <3>3
  <2>5. QED
    BY <2>1, <2>3, <2>4
<1>6. \A s \in Source : tree[s].kind = IF s \in DirSource THEN "dir" ELSE "file"
  BY <1>3, <1>4, <1>5, SourceFacts
<1>7. ASSUME NEW p \in PayloadPath, PR!UnderSource(p)
      PROVE  tree[p].kind \in {"missing", "dir"} \/ p \in PR!Expected(lock)
  <2> SUFFICES ASSUME tree[p].kind \notin {"missing", "dir"} PROVE p \in PR!Expected(lock)
    OBVIOUS
  <2>1. PR!Listed(tree, p)
    <3>1. \A q \in PayloadPath : PR!Under(q, p) => tree[q].kind = "dir" /\ ~tree[q].closed
      BY TreeEntries
    <3>2. QED
      BY <1>7, <3>1 DEF PR!Listed, PR!UnderSource
  <2>2. QED
    BY <1>1, <2>1 DEF PR!Drift, PR!PresentUnder
<1>8. \A p \in PayloadPath :
         p \in Source \/ PR!UnderSource(p) => tree[p].kind = "missing" \/ ~tree[p].closed
  BY <1>2, <1>3, <1>4, <1>5, <1>7
<1>9. QED
  BY <1>1, <1>3, <1>5, <1>6, <1>7, <1>8 DEF PR!AsRecorded

\* A payload the install accepts verifies afterwards, and a tree that verifies
\* would be accepted, where nothing in it is what verify passes over: for every
\* payload and record.  system_verify(), node/deploy.py:4253-4431.
THEOREM AcceptedAndVerifiedAgree ==
    ASSUME NEW tree \in PayloadTree, NEW lock \in PayloadLocks
    PROVE  PR!VerifiedIsAccepted(tree, lock)
BY PassedIsAsRecorded, AcceptedVerifies, VerifiedIsAsRecorded, AsRecordedPasses
   DEF PR!VerifiedIsAccepted

-----------------------------------------------------------------------------
(* login.defs and the groups a site trusts. *)

\* The lines of login.defs that are read: assignments to one of three keys.
LoginLine ==
    [key : TG!LOGIN_DEFS_KEYS, text : [form : {"", "0", "0x"}, digits : Seq(Nat)]]

\* The last word of the first n lines.
WordOf(lines, said) ==
    LET last == CHOOSE i \in said : \A j \in said : j <= i
    IN  IF said # {} /\ TG!Parses(lines[last].text) THEN TG!Value(lines[last].text)
        ELSE TG!Unset
WordUpTo(lines, n, key) == WordOf(lines, {i \in 1..n : lines[i].key = key})
Words(lines, n) == [key \in TG!LOGIN_DEFS_KEYS |-> WordUpTo(lines, n, key)]

\* One more line is the last word on its own key, and changes no other.
LEMMA OneMoreLine ==
    ASSUME NEW lines \in Seq(LoginLine), NEW n \in 1..Len(lines)
    PROVE  Words(lines, n) = TG!Assign(Words(lines, n - 1), lines[n])
<1> DEFINE k == lines[n].key
           said(m, key) == {i \in 1..m : lines[i].key = key}
<1>1. n \in Nat /\ n - 1 \in Nat /\ lines[n] \in LoginLine
  OBVIOUS
<1>2. k \in TG!LOGIN_DEFS_KEYS
  BY <1>1 DEF LoginLine
<1>3. WordUpTo(lines, n, k)
      = IF TG!Parses(lines[n].text) THEN TG!Value(lines[n].text) ELSE TG!Unset
  <2>1. n \in said(n, k) /\ \A j \in said(n, k) : j <= n /\ j \in Nat
    BY <1>1
  <2>2. (CHOOSE i \in said(n, k) : \A j \in said(n, k) : j <= i) = n
    <3> DEFINE last == CHOOSE i \in said(n, k) : \A j \in said(n, k) : j <= i
    <3> HIDE DEF said
    <3>1. last \in said(n, k) /\ \A j \in said(n, k) : j <= last
      BY <2>1
    <3>2. last <= n /\ n <= last /\ last \in Nat
      BY <2>1, <3>1
    <3> HIDE DEF last
    <3>3. last = n
      BY <1>1, <3>2
    <3>4. QED
      BY <3>3 DEF last
  <2>3. QED
    BY <2>1, <2>2 DEF WordUpTo, WordOf
<1>4. ASSUME NEW key \in TG!LOGIN_DEFS_KEYS, key # k
      PROVE  WordUpTo(lines, n, key) = WordUpTo(lines, n - 1, key)
  <2>1. said(n, key) = said(n - 1, key)
    BY <1>1, <1>4
  <2>2. QED
    BY <2>1 DEF WordUpTo
<1> HIDE DEF k
<1> DEFINE found == Words(lines, n - 1)
           v == IF TG!Parses(lines[n].text) THEN TG!Value(lines[n].text) ELSE TG!Unset
<1>5. TG!Assign(found, lines[n]) = [found EXCEPT ![k] = v]
  BY DEF TG!Assign, k
<1>6. DOMAIN found = TG!LOGIN_DEFS_KEYS
      /\ \A key \in TG!LOGIN_DEFS_KEYS : found[key] = WordUpTo(lines, n - 1, key)
  BY DEF Words
<1> HIDE DEF v
<1>7. \A key \in TG!LOGIN_DEFS_KEYS :
         WordUpTo(lines, n, key) = IF key = k THEN v ELSE found[key]
  BY <1>3, <1>4, <1>6 DEF v
<1> HIDE DEF found
<1>8. [found EXCEPT ![k] = v]
      = [key \in TG!LOGIN_DEFS_KEYS |-> IF key = k THEN v ELSE found[key]]
  BY <1>2, <1>6
<1>9. QED
  BY <1>5, <1>7, <1>8 DEF Words, found

\* What the lines come to, read one after the other.
Step(lines, f) ==
    [i \in 0..Len(lines) |-> IF i = 0 THEN [key \in TG!LOGIN_DEFS_KEYS |-> TG!Unset]
                             ELSE TG!Assign(f[i - 1], lines[i])]

\* Reading login.defs a line at a time comes to its last word on each key.
LEMMA ReadIsLastWord ==
    ASSUME NEW lines \in Seq(LoginLine), NEW key \in TG!LOGIN_DEFS_KEYS
    PROVE  TG!ReadLoginDefs(lines)[key] = TG!LastWord(lines, key)
<1> DEFINE n == Len(lines)
           w == [i \in 0..n |-> Words(lines, i)]
           after == CHOOSE f : f = Step(lines, f)
<1>1. n \in Nat /\ DOMAIN lines = 1..n
  OBVIOUS
<1>2. Words(lines, 0) = [k \in TG!LOGIN_DEFS_KEYS |-> TG!Unset]
  <2>1. \A k : {i \in 1..0 : lines[i].key = k} = {}
    OBVIOUS
  <2>2. \A k : WordUpTo(lines, 0, k) = TG!Unset
    BY <2>1 DEF WordUpTo, WordOf
  <2>3. QED
    BY <2>2 DEF Words
<1>3. w = Step(lines, w)
  <2>1. \A i \in 0..n : w[i] = IF i = 0 THEN [k \in TG!LOGIN_DEFS_KEYS |-> TG!Unset]
                             ELSE TG!Assign(w[i - 1], lines[i])
    <3> SUFFICES ASSUME NEW i \in 0..n, i # 0
                 PROVE  w[i] = TG!Assign(w[i - 1], lines[i])
      BY <1>1, <1>2
    <3>1. i \in 1..n /\ i - 1 \in 0..n
      BY <1>1
    <3>2. w[i] = Words(lines, i) /\ w[i - 1] = Words(lines, i - 1)
      BY <3>1
    <3>3. QED
      BY <3>1, <3>2, OneMoreLine
  <2>2. w = [i \in 0..n |-> w[i]]
    OBVIOUS
  <2> HIDE DEF w
  <2>3. QED
    BY <2>1, <2>2 DEF Step
<1>4. after = Step(lines, after)
  <2> HIDE DEF w
  <2>1. QED
    BY <1>3
<1> HIDE DEF after, w
<1>5. \A i \in 0..n : after[i] = w[i]
  <2> DEFINE D == {i \in 0..n : after[i] # w[i]}
  <2> SUFFICES ASSUME D # {} PROVE FALSE
    OBVIOUS
  <2>1. D \in SUBSET Nat
    BY <1>1
  <2>2. PICK i \in D : \A j \in D : i <= j
    BY <2>1, LeastNat
  <2>3. i \in 0..n /\ after[i] # w[i] /\ i \in Nat
    BY <1>1, <2>2
  <2>4. /\ after[i] = IF i = 0 THEN [k \in TG!LOGIN_DEFS_KEYS |-> TG!Unset]
                      ELSE TG!Assign(after[i - 1], lines[i])
        /\ w[i] = IF i = 0 THEN [k \in TG!LOGIN_DEFS_KEYS |-> TG!Unset]
                  ELSE TG!Assign(w[i - 1], lines[i])
    BY <1>3, <1>4, <2>3 DEF Step
  <2>5. i # 0
    BY <2>3, <2>4
  <2>6. i - 1 \in 0..n /\ i - 1 < i
    BY <1>1, <2>3, <2>5
  <2>7. after[i - 1] = w[i - 1]
    BY <2>2, <2>3, <2>6
  <2>8. QED
    BY <2>3, <2>4, <2>7
<1>6. TG!ReadLoginDefs(lines) = after[n]
  BY DEF TG!ReadLoginDefs, after, Step
<1>7. TG!ReadLoginDefs(lines) = Words(lines, n)
  <2>1. n \in 0..n
    BY <1>1
  <2>2. QED
    BY <1>5, <1>6, <2>1 DEF w
<1>8. WordUpTo(lines, n, key) = TG!LastWord(lines, key)
  BY <1>1 DEF WordUpTo, WordOf, TG!LastWord
<1>9. QED
  BY <1>7, <1>8 DEF Words

\* A group whose write above the spool is accepted has no person among the
\* members NSS can tell of, by the last word of a login.defs that says all it
\* must: for every login.defs, group and accounts.
\* resolve_trusted_groups(), node/deploy.py:1186-1200.
THEOREM AcceptedGroupIsServices ==
    ASSUME NEW lines \in Seq(LoginLine), NEW g \in TG!Group,
           NEW accounts \in [Login -> TG!Account]
    PROVE  TG!AcceptedGroupHasNoPerson(g, accounts, lines)
<1> DEFINE defs == TG!ReadLoginDefs(lines)
<1> SUFFICES ASSUME TG!Trusted(g, accounts, lines)
             PROVE  /\ \A key \in TG!LOGIN_DEFS_KEYS : TG!LastWord(lines, key) # TG!Unset
                    /\ \A n \in TG!MembersSeen(g, accounts) : ~TG!IsPerson(n, accounts, lines)
  BY DEF TG!AcceptedGroupHasNoPerson
<1>1. /\ \A key \in TG!LOGIN_DEFS_KEYS : defs[key] # TG!Unset
      /\ \A n \in g.members : accounts[n].resolves
      /\ TG!People(g, accounts, defs) = {}
  BY DEF TG!Trusted
<1>2. \A key \in TG!LOGIN_DEFS_KEYS : defs[key] = TG!LastWord(lines, key)
  BY ReadIsLastWord
<1>3. {"UID_MIN", "UID_MAX"} \subseteq TG!LOGIN_DEFS_KEYS
  BY DEF TG!LOGIN_DEFS_KEYS
<1>4. g.members \subseteq Login
  BY DEF TG!Group
<1> HIDE DEF defs
<1>5. ASSUME NEW n \in TG!MembersSeen(g, accounts) PROVE ~TG!IsPerson(n, accounts, lines)
  <2>1. n \in Login /\ (n \in g.members \/ (accounts[n].listed /\ accounts[n].gid = g.gid))
    BY <1>4 DEF TG!MembersSeen
  <2>2. ~TG!Human(accounts[n].uid, defs)
    BY <1>1, <2>1 DEF TG!People
  <2>3. QED
    BY <1>2, <1>3, <2>2 DEF TG!Human, TG!IsPerson
<1>6. QED
  BY <1>1, <1>2, <1>5

-----------------------------------------------------------------------------
(* Startup files: what the two readings of one have come to at a line.      *)

\* Lines up to i leave a block open, and a second one was opened in one.
Open(file, i) ==
    \E b \in 1..i : file[b] = HF!BEGIN /\ \A k \in b + 1..i : file[k] # HF!END
Twice(file, i) == \E j \in 1..i : file[j] = HF!BEGIN /\ Open(file, j - 1)

LEMMA OneMoreOpen ==
    ASSUME NEW file \in Seq(HF!Line), NEW i \in 1..Len(file)
    PROVE  /\ Open(file, i) <=> file[i] = HF!BEGIN \/ (Open(file, i - 1) /\ file[i] # HF!END)
           /\ Twice(file, i) <=> Twice(file, i - 1) \/ (file[i] = HF!BEGIN /\ Open(file, i - 1))
<1>0. HF!BEGIN # HF!END
  BY DEF HF!BEGIN, HF!END
<1>1. ASSUME Open(file, i), file[i] # HF!BEGIN PROVE Open(file, i - 1) /\ file[i] # HF!END
  <2>1. PICK b \in 1..i : file[b] = HF!BEGIN /\ \A k \in b + 1..i : file[k] # HF!END
    BY <1>1 DEF Open
  <2>2. b \in 1..i - 1 /\ i \in b + 1..i
    BY <1>1, <2>1
  <2>3. QED
    BY <2>1, <2>2 DEF Open
<1>2. ASSUME file[i] = HF!BEGIN PROVE Open(file, i)
  <2>1. \A k \in i + 1..i : file[k] # HF!END
    OBVIOUS
  <2>2. QED
    BY <1>2, <2>1 DEF Open
<1>3. ASSUME Open(file, i - 1), file[i] # HF!END PROVE Open(file, i)
  <2>1. PICK b \in 1..i - 1 : file[b] = HF!BEGIN /\ \A k \in b + 1..i - 1 : file[k] # HF!END
    BY <1>3 DEF Open
  <2>2. b \in 1..i /\ \A k \in b + 1..i : file[k] # HF!END
    BY <1>3, <2>1
  <2>3. QED
    BY <2>1, <2>2 DEF Open
<1>4. 1..i = (1..i - 1) \cup {i}
  OBVIOUS
<1>5. Twice(file, i) <=> Twice(file, i - 1) \/ (file[i] = HF!BEGIN /\ Open(file, i - 1))
  BY <1>4 DEF Twice
<1>6. QED
  BY <1>0, <1>1, <1>2, <1>3, <1>5

\* A block that starts at an opening marker runs to a closing one with no
\* marker on the way.
LEMMA BlockFromItsMarker ==
    ASSUME NEW file \in Seq(HF!Line), NEW i \in 1..Len(file),
           file[i] = HF!BEGIN, HF!InBlock(file, i)
    PROVE  \E e \in i + 1..Len(file) :
              file[e] = HF!END /\ \A k \in i + 1..e - 1 : file[k] \notin {HF!BEGIN, HF!END}
<1>1. HF!BEGIN # HF!END
  BY DEF HF!BEGIN, HF!END
<1>2. PICK b \in 1..i, e \in i..Len(file) :
        /\ file[b] = HF!BEGIN /\ file[e] = HF!END
        /\ \A n \in b + 1..e - 1 : file[n] \notin {HF!BEGIN, HF!END}
  BY DEF HF!InBlock
<1>3. e # i
  BY <1>1, <1>2
<1>4. b = i
  BY <1>2, <1>3
<1>5. QED
  BY <1>2, <1>3, <1>4

\* The marks a file is refused for are those of an unclosed block.
LEMMA UnclosedIsSeen ==
    ASSUME NEW file \in Seq(HF!Line)
    PROVE  HF!Unclosed(file) <=> Twice(file, Len(file)) \/ Open(file, Len(file))
<1> DEFINE n == Len(file)
<1>0. n \in Nat /\ DOMAIN file = 1..n /\ HF!BEGIN # HF!END
  BY DEF HF!BEGIN, HF!END
<1>1. ASSUME ~HF!Unclosed(file), Open(file, n) PROVE FALSE
  <2>1. PICK b \in 1..n : file[b] = HF!BEGIN /\ \A k \in b + 1..n : file[k] # HF!END
    BY <1>1 DEF Open
  <2>2. HF!InBlock(file, b)
    BY <1>0, <1>1, <2>1 DEF HF!Unclosed
  <2>3. QED
    BY <2>1, <2>2, BlockFromItsMarker
<1>2. ASSUME ~HF!Unclosed(file), Twice(file, n) PROVE FALSE
  <2>1. PICK j \in 1..n : file[j] = HF!BEGIN /\ Open(file, j - 1)
    BY <1>2 DEF Twice
  <2>2. PICK b \in 1..j - 1 : file[b] = HF!BEGIN /\ \A k \in b + 1..j - 1 : file[k] # HF!END
    BY <2>1 DEF Open
  <2>3. b \in 1..n
    BY <1>0
  <2>4. HF!InBlock(file, b)
    BY <1>0, <1>2, <2>2, <2>3 DEF HF!Unclosed
  <2>5. PICK e \in b + 1..n :
           file[e] = HF!END /\ \A k \in b + 1..e - 1 : file[k] \notin {HF!BEGIN, HF!END}
    BY <2>2, <2>3, <2>4, BlockFromItsMarker
  <2>6. e # j /\ e \notin b + 1..j - 1
    BY <1>0, <2>1, <2>2, <2>5
  <2>7. j \in b + 1..e - 1
    BY <1>0, <2>5, <2>6
  <2>8. QED
    BY <2>1, <2>5, <2>7
<1>3. ASSUME HF!Unclosed(file), ~Open(file, n) PROVE Twice(file, n)
  <2>1. PICK i \in 1..n : file[i] = HF!BEGIN /\ ~HF!InBlock(file, i)
    BY <1>0, <1>3 DEF HF!Unclosed
  <2> DEFINE ends == {k \in i + 1..n : file[k] = HF!END}
  <2>2. ends # {}
    BY <1>3, <2>1 DEF Open
  <2>3. ends \in SUBSET Nat
    BY <1>0
  <2>4. PICK e \in ends : \A k \in ends : e <= k
    <3> HIDE DEF ends
    <3>1. QED
      BY <2>2, <2>3, LeastNat
  <2>5. e \in i + 1..n /\ file[e] = HF!END /\ \A k \in i + 1..e - 1 : file[k] # HF!END
    BY <1>0, <2>4
  <2>6. i \in 1..i /\ e \in i..n
    BY <1>0, <2>5
  <2>7. PICK j \in i + 1..e - 1 : file[j] \in {HF!BEGIN, HF!END}
    BY <2>1, <2>5, <2>6 DEF HF!InBlock
  <2>8. file[j] = HF!BEGIN /\ j \in 1..n
    BY <1>0, <2>5, <2>7
  <2>9. i \in 1..j - 1 /\ \A k \in i + 1..j - 1 : file[k] # HF!END
    BY <1>0, <2>5, <2>7
  <2>10. Open(file, j - 1)
    BY <2>1, <2>9 DEF Open
  <2>11. QED
    BY <2>8, <2>10 DEF Twice
<1>4. QED
  BY <1>1, <1>2, <1>3

\* Where every block is closed, what the awk drops is what is in one.
LEMMA DroppedIsInBlock ==
    ASSUME NEW file \in Seq(HF!Line), ~HF!Unclosed(file), NEW i \in 1..Len(file)
    PROVE  HF!InBlock(file, i) <=> file[i] = HF!BEGIN \/ Open(file, i - 1)
<1>0. Len(file) \in Nat /\ DOMAIN file = 1..Len(file) /\ HF!BEGIN # HF!END
  BY DEF HF!BEGIN, HF!END
<1>1. ASSUME file[i] = HF!BEGIN PROVE HF!InBlock(file, i)
  BY <1>0, <1>1 DEF HF!Unclosed
<1>2. ASSUME Open(file, i - 1) PROVE HF!InBlock(file, i)
  <2>1. PICK b \in 1..i - 1 : file[b] = HF!BEGIN /\ \A k \in b + 1..i - 1 : file[k] # HF!END
    BY <1>2 DEF Open
  <2>2. b \in 1..Len(file) /\ b \in 1..i
    BY <1>0
  <2>3. HF!InBlock(file, b)
    BY <1>0, <2>1, <2>2 DEF HF!Unclosed
  <2>4. PICK e \in b + 1..Len(file) :
           file[e] = HF!END /\ \A k \in b + 1..e - 1 : file[k] \notin {HF!BEGIN, HF!END}
    BY <2>1, <2>2, <2>3, BlockFromItsMarker
  <2>5. e \in i..Len(file)
    BY <1>0, <2>1, <2>4
  <2>6. QED
    BY <2>1, <2>2, <2>4, <2>5 DEF HF!InBlock
<1>3. ASSUME HF!InBlock(file, i), file[i] # HF!BEGIN PROVE Open(file, i - 1)
  <2>1. PICK b \in 1..i, e \in i..Len(file) :
          /\ file[b] = HF!BEGIN /\ file[e] = HF!END
          /\ \A n \in b + 1..e - 1 : file[n] \notin {HF!BEGIN, HF!END}
    BY <1>3 DEF HF!InBlock
  <2>2. b \in 1..i - 1
    BY <1>3, <2>1
  <2>3. \A k \in b + 1..i - 1 : file[k] # HF!END
    BY <1>0, <2>1
  <2>4. QED
    BY <2>1, <2>2, <2>3 DEF Open
<1>4. QED
  BY <1>1, <1>2, <1>3

\* What each of the three has made of a file, line by line: block_shape(), the
\* awk of strip_block(), and the lines that are not the shim's.
ReadState == [open : BOOLEAN, shape : {"none", "matched", "unmatched"}]
ReadStep(file, f) ==
    [i \in 0..Len(file) |->
        IF i = 0 THEN [open |-> FALSE, shape |-> "none"]
        ELSE HF!ReadMarker(f[i - 1], file[i])]
Reads(file) == CHOOSE f : f = ReadStep(file, f)

AwkState == [skip : BOOLEAN, out : Seq(HF!Line)]
AwkStep(file, f) ==
    [i \in 0..Len(file) |->
        IF i = 0 THEN [skip |-> FALSE, out |-> << >>] ELSE HF!Skip(f[i - 1], file[i])]
Awks(file) == CHOOSE f : f = AwkStep(file, f)

KeptStep(file, f) ==
    [i \in 0..Len(file) |->
        IF i = 0 THEN << >>
        ELSE IF HF!InBlock(file, i) THEN f[i - 1]
        ELSE Append(f[i - 1], file[i])]
Keeps(file) == CHOOSE f : f = KeptStep(file, f)

LEMMA ReadsLineByLine ==
    ASSUME NEW file \in Seq(HF!Line)
    PROVE  /\ Reads(file)[0] = [open |-> FALSE, shape |-> "none"]
           /\ \A i \in 1..Len(file) : Reads(file)[i] = HF!ReadMarker(Reads(file)[i - 1], file[i])
           /\ \A i \in 0..Len(file) : Reads(file)[i] \in ReadState
           /\ HF!BlockShape(file) = IF Reads(file)[Len(file)].open THEN "unmatched"
                                    ELSE Reads(file)[Len(file)].shape
<1> DEFINE n == Len(file)
           base == [open |-> FALSE, shape |-> "none"]
           step == [i \in 1..n |-> [s \in ReadState |-> HF!ReadMarker(s, file[i])]]
<1>0. n \in Nat
  OBVIOUS
<1>1. base \in ReadState
  BY DEF ReadState
<1>2. \A s \in ReadState : \A line : HF!ReadMarker(s, line) \in ReadState
  BY DEF ReadState, HF!ReadMarker
<1>3. step \in [1..n -> [ReadState -> ReadState]]
  BY <1>2
<1>4. \A i \in 1..n, s \in ReadState : step[i][s] = HF!ReadMarker(s, file[i])
  OBVIOUS
<1> HIDE DEF n, base, step
<1>5. \E f \in [0..n -> ReadState] : f[0] = base /\ \A i \in 1..n : f[i] = step[i][f[i - 1]]
  <2>1. PICK f : Steps(f, n, ReadState, base, step)
    BY <1>0, <1>1, <1>3, StepByStep
  <2>2. QED
    BY <2>1 DEF Steps
<1>51. PICK f \in [0..n -> ReadState] : f[0] = base /\ \A i \in 1..n : f[i] = step[i][f[i - 1]]
  BY <1>5
<1>6. \A i \in 1..n : f[i] = HF!ReadMarker(f[i - 1], file[i])
  BY <1>0, <1>4, <1>51
<1>7. f = ReadStep(file, f)
  <2>1. \A i \in 0..n : f[i] = IF i = 0 THEN [open |-> FALSE, shape |-> "none"]
                               ELSE HF!ReadMarker(f[i - 1], file[i])
    BY <1>0, <1>51, <1>6 DEF base
  <2>2. f = [i \in 0..n |-> f[i]]
    OBVIOUS
  <2>3. QED
    BY <2>1, <2>2 DEF ReadStep, n
<1>8. Reads(file) = ReadStep(file, Reads(file))
  BY <1>7 DEF Reads
<1>9. /\ Reads(file)[0] = base
      /\ \A i \in 1..n : Reads(file)[i] = HF!ReadMarker(Reads(file)[i - 1], file[i])
  <2> DEFINE r == Reads(file)
  <2> HIDE DEF r
  <2>1. r = ReadStep(file, r)
    BY <1>8 DEF r
  <2>2. \A i \in 0..n : r[i] = IF i = 0 THEN base ELSE HF!ReadMarker(r[i - 1], file[i])
    BY <2>1 DEF ReadStep, n, base
  <2>3. QED
    BY <1>0, <2>2 DEF r
<1>10. \A i \in 0..n : Reads(file)[i] \in ReadState
  <2> DEFINE P == {i \in 0..n : Reads(file)[i] \in ReadState}
  <2>1. 0 \in P
    BY <1>0, <1>1, <1>9
  <2>2. \A i \in 1..n : i - 1 \in P => i \in P
    BY <1>0, <1>2, <1>9
  <2>3. P \in SUBSET (0..n)
    OBVIOUS
  <2>4. P = 0..n
    <3> HIDE DEF P
    <3>1. QED
      BY <1>0, <2>1, <2>2, <2>3, EveryPosition
  <2>5. QED
    BY <2>4
<1>11. HF!BlockShape(file) = IF Reads(file)[n].open THEN "unmatched" ELSE Reads(file)[n].shape
  BY DEF HF!BlockShape, Reads, ReadStep, n
<1>12. QED
  BY <1>9, <1>10, <1>11 DEF n, base

LEMMA AwksLineByLine ==
    ASSUME NEW file \in Seq(HF!Line)
    PROVE  /\ Awks(file)[0] = [skip |-> FALSE, out |-> << >>]
           /\ \A i \in 1..Len(file) : Awks(file)[i] = HF!Skip(Awks(file)[i - 1], file[i])
           /\ \A i \in 0..Len(file) : Awks(file)[i] \in AwkState
           /\ HF!StripBlock(file) = IF HF!BlockShape(file) # "matched" THEN file
                                    ELSE Awks(file)[Len(file)].out
<1> DEFINE n == Len(file)
           base == [skip |-> FALSE, out |-> << >>]
           step == [i \in 1..n |-> [s \in AwkState |-> HF!Skip(s, file[i])]]
<1>0. n \in Nat /\ \A i \in 1..n : file[i] \in HF!Line
  OBVIOUS
<1>1. base \in AwkState
  BY DEF AwkState
<1>2. ASSUME NEW s \in AwkState, NEW line \in HF!Line PROVE HF!Skip(s, line) \in AwkState
  <2>1. s.skip \in BOOLEAN /\ s.out \in Seq(HF!Line) /\ Append(s.out, line) \in Seq(HF!Line)
    BY DEF AwkState
  <2> DEFINE dropped == line = HF!BEGIN \/ s.skip
             left == IF dropped THEN s.out ELSE Append(s.out, line)
             skip == dropped /\ line # HF!END
  <2>2. left \in Seq(HF!Line) /\ skip \in BOOLEAN
    BY <2>1
  <2>3. HF!Skip(s, line) = [skip |-> skip, out |-> left]
    BY DEF HF!Skip
  <2> HIDE DEF skip, left
  <2>4. QED
    BY <2>2, <2>3 DEF AwkState
<1>3. step \in [1..n -> [AwkState -> AwkState]]
  BY <1>0, <1>2
<1>4. \A i \in 1..n, s \in AwkState : step[i][s] = HF!Skip(s, file[i])
  OBVIOUS
<1> HIDE DEF n, base, step
<1>5. \E f \in [0..n -> AwkState] : f[0] = base /\ \A i \in 1..n : f[i] = step[i][f[i - 1]]
  <2>1. PICK f : Steps(f, n, AwkState, base, step)
    BY <1>0, <1>1, <1>3, StepByStep
  <2>2. QED
    BY <2>1 DEF Steps
<1>51. PICK f \in [0..n -> AwkState] : f[0] = base /\ \A i \in 1..n : f[i] = step[i][f[i - 1]]
  BY <1>5
<1>6. \A i \in 1..n : f[i] = HF!Skip(f[i - 1], file[i])
  BY <1>0, <1>4, <1>51
<1>7. f = AwkStep(file, f)
  <2>1. \A i \in 0..n : f[i] = IF i = 0 THEN [skip |-> FALSE, out |-> << >>]
                               ELSE HF!Skip(f[i - 1], file[i])
    BY <1>0, <1>51, <1>6 DEF base
  <2>2. f = [i \in 0..n |-> f[i]]
    OBVIOUS
  <2>3. QED
    BY <2>1, <2>2 DEF AwkStep, n
<1>8. Awks(file) = AwkStep(file, Awks(file))
  BY <1>7 DEF Awks
<1>9. /\ Awks(file)[0] = base
      /\ \A i \in 1..n : Awks(file)[i] = HF!Skip(Awks(file)[i - 1], file[i])
  <2> DEFINE r == Awks(file)
  <2> HIDE DEF r
  <2>1. r = AwkStep(file, r)
    BY <1>8 DEF r
  <2>2. \A i \in 0..n : r[i] = IF i = 0 THEN base ELSE HF!Skip(r[i - 1], file[i])
    BY <2>1 DEF AwkStep, n, base
  <2>3. QED
    BY <1>0, <2>2 DEF r
<1>10. \A i \in 0..n : Awks(file)[i] \in AwkState
  <2> DEFINE P == {i \in 0..n : Awks(file)[i] \in AwkState}
  <2>1. 0 \in P
    BY <1>0, <1>1, <1>9
  <2>2. ASSUME NEW i \in 1..n, i - 1 \in P PROVE i \in P
    <3>1. Awks(file)[i - 1] \in AwkState /\ file[i] \in HF!Line
      BY <1>0, <2>2
    <3>2. HF!Skip(Awks(file)[i - 1], file[i]) \in AwkState
      BY <1>2, <3>1
    <3>3. QED
      BY <1>0, <1>9, <3>2
  <2>3. P \in SUBSET (0..n)
    OBVIOUS
  <2>4. P = 0..n
    <3> HIDE DEF P
    <3>1. QED
      BY <1>0, <2>1, <2>2, <2>3, EveryPosition
  <2>5. QED
    BY <2>4
<1>11. HF!StripBlock(file) = IF HF!BlockShape(file) # "matched" THEN file ELSE Awks(file)[n].out
  BY DEF HF!StripBlock, Awks, AwkStep, n
<1>12. QED
  BY <1>9, <1>10, <1>11 DEF n, base

LEMMA KeepsLineByLine ==
    ASSUME NEW file \in Seq(HF!Line)
    PROVE  /\ Keeps(file)[0] = << >>
           /\ \A i \in 1..Len(file) :
                 Keeps(file)[i] = IF HF!InBlock(file, i) THEN Keeps(file)[i - 1]
                                  ELSE Append(Keeps(file)[i - 1], file[i])
           /\ \A i \in 0..Len(file) : Keeps(file)[i] \in Seq(HF!Line)
           /\ HF!Users(file) = Keeps(file)[Len(file)]
<1> DEFINE n == Len(file)
           add(s, i) == IF HF!InBlock(file, i) THEN s ELSE Append(s, file[i])
           step == [i \in 1..n |-> [s \in Seq(HF!Line) |-> add(s, i)]]
<1>0. n \in Nat /\ \A i \in 1..n : file[i] \in HF!Line
  OBVIOUS
<1>1. << >> \in Seq(HF!Line)
  OBVIOUS
<1>2. \A s \in Seq(HF!Line), i \in 1..n : add(s, i) \in Seq(HF!Line)
  <2> SUFFICES ASSUME NEW s \in Seq(HF!Line), NEW i \in 1..n PROVE add(s, i) \in Seq(HF!Line)
    BY Zenon
  <2>1. Append(s, file[i]) \in Seq(HF!Line)
    BY <1>0
  <2>2. CASE HF!InBlock(file, i)
    BY <2>2, Zenon
  <2>3. CASE ~HF!InBlock(file, i)
    BY <2>1, <2>3, Zenon
  <2>4. QED
    BY <2>2, <2>3
<1> HIDE DEF add
<1>3. step \in [1..n -> [Seq(HF!Line) -> Seq(HF!Line)]]
  BY <1>2
<1>4. \A i \in 1..n, s \in Seq(HF!Line) : step[i][s] = add(s, i)
  OBVIOUS
<1> HIDE DEF n, step
<1>5. \E f \in [0..n -> Seq(HF!Line)] : f[0] = << >> /\ \A i \in 1..n : f[i] = step[i][f[i - 1]]
  <2>1. PICK f : Steps(f, n, Seq(HF!Line), << >>, step)
    BY <1>0, <1>1, <1>3, StepByStep
  <2>2. QED
    BY <2>1 DEF Steps
<1>51. PICK f \in [0..n -> Seq(HF!Line)] : f[0] = << >> /\ \A i \in 1..n : f[i] = step[i][f[i - 1]]
  BY <1>5
<1>6. \A i \in 1..n : f[i] = add(f[i - 1], i)
  <2> SUFFICES ASSUME NEW i \in 1..n PROVE f[i] = add(f[i - 1], i)
    OBVIOUS
  <2>1. i - 1 \in 0..n
    BY <1>0
  <2>2. f[i - 1] \in Seq(HF!Line)
    BY <1>51, <2>1
  <2>3. step[i][f[i - 1]] = add(f[i - 1], i)
    BY <1>4, <2>2
  <2>4. QED
    BY <1>51, <2>3
<1>7. f = KeptStep(file, f)
  <2>1. \A i \in 0..n : f[i] = IF i = 0 THEN << >> ELSE add(f[i - 1], i)
    BY <1>0, <1>51, <1>6
  <2>2. f = [i \in 0..n |-> f[i]]
    OBVIOUS
  <2>3. QED
    BY <2>1, <2>2 DEF KeptStep, n, add
<1>8. Keeps(file) = KeptStep(file, Keeps(file))
  BY <1>7 DEF Keeps
<1>9. Keeps(file)[0] = << >> /\ \A i \in 1..n : Keeps(file)[i] = add(Keeps(file)[i - 1], i)
  <2> DEFINE r == Keeps(file)
  <2> HIDE DEF r
  <2>1. r = KeptStep(file, r)
    BY <1>8 DEF r
  <2>2. \A i \in 0..n : r[i] = IF i = 0 THEN << >> ELSE add(r[i - 1], i)
    BY <2>1 DEF KeptStep, n, add
  <2>3. QED
    BY <1>0, <2>2 DEF r
<1>10. \A i \in 0..n : Keeps(file)[i] \in Seq(HF!Line)
  <2> DEFINE P == {i \in 0..n : Keeps(file)[i] \in Seq(HF!Line)}
  <2>0. 0 \in 0..n /\ Keeps(file)[0] \in Seq(HF!Line)
    <3>1. Keeps(file)[0] = << >>
      BY <1>9, Zenon
    <3>2. Keeps(file)[0] \in Seq(HF!Line)
      BY <1>1, <3>1, Zenon
    <3>3. QED
      BY <1>0, <3>2
  <2>1. 0 \in P
    BY <2>0
  <2>2. \A i \in 1..n : i - 1 \in P => i \in P
    BY <1>0, <1>2, <1>9
  <2>3. P \in SUBSET (0..n)
    OBVIOUS
  <2>4. P = 0..n
    <3> HIDE DEF P
    <3>1. QED
      BY <1>0, <2>1, <2>2, <2>3, EveryPosition
  <2>5. QED
    BY <2>4
<1>11. HF!Users(file) = Keeps(file)[n]
  BY DEF HF!Users, Keeps, KeptStep, n
<1>12. QED
  BY <1>9, <1>10, <1>11 DEF n, add

-----------------------------------------------------------------------------
(* Startup files: what the install and the uninstall make of one.           *)

\* block_shape() calls unmatched exactly the files with an unclosed block, and
\* none those with no opening marker.
LEMMA ShapeIsRead ==
    ASSUME NEW file \in Seq(HF!Line)
    PROVE  /\ HF!BlockShape(file) \in {"none", "matched", "unmatched"}
           /\ HF!BlockShape(file) = "unmatched" <=> HF!Unclosed(file)
           /\ HF!BlockShape(file) = "none" => \A k \in 1..Len(file) : file[k] # HF!BEGIN
<1> DEFINE n == Len(file)
           r(i) == Reads(file)[i]
           Good(i) == IF Twice(file, i) THEN r(i).shape = "unmatched"
                      ELSE /\ r(i).shape # "unmatched"
                           /\ r(i).open <=> Open(file, i)
                           /\ r(i).shape = "none" => \A k \in 1..i : file[k] # HF!BEGIN
           P == {i \in 0..n : Good(i)}
<1>0. n \in Nat
  OBVIOUS
<1>1. /\ r(0) = [open |-> FALSE, shape |-> "none"]
      /\ \A i \in 1..n : r(i) = HF!ReadMarker(r(i - 1), file[i])
      /\ \A i \in 0..n : r(i) \in ReadState
      /\ HF!BlockShape(file) = IF r(n).open THEN "unmatched" ELSE r(n).shape
  BY ReadsLineByLine
<1> HIDE DEF r
<1>2. Good(0)
  <2>1. ~Open(file, 0) /\ ~Twice(file, 0)
    BY DEF Open, Twice
  <2>2. \A k \in 1..0 : file[k] # HF!BEGIN
    OBVIOUS
  <2>3. QED
    BY <1>1, <2>1, <2>2
<1>3. ASSUME NEW i \in 1..n, Good(i - 1) PROVE Good(i)
  <2>1. r(i) = HF!ReadMarker(r(i - 1), file[i]) /\ r(i - 1) \in ReadState
    BY <1>0, <1>1
  <2>2. /\ Open(file, i) <=> file[i] = HF!BEGIN \/ (Open(file, i - 1) /\ file[i] # HF!END)
        /\ Twice(file, i) <=> Twice(file, i - 1) \/ (file[i] = HF!BEGIN /\ Open(file, i - 1))
    BY OneMoreOpen
  <2>3. HF!BEGIN # HF!END /\ 1..i = (1..i - 1) \cup {i}
    BY DEF HF!BEGIN, HF!END
  <2>4. CASE Twice(file, i - 1)
    <3>1. r(i - 1).shape = "unmatched"
      BY <1>3, <2>4
    <3>2. r(i) = r(i - 1)
      BY <2>1, <3>1 DEF HF!ReadMarker
    <3>3. QED
      BY <2>2, <2>4, <3>1, <3>2
  <2>5. CASE ~Twice(file, i - 1)
    <3>1. /\ r(i - 1).shape # "unmatched"
          /\ r(i - 1).open <=> Open(file, i - 1)
          /\ r(i - 1).shape = "none" => \A k \in 1..i - 1 : file[k] # HF!BEGIN
      BY <1>3, <2>5
    <3>2. CASE file[i] \notin {HF!BEGIN, HF!END}
      <4>1. r(i) = r(i - 1)
        BY <2>1, <3>2 DEF HF!ReadMarker
      <4>2. (Open(file, i) <=> Open(file, i - 1)) /\ ~Twice(file, i)
        BY <2>2, <2>5, <3>2
      <4>3. QED
        BY <2>3, <3>1, <3>2, <4>1, <4>2
    <3>3. CASE file[i] = HF!END
      <4>1. r(i) = [r(i - 1) EXCEPT !.open = FALSE]
        BY <2>1, <3>1, <3>3 DEF HF!ReadMarker
      <4>2. r(i).open = FALSE /\ r(i).shape = r(i - 1).shape
        BY <2>1, <4>1 DEF ReadState
      <4>3. ~Open(file, i) /\ ~Twice(file, i)
        BY <2>2, <2>3, <2>5, <3>3
      <4>4. QED
        BY <2>3, <3>1, <3>3, <4>2, <4>3
    <3>4. CASE file[i] = HF!BEGIN
      <4>1. r(i) = [open |-> TRUE, shape |-> IF r(i - 1).open THEN "unmatched" ELSE "matched"]
        BY <2>1, <2>3, <3>1, <3>4 DEF HF!ReadMarker
      <4>2. Open(file, i) /\ (Twice(file, i) <=> Open(file, i - 1))
        BY <2>2, <2>5, <3>4
      <4>3. QED
        BY <3>1, <4>1, <4>2
    <3>5. QED
      BY <3>2, <3>3, <3>4
  <2>6. QED
    BY <2>4, <2>5
<1>4. Good(n)
  <2> HIDE DEF Good
  <2>1. 0 \in P /\ P \in SUBSET (0..n) /\ \A i \in 1..n : i - 1 \in P => i \in P
    BY <1>0, <1>2, <1>3
  <2> HIDE DEF P
  <2>2. P = 0..n
    BY <1>0, <2>1, EveryPosition
  <2>3. QED
    BY <1>0, <2>2 DEF P
<1>5. r(n) \in ReadState
  BY <1>0, <1>1
<1>6. HF!Unclosed(file) <=> Twice(file, n) \/ Open(file, n)
  BY UnclosedIsSeen
<1>7. HF!BlockShape(file) \in {"none", "matched", "unmatched"}
  BY <1>1, <1>5 DEF ReadState
<1>8. HF!BlockShape(file) = "unmatched" <=> Twice(file, n) \/ Open(file, n)
  BY <1>1, <1>4, <1>5 DEF ReadState
<1>9. HF!BlockShape(file) = "none" => \A k \in 1..n : file[k] # HF!BEGIN
  <2> SUFFICES ASSUME HF!BlockShape(file) = "none" PROVE \A k \in 1..n : file[k] # HF!BEGIN
    OBVIOUS
  <2>1. ~Twice(file, n)
    BY <1>8
  <2>2. r(n).shape = "none"
    BY <1>1
  <2>3. QED
    BY <1>4, <2>1, <2>2
<1>10. QED
  BY <1>6, <1>7, <1>8, <1>9

\* A file with no opening marker has no block, and is its user's.
LEMMA NoMarkerNoBlock ==
    ASSUME NEW file \in Seq(HF!Line), \A k \in 1..Len(file) : file[k] # HF!BEGIN
    PROVE  ~HF!Unclosed(file) /\ HF!Users(file) = file
<1> DEFINE n == Len(file)
           P == {i \in 0..n : Keeps(file)[i] = SubSeq(file, 1, i)}
<1>0. n \in Nat /\ DOMAIN file = 1..n
  OBVIOUS
<1>1. ~HF!Unclosed(file)
  BY <1>0 DEF HF!Unclosed
<1>2. \A i \in 1..n : ~HF!InBlock(file, i)
  BY <1>0 DEF HF!InBlock
<1>3. 0 \in P
  <2>1. Keeps(file)[0] = << >>
    BY KeepsLineByLine
  <2>2. SubSeq(file, 1, 0) = << >>
    OBVIOUS
  <2>3. Keeps(file)[0] = SubSeq(file, 1, 0)
    BY <2>1, <2>2, Zenon
  <2>4. QED
    BY <1>0, <2>3
<1>4. ASSUME NEW i \in 1..n, i - 1 \in P PROVE i \in P
  <2>1. Keeps(file)[i] = Append(Keeps(file)[i - 1], file[i])
    BY <1>2, KeepsLineByLine
  <2>2. Keeps(file)[i - 1] = SubSeq(file, 1, i - 1)
    BY <1>4
  <2>3. Append(SubSeq(file, 1, i - 1), file[i]) = SubSeq(file, 1, i)
    BY <1>0
  <2>4. QED
    BY <1>0, <2>1, <2>2, <2>3
<1>5. P \in SUBSET (0..n)
  OBVIOUS
<1>6. P = 0..n
  <2> HIDE DEF P
  <2>1. QED
    BY <1>0, <1>3, <1>4, <1>5, EveryPosition
<1>7. Keeps(file)[n] = SubSeq(file, 1, n)
  BY <1>0, <1>6
<1>8. SubSeq(file, 1, n) = file
  OBVIOUS
<1>9. QED
  BY <1>1, <1>7, <1>8, KeepsLineByLine

\* Where every block is closed, the awk leaves the user's lines.
LEMMA StrippedIsUsers ==
    ASSUME NEW file \in Seq(HF!Line), ~HF!Unclosed(file)
    PROVE  HF!StripBlock(file) = HF!Users(file)
<1> DEFINE n == Len(file)
           Good(i) == (Awks(file)[i].skip <=> Open(file, i)) /\ Awks(file)[i].out = Keeps(file)[i]
           P == {i \in 0..n : Good(i)}
<1>0. n \in Nat
  OBVIOUS
<1>1. Good(0)
  <2>1. ~Open(file, 0)
    BY DEF Open
  <2>2. Awks(file)[0] = [skip |-> FALSE, out |-> << >>] /\ Keeps(file)[0] = << >>
    BY AwksLineByLine, KeepsLineByLine
  <2>3. QED
    BY <2>1, <2>2
<1>2. ASSUME NEW i \in 1..n, Good(i - 1) PROVE Good(i)
  <2>1. Awks(file)[i] = HF!Skip(Awks(file)[i - 1], file[i])
    BY AwksLineByLine
  <2>2. Open(file, i) <=> file[i] = HF!BEGIN \/ (Open(file, i - 1) /\ file[i] # HF!END)
    BY OneMoreOpen
  <2>3. HF!InBlock(file, i) <=> file[i] = HF!BEGIN \/ Open(file, i - 1)
    BY DroppedIsInBlock
  <2>4. HF!BEGIN # HF!END
    BY DEF HF!BEGIN, HF!END
  <2> DEFINE s == Awks(file)[i - 1]
             dropped == file[i] = HF!BEGIN \/ s.skip
  <2>5. Awks(file)[i].skip = (dropped /\ file[i] # HF!END)
        /\ Awks(file)[i].out = IF dropped THEN s.out ELSE Append(s.out, file[i])
    BY <2>1 DEF HF!Skip
  <2>6. dropped <=> HF!InBlock(file, i)
    BY <1>2, <2>3
  <2>7. Awks(file)[i].skip <=> Open(file, i)
    BY <1>2, <2>2, <2>4, <2>5
  <2>8. CASE HF!InBlock(file, i)
    <3>1. Keeps(file)[i] = Keeps(file)[i - 1]
      BY <2>8, KeepsLineByLine
    <3>2. Awks(file)[i].out = s.out
      BY <2>5, <2>6, <2>8
    <3>3. QED
      BY <1>2, <2>7, <3>1, <3>2
  <2>9. CASE ~HF!InBlock(file, i)
    <3>1. Keeps(file)[i] = Append(Keeps(file)[i - 1], file[i])
      BY <2>9, KeepsLineByLine
    <3>2. Awks(file)[i].out = Append(s.out, file[i])
      BY <2>5, <2>6, <2>9
    <3>3. QED
      BY <1>2, <2>7, <3>1, <3>2
  <2>10. QED
    BY <2>8, <2>9
<1>3. Good(n)
  <2> HIDE DEF Good
  <2>1. 0 \in P /\ P \in SUBSET (0..n) /\ \A i \in 1..n : i - 1 \in P => i \in P
    BY <1>0, <1>1, <1>2
  <2> HIDE DEF P
  <2>2. P = 0..n
    BY <1>0, <2>1, EveryPosition
  <2>3. QED
    BY <1>0, <2>2 DEF P
<1>4. CASE HF!BlockShape(file) = "matched"
  BY <1>3, <1>4, AwksLineByLine, KeepsLineByLine
<1>5. CASE HF!BlockShape(file) = "none"
  <2>1. HF!StripBlock(file) = file
    BY <1>5, AwksLineByLine
  <2>2. QED
    BY <1>5, <2>1, ShapeIsRead, NoMarkerNoBlock
<1>6. QED
  BY <1>4, <1>5, ShapeIsRead

\* The user's lines of a file that has every block closed open none.
LEMMA UsersOpenNothing ==
    ASSUME NEW file \in Seq(HF!Line), ~HF!Unclosed(file)
    PROVE  /\ HF!Users(file) \in Seq(HF!Line)
           /\ \A k \in 1..Len(HF!Users(file)) : HF!Users(file)[k] # HF!BEGIN
<1> DEFINE n == Len(file)
           Good(i) == \A k \in 1..Len(Keeps(file)[i]) : Keeps(file)[i][k] # HF!BEGIN
           P == {i \in 0..n : Good(i)}
<1>0. n \in Nat /\ \A i \in 0..n : Keeps(file)[i] \in Seq(HF!Line)
  BY KeepsLineByLine
<1>1. Good(0)
  <2>1. Keeps(file)[0] = << >>
    BY KeepsLineByLine
  <2>2. QED
    BY <2>1
<1>2. ASSUME NEW i \in 1..n, Good(i - 1) PROVE Good(i)
  <2>0. i - 1 \in 0..n /\ Keeps(file)[i - 1] \in Seq(HF!Line) /\ file[i] \in HF!Line
    BY <1>0
  <2>1. CASE HF!InBlock(file, i)
    <3>1. Keeps(file)[i] = Keeps(file)[i - 1]
      BY <2>1, KeepsLineByLine
    <3>2. QED
      BY <1>2, <3>1
  <2>2. CASE ~HF!InBlock(file, i)
    <3>1. Keeps(file)[i] = Append(Keeps(file)[i - 1], file[i])
      BY <2>2, KeepsLineByLine
    <3>2. file[i] # HF!BEGIN
      BY <2>2, DroppedIsInBlock
    <3>3. QED
      BY <1>2, <2>0, <3>1, <3>2
  <2>3. QED
    BY <2>1, <2>2
<1>3. Good(n)
  <2> HIDE DEF Good
  <2>1. 0 \in P /\ P \in SUBSET (0..n) /\ \A i \in 1..n : i - 1 \in P => i \in P
    BY <1>0, <1>1, <1>2
  <2> HIDE DEF P
  <2>2. P = 0..n
    BY <1>0, <2>1, EveryPosition
  <2>3. QED
    BY <1>0, <2>2 DEF P
<1>4. HF!Users(file) = Keeps(file)[n] /\ n \in 0..n
  BY <1>0, KeepsLineByLine
<1>5. QED
  BY <1>0, <1>3, <1>4

LEMMA Joined ==
    ASSUME NEW T, NEW s \in Seq(T), NEW t \in Seq(T)
    PROVE  /\ s \o t \in Seq(T) /\ Len(s \o t) = Len(s) + Len(t)
           /\ \A i \in 1..Len(s) : (s \o t)[i] = s[i]
           /\ \A k \in 1..Len(t) : (s \o t)[k + Len(s)] = t[k]
OBVIOUS

\* The block above lines that open none is the only one.
LEMMA OneBlockAbove ==
    ASSUME NEW lines \in Seq(HF!Line), \A k \in 1..Len(lines) : lines[k] # HF!BEGIN
    PROVE  /\ HF!Block \o lines \in Seq(HF!Line)
           /\ ~HF!Unclosed(HF!Block \o lines)
           /\ HF!Users(HF!Block \o lines) = lines
<1> DEFINE file == HF!Block \o lines
           m == Len(lines)
           P == {i \in 0..m : Keeps(file)[i + 3] = SubSeq(lines, 1, i)}
<1>0. m \in Nat /\ HF!BEGIN # HF!END /\ HF!BEGIN # "hook" /\ HF!END # "hook"
  BY DEF HF!BEGIN, HF!END
<1>1. /\ file \in Seq(HF!Line) /\ Len(file) = m + 3 /\ DOMAIN file = 1..m + 3
      /\ file[1] = HF!BEGIN /\ file[2] = "hook" /\ file[3] = HF!END
      /\ \A k \in 1..m : file[k + 3] = lines[k]
  <2>1. HF!Block \in Seq(HF!Line) /\ Len(HF!Block) = 3
        /\ HF!Block[1] = HF!BEGIN /\ HF!Block[2] = "hook" /\ HF!Block[3] = HF!END
    <3>1. HF!Block = <<HF!BEGIN, "hook", HF!END>>
      BY DEF HF!Block
    <3>2. HF!BEGIN \in HF!Line /\ HF!END \in HF!Line /\ "hook" \in HF!Line
      BY DEF HF!Line
    <3>3. QED
      BY <3>1, <3>2
  <2>2. /\ Len(HF!Block \o lines) = Len(HF!Block) + Len(lines) /\ HF!Block \o lines \in Seq(HF!Line)
        /\ \A i \in 1..Len(HF!Block) : (HF!Block \o lines)[i] = HF!Block[i]
        /\ \A k \in 1..Len(lines) : (HF!Block \o lines)[k + Len(HF!Block)] = lines[k]
    <3>1. HF!Block \in Seq(HF!Line)
      BY <2>1
    <3> DEFINE block == HF!Block
    <3> HIDE DEF block
    <3>2. block \in Seq(HF!Line)
      BY <3>1 DEF block
    <3>3. /\ Len(block \o lines) = Len(block) + Len(lines) /\ block \o lines \in Seq(HF!Line)
          /\ \A i \in 1..Len(block) : (block \o lines)[i] = block[i]
          /\ \A k \in 1..Len(lines) : (block \o lines)[k + Len(block)] = lines[k]
      BY <3>2, Joined
    <3>4. QED
      BY <3>3 DEF block
  <2>3. 1 \in 1..3 /\ 2 \in 1..3 /\ 3 \in 1..3 /\ 3 + m = m + 3
    BY <1>0
  <2>4. QED
    BY <2>1, <2>2, <2>3 DEF m, file
<1> HIDE DEF file
<1>2. \A b \in 1..m + 3 : file[b] = HF!BEGIN => b = 1
  <2> SUFFICES ASSUME NEW b \in 1..m + 3, b # 1 PROVE file[b] # HF!BEGIN
    OBVIOUS
  <2>1. CASE b = 2 \/ b = 3
    BY <1>0, <1>1, <2>1
  <2>2. CASE b > 3
    <3>1. b - 3 \in 1..m /\ (b - 3) + 3 = b
      BY <1>0, <2>2
    <3>2. file[b] = lines[b - 3]
      BY <1>1, <3>1
    <3>3. QED
      BY <3>1, <3>2
  <2>3. QED
    BY <1>0, <2>1, <2>2
<1>3. \A i \in 1..3 : HF!InBlock(file, i)
  <2>1. \A n \in 1 + 1..3 - 1 : file[n] \notin {HF!BEGIN, HF!END}
    BY <1>0, <1>1
  <2>2. \A i \in 1..3 : 1 \in 1..i /\ 3 \in i..Len(file)
    BY <1>0, <1>1
  <2>3. QED
    BY <1>1, <2>1, <2>2 DEF HF!InBlock
<1>4. ASSUME NEW i \in 4..m + 3 PROVE ~HF!InBlock(file, i)
  <2> SUFFICES ASSUME HF!InBlock(file, i) PROVE FALSE
    OBVIOUS
  <2>1. PICK b \in 1..i, e \in i..Len(file) :
          /\ file[b] = HF!BEGIN
          /\ \A n \in b + 1..e - 1 : file[n] \notin {HF!BEGIN, HF!END}
    BY DEF HF!InBlock
  <2>2. b = 1
    BY <1>0, <1>2, <2>1
  <2>3. 3 \in b + 1..e - 1
    BY <1>0, <1>1, <2>2
  <2>4. QED
    BY <1>1, <2>1, <2>3
<1>5. ~HF!Unclosed(file)
  <2>1. 1 \in 1..3
    OBVIOUS
  <2>2. QED
    BY <1>1, <1>2, <1>3, <2>1 DEF HF!Unclosed
<1>6. Keeps(file)[3] = << >>
  <2>1. Keeps(file)[0] = << >>
    BY <1>1, KeepsLineByLine
  <2>2. \A i \in 1..3 : Keeps(file)[i] = Keeps(file)[i - 1]
    <3> SUFFICES ASSUME NEW i \in 1..3 PROVE Keeps(file)[i] = Keeps(file)[i - 1]
      OBVIOUS
    <3>1. i \in 1..Len(file) /\ HF!InBlock(file, i)
      BY <1>0, <1>1, <1>3
    <3>2. QED
      BY <1>1, <3>1, KeepsLineByLine
  <2>3. Keeps(file)[1] = Keeps(file)[0] /\ Keeps(file)[2] = Keeps(file)[1]
        /\ Keeps(file)[3] = Keeps(file)[2]
    BY <2>2
  <2>4. QED
    BY <2>1, <2>3
<1>7. 0 \in P
  <2>1. SubSeq(lines, 1, 0) = << >>
    OBVIOUS
  <2>2. Keeps(file)[0 + 3] = SubSeq(lines, 1, 0)
    <3>1. 0 + 3 = 3
      OBVIOUS
    <3>2. QED
      BY <1>6, <2>1, <3>1, Zenon
  <2>3. QED
    BY <1>0, <2>2
<1>8. ASSUME NEW i \in 1..m, i - 1 \in P PROVE i \in P
  <2>1. i + 3 \in 4..m + 3 /\ i + 3 \in 1..Len(file) /\ (i - 1) + 3 = (i + 3) - 1
    BY <1>0, <1>1
  <2>2. Keeps(file)[i + 3] = Append(Keeps(file)[(i + 3) - 1], file[i + 3])
    BY <1>1, <1>4, <2>1, KeepsLineByLine
  <2>3. Keeps(file)[(i + 3) - 1] = SubSeq(lines, 1, i - 1)
    BY <1>8, <2>1
  <2>4. Append(SubSeq(lines, 1, i - 1), lines[i]) = SubSeq(lines, 1, i)
    BY <1>0
  <2>5. Keeps(file)[i + 3] = SubSeq(lines, 1, i)
    BY <1>1, <2>2, <2>3, <2>4
  <2>6. QED
    BY <1>0, <2>5
<1>9. P \in SUBSET (0..m)
  OBVIOUS
<1>10. P = 0..m
  <2> HIDE DEF P
  <2>1. QED
    BY <1>0, <1>7, <1>8, <1>9, EveryPosition
<1>11. Keeps(file)[m + 3] = SubSeq(lines, 1, m) /\ SubSeq(lines, 1, m) = lines
  BY <1>0, <1>10
<1>12. HF!Users(file) = lines
  BY <1>1, <1>11, KeepsLineByLine
<1>13. QED
  BY <1>1, <1>5, <1>12 DEF file

\* A startup file keeps its user's lines, whatever markers are in it: a file
\* with an unclosed block is left and said, and of any other the install makes
\* the user's lines below one block and the uninstall the user's lines, wherever
\* an install before was stopped.  node/shim/install.sh:1057-1074.
THEOREM StartupFilesKeepTheirLines ==
    ASSUME NEW file \in Seq(HF!Line)
    PROVE  HF!UsersLinesKept(file)
<1> DEFINE lines == HF!Users(file)
<1>1. CASE HF!Unclosed(file)
  <2>1. HF!BlockShape(file) = "unmatched"
    BY <1>1, ShapeIsRead
  <2>2. HF!Refused(file) /\ HF!StripBlock(file) = file
    BY <2>1, AwksLineByLine DEF HF!Refused
  <2>3. HF!PrependBlock(file) = file
    BY <2>2 DEF HF!PrependBlock
  <2>4. HF!InstallLeaves(file) = {file}
    BY <2>2, <2>3 DEF HF!InstallLeaves
  <2>5. HF!Uninstall(file) = [file |-> file, status |-> 8]
    BY <2>1, <2>2 DEF HF!Uninstall
  <2>6. QED
    BY <1>1, <2>2, <2>4, <2>5 DEF HF!UsersLinesKept
<1>2. CASE ~HF!Unclosed(file)
  <2>1. lines \in Seq(HF!Line) /\ \A k \in 1..Len(lines) : lines[k] # HF!BEGIN
    BY <1>2, UsersOpenNothing
  <2> DEFINE Fine(left) == /\ left \in Seq(HF!Line) /\ ~HF!Unclosed(left)
                           /\ HF!Users(left) = lines
  <2>2. Fine(file)
    BY <1>2
  <2>3. Fine(lines)
    BY <2>1, NoMarkerNoBlock
  <2>4. Fine(HF!Block \o lines)
    BY <2>1, OneBlockAbove
  <2> HIDE DEF lines
  <2>5. ASSUME NEW left, Fine(left)
        PROVE  /\ ~HF!Refused(left) /\ HF!StripBlock(left) = lines
               /\ HF!PrependBlock(left) = HF!Block \o lines
               /\ HF!Uninstall(left) = [file |-> lines, status |-> 0]
    <3>1. HF!BlockShape(left) # "unmatched" /\ HF!StripBlock(left) = lines
      BY <2>5, ShapeIsRead, StrippedIsUsers
    <3>2. QED
      BY <3>1 DEF HF!Refused, HF!PrependBlock, HF!Uninstall
  <2>6. HF!InstallLeaves(file) = {file, HF!Block \o lines, lines}
    <3>1. /\ HF!Refused(file) = FALSE /\ HF!StripBlock(file) = lines
          /\ HF!PrependBlock(file) = HF!Block \o lines
      BY <2>2, <2>5 DEF HF!Refused
    <3>2. HF!InstallLeaves(file) = {file, HF!Block \o lines} \cup {lines}
      BY <3>1 DEF HF!InstallLeaves
    <3>3. QED
      BY <3>2
  <2>7. \A left \in HF!InstallLeaves(file) : Fine(left)
    BY <2>2, <2>3, <2>4, <2>6
  <2>8. \A left \in HF!InstallLeaves(file) :
            /\ ~HF!Unclosed(left) /\ HF!Users(left) = lines
            /\ HF!PrependBlock(left) = HF!Block \o lines
            /\ HF!Uninstall(left) = [file |-> lines, status |-> 0]
    BY <2>5, <2>7
  <2>9. QED
    BY <1>2, <2>8 DEF HF!UsersLinesKept, lines
<1>3. QED
  BY <1>1, <1>2
=============================================================================
