--------------------------- MODULE CoverageMemory ---------------------------
(***************************************************************************)
(* The relink's link farm and its memory of what was linked:               *)
(* node/shim/install.sh, link_farm(), sweep_unclaimed(), linked_report(),  *)
(* linked_seed() and linked_write().                                       *)
(*                                                                         *)
(* A run of the installer walks the table of wrapped names, linking what   *)
(* the node has and unlinking what it no longer has, sweeps the links no   *)
(* table claims, and records what it unlinked.  A relink then compares     *)
(* with its memory, a --system run replaces that memory.  Packages come    *)
(* and go meanwhile, and a run may be stopped anywhere.                    *)
(*                                                                         *)
(* walk-job, linked and claimed by every run, is left out.                 *)
(***************************************************************************)
EXTENDS SpoolMemory

CONSTANTS
    Name,       \* the names a table may wrap
    MaxMissed   \* bound: runs that are stopped, or that find no spool

ASSUME CoverageAssumption == MaxMissed \in Nat

\* A payload wraps some name.
Table == (SUBSET Name) \ {{}}

Origin == {"system", "relink"}
Memory == [boot : BootId, asserted : Reading, origin : Origin,
           names : SUBSET Name]
NoMemory == [boot |-> 0, asserted |-> NoReading, origin |-> "relink",
             names |-> {}]

VARIABLES
    \* The node.
    present,    \* the names that resolve to a tool
    wrapped,    \* the table of the installed payload
    links,      \* the links in its bin directory
    boot, up,   \* the current boot, and its uptime
    idle,       \* ticks since the last run started
    missed,     \* runs so far that said nothing of the memory
    \* The spool.
    file,       \* there is a memory to read
    memory,     \* what it says
    \* One run.
    pc,
    system,     \* it is --system, and not --relink
    todo,       \* names of the table it has still to take
    linked,     \* names it linked
    gone,       \* names it unlinked
    standing,   \* remembered names it neither linked nor unlinked
    toSay,      \* records it has still to write
    new,        \* the memory it writes: what reaches the new file
    headed,     \* whose first three lines do
    \* Observation only.
    kept,       \* names some memory has listed since the last install
    unsaid,     \* names this run unlinked without a record
    quiet       \* ticks each kept name has been missing without a record

node == <<present, wrapped, boot, up, idle, missed>>
farm == <<links, todo, linked, gone>>
spool == <<file, memory>>
poll == <<system, standing, toSay, new, headed>>
history == <<kept, unsaid, quiet>>
vars == <<node, farm, spool, pc, poll, history>>

\* Kept, still wrapped, and neither linked nor there to be linked.
Missing == {n \in kept \cap wrapped : n \notin links \cup present}

\* What a run holds when none is under way.
Blank == /\ system = FALSE
         /\ todo = {} /\ linked = {} /\ gone = {}
         /\ standing = {} /\ toSay = {} /\ new = NoMemory /\ headed = FALSE
         /\ unsaid = {}

\* A run is a process: what it held goes with it.
End == /\ pc' = "idle"
       /\ system' = FALSE
       /\ todo' = {} /\ linked' = {} /\ gone' = {}
       /\ standing' = {} /\ toSay' = {} /\ new' = NoMemory /\ headed' = FALSE
       /\ unsaid' = {}

-----------------------------------------------------------------------------
(***************************************************************************)
(* The node.                                                               *)
(***************************************************************************)
Package(n) ==
    /\ present' = IF n \in present THEN present \ {n} ELSE present \cup {n}
    /\ quiet' = [quiet EXCEPT ![n] = 0]
    /\ UNCHANGED <<wrapped, boot, up, idle, missed, farm, spool, pc, poll,
                   kept, unsaid>>

\* The timer fires every Period ticks, and a run is shorter than a tick.
Tick ==
    /\ pc = "idle" /\ idle < Period /\ up < MaxUptime
    /\ up' = up + 1
    /\ idle' = idle + 1
    /\ quiet' = [n \in Name |-> IF n \in Missing THEN quiet[n] + 1 ELSE 0]
    /\ UNCHANGED <<present, wrapped, boot, missed, farm, spool, pc, poll,
                   kept, unsaid>>

Reboot ==
    /\ pc = "idle" /\ boot < MaxBoot
    /\ boot' = boot + 1
    /\ up' = 0
    /\ UNCHANGED <<present, wrapped, idle, missed, farm, spool, pc, poll, history>>

-----------------------------------------------------------------------------
(***************************************************************************)
(* link_farm(), the same in both arms.                                     *)
(***************************************************************************)
\* --relink, by the timer.
Begin ==
    /\ pc = "idle"
    /\ pc' = "farm"
    /\ todo' = wrapped
    /\ idle' = 0
    /\ UNCHANGED <<present, wrapped, boot, up, missed, links, linked, gone, spool,
                   poll, history>>

\* --system, with the timer down: the memory goes, where the spool can be
\* pinned, before the farm is built.
Install ==
    /\ pc = "idle" /\ "install" \in Faults
    /\ pc' = "farm"
    /\ system' = TRUE
    /\ wrapped' \in Table
    /\ todo' = wrapped'
    /\ \E unpinned \in May("spool") :
         /\ file' = (unpinned /\ file)
         /\ memory' = IF unpinned THEN memory ELSE NoMemory
    /\ kept' = {}
    /\ quiet' = [n \in Name |-> 0]
    /\ idle' = 0
    /\ UNCHANGED <<present, boot, up, missed, links, linked, gone, standing,
                   toSay, new, headed, unsaid>>

Link(n) ==
    /\ pc = "farm" /\ n \in todo /\ n \in present
    /\ links' = links \cup {n}
    /\ linked' = linked \cup {n}
    /\ todo' = todo \ {n}
    /\ quiet' = [quiet EXCEPT ![n] = 0]
    /\ UNCHANGED <<node, gone, spool, pc, poll, kept, unsaid>>

\* Bug: the link is removed before it is looked at.
DropUnseen(n) ==
    /\ pc = "farm" /\ n \in todo /\ n \notin present
    /\ links' = links \ {n}
    /\ unsaid' = IF n \in links THEN unsaid \cup {n} ELSE unsaid
    /\ todo' = todo \ {n}
    /\ UNCHANGED <<node, linked, gone, spool, pc, poll, kept, quiet>>

\* Bug: a name the node does not have is only skipped.
DropSkipped(n) ==
    /\ pc = "farm" /\ n \in todo /\ n \notin present
    /\ todo' = todo \ {n}
    /\ UNCHANGED <<node, links, linked, gone, spool, pc, poll, history>>

Drop(n) ==
    /\ pc = "farm" /\ n \in todo /\ n \notin present
    /\ gone' = IF n \in links THEN gone \cup {n} ELSE gone
    /\ links' = links \ {n}
    /\ unsaid' = IF n \in links THEN unsaid \cup {n} ELSE unsaid
    /\ todo' = todo \ {n}
    /\ UNCHANGED <<node, linked, spool, pc, poll, kept, quiet>>

\* sweep_unclaimed(): a link whose name the table no longer carries.
Sweep(n) ==
    /\ pc = "farm" /\ todo = {} /\ n \in links \ wrapped
    /\ links' = links \ {n}
    /\ gone' = gone \cup {n}
    /\ unsaid' = unsaid \cup {n}
    /\ UNCHANGED <<node, todo, linked, spool, pc, poll, kept, quiet>>

\* The change record, which counts what this run unlinked.
Tell ==
    /\ pc = "farm" /\ todo = {} /\ links \subseteq wrapped
    /\ unsaid' = unsaid \ gone
    /\ quiet' = [n \in Name |-> IF n \in gone THEN 0 ELSE quiet[n]]
    /\ pc' = "memory"
    /\ UNCHANGED <<node, farm, spool, poll, kept>>

-----------------------------------------------------------------------------
(***************************************************************************)
(* The memory.                                                             *)
(***************************************************************************)
\* Without a pinned spool nothing is read, written or said.
Unpinned ==
    /\ pc = "memory" /\ "spool" \in Faults /\ missed < MaxMissed
    /\ missed' = missed + 1
    /\ End
    /\ UNCHANGED <<present, wrapped, boot, up, idle, links, spool, kept, quiet>>

\* linked_write().
Write(id, stamp, origin, names) ==
    /\ \E some \in Reaching(names) :
         new' = [boot |-> id, asserted |-> stamp, origin |-> origin,
                 names |-> some]
    /\ \E first \in Reaching({"boot", "asserted", "seeded"}) :
         headed' = (first = {"boot", "asserted", "seeded"})

\* linked_seed(): exactly what this install linked.
Seed ==
    /\ pc = "memory" /\ system
    /\ \E noUptime \in May("uptime"), noBootId \in May("bootid") :
         Write(IF noBootId THEN 0 ELSE boot,
               IF noUptime THEN NoReading ELSE up, "system", linked)
    /\ pc' = "say"
    /\ UNCHANGED <<node, farm, spool, system, standing, toSay, history>>

\* Bug: the change record and the re-assertion speak of the same name.
StandingAndGone(mem) == mem.names \ linked

\* Remembered, still wrapped, and neither linked nor unlinked by this run.
Standing(mem) == mem.names \ (linked \cup gone)

\* Bug: the memory is what this run linked.
UnionLast(mem) == linked

\* The high-water mark.
Union(mem) == mem.names \cup linked

\* Bug: the memory holds the deadline and not the time.
StampDeadline(mem, due, clock) == IF due THEN clock + Interval ELSE mem.asserted

\* Bug: every run moves the clock.
StampAlways(mem, due, clock) == clock

\* The clock of the new memory.
Stamp(mem, due, clock) == IF due THEN clock ELSE mem.asserted

\* linked_report() on a memory it cannot read, or that another table wrote:
\* `unknown`, and a seed of its own.
Reseed(clock, id) ==
    /\ standing' = {}
    /\ toSay' = {"unknown"}
    /\ Write(id, clock, "relink", linked)

\* linked_report() on a memory it can read.
Compare(clock, id) ==
    LET due == memory.boot # id \/ ClockDue(memory.asserted, clock)
    IN /\ standing' = Standing(memory)
       /\ toSay' = {r \in {"drift", "unknown"} :
                      /\ due
                      /\ r = "drift" => Standing(memory) # {}
                      /\ r = "unknown" => memory.origin = "relink"}
       /\ Write(id, Stamp(memory, due, clock), memory.origin, Union(memory))

Recall ==
    /\ pc = "memory" /\ ~system
    /\ \E lost \in May("lost"), noUptime \in May("uptime"), noBootId \in May("bootid") :
         LET clock == IF noUptime THEN NoReading ELSE up
             id == IF noBootId THEN 0 ELSE boot
             readable == file /\ ~lost /\ memory.names \subseteq wrapped
         IN \/ readable /\ Compare(clock, id)
            \/ ~readable /\ Reseed(clock, id)
    /\ pc' = "say"
    /\ UNCHANGED <<node, farm, spool, system, history>>

\* `unwrapped-N`, marked: the count of the standing set.
SayDrift ==
    /\ pc = "say" /\ "drift" \in toSay
    /\ toSay' = toSay \ {"drift"}
    /\ quiet' = [n \in Name |-> IF n \in standing THEN 0 ELSE quiet[n]]
    /\ UNCHANGED <<node, farm, spool, pc, system, standing, new, headed,
                   kept, unsaid>>

\* `unknown`, which speaks of whatever may be missing.
SayUnknown ==
    /\ pc = "say" /\ toSay = {"unknown"}
    /\ toSay' = {}
    /\ quiet' = [n \in Name |-> 0]
    /\ UNCHANGED <<node, farm, spool, pc, system, standing, new, headed,
                   kept, unsaid>>

\* sg_spool_commit(), or no new file to commit.  A memory without its first
\* lines replaces the old one all the same, and reads as none.
Commit ==
    /\ pc = "say" /\ toSay = {}
    /\ \/ /\ file' = headed
          /\ memory' = IF headed THEN new ELSE NoMemory
          /\ kept' = IF headed THEN kept \cup new.names ELSE kept
       \/ /\ "rename" \in Faults
          /\ UNCHANGED <<spool, kept>>
    /\ End
    /\ UNCHANGED <<node, links, quiet>>

\* The unit's timeout, a stop, or a command that fails under `set -e`.
Stop ==
    /\ pc # "idle" /\ missed < MaxMissed
    /\ missed' = missed + 1
    /\ End
    /\ UNCHANGED <<present, wrapped, boot, up, idle, links, spool, kept, quiet>>

\* A node before its first install, with packages of any kind.
Init ==
    /\ present \in SUBSET Name
    /\ wrapped \in Table
    /\ links = {}
    /\ boot = 1 /\ up = 0 /\ idle = 0 /\ missed = 0
    /\ file = FALSE /\ memory = NoMemory
    /\ pc = "idle" /\ Blank
    /\ kept = {}
    /\ quiet = [n \in Name |-> 0]

Next == \/ \E n \in Name : Package(n) \/ Link(n) \/ Drop(n) \/ Sweep(n)
        \/ Tick
        \/ Reboot
        \/ Begin
        \/ Install
        \/ Tell
        \/ Unpinned
        \/ Seed
        \/ Recall
        \/ SayDrift
        \/ SayUnknown
        \/ Commit
        \/ Stop

Spec == Init /\ [][Next]_vars

-----------------------------------------------------------------------------
(***************************************************************************)
(* Properties.                                                             *)
(***************************************************************************)
\* Every variable has its type, and between runs nothing is left to do.
TypeOK ==
    /\ present \subseteq Name /\ wrapped \subseteq Name /\ links \subseteq Name
    /\ boot \in 1 .. MaxBoot /\ up \in Uptime
    /\ idle \in 0 .. Period /\ missed \in 0 .. MaxMissed
    /\ file \in BOOLEAN /\ memory \in Memory
    /\ pc \in {"idle", "farm", "memory", "say"} /\ system \in BOOLEAN
    /\ todo \subseteq wrapped /\ linked \subseteq Name /\ gone \subseteq Name
    /\ standing \subseteq Name /\ toSay \subseteq {"drift", "unknown"}
    /\ new \in Memory /\ headed \in BOOLEAN
    /\ pc = "idle" => Blank
    /\ kept \subseteq Name /\ unsaid \subseteq Name
    /\ quiet \in [Name -> Nat]

\* Once the farm is walked it holds the links this run made and no other: no
\* shim under a name the table dropped, none for a tool that was not there.
FarmIsExact == pc \in {"memory", "say"} => links = linked

\* "An unlink is never silent": a run that comes to the memory has recorded
\* every link it removed, the spool fit or not.
UnlinkIsSaid == pc \in {"memory", "say"} => unsaid = {}

\* "A name gets the change record or the re-assertion on one poll, never both."
OneRecordPerName == pc = "say" /\ "drift" \in toSay => standing \cap gone = {}

\* "A HIGH-WATER mark": a memory that calls itself the install's still lists
\* every name any memory has listed since that install.  One that has
\* forgotten must call itself the relink's, and say `unknown`.
HighWater == file /\ memory.origin = "system" => kept \subseteq memory.names

\* Drift does not fall silent: a name a memory has listed, and that is missing
\* since, is counted or covered by `unknown` within the cadence rounded up to
\* the next poll, one poll later for each missed.
DriftHasHorizon ==
    \A n \in Name : quiet[n] < Interval + Period * (1 + missed)
=============================================================================
