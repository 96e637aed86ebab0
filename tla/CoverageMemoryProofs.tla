------------------------ MODULE CoverageMemoryProofs ------------------------
(***************************************************************************)
(* What the run checks of CoverageMemory on two names, proved for every    *)
(* set of names, every cadence and bound, and, where a theorem does not    *)
(* say otherwise, every combination of faults.                             *)
(***************************************************************************)
EXTENDS CoverageMemory, TLAPS

\* The steps that move neither the farm, nor a memory, nor what a run holds.
Aside == \/ \E n \in Name : Package(n)
         \/ Tick
         \/ Reboot

-----------------------------------------------------------------------------
(***************************************************************************)
(* The farm.  Of the links a run finds, those of the table are taken one   *)
(* by one and the others swept, so what stands beside its own links is     *)
(* still to be taken or unclaimed; and what it removed it counts.          *)
(***************************************************************************)
FarmInv ==
    /\ pc = "idle" => Blank
    /\ pc = "farm" => /\ todo \cup linked \subseteq wrapped
                      /\ todo \cap linked = {}
                      /\ linked \subseteq links
                      /\ links \cap wrapped \subseteq todo \cup linked
                      /\ unsaid \subseteq gone
    /\ pc \in {"memory", "say"} => links = linked /\ unsaid = {}
    /\ pc \in {"farm", "memory"} => standing = {}
    /\ pc = "say" => standing \cap gone = {}

LEMMA FarmInitially == Init => FarmInv
BY DEF Init, FarmInv

LEMMA FarmKept == ASSUME FarmInv, [Next]_vars PROVE FarmInv'
<1>1. ASSUME Aside PROVE FarmInv'
  BY <1>1 DEF Aside, Package, Tick, Reboot, FarmInv, Blank, farm, poll, history
<1>2. ASSUME Begin PROVE FarmInv'
  BY <1>2 DEF Begin, FarmInv, Blank, poll, history
<1>3. ASSUME Install PROVE FarmInv'
  BY <1>3 DEF Install, FarmInv, Blank
<1>4. ASSUME NEW n \in Name, Link(n) PROVE FarmInv'
  <2>1. /\ pc = "farm" /\ pc' = "farm" /\ wrapped' = wrapped
        /\ unsaid' = unsaid /\ gone' = gone /\ standing' = standing
    BY <1>4 DEF Link, node, poll
  <2>2. todo' \cup linked' \subseteq wrapped' /\ todo' \cap linked' = {}
    BY <1>4, <2>1 DEF Link, FarmInv
  <2>3. linked' \subseteq links' /\ links' \cap wrapped' \subseteq todo' \cup linked'
    BY <1>4, <2>1 DEF Link, FarmInv
  <2>4. QED
    BY <2>1, <2>2, <2>3 DEF FarmInv
<1>5. ASSUME NEW n \in Name, Drop(n) PROVE FarmInv'
  <2>1. /\ pc = "farm" /\ pc' = "farm" /\ wrapped' = wrapped
        /\ linked' = linked /\ standing' = standing
    BY <1>5 DEF Drop, node, poll
  <2>2. todo' \cup linked' \subseteq wrapped' /\ todo' \cap linked' = {}
    BY <1>5, <2>1 DEF Drop, FarmInv
  <2>3. linked' \subseteq links' /\ links' \cap wrapped' \subseteq todo' \cup linked'
    BY <1>5, <2>1 DEF Drop, FarmInv
  <2>4. unsaid' \subseteq gone'
    BY <1>5, <2>1 DEF Drop, FarmInv
  <2>5. QED
    BY <2>1, <2>2, <2>3, <2>4 DEF FarmInv
<1>6. ASSUME NEW n \in Name, Sweep(n) PROVE FarmInv'
  BY <1>6 DEF Sweep, FarmInv, node, poll
<1>7. ASSUME Tell PROVE FarmInv'
  BY <1>7 DEF Tell, FarmInv, node, farm, poll
<1>8. ASSUME Unpinned \/ Commit \/ Stop PROVE FarmInv'
  BY <1>8 DEF Unpinned, Commit, Stop, End, FarmInv, Blank
<1>9. ASSUME Seed PROVE FarmInv'
  BY <1>9 DEF Seed, FarmInv, farm, history
<1>10. ASSUME Recall PROVE FarmInv'
  <2>1. standing' \cap gone = {}
    BY <1>10 DEF Recall, Compare, Reseed, Standing
  <2>2. QED
    BY <1>10, <2>1 DEF Recall, FarmInv, farm, history
<1>11. ASSUME SayDrift \/ SayUnknown PROVE FarmInv'
  BY <1>11 DEF SayDrift, SayUnknown, FarmInv, node, farm
<1>12. ASSUME UNCHANGED vars PROVE FarmInv'
  BY <1>12 DEF vars, node, farm, poll, history, FarmInv, Blank
<1>13. QED
  BY <1>1, <1>2, <1>3, <1>4, <1>5, <1>6, <1>7, <1>8, <1>9, <1>10, <1>11, <1>12
     DEF Next, Aside

THEOREM FarmInvariant == Spec => []FarmInv
BY FarmInitially, FarmKept, PTL DEF Spec

\* The farm a run leaves holds its own links and no other, with packages
\* coming and going while it is walked, and after any number of runs that
\* were stopped half way.
THEOREM FarmHoldsItsLinks == Spec => []FarmIsExact
<1>1. FarmInv => FarmIsExact
  BY DEF FarmInv, FarmIsExact
<1>2. QED
  BY <1>1, FarmInvariant, PTL

\* A run that comes to the memory has recorded each of its unlinks.
THEOREM UnlinksAreSaid == Spec => []UnlinkIsSaid
<1>1. FarmInv => UnlinkIsSaid
  BY DEF FarmInv, UnlinkIsSaid
<1>2. QED
  BY <1>1, FarmInvariant, PTL

\* No name is both in the change record and in the re-assertion of one run.
THEOREM OneRecordEach == Spec => []OneRecordPerName
<1>1. FarmInv => OneRecordPerName
  BY DEF FarmInv, OneRecordPerName
<1>2. QED
  BY <1>1, FarmInvariant, PTL

-----------------------------------------------------------------------------
(***************************************************************************)
(* The high-water mark.  A run of the installer starts it anew, and from   *)
(* then on the memory under way carries all the memory it replaces: what   *)
(* it lists it may only add to, unless it calls itself the relink's.  A    *)
(* full disk truncates it, and is assumed away.                            *)
(***************************************************************************)
Honest(mem) == mem.origin = "system" => kept \subseteq mem.names

MarkInv ==
    /\ pc = "idle" => Blank
    /\ file => Honest(memory)
    /\ system => kept = {}
    /\ pc = "say" => Honest(new)

LEMMA MarkInitially == Init => MarkInv
BY DEF Init, MarkInv, Honest, Blank

\* A disk that is not full keeps the lines it is given.
LEMMA WriteKeeps ==
    ASSUME "full" \notin Faults, NEW id, NEW stamp, NEW origin, NEW names,
           Write(id, stamp, origin, names)
    PROVE  new'.origin = origin /\ new'.names = names
BY DEF Write, Reaching

LEMMA MarkKept ==
    ASSUME MarkInv, [Next]_vars, "full" \notin Faults
    PROVE  MarkInv'
<1>1. ASSUME Aside PROVE MarkInv'
  BY <1>1 DEF Aside, Package, Tick, Reboot, MarkInv, Honest, Blank,
              farm, spool, poll, history
<1>2. ASSUME Begin PROVE MarkInv'
  BY <1>2 DEF Begin, MarkInv, Honest, spool, poll, history
<1>3. ASSUME Install PROVE MarkInv'
  BY <1>3 DEF Install, MarkInv, Honest
<1>4. ASSUME NEW n \in Name, Link(n) \/ Drop(n) \/ Sweep(n) PROVE MarkInv'
  BY <1>4 DEF Link, Drop, Sweep, MarkInv, Honest, spool, poll
<1>5. ASSUME Tell PROVE MarkInv'
  BY <1>5 DEF Tell, MarkInv, Honest, spool, poll
<1>6. ASSUME Unpinned \/ Stop PROVE MarkInv'
  BY <1>6 DEF Unpinned, Stop, End, MarkInv, Honest, Blank, spool
<1>7. ASSUME Seed PROVE MarkInv'
  BY <1>7 DEF Seed, MarkInv, Honest, spool, history
<1>8. ASSUME Recall PROVE MarkInv'
  <2>1. UNCHANGED <<file, memory, system, kept>> /\ pc' = "say"
    BY <1>8 DEF Recall, spool, history
  <2>2. Honest(new)'
    <3>1. CASE \E clock, id : file /\ Compare(clock, id)
      <4>1. PICK clock, id : file /\ Compare(clock, id)
        BY <3>1
      <4>2. new'.origin = memory.origin /\ new'.names = memory.names \cup linked
        BY <4>1, WriteKeeps DEF Compare, Union
      <4>3. QED
        BY <2>1, <4>1, <4>2 DEF MarkInv, Honest
    <3>2. CASE \E clock, id : Reseed(clock, id)
      <4>1. new'.origin = "relink"
        BY <3>2, WriteKeeps DEF Reseed
      <4>2. QED
        BY <4>1 DEF Honest
    <3>3. QED
      BY <1>8, <3>1, <3>2 DEF Recall
  <2>3. QED
    BY <2>1, <2>2 DEF MarkInv, Honest
<1>9. ASSUME SayDrift \/ SayUnknown PROVE MarkInv'
  BY <1>9 DEF SayDrift, SayUnknown, MarkInv, Honest, spool
<1>10. ASSUME Commit PROVE MarkInv'
  <2>1. file' => Honest(memory)'
    BY <1>10 DEF Commit, MarkInv, Honest, spool
  <2>2. QED
    BY <1>10, <2>1 DEF Commit, End, MarkInv, Blank
<1>11. ASSUME UNCHANGED vars PROVE MarkInv'
  BY <1>11 DEF vars, node, farm, spool, poll, history, MarkInv, Honest, Blank
<1>12. QED
  BY <1>1, <1>2, <1>3, <1>4, <1>5, <1>6, <1>7, <1>8, <1>9, <1>10, <1>11
     DEF Next, Aside

\* While memories are written whole, one that calls itself the install's
\* lists every name any memory listed since that install, with memories lost,
\* renames that fail, tables replaced and runs stopped anywhere.
THEOREM MarkNeverFalls == "full" \notin Faults => (Spec => []HighWater)
<1> SUFFICES ASSUME "full" \notin Faults PROVE Spec => []HighWater
  OBVIOUS
<1>1. MarkInv /\ [Next]_vars => MarkInv'
  BY MarkKept
<1>2. MarkInv => HighWater
  BY DEF MarkInv, Honest, HighWater
<1>3. QED
  BY <1>1, <1>2, MarkInitially, PTL DEF Spec

-----------------------------------------------------------------------------
(***************************************************************************)
(* Types.                                                                  *)
(***************************************************************************)
LEMMA NoMemoryType == NoMemory \in Memory
BY MemoryAssumption
   DEF NoMemory, Memory, BootId, Reading, NoReading, Origin

\* What a run leaves behind has its type.
LEMMA EndType == End => /\ pc' = "idle" /\ Blank' /\ new' \in Memory
                        /\ todo' = {} /\ linked' = {} /\ gone' = {}
                        /\ standing' = {} /\ toSay' = {} /\ unsaid' = {}
                        /\ system' = FALSE /\ headed' = FALSE
BY NoMemoryType DEF End, Blank

\* A memory written with parts of their types has its type.
LEMMA WriteType ==
    ASSUME NEW id \in BootId, NEW stamp \in Reading, NEW origin \in Origin,
           NEW names \in SUBSET Name, Write(id, stamp, origin, names)
    PROVE  new' \in Memory /\ headed' \in BOOLEAN
<1>1. PICK some \in Reaching(names) :
        new' = [boot |-> id, asserted |-> stamp, origin |-> origin, names |-> some]
  BY DEF Write
<1>2. some \in SUBSET Name
  BY <1>1 DEF Reaching
<1>3. headed' \in BOOLEAN
  BY DEF Write
<1>4. QED
  BY <1>1, <1>2, <1>3 DEF Memory

LEMMA TypeInitially == Init => TypeOK
<1> SUFFICES ASSUME Init PROVE TypeOK
  OBVIOUS
<1> USE MemoryAssumption, CoverageAssumption DEF Init
<1>1. wrapped \subseteq Name
  BY DEF Table
<1>2. NoMemory \in Memory
  BY NoMemoryType
<1>3. boot \in 1 .. MaxBoot /\ up \in Uptime
  BY DEF Uptime
<1>4. idle \in 0 .. Period /\ missed \in 0 .. MaxMissed
  OBVIOUS
<1>5. quiet \in [Name -> Nat]
  OBVIOUS
<1>6. QED
  BY <1>1, <1>2, <1>3, <1>4, <1>5 DEF TypeOK, Blank

\* The node moves, or a run begins.
LEMMA TypeOfNode ==
    ASSUME TypeOK, Aside \/ Begin \/ Install
    PROVE  TypeOK'
<1> USE MemoryAssumption, CoverageAssumption
<1>1. ASSUME NEW n \in Name, Package(n) PROVE TypeOK'
  <2>1. present' \subseteq Name /\ quiet' \in [Name -> Nat]
    BY <1>1 DEF Package, TypeOK
  <2>2. QED
    BY <1>1, <2>1 DEF Package, TypeOK, Blank, farm, spool, poll
<1>2. ASSUME Tick PROVE TypeOK'
  <2>1. quiet' \in [Name -> Nat]
    BY <1>2 DEF Tick, TypeOK
  <2>2. up' \in Uptime /\ idle' \in 0 .. Period
    BY <1>2 DEF Tick, TypeOK, Uptime
  <2>3. QED
    BY <1>2, <2>1, <2>2 DEF Tick, TypeOK, Blank, farm, spool, poll
<1>3. ASSUME Reboot PROVE TypeOK'
  <2>1. boot' \in 1 .. MaxBoot /\ up' \in Uptime
    BY <1>3 DEF Reboot, TypeOK, Uptime
  <2>2. QED
    BY <1>3, <2>1 DEF Reboot, TypeOK, Blank, farm, spool, poll, history
<1>4. ASSUME Begin PROVE TypeOK'
  BY <1>4 DEF Begin, TypeOK, spool, poll, history
<1>5. ASSUME Install PROVE TypeOK'
  <2>1. file' \in BOOLEAN /\ memory' \in Memory
    BY <1>5, NoMemoryType DEF Install, TypeOK, May
  <2>2. wrapped' \subseteq Name /\ quiet' \in [Name -> Nat]
    BY <1>5 DEF Install, Table
  <2>3. QED
    BY <1>5, <2>1, <2>2 DEF Install, TypeOK
<1>6. QED
  BY <1>1, <1>2, <1>3, <1>4, <1>5 DEF Aside

\* The farm is walked.
LEMMA TypeOfFarm ==
    ASSUME TypeOK, (\E n \in Name : Link(n) \/ Drop(n) \/ Sweep(n)) \/ Tell
    PROVE  TypeOK'
<1>1. ASSUME NEW n \in Name, Link(n) PROVE TypeOK'
  <2>1. /\ links' \subseteq Name /\ linked' \subseteq Name
        /\ todo' \subseteq wrapped /\ quiet' \in [Name -> Nat]
    BY <1>1 DEF Link, TypeOK
  <2>2. QED
    BY <1>1, <2>1 DEF Link, TypeOK, node, spool, poll
<1>2. ASSUME NEW n \in Name, Drop(n) PROVE TypeOK'
  <2>1. /\ links' \subseteq Name /\ gone' \subseteq Name /\ unsaid' \subseteq Name
        /\ todo' \subseteq wrapped
    BY <1>2 DEF Drop, TypeOK
  <2>2. QED
    BY <1>2, <2>1 DEF Drop, TypeOK, node, spool, poll
<1>3. ASSUME NEW n \in Name, Sweep(n) PROVE TypeOK'
  <2>1. links' \subseteq Name /\ gone' \subseteq Name /\ unsaid' \subseteq Name
    BY <1>3 DEF Sweep, TypeOK
  <2>2. QED
    BY <1>3, <2>1 DEF Sweep, TypeOK, node, spool, poll
<1>4. ASSUME Tell PROVE TypeOK'
  <2>1. unsaid' \subseteq Name /\ quiet' \in [Name -> Nat]
    BY <1>4 DEF Tell, TypeOK
  <2>2. QED
    BY <1>4, <2>1 DEF Tell, TypeOK, node, farm, spool, poll
<1>5. QED
  BY <1>1, <1>2, <1>3, <1>4

\* The memory is read, spoken of and written.
LEMMA TypeOfMemory ==
    ASSUME TypeOK,
           Unpinned \/ Seed \/ Recall \/ SayDrift \/ SayUnknown \/ Commit \/ Stop
    PROVE  TypeOK'
<1> USE MemoryAssumption, CoverageAssumption
<1>1. ASSUME Unpinned \/ Stop PROVE TypeOK'
  <2>1. missed' \in 0 .. MaxMissed
    BY <1>1 DEF Unpinned, Stop, TypeOK
  <2>2. QED
    BY <1>1, <2>1, EndType DEF Unpinned, Stop, TypeOK, spool
<1>2. ASSUME NEW noBootId \in BOOLEAN, NEW noUptime \in BOOLEAN
      PROVE  /\ (IF noBootId THEN 0 ELSE boot) \in BootId
             /\ (IF noUptime THEN NoReading ELSE up) \in Reading
  BY DEF TypeOK, BootId, Reading
<1>3. ASSUME Seed PROVE TypeOK'
  <2>1. PICK noUptime \in May("uptime"), noBootId \in May("bootid") :
          Write(IF noBootId THEN 0 ELSE boot,
                IF noUptime THEN NoReading ELSE up, "system", linked)
    BY <1>3 DEF Seed
  <2>2. noUptime \in BOOLEAN /\ noBootId \in BOOLEAN
    BY DEF May
  <2>3. "system" \in Origin /\ linked \in SUBSET Name
    BY DEF Origin, TypeOK
  <2>4. new' \in Memory /\ headed' \in BOOLEAN
    BY <1>2, <2>1, <2>2, <2>3, WriteType
  <2>5. QED
    BY <1>3, <2>4 DEF Seed, TypeOK, node, farm, spool, history
<1>4. ASSUME Recall PROVE TypeOK'
  <2>1. ASSUME NEW clock \in Reading, NEW id \in BootId,
               Compare(clock, id)
        PROVE  /\ new' \in Memory /\ headed' \in BOOLEAN
               /\ standing' \subseteq Name /\ toSay' \subseteq {"drift", "unknown"}
    <3> DEFINE due == memory.boot # id \/ ClockDue(memory.asserted, clock)
    <3>1. Stamp(memory, due, clock) \in Reading /\ memory.origin \in Origin
      BY DEF TypeOK, Memory, Stamp
    <3>2. Union(memory) \in SUBSET Name /\ Standing(memory) \subseteq Name
      BY DEF TypeOK, Memory, Union, Standing
    <3>3. Write(id, Stamp(memory, due, clock), memory.origin, Union(memory))
      BY <2>1 DEF Compare
    <3>4. new' \in Memory /\ headed' \in BOOLEAN
      BY <3>1, <3>2, <3>3, WriteType
    <3>5. QED
      BY <2>1, <3>2, <3>4 DEF Compare
  <2>2. ASSUME NEW clock \in Reading, NEW id \in BootId, Reseed(clock, id)
        PROVE  /\ new' \in Memory /\ headed' \in BOOLEAN
               /\ standing' \subseteq Name /\ toSay' \subseteq {"drift", "unknown"}
    <3>1. "relink" \in Origin /\ linked \in SUBSET Name
      BY DEF Origin, TypeOK
    <3>2. new' \in Memory /\ headed' \in BOOLEAN
      BY <2>2, <3>1, WriteType DEF Reseed
    <3>3. QED
      BY <2>2, <3>2 DEF Reseed
  <2>3. PICK noUptime \in May("uptime"), noBootId \in May("bootid") :
          LET clock == IF noUptime THEN NoReading ELSE up
              id == IF noBootId THEN 0 ELSE boot
          IN Compare(clock, id) \/ Reseed(clock, id)
    BY <1>4 DEF Recall
  <2>4. noUptime \in BOOLEAN /\ noBootId \in BOOLEAN
    BY DEF May
  <2>5. /\ new' \in Memory /\ headed' \in BOOLEAN
        /\ standing' \subseteq Name /\ toSay' \subseteq {"drift", "unknown"}
    BY <1>2, <2>1, <2>2, <2>3, <2>4
  <2>6. QED
    BY <1>4, <2>5 DEF Recall, TypeOK, node, farm, spool, history
<1>5. ASSUME SayDrift \/ SayUnknown PROVE TypeOK'
  <2>1. toSay' \subseteq {"drift", "unknown"}
    BY <1>5 DEF SayDrift, SayUnknown, TypeOK
  <2>2. CASE SayDrift
    <3>1. quiet' \in [Name -> Nat]
      BY <2>2 DEF SayDrift, TypeOK
    <3>2. QED
      BY <2>1, <2>2, <3>1 DEF SayDrift, TypeOK, node, farm, spool
  <2>3. CASE SayUnknown
    <3>1. quiet' \in [Name -> Nat]
      BY <2>3 DEF SayUnknown
    <3>2. QED
      BY <2>1, <2>3, <3>1 DEF SayUnknown, TypeOK, node, farm, spool
  <2>4. QED
    BY <1>5, <2>2, <2>3
<1>6. ASSUME Commit PROVE TypeOK'
  <2>1. file' \in BOOLEAN /\ memory' \in Memory /\ kept' \subseteq Name
    BY <1>6, NoMemoryType DEF Commit, TypeOK, Memory, spool
  <2>2. QED
    BY <1>6, <2>1, EndType DEF Commit, TypeOK, node
<1>7. QED
  BY <1>1, <1>3, <1>4, <1>5, <1>6

\* Every variable keeps its type, under every combination of faults.
THEOREM TypeCorrect == Spec => []TypeOK
<1>1. TypeOK /\ UNCHANGED vars => TypeOK'
  BY DEF TypeOK, Blank, vars, node, farm, spool, poll, history
<1>2. TypeOK /\ [Next]_vars => TypeOK'
  BY <1>1, TypeOfNode, TypeOfFarm, TypeOfMemory DEF Next, Aside
<1>3. QED
  BY <1>2, TypeInitially, PTL DEF Spec

-----------------------------------------------------------------------------
(***************************************************************************)
(* The horizon of drift.  A memory of this boot vouches for every name: no *)
(* name has been missing in silence for longer than its stamp is old.  A   *)
(* run that keeps quiet finds such a stamp younger than the cadence; one   *)
(* that is due speaks of every name a memory ever listed, by its link, by  *)
(* the change record or by the count, which the high-water mark makes      *)
(* complete.  What is said is as old as the last run, and each run that    *)
(* says nothing adds a period.  A disk that is full cuts names off the     *)
(* memory, and a boot id that cannot be read lets a stamp of another boot  *)
(* count: both are assumed away.                                           *)
(***************************************************************************)
MemoryIsTold == Interval >= 1 /\ {"full", "bootid"} \cap Faults = {}

\* No name of `set` has been missing in silence for longer than a stamp is old.
Vouched(stamp, set) ==
    stamp # NoReading => stamp <= up /\ \A n \in set : quiet[n] <= up - stamp

\* What no record of this run has still to speak of.
Settled == Name \ (IF "unknown" \in toSay THEN Name
                   ELSE IF "drift" \in toSay THEN standing ELSE {})

HorizonInv ==
    /\ memory.boot <= boot
    /\ file /\ memory.boot = boot => Vouched(memory.asserted, Name)
    /\ \A n \in Name \ (kept \cap wrapped) : quiet[n] = 0
    /\ pc = "idle" => \A n \in Name : quiet[n] <= Interval - 1 + idle + Period * missed
    /\ pc # "idle" =>
         /\ idle = 0
         /\ system => \A n \in Name : quiet[n] = 0
         /\ \A n \in Name : quiet[n] <= Interval - 1 + Period + Period * missed
         /\ \A n \in linked : quiet[n] = 0
    /\ pc \in {"memory", "say"} => \A n \in gone : quiet[n] = 0
    /\ pc = "say" =>
         /\ new.boot = boot
         /\ \A n \in Settled : quiet[n] < Interval
         /\ Vouched(new.asserted, Settled)

\* What a period is multiplied by.
LEMMA Periods ==
    \A n \in Nat : /\ Period * n \in Nat /\ Period * (n + 1) \in Nat
                   /\ Period * (n + 1) = Period * n + Period
BY MemoryAssumption

\* The numbers the horizon compares.
LEMMA Numbers ==
    ASSUME TypeOK
    PROVE  /\ up \in Nat /\ memory.asserted \in Int /\ new.asserted \in Int
           /\ memory.boot \in Nat /\ boot \in Nat /\ idle \in 0 .. Period
           /\ missed \in Nat /\ Period * missed \in Nat
           /\ Period * (missed + 1) = Period * missed + Period
           /\ quiet \in [Name -> Nat] /\ Interval \in Nat /\ Period \in Nat
BY MemoryAssumption, CoverageAssumption, Periods
   DEF TypeOK, Memory, BootId, Uptime, Reading, NoReading

\* Where nothing but silences that end changes, the horizon stays.
LEMMA QuieterHorizon ==
    ASSUME TypeOK, HorizonInv,
           UNCHANGED <<wrapped, boot, up, idle, missed, spool, pc, system,
                       standing, toSay, new, kept>>,
           quiet' \in [Name -> Nat],
           \A n \in Name : quiet'[n] <= quiet[n],
           \A n \in linked' : quiet'[n] = 0,
           \A n \in gone' : n \in gone \/ pc = "farm",
           gone \subseteq Name
    PROVE  HorizonInv'
<1>1. UNCHANGED <<wrapped, boot, up, idle, missed, file, memory, pc, system,
                  standing, toSay, new, kept>>
  BY DEF spool
<1>2. Settled' = Settled /\ Settled \subseteq Name
  BY <1>1 DEF Settled
<1>3. \A n \in Name : /\ quiet[n] \in Nat /\ quiet'[n] \in Nat
                      /\ quiet'[n] <= quiet[n]
                      /\ quiet[n] = 0 => quiet'[n] = 0
  BY Numbers
<1>4. ASSUME NEW stamp \in Int, NEW set \in SUBSET Name, Vouched(stamp, set)
      PROVE  stamp # NoReading => stamp <= up /\ \A n \in set : quiet'[n] <= up - stamp
  BY <1>3, <1>4, Numbers DEF Vouched
<1>5. (file /\ memory.boot = boot => Vouched(memory.asserted, Name))'
  BY <1>1, <1>4, Numbers DEF HorizonInv, Vouched
<1>6. \A n \in Name \ (kept \cap wrapped) : quiet'[n] = 0
  BY <1>3 DEF HorizonInv
<1>7. pc = "idle" => \A n \in Name : quiet'[n] <= Interval - 1 + idle + Period * missed
  BY <1>3, Numbers DEF HorizonInv
<1>8. pc # "idle" =>
        /\ system => \A n \in Name : quiet'[n] = 0
        /\ \A n \in Name : quiet'[n] <= Interval - 1 + Period + Period * missed
  BY <1>3, Numbers DEF HorizonInv
<1>9. pc \in {"memory", "say"} => \A n \in gone' : quiet'[n] = 0
  BY <1>3 DEF HorizonInv
<1>10. pc = "say" => /\ \A n \in Settled : quiet'[n] < Interval
                     /\ Vouched(new.asserted, Settled)'
  BY <1>1, <1>2, <1>3, <1>4, Numbers DEF HorizonInv, Vouched
<1>11. QED
  BY <1>1, <1>2, <1>5, <1>6, <1>7, <1>8, <1>9, <1>10 DEF HorizonInv

\* A tick adds one to what is missing, to the clock and to the idle time.
LEMMA TickDrift ==
    ASSUME TypeOK, HorizonInv, Tick PROVE HorizonInv'
<1>1. /\ pc = "idle" /\ up' = up + 1 /\ idle' = idle + 1
      /\ quiet' = [n \in Name |-> IF n \in Missing THEN quiet[n] + 1 ELSE 0]
      /\ UNCHANGED <<wrapped, boot, missed, file, memory, pc, kept>>
  BY DEF Tick, spool
<1>2. \A n \in Name : quiet'[n] \in Nat /\ quiet[n] \in Nat /\ quiet'[n] <= quiet[n] + 1
  BY <1>1, Numbers
<1>3. \A n \in Name \ (kept \cap wrapped) : quiet'[n] = 0
  BY <1>1 DEF Missing
<1>4. \A n \in Name : quiet'[n] <= Interval - 1 + (idle + 1) + Period * missed
  <2> SUFFICES ASSUME NEW n \in Name
               PROVE  quiet'[n] <= Interval - 1 + (idle + 1) + Period * missed
    OBVIOUS
  <2> DEFINE w == Period * missed
             a == quiet[n]
             b == quiet'[n]
  <2>1. a <= Interval - 1 + idle + w
    BY <1>1 DEF HorizonInv
  <2>2. w \in Nat /\ a \in Nat /\ b \in Nat /\ b <= a + 1 /\ idle \in Nat
    BY <1>2, Numbers
  <2> HIDE DEF w, a, b
  <2>3. b <= Interval - 1 + (idle + 1) + w
    BY <2>1, <2>2, MemoryAssumption
  <2>4. QED
    BY <2>3 DEF w, b
<1>5. ASSUME file, memory.boot = boot, memory.asserted # NoReading
      PROVE  /\ memory.asserted <= up + 1
             /\ \A n \in Name : quiet'[n] <= (up + 1) - memory.asserted
  BY <1>2, <1>5, Numbers DEF HorizonInv, Vouched
<1>6. QED
  BY <1>1, <1>3, <1>4, <1>5 DEF HorizonInv, Vouched

\* A new boot is one no memory names.
LEMMA RebootDrift ==
    ASSUME TypeOK, HorizonInv, Reboot PROVE HorizonInv'
<1>1. /\ pc = "idle" /\ boot' = boot + 1
      /\ UNCHANGED <<wrapped, idle, missed, file, memory, pc, kept, quiet>>
  BY DEF Reboot, spool, poll, history
<1>2. memory.boot <= boot
  BY DEF HorizonInv
<1>3. memory.boot <= boot' /\ memory.boot # boot'
  BY <1>1, <1>2, Numbers
<1>4. QED
  BY <1>1, <1>3 DEF HorizonInv

\* A run that begins ends the idle time.
LEMMA BeginDrift ==
    ASSUME TypeOK, HorizonInv, Begin PROVE HorizonInv'
<1>1. /\ pc = "idle" /\ pc' = "farm" /\ idle' = 0
      /\ UNCHANGED <<wrapped, boot, up, missed, linked, gone, file, memory,
                     system, standing, toSay, new, kept, quiet>>
  BY DEF Begin, spool, poll, history
<1>2. linked = {} /\ ~system
  BY <1>1 DEF TypeOK, Blank
<1>3. \A n \in Name : quiet[n] <= Interval - 1 + Period + Period * missed
  <2>1. \A n \in Name : quiet[n] <= Interval - 1 + idle + Period * missed
    BY <1>1 DEF HorizonInv
  <2>2. QED
    BY <2>1, Numbers
<1>4. QED
  BY <1>1, <1>2, <1>3 DEF HorizonInv, Vouched

\* An install knows of no name that is missing.
LEMMA InstallDrift ==
    ASSUME TypeOK, HorizonInv, MemoryIsTold, Install PROVE HorizonInv'
<1>1. /\ pc = "idle" /\ pc' = "farm" /\ idle' = 0
      /\ quiet' = [n \in Name |-> 0]
      /\ UNCHANGED <<boot, up, missed, linked>>
  BY DEF Install
<1>2. PICK unpinned \in May("spool") :
        /\ file' = (unpinned /\ file)
        /\ memory' = IF unpinned THEN memory ELSE NoMemory
  BY DEF Install
<1>3. linked \subseteq Name /\ \A n \in Name : quiet'[n] = 0
  BY <1>1 DEF TypeOK
<1>4. memory'.boot <= boot'
  BY <1>1, <1>2, Numbers DEF HorizonInv, NoMemory
<1>5. Interval - 1 + Period + Period * missed \in Nat
  BY Numbers DEF MemoryIsTold
<1>6. \A n \in Name : quiet'[n] <= Interval - 1 + Period + Period * missed
  BY <1>3, <1>5
<1>7. ASSUME file', memory'.boot = boot' PROVE Vouched(memory.asserted, Name)'
  <2>1. file /\ memory.boot = boot /\ memory' = memory
    BY <1>1, <1>2, <1>7
  <2>2. memory.asserted # NoReading => memory.asserted <= up
    BY <2>1 DEF HorizonInv, Vouched
  <2>3. memory.asserted # NoReading =>
          memory.asserted <= up /\ \A n \in Name : quiet'[n] <= up - memory.asserted
    BY <1>3, <2>2, Numbers
  <2>4. QED
    BY <1>1, <2>1, <2>3 DEF Vouched
<1>8. QED
  BY <1>1, <1>3, <1>4, <1>6, <1>7 DEF HorizonInv

\* The change record speaks of whatever the run unlinked.
LEMMA TellDrift ==
    ASSUME TypeOK, HorizonInv, Tell PROVE HorizonInv'
<1>1. /\ pc = "farm" /\ pc' = "memory"
      /\ quiet' = [n \in Name |-> IF n \in gone THEN 0 ELSE quiet[n]]
      /\ UNCHANGED <<wrapped, boot, up, idle, missed, linked, gone, file, memory,
                     system, kept>>
  BY DEF Tell, node, farm, spool, poll
<1>2. \A n \in Name : /\ quiet[n] \in Nat /\ quiet'[n] \in {0, quiet[n]}
                      /\ n \in gone => quiet'[n] = 0
  BY <1>1, Numbers
<1>3. gone \subseteq Name /\ linked \subseteq Name
  BY DEF TypeOK
<1>4. (file /\ memory.boot = boot => Vouched(memory.asserted, Name))'
  BY <1>1, <1>2, Numbers DEF HorizonInv, Vouched
<1>5. \A n \in Name \ (kept \cap wrapped) : quiet'[n] = 0
  BY <1>2 DEF HorizonInv
<1>6. /\ system => \A n \in Name : quiet'[n] = 0
      /\ \A n \in Name : quiet'[n] <= Interval - 1 + Period + Period * missed
      /\ \A n \in linked : quiet'[n] = 0
  BY <1>1, <1>2, <1>3, Numbers DEF HorizonInv
<1>7. QED
  BY <1>1, <1>2, <1>3, <1>4, <1>5, <1>6 DEF HorizonInv

\* A new memory holds the boot and the stamp it is given.
LEMMA WriteStamps ==
    ASSUME NEW id, NEW stamp, NEW origin, NEW names, Write(id, stamp, origin, names)
    PROVE  new'.boot = id /\ new'.asserted = stamp
BY DEF Write

\* The memory an install writes vouches for every name: none is missing.
LEMMA SeedDrift ==
    ASSUME TypeOK, HorizonInv, MemoryIsTold, Seed PROVE HorizonInv'
<1>1. /\ pc = "memory" /\ pc' = "say" /\ system
      /\ UNCHANGED <<wrapped, boot, up, idle, missed, linked, gone, file, memory,
                     system, standing, toSay, kept, quiet>>
  BY DEF Seed, node, farm, spool, history
<1>2. new'.boot = boot /\ new'.asserted \in {NoReading, up}
  <2>1. PICK noUptime \in May("uptime"), noBootId \in May("bootid") :
          Write(IF noBootId THEN 0 ELSE boot,
                IF noUptime THEN NoReading ELSE up, "system", linked)
    BY DEF Seed
  <2>2. ~noBootId
    BY DEF May, MemoryIsTold
  <2>3. QED
    BY <2>1, <2>2, WriteStamps
<1>3. \A n \in Name : quiet[n] = 0
  BY <1>1 DEF HorizonInv
<1>4. \A n \in Name : quiet'[n] < Interval
  BY <1>1, <1>3, Numbers DEF MemoryIsTold
<1>5. new'.asserted # NoReading =>
        new'.asserted <= up /\ \A n \in Name : quiet'[n] <= up - new'.asserted
  BY <1>1, <1>2, <1>3, Numbers
<1>6. Settled' \subseteq Name
  BY DEF Settled
<1>7. QED
  BY <1>1, <1>2, <1>4, <1>5, <1>6 DEF HorizonInv, Vouched

\* A run that is due speaks of every name, and one that is not finds a stamp
\* that vouches for every name.
LEMMA RecallDrift ==
    ASSUME TypeOK, HorizonInv, MarkInv, MemoryIsTold, Recall PROVE HorizonInv'
<1>1. /\ pc = "memory" /\ pc' = "say" /\ ~system
      /\ UNCHANGED <<wrapped, boot, up, idle, missed, linked, gone, file, memory,
                     system, kept, quiet>>
  BY DEF Recall, node, farm, spool, history
<1>2. PICK clock \in {NoReading, up} :
        \/ file /\ Compare(clock, boot)
        \/ Reseed(clock, boot)
  <2>1. PICK lost \in May("lost"), noUptime \in May("uptime"), noBootId \in May("bootid") :
          LET clock == IF noUptime THEN NoReading ELSE up
              id == IF noBootId THEN 0 ELSE boot
              readable == file /\ ~lost /\ memory.names \subseteq wrapped
          IN \/ readable /\ Compare(clock, id)
             \/ ~readable /\ Reseed(clock, id)
    BY DEF Recall
  <2>2. ~noBootId
    BY DEF May, MemoryIsTold
  <2>3. QED
    BY <2>1, <2>2
<1>3. new'.boot = boot
  BY <1>2, WriteStamps DEF Compare, Reseed
<1>4. Settled' \subseteq Name
  BY DEF Settled
<1>5. SUFFICES /\ \A n \in Settled' : quiet[n] < Interval
               /\ new'.asserted # NoReading =>
                    /\ new'.asserted <= up
                    /\ \A n \in Settled' : quiet[n] <= up - new'.asserted
  BY <1>1, <1>3 DEF HorizonInv, Vouched
<1>6. CASE Reseed(clock, boot)
  <2>1. Settled' = {}
    BY <1>6 DEF Reseed, Settled
  <2>2. new'.asserted = clock
    BY <1>6, WriteStamps DEF Reseed
  <2>3. QED
    BY <1>2, <2>1, <2>2, Numbers
<1>7. CASE file /\ Compare(clock, boot)
  <2> DEFINE due == memory.boot # boot \/ ClockDue(memory.asserted, clock)
  <2>1. /\ standing' = Standing(memory)
        /\ toSay' = {r \in {"drift", "unknown"} :
                       /\ due
                       /\ r = "drift" => Standing(memory) # {}
                       /\ r = "unknown" => memory.origin = "relink"}
        /\ new'.asserted = Stamp(memory, due, clock)
    BY <1>7, WriteStamps DEF Compare
  <2>2. CASE due
    <3>1. new'.asserted = clock
      BY <2>1, <2>2 DEF Stamp
    <3>2. ASSUME NEW n \in Settled' PROVE quiet[n] = 0
      <4>1. n \in Name /\ "unknown" \notin toSay'
        BY <3>2 DEF Settled
      <4>2. memory.origin = "system"
        <5>1. memory.origin \in {"system", "relink"}
          BY DEF TypeOK, Memory, Origin
        <5>2. QED
          BY <2>1, <2>2, <4>1, <5>1
      <4>3. n \notin Standing(memory)
        BY <2>1, <2>2, <3>2, <4>1 DEF Settled
      <4>4. n \notin kept \/ n \in linked \cup gone
        BY <1>7, <4>2, <4>3 DEF MarkInv, Honest, Standing
      <4>5. QED
        BY <1>1, <4>1, <4>4 DEF HorizonInv
    <3>3. QED
      BY <1>2, <1>4, <3>1, <3>2, Numbers DEF MemoryIsTold
  <2>3. CASE ~due
    <3>1. new'.asserted = memory.asserted
      BY <2>1, <2>3 DEF Stamp
    <3>2. /\ memory.boot = boot /\ memory.asserted # NoReading /\ clock = up
          /\ memory.asserted <= up /\ up - memory.asserted < Interval
      BY <1>2, <2>3, Numbers DEF ClockDue
    <3>3. \A n \in Name : quiet[n] <= up - memory.asserted
      BY <1>7, <3>2 DEF HorizonInv, Vouched
    <3>4. QED
      BY <1>4, <3>1, <3>2, <3>3, Numbers
  <2>4. QED
    BY <2>2, <2>3
<1>8. QED
  BY <1>2, <1>6, <1>7

\* The count settles what it counts, and `unknown` settles everything.
LEMMA SayHorizon ==
    ASSUME TypeOK, HorizonInv, MemoryIsTold, SayDrift \/ SayUnknown
    PROVE  HorizonInv'
<1>1. /\ pc = "say" /\ pc' = "say"
      /\ UNCHANGED <<wrapped, boot, up, idle, missed, linked, gone, file, memory,
                     system, standing, new, kept>>
  BY DEF SayDrift, SayUnknown, node, farm, spool
<1>2. \A n \in Name : /\ quiet[n] \in Nat /\ quiet'[n] \in {0, quiet[n]}
                      /\ n \in Settled' \ Settled => quiet'[n] = 0
  <2>1. quiet \in [Name -> Nat]
    BY Numbers
  <2>2. CASE SayDrift
    <3>1. toSay' = toSay \ {"drift"} /\ "drift" \in toSay
          /\ quiet' = [n \in Name |-> IF n \in standing THEN 0 ELSE quiet[n]]
          /\ standing' = standing
      BY <2>2 DEF SayDrift
    <3>2. Settled' \ Settled \subseteq standing
      BY <3>1 DEF Settled
    <3>3. QED
      BY <2>1, <3>1, <3>2
  <2>3. CASE SayUnknown
    BY <2>1, <2>3 DEF SayUnknown
  <2>4. QED
    BY <2>2, <2>3
<1>3. Settled' \subseteq Name /\ linked \subseteq Name /\ gone \subseteq Name
  BY DEF Settled, TypeOK
<1>4. (file /\ memory.boot = boot => Vouched(memory.asserted, Name))'
  BY <1>1, <1>2, Numbers DEF HorizonInv, Vouched
<1>5. \A n \in Name \ (kept \cap wrapped) : quiet'[n] = 0
  BY <1>2 DEF HorizonInv
<1>6. /\ system => \A n \in Name : quiet'[n] = 0
      /\ \A n \in Name : quiet'[n] <= Interval - 1 + Period + Period * missed
      /\ \A n \in linked \cup gone : quiet'[n] = 0
  <2>1. \A n \in Name : quiet'[n] <= quiet[n] /\ quiet'[n] \in Nat
    BY <1>2
  <2>2. QED
    BY <1>1, <1>2, <1>3, <2>1, Numbers DEF HorizonInv
<1>7. \A n \in Settled' : quiet'[n] < Interval
  BY <1>1, <1>2, <1>3, Numbers DEF HorizonInv, MemoryIsTold
<1>8. ASSUME new.asserted # NoReading
      PROVE  new.asserted <= up /\ \A n \in Settled' : quiet'[n] <= up - new.asserted
  BY <1>1, <1>2, <1>3, <1>8, Numbers DEF HorizonInv, Vouched
<1>9. QED
  BY <1>1, <1>4, <1>5, <1>6, <1>7, <1>8 DEF HorizonInv, Vouched

\* A run that ends has settled every name.
LEMMA CommitDrift ==
    ASSUME TypeOK, HorizonInv, MemoryIsTold, Commit PROVE HorizonInv'
<1>1. /\ pc = "say" /\ pc' = "idle" /\ toSay = {} /\ kept \subseteq kept'
      /\ UNCHANGED <<wrapped, boot, up, idle, missed, quiet>>
      /\ \/ file' = headed /\ memory' = IF headed THEN new ELSE NoMemory
         \/ UNCHANGED <<file, memory>>
  BY DEF Commit, End, node, spool
<1>2. Settled = Name
  BY <1>1 DEF Settled
<1>3. \A n \in Name : quiet[n] <= Interval - 1
  BY <1>1, <1>2, Numbers DEF HorizonInv
<1>4. \A n \in Name : quiet'[n] <= Interval - 1 + idle' + Period * missed'
  BY <1>1, <1>3, Numbers
<1>5. \A n \in Name \ (kept' \cap wrapped') : quiet'[n] = 0
  BY <1>1 DEF HorizonInv
<1>6. /\ memory'.boot <= boot
      /\ file' /\ memory'.boot = boot => Vouched(memory.asserted, Name)'
  <2>1. CASE UNCHANGED <<file, memory>>
    BY <1>1, <2>1 DEF HorizonInv, Vouched
  <2>2. CASE file' = headed /\ memory' = IF headed THEN new ELSE NoMemory
    <3>1. CASE headed
      <4>1. memory' = new /\ new.boot = boot /\ Vouched(new.asserted, Name)
        BY <1>1, <1>2, <2>2, <3>1 DEF HorizonInv
      <4>2. QED
        BY <1>1, <4>1, Numbers DEF Vouched
    <3>2. CASE ~headed
      BY <1>1, <2>2, <3>2, Numbers DEF NoMemory
    <3>3. QED
      BY <3>1, <3>2
  <2>3. QED
    BY <1>1, <2>1, <2>2
<1>7. QED
  BY <1>1, <1>4, <1>5, <1>6 DEF HorizonInv

\* A run that says nothing of the memory adds one period.
LEMMA MissedDrift ==
    ASSUME TypeOK, HorizonInv, Unpinned \/ Stop PROVE HorizonInv'
<1>1. /\ pc # "idle" /\ pc' = "idle" /\ missed' = missed + 1
      /\ UNCHANGED <<wrapped, boot, up, idle, file, memory, kept, quiet>>
  BY DEF Unpinned, Stop, End, spool
<1>2. Period * missed' = Period * missed + Period
  BY <1>1, Numbers
<1>3. idle = 0 /\ \A n \in Name : quiet[n] <= Interval - 1 + Period + Period * missed
  BY <1>1 DEF HorizonInv
<1>4. \A n \in Name : quiet'[n] <= Interval - 1 + idle' + Period * missed'
  BY <1>1, <1>2, <1>3, Numbers
<1>5. QED
  BY <1>1, <1>4 DEF HorizonInv, Vouched

LEMMA HorizonKept ==
    ASSUME TypeOK, HorizonInv, MarkInv, MemoryIsTold, [Next]_vars
    PROVE  HorizonInv'
<1>1. ASSUME NEW n \in Name, Package(n) PROVE HorizonInv'
  <2>1. quiet' = [quiet EXCEPT ![n] = 0]
        /\ UNCHANGED <<wrapped, boot, up, idle, missed, linked, gone, spool, pc,
                       system, standing, toSay, new, kept>>
    BY <1>1 DEF Package, farm, poll
  <2>2. \A m \in Name : quiet'[m] \in {0, quiet[m]}
    BY <2>1, Numbers
  <2>3. \A m \in linked' : quiet'[m] = 0
    BY <2>1, <2>2 DEF HorizonInv, TypeOK, Blank
  <2>4. QED
    BY <2>1, <2>2, <2>3, QuieterHorizon, Numbers DEF TypeOK
<1>2. ASSUME NEW n \in Name, Link(n) PROVE HorizonInv'
  <2>1. quiet' = [quiet EXCEPT ![n] = 0] /\ linked' = linked \cup {n} /\ pc = "farm"
        /\ UNCHANGED <<wrapped, boot, up, idle, missed, gone, spool, pc,
                       system, standing, toSay, new, kept>>
    BY <1>2 DEF Link, node, poll
  <2>2. \A m \in Name : quiet'[m] \in {0, quiet[m]} /\ quiet'[n] = 0
    BY <2>1, Numbers
  <2>3. \A m \in linked' : quiet'[m] = 0
    BY <2>1, <2>2 DEF HorizonInv, TypeOK
  <2>4. QED
    BY <2>1, <2>2, <2>3, QuieterHorizon, Numbers DEF TypeOK
<1>3. ASSUME NEW n \in Name, Drop(n) \/ Sweep(n) PROVE HorizonInv'
  <2>1. /\ pc = "farm"
        /\ UNCHANGED <<wrapped, boot, up, idle, missed, linked, spool, pc, quiet,
                       system, standing, toSay, new, kept>>
    BY <1>3 DEF Drop, Sweep, node, poll
  <2>2. \A m \in linked' : quiet'[m] = 0
    BY <2>1 DEF HorizonInv
  <2>3. QED
    BY <2>1, <2>2, QuieterHorizon, Numbers DEF TypeOK
<1>4. ASSUME Tick PROVE HorizonInv'
  BY <1>4, TickDrift
<1>5. ASSUME Reboot PROVE HorizonInv'
  BY <1>5, RebootDrift
<1>6. ASSUME Begin PROVE HorizonInv'
  BY <1>6, BeginDrift
<1>7. ASSUME Install PROVE HorizonInv'
  BY <1>7, InstallDrift
<1>8. ASSUME Tell PROVE HorizonInv'
  BY <1>8, TellDrift
<1>9. ASSUME Unpinned \/ Stop PROVE HorizonInv'
  BY <1>9, MissedDrift
<1>10. ASSUME Seed PROVE HorizonInv'
  BY <1>10, SeedDrift
<1>11. ASSUME Recall PROVE HorizonInv'
  BY <1>11, RecallDrift
<1>12. ASSUME SayDrift \/ SayUnknown PROVE HorizonInv'
  BY <1>12, SayHorizon
<1>13. ASSUME Commit PROVE HorizonInv'
  BY <1>13, CommitDrift
<1>14. ASSUME UNCHANGED vars PROVE HorizonInv'
  BY <1>14 DEF vars, node, farm, spool, poll, history, HorizonInv, Vouched, Settled
<1>15. QED
  BY <1>1, <1>2, <1>3, <1>4, <1>5, <1>6, <1>7, <1>8, <1>9, <1>10, <1>11,
     <1>12, <1>13, <1>14 DEF Next

\* While memories are written whole and boot ids can be read, no name a memory
\* ever listed is missing in silence for longer than the cadence, a run's wait
\* and one for each run that said nothing, whatever else fails:
\* node/shim/install.sh:2737-2890.
THEOREM DriftEnds == MemoryIsTold => (Spec => []DriftHasHorizon)
<1> SUFFICES ASSUME MemoryIsTold PROVE Spec => []DriftHasHorizon
  OBVIOUS
<1>1. Init => HorizonInv
  <2> SUFFICES ASSUME Init PROVE HorizonInv
    OBVIOUS
  <2>1. \A n \in Name : quiet[n] = 0
    BY DEF Init
  <2>2. Period * 0 \in Nat
    BY Periods
  <2>3. QED
    BY <2>1, <2>2, MemoryAssumption DEF Init, HorizonInv, NoMemory, MemoryIsTold
<1>2. TypeOK /\ MarkInv /\ HorizonInv /\ [Next]_vars => MarkInv' /\ HorizonInv'
  BY HorizonKept, MarkKept DEF MemoryIsTold
<1>3. TypeOK /\ HorizonInv => DriftHasHorizon
  <2> SUFFICES ASSUME TypeOK, HorizonInv, NEW n \in Name
               PROVE  quiet[n] < Interval + Period * (1 + missed)
    BY DEF DriftHasHorizon
  <2>1. /\ idle \in 0 .. Period /\ Period * missed \in Nat /\ quiet[n] \in Nat
        /\ Period * (1 + missed) = Period * missed + Period
    BY Numbers
  <2>2. quiet[n] <= Interval - 1 + Period + Period * missed
    BY <2>1, MemoryAssumption DEF HorizonInv
  <2>3. QED
    BY <2>1, <2>2, MemoryAssumption
<1>4. QED
  BY <1>1, <1>2, <1>3, MarkInitially, TypeCorrect, PTL DEF Spec
=============================================================================
