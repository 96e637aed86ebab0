----------------------- MODULE UncoveredMountsProofs -----------------------
(***************************************************************************)
(* What the runs check of UncoveredMounts on one or two mounts, proved for *)
(* every set of mounts and types, every cadence, period and bound, and     *)
(* under the faults each theorem names.                                    *)
(***************************************************************************)
EXTENDS UncoveredMounts, TLAPS

-----------------------------------------------------------------------------
(***************************************************************************)
(* Types.                                                                  *)
(***************************************************************************)
LEMMA NoMemoryType == NoMemory \in Memory
BY MemoryAssumption DEF NoMemory, Memory, BootId, Reading, NoReading

LEMMA MayType == ASSUME NEW fault PROVE May(fault) \subseteq BOOLEAN
BY DEF May

LEMMA InitType == Init => TypeOK
<1> SUFFICES ASSUME Init PROVE TypeOK
  OBVIOUS
<1> USE MemoryAssumption, UncoveredAssumption DEF Init
<1>1. NoMemory \in Memory
  BY NoMemoryType
<1>2. journal \in [Key -> Word] /\ quiet \in [Key -> Nat]
  BY DEF Word
<1>3. boot \in 1 .. MaxBoot /\ up \in Uptime /\ me \in BootId /\ now \in Reading
  BY DEF Uptime, Reading, NoReading, BootId
<1>4. idle \in 0 .. Period /\ stops \in 0 .. MaxStops
  OBVIOUS
<1>5. QED
  BY <1>1, <1>2, <1>3, <1>4 DEF TypeOK

\* A step of the node: mounts, time, boots and installs.
LEMMA NodeType ==
    ASSUME TypeOK,
           (\E m \in MountPoint : Remount(m)) \/ Tick \/ Reboot \/ Install
    PROVE  TypeOK'
<1> USE MemoryAssumption, UncoveredAssumption
<1>1. ASSUME NEW m \in MountPoint, Remount(m) PROVE TypeOK'
  <2>1. table' \in [MountPoint -> Fs \cup {"cheap", "none"}]
    BY <1>1 DEF Remount, TypeOK
  <2>2. quiet' \in [Key -> Nat]
    BY <1>1 DEF Remount, TypeOK
  <2>3. QED
    BY <1>1, <2>1, <2>2 DEF Remount, TypeOK, spool, poll
<1>2. ASSUME Tick PROVE TypeOK'
  <2>1. quiet' \in [Key -> Nat]
    BY <1>2 DEF Tick, TypeOK
  <2>2. up' \in Uptime /\ idle' \in 0 .. Period
    BY <1>2 DEF Tick, TypeOK, Uptime
  <2>3. QED
    BY <1>2, <2>1, <2>2 DEF Tick, TypeOK, spool, poll
<1>3. ASSUME Reboot PROVE TypeOK'
  <2>1. boot' \in 1 .. MaxBoot /\ up' \in Uptime
    BY <1>3 DEF Reboot, TypeOK, Uptime
  <2>2. journal' \in [Key -> Word]
    BY <1>3 DEF Reboot, Word
  <2>3. QED
    BY <1>3, <2>1, <2>2 DEF Reboot, TypeOK, spool, poll
<1>4. ASSUME Install PROVE TypeOK'
  <2>1. file' \in BOOLEAN /\ memory' \in Memory
    BY <1>4, NoMemoryType, MayType DEF Install, TypeOK
  <2>2. quiet' \in [Key -> Nat]
    BY <1>4 DEF Install
  <2>3. QED
    BY <1>4, <2>1, <2>2 DEF Install, TypeOK, poll
<1>5. QED
  BY <1>1, <1>2, <1>3, <1>4

\* What a poll holds once it has begun has its type.
LEMMA BeginType == ASSUME TypeOK, Begin PROVE TypeOK'
<1> USE MemoryAssumption, UncoveredAssumption
<1>1. PICK unpinned \in May("spool"), lost \in May("lost"),
           noUptime \in May("uptime"), noBootId \in May("bootid") :
        /\ pinned' = ~unpinned
        /\ me' = IF noBootId THEN 0 ELSE boot
        /\ now' = IF noUptime THEN NoReading ELSE up
        /\ prev' = IF unpinned \/ lost \/ ~file THEN NoMemory ELSE memory
        /\ fresh' = (\/ unpinned \/ lost \/ ~file
                     \/ ~SameBoot(memory, me'))
        /\ due' = ClockDue(prev'.asserted, now')
        /\ looked' = Uncovered
        /\ \E lines \in Reaching(looked'), head \in Reaching({"boot", "asserted"}) :
             /\ headed' = ("boot" \in head /\ pinned')
             /\ new' = [boot |-> me', listed |-> lines,
                        asserted |-> IF "asserted" \in head
                                     THEN Stamp(fresh', due', prev', now')
                                     ELSE NoReading]
  BY DEF Begin
<1>2. pinned' \in BOOLEAN /\ fresh' \in BOOLEAN /\ headed' \in BOOLEAN
  BY <1>1, MayType
<1>3. me' \in BootId /\ now' \in Reading
  BY <1>1 DEF TypeOK, BootId, Reading, Uptime, NoReading
<1>4. prev' \in Memory
  BY <1>1, NoMemoryType DEF TypeOK
<1>5. due' \in BOOLEAN
  BY <1>1 DEF ClockDue
<1>6. looked' \subseteq Key /\ todo' \subseteq Key
  BY <1>1 DEF Begin, Uncovered
<1>7. Stamp(fresh', due', prev', now') \in Reading /\ NoReading \in Reading
  BY <1>3, <1>4 DEF Stamp, Memory, Reading
<1>8. new' \in Memory
  <2>1. PICK lines \in Reaching(looked'), head \in Reaching({"boot", "asserted"}) :
          new' = [boot |-> me', listed |-> lines,
                  asserted |-> IF "asserted" \in head
                               THEN Stamp(fresh', due', prev', now')
                               ELSE NoReading]
    BY <1>1
  <2>2. lines \in SUBSET Key
    BY <1>6 DEF Reaching
  <2>3. QED
    BY <1>3, <1>7, <2>1, <2>2 DEF Memory
<1>9. /\ pc' = "raise" /\ idle' = 0
      /\ UNCHANGED <<table, override, boot, up, stops, file, memory, journal, quiet>>
  BY DEF Begin, spool
<1>10. QED
  BY <1>2, <1>3, <1>4, <1>5, <1>6, <1>8, <1>9 DEF TypeOK

\* What is left of a poll that is over has its type.
LEMMA EndType ==
    End => /\ prev' \in Memory /\ new' \in Memory
           /\ me' \in BootId /\ now' \in Reading
BY NoMemoryType, MemoryAssumption DEF End, Reading, NoReading, BootId

\* The steps of a poll after its first.
LEMMA PollType ==
    ASSUME TypeOK,
           (\E k \in Key : Raise(k) \/ Answer(k)) \/ Turn \/ Commit \/ Stop
    PROVE  TypeOK'
<1> USE MemoryAssumption, UncoveredAssumption
<1>1. ASSUME NEW k \in Key, Raise(k) PROVE TypeOK'
  <2>1. journal' \in [Key -> Word] /\ quiet' \in [Key -> Nat]
    BY <1>1 DEF Raise, TypeOK, Word
  <2>2. QED
    BY <1>1, <2>1 DEF Raise, TypeOK, node, spool, poll
<1>2. ASSUME NEW k \in Key, Answer(k) PROVE TypeOK'
  <2>1. journal' \in [Key -> Word]
    BY <1>2 DEF Answer, TypeOK, Word
  <2>2. QED
    BY <1>2, <2>1 DEF Answer, TypeOK, node, spool, poll
<1>3. ASSUME Turn PROVE TypeOK'
  <2>1. todo' \subseteq Key
    BY <1>3 DEF Turn, Gone, TypeOK, Memory
  <2>2. QED
    BY <1>3, <2>1 DEF Turn, TypeOK, node, spool, poll
<1>4. ASSUME Commit PROVE TypeOK'
  <2>1. file' \in BOOLEAN /\ memory' \in Memory
    BY <1>4, NoMemoryType DEF Commit, TypeOK, spool
  <2>2. QED
    BY <1>4, <2>1, EndType DEF Commit, End, TypeOK, node
<1>5. ASSUME Stop PROVE TypeOK'
  <2>1. stops' \in 0 .. MaxStops /\ idle' \in 0 .. Period
    BY <1>5 DEF Stop, TypeOK
  <2>2. QED
    BY <1>5, <2>1, EndType DEF Stop, End, TypeOK, spool
<1>6. QED
  BY <1>1, <1>2, <1>3, <1>4, <1>5

\* Every variable keeps its type, under every fault.
THEOREM TypeCorrect == Spec => []TypeOK
<1>1. TypeOK /\ [Next]_vars => TypeOK'
  <2> SUFFICES ASSUME TypeOK, [Next]_vars PROVE TypeOK'
    OBVIOUS
  <2>1. CASE Next
    BY <2>1, NodeType, BeginType, PollType DEF Next
  <2>2. CASE UNCHANGED vars
    BY <2>2 DEF vars, node, spool, poll, TypeOK
  <2>3. QED
    BY <2>1, <2>2
<1>2. QED
  BY InitType, <1>1, PTL DEF Spec

-----------------------------------------------------------------------------
(***************************************************************************)
(* The journal's promise: UncoveredMounts implements StandingCondition.    *)
(*                                                                         *)
(* A poll raises only what its look found, and answers only what the new   *)
(* memory does not list.  The two exclude each other because the new       *)
(* memory lists the whole look, which a full disk would break: that it is  *)
(* not among the faults is the assumption.                                 *)
(***************************************************************************)
\* Where a poll stands with the mounts it has still to take.
LookInv ==
    /\ pc # "idle" => new.listed = looked
    /\ pc = "raise" => todo \subseteq looked
    /\ pc = "answer" => todo \cap looked = {}

\* A poll on a disk that is not full writes down all it looked at.
LEMMA BeginWrites ==
    ASSUME TypeOK, Begin, "full" \notin Faults
    PROVE  /\ looked' = Uncovered /\ new'.listed = looked' /\ new'.boot = me'
           /\ todo' \subseteq looked' /\ pc' = "raise" /\ headed' = pinned'
<1>1. /\ looked' = Uncovered /\ pc' = "raise"
      /\ todo' = IF fresh' \/ due' THEN looked' ELSE looked' \ prev'.listed
  BY DEF Begin
<1>2. /\ new'.listed = looked' /\ new'.boot = me'
      /\ headed' = ("boot" \in {"boot", "asserted"} /\ pinned')
  BY DEF Begin, Reaching
<1>3. QED
  BY <1>1, <1>2 DEF Begin, May

LEMMA LookInitially == Init => LookInv
BY DEF Init, LookInv

LEMMA LookKept ==
    ASSUME TypeOK, LookInv, [Next]_vars, "full" \notin Faults
    PROVE  LookInv'
<1>1. ASSUME NEW m \in MountPoint, Remount(m) PROVE LookInv'
  BY <1>1 DEF Remount, LookInv, poll
<1>2. ASSUME Tick \/ Reboot \/ Install PROVE LookInv'
  BY <1>2 DEF Tick, Reboot, Install, LookInv, poll
<1>3. ASSUME Begin PROVE LookInv'
  BY <1>3, BeginWrites DEF LookInv
<1>4. ASSUME NEW k \in Key, Raise(k) PROVE LookInv'
  BY <1>4 DEF Raise, LookInv, poll
<1>5. ASSUME NEW k \in Key, Answer(k) PROVE LookInv'
  BY <1>5 DEF Answer, LookInv, poll
<1>6. ASSUME Turn PROVE LookInv'
  BY <1>6 DEF Turn, Gone, LookInv, poll
<1>7. ASSUME Commit \/ Stop PROVE LookInv'
  BY <1>7 DEF Commit, Stop, End, LookInv
<1>8. ASSUME UNCHANGED vars PROVE LookInv'
  BY <1>8 DEF vars, poll, LookInv
<1>9. QED
  BY <1>1, <1>2, <1>3, <1>4, <1>5, <1>6, <1>7, <1>8 DEF Next

THEOREM LookInvariant == "full" \notin Faults => (Spec => []LookInv)
<1> SUFFICES ASSUME "full" \notin Faults PROVE Spec => []LookInv
  OBVIOUS
<1>1. TypeOK /\ LookInv /\ [Next]_vars => LookInv'
  BY LookKept
<1>2. QED
  BY <1>1, LookInitially, TypeCorrect, PTL DEF Spec

\* A mount the same poll found uncovered is never answered: no `covered` or
\* `unmounted` for what stands, while the new memory can be written.
THEOREM NoFalseAnswer == "full" \notin Faults => (Spec => []AnswersAreTrue)
<1> SUFFICES ASSUME "full" \notin Faults PROVE Spec => []AnswersAreTrue
  OBVIOUS
<1>1. LookInv => AnswersAreTrue
  BY DEF LookInv, AnswersAreTrue
<1>2. QED
  BY <1>1, LookInvariant, PTL

\* One step of the relink is one step of the reporter, or none.
LEMMA StepRefines ==
    ASSUME TypeOK, LookInv, [Next]_vars, "full" \notin Faults
    PROVE  [Journal!Next]_<<looked, Told>>
<1>1. ASSUME NEW k \in Key, Raise(k) PROVE Journal!Raise(k)
  <2>1. looked' = looked /\ k \in looked
    BY <1>1 DEF Raise, LookInv, poll
  <2>2. Told' = Told \cup {k}
    BY <1>1 DEF Raise, Told, TypeOK
  <2>3. QED
    BY <2>1, <2>2 DEF Journal!Raise
<1>2. ASSUME NEW k \in Key, Answer(k) PROVE Journal!Answer(k)
  <2>1. looked' = looked /\ k \notin looked
    BY <1>2 DEF Answer, LookInv, poll
  <2>2. Told' = Told \ {k}
    BY <1>2 DEF Answer, Told, TypeOK
  <2>3. QED
    BY <2>1, <2>2 DEF Journal!Answer
<1>3. ASSUME Reboot PROVE Journal!Forget
  BY <1>3 DEF Reboot, Told, poll, Journal!Forget
<1>4. ASSUME Begin PROVE Journal!Look
  <2>1. looked' \in SUBSET Key
    BY <1>4, BeginWrites DEF Uncovered
  <2>2. Told' = Told
    BY <1>4 DEF Begin, Told
  <2>3. QED
    BY <2>1, <2>2 DEF Journal!Look
<1>5. ASSUME \/ \E m \in MountPoint : Remount(m)
             \/ Tick \/ Install \/ Turn \/ Commit \/ Stop \/ UNCHANGED vars
      PROVE  UNCHANGED <<looked, Told>>
  BY <1>5 DEF Remount, Tick, Install, Turn, Commit, Stop, End, Told, vars, poll
<1>6. QED
  BY <1>1, <1>2, <1>3, <1>4, <1>5 DEF Next, Journal!Next

\* Unless the disk is full, the relink's journal keeps StandingCondition's
\* promise, whatever is stopped, lost, rebooted, remounted or installed.
THEOREM JournalIsTrue == "full" \notin Faults => (Spec => Promise)
<1> SUFFICES ASSUME "full" \notin Faults PROVE Spec => Promise
  OBVIOUS
<1>1. Init => Journal!Init
  BY DEF Init, Told, Journal!Init
<1>2. TypeOK /\ LookInv /\ [Next]_vars => [Journal!Next]_<<looked, Told>>
  BY StepRefines
<1>3. QED
  BY <1>1, <1>2, TypeCorrect, LookInvariant, PTL DEF Spec, Promise, Journal!Spec

-----------------------------------------------------------------------------
(***************************************************************************)
(* Announced at the first poll.                                            *)
(*                                                                         *)
(* A poll keeps quiet about a mount only because the memory of this boot   *)
(* lists it, so the property hangs on what a listed mount means: the       *)
(* journal's last word on it is `expensive`.  An answer breaks that until  *)
(* the commit drops the mount from the memory; a stop or a failed rename   *)
(* in between leaves it broken, and a boot id that cannot be read lets a   *)
(* memory of another boot count, so none of them may happen here.          *)
(***************************************************************************)
ReportedInFull ==
    /\ MaxStops = 0
    /\ Faults \cap {"full", "rename", "bootid"} = {}

\* Every mount of `set` was last spoken of as uncovered.
Said(set) == set \subseteq Told

AnnounceInv ==
    /\ memory.boot <= boot
    /\ \/ pc = "answer" /\ pinned
       \/ memory.boot = boot => Said(memory.listed)
    /\ pc # "idle" => new.boot = boot /\ headed = pinned
    /\ pc = "raise" => Said(looked \ todo) /\ (fresh \/ Said(prev.listed))
    /\ pc = "answer" => Said(looked) /\ Said(todo) /\ (pinned \/ todo = {})

LEMMA AnnounceInitially == Init => AnnounceInv
BY DEF Init, AnnounceInv, NoMemory, Said, Told

LEMMA AnnounceKept ==
    ASSUME TypeOK, LookInv, LookInv', AnnounceInv, [Next]_vars, ReportedInFull
    PROVE  AnnounceInv'
<1> USE MemoryAssumption
<1>1. ASSUME NEW m \in MountPoint, Remount(m) PROVE AnnounceInv'
  BY <1>1 DEF Remount, AnnounceInv, Said, Told, spool, poll
<1>2. ASSUME Tick PROVE AnnounceInv'
  BY <1>2 DEF Tick, AnnounceInv, Said, Told, spool, poll
<1>3. ASSUME Reboot PROVE AnnounceInv'
  <2>1. memory.boot \in Int /\ boot \in Int
    BY DEF TypeOK, Memory, BootId
  <2>2. memory'.boot < boot'
    BY <1>3, <2>1 DEF Reboot, AnnounceInv, spool
  <2>3. QED
    BY <1>3, <2>1, <2>2 DEF Reboot, AnnounceInv, spool
<1>4. ASSUME Install PROVE AnnounceInv'
  <2>1. memory' = memory \/ memory' = NoMemory
    BY <1>4 DEF Install
  <2>2. boot \in Nat \ {0}
    BY DEF TypeOK
  <2>3. pc' = "idle" /\ pc = "idle" /\ boot' = boot /\ Told' = Told
    BY <1>4 DEF Install, Told
  <2>4. NoMemory.boot <= boot /\ NoMemory.boot # boot
    BY <2>2 DEF NoMemory
  <2>5. QED
    BY <2>1, <2>3, <2>4 DEF AnnounceInv, Said
<1>5. ASSUME Begin PROVE AnnounceInv'
  <2>1. "full" \notin Faults /\ "bootid" \notin Faults
    BY DEF ReportedInFull
  <2>2. me' = boot
    BY <1>5, <2>1 DEF Begin, May
  <2>3. ~fresh' => prev' = memory /\ memory.boot = boot
    BY <1>5, <2>2 DEF Begin, SameBoot
  <2>4. looked' \ todo' \subseteq prev'.listed
    BY <1>5 DEF Begin
  <2>5. looked' \ todo' # {} => ~fresh'
    BY <1>5 DEF Begin
  <2>6. Said(looked \ todo)' /\ (fresh' \/ Said(prev.listed)')
    BY <1>5, <2>3, <2>4, <2>5 DEF Begin, AnnounceInv, Said, Told
  <2>7. QED
    BY <1>5, <2>1, <2>2, <2>6, BeginWrites
       DEF Begin, AnnounceInv, Said, Told, spool
<1>6. ASSUME NEW k \in Key, Raise(k) PROVE AnnounceInv'
  <2>1. Told' = Told \cup {k}
    BY <1>6 DEF Raise, Told, TypeOK
  <2>2. QED
    BY <1>6, <2>1 DEF Raise, AnnounceInv, Said, node, spool, poll
<1>7. ASSUME NEW k \in Key, Answer(k) PROVE AnnounceInv'
  <2>1. Told' = Told \ {k} /\ k \notin looked
    BY <1>7 DEF Answer, Told, LookInv, TypeOK
  <2>2. QED
    BY <1>7, <2>1 DEF Answer, AnnounceInv, Said, node, spool, poll
<1>8. ASSUME Turn PROVE AnnounceInv'
  BY <1>8 DEF Turn, Gone, AnnounceInv, Said, Told, node, spool, poll
<1>9. ASSUME Commit PROVE AnnounceInv'
  <2>1. UNCHANGED <<boot, Told>> /\ pc' = "idle"
    BY <1>9 DEF Commit, End, Told, node
  <2>2. CASE pinned
    <3>1. memory' = new /\ new.listed = looked /\ new.boot = boot
      BY <1>9, <2>2 DEF Commit, ReportedInFull, AnnounceInv, LookInv
    <3>2. boot <= boot
      BY DEF TypeOK
    <3>3. QED
      BY <1>9, <2>1, <3>1, <3>2 DEF Commit, AnnounceInv, Said
  <2>3. CASE ~pinned
    BY <1>9, <2>1, <2>3 DEF Commit, AnnounceInv, Said, spool
  <2>4. QED
    BY <2>2, <2>3
<1>10. ~Stop
  BY DEF Stop, ReportedInFull, TypeOK
<1>11. ASSUME UNCHANGED vars PROVE AnnounceInv'
  BY <1>11 DEF vars, node, spool, poll, AnnounceInv, Said, Told
<1>12. QED
  BY <1>1, <1>2, <1>3, <1>4, <1>5, <1>6, <1>7, <1>8, <1>9, <1>10, <1>11 DEF Next

\* A poll that has reported leaves no mount it found uncovered unannounced,
\* with the spool unfit, the memory lost, the uptime unreadable and payloads
\* installed as they like, as long as polls end and their renames succeed.
THEOREM AnnouncedAtOnce ==
    ReportedInFull => (Spec => []AnnouncedAtFirstPoll)
<1> SUFFICES ASSUME ReportedInFull PROVE Spec => []AnnouncedAtFirstPoll
  OBVIOUS
<1>1. "full" \notin Faults
  BY DEF ReportedInFull
<1>2. /\ TypeOK /\ LookInv /\ LookInv' /\ AnnounceInv /\ [Next]_vars
      => AnnounceInv'
  BY AnnounceKept
<1>3. AnnounceInv => AnnouncedAtFirstPoll
  BY DEF AnnounceInv, AnnouncedAtFirstPoll, Reported, Said, Told
<1>4. QED
  BY <1>1, <1>2, <1>3, AnnounceInitially, TypeCorrect, LookInvariant, PTL DEF Spec

\* Every answer has its question: under the same assumption `covered` and
\* `unmounted` only ever follow an `expensive` of the same boot.
THEOREM AnswersFollow == ReportedInFull => (Spec => AnsweredOnce)
<1> SUFFICES ASSUME ReportedInFull PROVE Spec => AnsweredOnce
  OBVIOUS
<1>1. "full" \notin Faults
  BY DEF ReportedInFull
<1>2. /\ TypeOK /\ LookInv /\ LookInv' /\ AnnounceInv /\ [Next]_vars
      => AnnounceInv'
  BY AnnounceKept
<1>3. /\ TypeOK /\ AnnounceInv /\ [Next]_vars
      => [\A k \in Key : journal'[k] \in {"covered", "unmounted"}
                          /\ journal'[k] # journal[k]
                         => journal[k] = "expensive"]_journal
  <2> SUFFICES ASSUME TypeOK, AnnounceInv, [Next]_vars,
                      NEW k \in Key,
                      journal'[k] \in {"covered", "unmounted"},
                      journal'[k] # journal[k]
               PROVE  journal[k] = "expensive"
    OBVIOUS
  <2>1. ASSUME NEW i \in Key, Answer(i) PROVE journal[k] = "expensive"
    <3>1. i = k /\ k \in todo
      BY <2>1 DEF Answer, TypeOK
    <3>2. QED
      BY <2>1, <3>1 DEF Answer, AnnounceInv, Said, Told
  <2>2. ASSUME NEW i \in Key, Raise(i) PROVE FALSE
    BY <2>2 DEF Raise, TypeOK
  <2>3. ~Reboot
    BY DEF Reboot
  <2>4. ASSUME \/ \E m \in MountPoint : Remount(m)
               \/ Tick \/ Install \/ Begin \/ Turn \/ Commit \/ Stop
               \/ UNCHANGED vars
        PROVE  FALSE
    BY <2>4 DEF Remount, Tick, Install, Begin, Turn, Commit, Stop, vars
  <2>5. QED
    BY <2>1, <2>2, <2>3, <2>4 DEF Next
<1>4. QED
  BY <1>1, <1>2, <1>3, AnnounceInitially, TypeCorrect, LookInvariant, PTL
     DEF Spec, AnsweredOnce

-----------------------------------------------------------------------------
(***************************************************************************)
(* Answered at the next poll.                                              *)
(*                                                                         *)
(* Only what the memory lists can be answered, so whatever the journal     *)
(* calls uncovered must be in a memory of this boot, or found by this      *)
(* poll.  Every loss of a memory breaks that, and an install removes it on *)
(* purpose: what is left is an uptime that cannot be read.                 *)
(***************************************************************************)
NothingLost == MaxStops = 0 /\ Faults \subseteq {"uptime"}

AnswerInv ==
    /\ pc = "idle" => /\ Told \subseteq memory.listed
                      /\ Told # {} => file /\ memory.boot = boot
    /\ pc # "idle" => pinned /\ headed /\ new.boot = boot
    /\ pc = "raise" => Told \subseteq looked \cup (IF fresh THEN {} ELSE prev.listed)
    /\ pc = "answer" => Told \subseteq looked \cup todo

LEMMA AnswerInitially == Init => AnswerInv
BY DEF Init, AnswerInv, Told

LEMMA AnswerKept ==
    ASSUME TypeOK, LookInv, AnswerInv, [Next]_vars, NothingLost
    PROVE  AnswerInv'
<1>1. ASSUME NEW m \in MountPoint, Remount(m) PROVE AnswerInv'
  BY <1>1 DEF Remount, AnswerInv, Told, spool, poll
<1>2. ASSUME Tick PROVE AnswerInv'
  BY <1>2 DEF Tick, AnswerInv, Told, spool, poll
<1>3. ASSUME Reboot PROVE AnswerInv'
  BY <1>3 DEF Reboot, AnswerInv, Told, spool, poll
<1>4. ~Install /\ ~Stop
  BY DEF Install, Stop, NothingLost, TypeOK
<1>5. ASSUME Begin PROVE AnswerInv'
  <2>1. /\ "full" \notin Faults /\ "bootid" \notin Faults
        /\ "spool" \notin Faults /\ "lost" \notin Faults
    BY DEF NothingLost
  <2>2. /\ pinned' /\ me' = boot
        /\ fresh' = (~file \/ memory.boot # boot)
        /\ prev' = IF file THEN memory ELSE NoMemory
    BY <1>5, <2>1 DEF Begin, May, SameBoot
  <2>3. Told' = Told /\ pc = "idle" /\ boot' = boot
    BY <1>5 DEF Begin, Told
  <2>4. Told \subseteq (IF fresh' THEN {} ELSE prev'.listed)
    BY <2>2, <2>3 DEF AnswerInv
  <2>5. QED
    BY <1>5, <2>1, <2>2, <2>3, <2>4, BeginWrites DEF AnswerInv
<1>6. ASSUME NEW k \in Key, Raise(k) PROVE AnswerInv'
  <2>1. Told' = Told \cup {k} /\ k \in looked
    BY <1>6 DEF Raise, Told, LookInv, TypeOK
  <2>2. QED
    BY <1>6, <2>1 DEF Raise, AnswerInv, node, spool, poll
<1>7. ASSUME NEW k \in Key, Answer(k) PROVE AnswerInv'
  <2>1. Told' = Told \ {k}
    BY <1>7 DEF Answer, Told, TypeOK
  <2>2. QED
    BY <1>7, <2>1 DEF Answer, AnswerInv, node, spool, poll
<1>8. ASSUME Turn PROVE AnswerInv'
  <2>1. Told \subseteq looked \cup Gone
    BY <1>8 DEF Turn, Gone, AnswerInv, LookInv
  <2>2. QED
    BY <1>8, <2>1 DEF Turn, AnswerInv, Told, node, spool, poll
<1>9. ASSUME Commit PROVE AnswerInv'
  <2>1. memory' = new /\ file' = TRUE /\ pc' = "idle" /\ boot' = boot
    BY <1>9 DEF Commit, End, AnswerInv, NothingLost, node
  <2>2. Told' = Told /\ Told \subseteq new.listed /\ new.boot = boot
    BY <1>9 DEF Commit, Told, AnswerInv, LookInv
  <2>3. QED
    BY <2>1, <2>2 DEF AnswerInv
<1>10. ASSUME UNCHANGED vars PROVE AnswerInv'
  BY <1>10 DEF vars, node, spool, poll, AnswerInv, Told
<1>11. QED
  BY <1>1, <1>2, <1>3, <1>4, <1>5, <1>6, <1>7, <1>8, <1>9, <1>10 DEF Next

\* A mount that stopped being uncovered is answered by the next poll, as long
\* as no memory is lost, removed or left unwritten on the way.
THEOREM AnsweredOnTime == NothingLost => (Spec => []AnsweredAtNextPoll)
<1> SUFFICES ASSUME NothingLost PROVE Spec => []AnsweredAtNextPoll
  OBVIOUS
<1>1. "full" \notin Faults
  BY DEF NothingLost
<1>2. TypeOK /\ LookInv /\ AnswerInv /\ [Next]_vars => AnswerInv'
  BY AnswerKept
<1>3. AnswerInv => AnsweredAtNextPoll
  BY DEF AnswerInv, AnsweredAtNextPoll, Reported
<1>4. QED
  BY <1>1, <1>2, <1>3, AnswerInitially, TypeCorrect, LookInvariant, PTL DEF Spec

-----------------------------------------------------------------------------
(***************************************************************************)
(* The horizon of silence.                                                 *)
(*                                                                         *)
(* A memory of this boot vouches for the mounts it lists: none of them has *)
(* been quiet for longer than its stamp is old.  So a poll that keeps      *)
(* quiet about one, because it is listed and not due, keeps quiet about no *)
(* silence of the whole cadence, and what one poll adds to it is its idle  *)
(* time, and a period for each poll that was stopped.  A boot id that      *)
(* cannot be read would let a stamp of another boot count.                 *)
(***************************************************************************)
ClockIsTold == Interval >= 1 /\ "bootid" \notin Faults

\* No mount of `set` has been quiet for longer than a stamp is old.
Vouched(stamp, set) ==
    stamp # NoReading => stamp <= up /\ \A k \in set : quiet[k] <= up - stamp

HorizonInv ==
    /\ memory.boot <= boot
    /\ file /\ memory.boot = boot => Vouched(memory.asserted, memory.listed)
    /\ \A k \in Key \ Uncovered : quiet[k] = 0
    /\ pc = "idle" => \A k \in Key : quiet[k] <= Interval - 1 + idle + Period * stops
    /\ pc # "idle" =>
         /\ \A k \in Key : quiet[k] <= Interval - 1 + Period + Period * stops
         /\ \A k \in Key \ looked : quiet[k] = 0
         /\ new.boot = boot /\ new.listed \subseteq looked
         /\ \A k \in looked \ (IF pc = "raise" THEN todo ELSE {}) : quiet[k] < Interval
         /\ Vouched(new.asserted, looked \ (IF pc = "raise" THEN todo ELSE {}))

\* What a period is multiplied by.
LEMMA Periods ==
    \A n \in Nat : /\ Period * n \in Nat /\ Period * (n + 1) \in Nat
                   /\ Period * (n + 1) = Period * n + Period
BY MemoryAssumption

\* A remounted mount starts anew, and no other is uncovered or covered by it.
LEMMA RemountHorizon ==
    ASSUME TypeOK, HorizonInv, ClockIsTold, NEW m \in MountPoint, Remount(m)
    PROVE  HorizonInv'
<1> USE MemoryAssumption, Periods DEF ClockIsTold
<1>1. /\ quiet' = [k \in Key |-> IF k[1] = m THEN 0 ELSE quiet[k]]
      /\ UNCHANGED <<override, boot, up, idle, stops, file, memory, pc, looked, new, todo>>
  BY DEF Remount, spool, poll
<1>2. \A k \in Key : quiet'[k] \in {0, quiet[k]} /\ quiet[k] \in Nat
  BY <1>1 DEF TypeOK
<1>3. \A k \in Key : k[1] # m => (k \in Uncovered <=> k \in Uncovered')
  <2>1. PICK fs : table' = [table EXCEPT ![m] = fs]
    BY DEF Remount
  <2>2. \A k \in Key : k[1] # m => table'[k[1]] = table[k[1]]
    BY <2>1 DEF Key, TypeOK
  <2>3. QED
    BY <1>1, <2>2 DEF Uncovered
<1>4. \A k \in Key \ Uncovered' : quiet'[k] = 0
  BY <1>1, <1>3 DEF HorizonInv
<1>5. /\ memory.listed \subseteq Key /\ looked \subseteq Key /\ up \in Nat
      /\ memory.asserted \in Int /\ new.asserted \in Int
      /\ idle \in Nat /\ Period * stops \in Nat
  BY DEF TypeOK, Memory, Uptime, Reading, NoReading
<1>6. ASSUME NEW stamp \in Int, NEW set \in SUBSET Key, Vouched(stamp, set)
      PROVE  stamp # NoReading => stamp <= up /\ \A k \in set : quiet'[k] <= up - stamp
  BY <1>2, <1>5, <1>6 DEF Vouched
<1>7. Vouched(memory.asserted, memory.listed)' \/ ~(file' /\ memory'.boot = boot')
  BY <1>1, <1>5, <1>6 DEF HorizonInv, Vouched
<1>8. pc # "idle" =>
        Vouched(new.asserted, looked \ (IF pc = "raise" THEN todo ELSE {}))'
  BY <1>1, <1>5, <1>6 DEF HorizonInv, Vouched
<1>9. pc = "idle" => \A k \in Key : quiet'[k] <= Interval - 1 + idle + Period * stops
  BY <1>2, <1>5 DEF HorizonInv
<1>10. pc # "idle" =>
         /\ \A k \in Key : quiet'[k] <= Interval - 1 + Period + Period * stops
         /\ \A k \in Key \ looked : quiet'[k] = 0
         /\ \A k \in looked \ (IF pc = "raise" THEN todo ELSE {}) : quiet'[k] < Interval
  BY <1>2, <1>5 DEF HorizonInv
<1>11. QED
  BY <1>1, <1>4, <1>7, <1>8, <1>9, <1>10 DEF HorizonInv

\* A tick adds one to what is quiet, to the clock and to the idle time.
LEMMA TickHorizon ==
    ASSUME TypeOK, HorizonInv, Tick PROVE HorizonInv'
<1>1. /\ pc = "idle" /\ up' = up + 1 /\ idle' = idle + 1
      /\ quiet' = [k \in Key |-> IF k \in Uncovered THEN quiet[k] + 1 ELSE 0]
      /\ UNCHANGED <<table, override, boot, stops, file, memory, pc>>
  BY DEF Tick, spool
<1>2. /\ memory.listed \subseteq Key /\ up \in Nat /\ memory.asserted \in Int
      /\ idle \in Nat /\ Period * stops \in Nat /\ quiet \in [Key -> Nat]
      /\ Interval \in Nat
  BY MemoryAssumption, Periods DEF TypeOK, Memory, Uptime, Reading, NoReading
<1>3. Uncovered' = Uncovered
  BY <1>1 DEF Uncovered
<1>4. \A k \in Key : quiet'[k] <= quiet[k] + 1 /\ quiet'[k] \in Nat
  BY <1>1, <1>2
<1>5. \A k \in Key : quiet'[k] <= Interval - 1 + (idle + 1) + Period * stops
  <2> SUFFICES ASSUME NEW k \in Key
               PROVE  quiet'[k] <= Interval - 1 + (idle + 1) + Period * stops
    OBVIOUS
  <2>1. quiet[k] <= Interval - 1 + idle + Period * stops
    BY <1>1 DEF HorizonInv
  <2>2. quiet[k] \in Nat /\ quiet'[k] \in Nat /\ quiet'[k] <= quiet[k] + 1
    BY <1>2, <1>4
  <2> DEFINE w == Period * stops
             a == quiet[k]
             b == quiet'[k]
  <2>3. w \in Nat /\ a \in Nat /\ b \in Nat /\ b <= a + 1 /\ a <= Interval - 1 + idle + w
    BY <1>2, <2>1, <2>2
  <2> HIDE DEF w, a, b
  <2>4. b <= Interval - 1 + (idle + 1) + w
    BY <1>2, <2>3
  <2>5. QED
    BY <2>4 DEF w, b
<1>6. ASSUME file, memory.boot = boot, memory.asserted # NoReading
      PROVE  memory.asserted <= up + 1
             /\ \A k \in memory.listed : quiet'[k] <= (up + 1) - memory.asserted
  BY <1>2, <1>4, <1>6 DEF HorizonInv, Vouched
<1>7. QED
  BY <1>1, <1>3, <1>5, <1>6 DEF HorizonInv, Vouched

\* A memory of this boot vouches for what a poll does not raise, and a poll
\* that begins has nothing else to vouch for.
LEMMA BeginHorizon ==
    ASSUME TypeOK, HorizonInv, ClockIsTold, Begin PROVE HorizonInv'
<1> USE MemoryAssumption, Periods DEF ClockIsTold
<1>1. PICK unpinned \in May("spool"), lost \in May("lost"),
           noUptime \in May("uptime"), noBootId \in May("bootid") :
        /\ me' = IF noBootId THEN 0 ELSE boot
        /\ now' = IF noUptime THEN NoReading ELSE up
        /\ prev' = IF unpinned \/ lost \/ ~file THEN NoMemory ELSE memory
        /\ fresh' = (\/ unpinned \/ lost \/ ~file
                     \/ ~SameBoot(memory, me'))
        /\ due' = ClockDue(prev'.asserted, now')
        /\ looked' = Uncovered
        /\ \E lines \in Reaching(looked'), head \in Reaching({"boot", "asserted"}) :
             new' = [boot |-> me', listed |-> lines,
                     asserted |-> IF "asserted" \in head
                                  THEN Stamp(fresh', due', prev', now')
                                  ELSE NoReading]
  BY DEF Begin
<1>2. /\ pc = "idle" /\ pc' = "raise" /\ idle' = 0
      /\ todo' = IF fresh' \/ due' THEN looked' ELSE looked' \ prev'.listed
      /\ UNCHANGED <<table, override, boot, up, stops, file, memory, quiet>>
  BY DEF Begin, spool
<1>3. /\ up \in Nat /\ memory.asserted \in Int /\ idle \in 0 .. Period
      /\ Period * stops \in Nat /\ quiet \in [Key -> Nat] /\ Uncovered \subseteq Key
  BY DEF TypeOK, Memory, Uptime, Reading, NoReading, Uncovered
<1>4. me' = boot
  BY <1>1 DEF May
<1>5. /\ new'.boot = boot /\ new'.listed \subseteq looked'
      /\ new'.asserted \in {NoReading, Stamp(fresh', due', prev', now')}
  BY <1>1, <1>4 DEF Reaching
<1>6. Uncovered' = Uncovered
  BY <1>2 DEF Uncovered
<1>7. \A k \in Key : quiet[k] <= Interval - 1 + Period + Period * stops
  BY <1>2, <1>3 DEF HorizonInv
<1>8. CASE fresh' \/ due'
  <2>1. looked' \ todo' = {}
    BY <1>2, <1>8
  <2>2. new'.asserted # NoReading => new'.asserted <= up
    BY <1>1, <1>3, <1>5, <1>8 DEF Stamp
  <2>3. QED
    BY <1>1, <1>2, <1>5, <1>6, <1>7, <2>1, <2>2 DEF HorizonInv, Vouched
<1>9. CASE ~fresh' /\ ~due'
  <2>1. file /\ memory.boot = boot /\ prev' = memory
    BY <1>1, <1>4, <1>9 DEF SameBoot
  <2>2. /\ memory.asserted # NoReading /\ now' = up
        /\ ~(up - memory.asserted >= Interval)
    BY <1>1, <1>9, <2>1 DEF ClockDue
  <2>3. /\ memory.asserted <= up
        /\ \A k \in memory.listed : quiet[k] <= up - memory.asserted
    BY <2>1, <2>2 DEF HorizonInv, Vouched
  <2>4. looked' \ todo' \subseteq memory.listed
    BY <1>2, <1>9, <2>1
  <2>5. \A k \in looked' \ todo' : quiet[k] <= up - memory.asserted /\ quiet[k] < Interval
    BY <1>1, <1>3, <2>2, <2>3, <2>4
  <2>6. new'.asserted \in {NoReading, memory.asserted}
    BY <1>5, <1>9, <2>1 DEF Stamp
  <2>7. QED
    BY <1>1, <1>2, <1>5, <1>6, <1>7, <2>3, <2>5, <2>6 DEF HorizonInv, Vouched
<1>10. QED
  BY <1>8, <1>9, <1>1

\* A record ends the silence of its mount.
LEMMA RaiseHorizon ==
    ASSUME TypeOK, HorizonInv, ClockIsTold, NEW k \in Key, Raise(k)
    PROVE  HorizonInv'
<1> USE MemoryAssumption, Periods DEF ClockIsTold
<1>1. /\ pc = "raise" /\ pc' = "raise" /\ todo' = todo \ {k} /\ k \in todo
      /\ quiet' = [quiet EXCEPT ![k] = 0]
      /\ UNCHANGED <<table, override, boot, up, idle, stops, file, memory, looked, new>>
  BY DEF Raise, node, spool, poll
<1>2. /\ memory.listed \subseteq Key /\ looked \subseteq Key /\ up \in Nat
      /\ memory.asserted \in Int /\ new.asserted \in Int
      /\ Period * stops \in Nat /\ quiet \in [Key -> Nat]
  BY DEF TypeOK, Memory, Uptime, Reading, NoReading
<1>3. /\ quiet'[k] = 0
      /\ \A j \in Key : quiet'[j] <= quiet[j] /\ (quiet[j] = 0 => quiet'[j] = 0)
      /\ \A j \in Key : quiet'[j] \in Nat /\ (j # k => quiet'[j] = quiet[j])
  BY <1>1, <1>2
<1>4. Uncovered' = Uncovered
  BY <1>1 DEF Uncovered
<1>5. ASSUME file, memory.boot = boot
      PROVE  Vouched(memory.asserted, memory.listed)'
  BY <1>1, <1>2, <1>3, <1>5 DEF HorizonInv, Vouched
<1>6. \A j \in looked \ (todo \ {k}) : quiet'[j] < Interval
  BY <1>1, <1>2, <1>3 DEF HorizonInv
<1>7. ASSUME new.asserted # NoReading
      PROVE  /\ new.asserted <= up
             /\ \A j \in looked \ (todo \ {k}) : quiet'[j] <= up - new.asserted
  BY <1>1, <1>2, <1>3, <1>7 DEF HorizonInv, Vouched
<1>8. \A j \in Key : quiet'[j] <= Interval - 1 + Period + Period * stops
  BY <1>1, <1>2, <1>3 DEF HorizonInv
<1>9. QED
  BY <1>1, <1>3, <1>4, <1>5, <1>6, <1>7, <1>8 DEF HorizonInv, Vouched

\* A poll that ends has raised, or is vouched for, whatever it looked at.
LEMMA CommitHorizon ==
    ASSUME TypeOK, HorizonInv, ClockIsTold, Commit PROVE HorizonInv'
<1> USE MemoryAssumption, Periods DEF ClockIsTold
<1>1. /\ pc = "answer" /\ pc' = "idle"
      /\ UNCHANGED <<table, override, boot, up, idle, stops, looked, quiet>>
      /\ \/ file' = headed /\ memory' = IF headed THEN new ELSE NoMemory
         \/ UNCHANGED <<file, memory>>
  BY DEF Commit, End, node, spool
<1>2. /\ looked \subseteq Key /\ idle \in Nat /\ boot \in Nat
      /\ Period * stops \in Nat /\ quiet \in [Key -> Nat]
  BY DEF TypeOK
<1>3. Uncovered' = Uncovered
  BY <1>1 DEF Uncovered
<1>4. \A k \in Key : quiet[k] <= Interval - 1
  <2>1. \A k \in Key : quiet[k] < Interval
    BY <1>1, <1>2 DEF HorizonInv
  <2>2. QED
    BY <1>2, <2>1
<1>5. \A k \in Key : quiet'[k] <= Interval - 1 + idle' + Period * stops'
  BY <1>1, <1>2, <1>4
<1>6. /\ memory'.boot <= boot
      /\ file' /\ memory'.boot = boot => Vouched(memory.asserted, memory.listed)'
  <2>1. CASE UNCHANGED <<file, memory>>
    BY <1>1, <2>1 DEF HorizonInv, Vouched
  <2>2. CASE file' = headed /\ memory' = IF headed THEN new ELSE NoMemory
    <3>1. CASE headed
      BY <1>1, <1>2, <2>2, <3>1 DEF HorizonInv, Vouched
    <3>2. CASE ~headed
      BY <1>1, <1>2, <2>2, <3>2 DEF NoMemory
    <3>3. QED
      BY <3>1, <3>2
  <2>3. QED
    BY <1>1, <2>1, <2>2
<1>7. QED
  BY <1>1, <1>3, <1>5, <1>6 DEF HorizonInv

\* Every step keeps to the horizon.
LEMMA HorizonKept ==
    ASSUME TypeOK, HorizonInv, ClockIsTold, [Next]_vars PROVE HorizonInv'
<1> USE MemoryAssumption, Periods DEF ClockIsTold
<1>1. ASSUME NEW m \in MountPoint, Remount(m) PROVE HorizonInv'
  BY <1>1, RemountHorizon
<1>2. ASSUME Tick PROVE HorizonInv'
  BY <1>2, TickHorizon
<1>3. ASSUME Reboot PROVE HorizonInv'
  <2>1. /\ pc = "idle" /\ boot' = boot + 1
        /\ UNCHANGED <<table, override, idle, stops, memory, file, pc, quiet>>
    BY <1>3 DEF Reboot, spool, poll
  <2>2. memory.boot \in Int /\ boot \in Int
    BY DEF TypeOK, Memory, BootId
  <2>3. memory.boot <= boot' /\ memory.boot # boot'
    <3>1. memory.boot <= boot
      BY DEF HorizonInv
    <3>2. QED
      BY <2>1, <2>2, <3>1
  <2>4. QED
    BY <2>1, <2>3 DEF HorizonInv, Uncovered
<1>4. ASSUME Install PROVE HorizonInv'
  <2>1. /\ pc = "idle" /\ quiet' = [k \in Key |-> 0]
        /\ UNCHANGED <<table, boot, up, idle, stops, pc>>
    BY <1>4 DEF Install
  <2>2. PICK unpinned \in May("spool") :
          /\ file' = (unpinned /\ file)
          /\ memory' = IF unpinned THEN memory ELSE NoMemory
    BY <1>4 DEF Install
  <2>3. /\ memory.listed \subseteq Key /\ up \in Nat /\ memory.asserted \in Int
        /\ idle \in Nat /\ Period * stops \in Nat /\ boot \in Nat
    BY DEF TypeOK, Memory, Uptime, Reading, NoReading
  <2>4. \A k \in Key : quiet'[k] = 0
    BY <2>1
  <2>5. file' /\ memory'.boot = boot' => Vouched(memory.asserted, memory.listed)'
    <3>1. SUFFICES ASSUME file', memory'.boot = boot'
                   PROVE  Vouched(memory.asserted, memory.listed)'
      OBVIOUS
    <3>2. /\ file /\ memory.boot = boot /\ memory' = memory
          /\ Vouched(memory.asserted, memory.listed)
      BY <2>1, <2>2, <3>1 DEF HorizonInv
    <3>3. memory.asserted # NoReading =>
            memory.asserted <= up /\ \A k \in memory.listed : quiet'[k] <= up - memory.asserted
      BY <2>3, <2>4, <3>2 DEF Vouched
    <3>4. QED
      BY <2>1, <3>2, <3>3 DEF Vouched
  <2>6. memory'.boot <= boot'
    BY <2>1, <2>2, <2>3 DEF HorizonInv, NoMemory
  <2>7. \A k \in Key : quiet'[k] <= Interval - 1 + idle' + Period * stops'
    BY <2>1, <2>3, <2>4
  <2>8. QED
    BY <2>1, <2>4, <2>5, <2>6, <2>7 DEF HorizonInv
<1>5. ASSUME Begin PROVE HorizonInv'
  BY <1>5, BeginHorizon
<1>6. ASSUME NEW k \in Key, Raise(k) PROVE HorizonInv'
  BY <1>6, RaiseHorizon
<1>7. ASSUME NEW k \in Key, Answer(k) PROVE HorizonInv'
  BY <1>7 DEF Answer, HorizonInv, Vouched, Uncovered, node, spool, poll
<1>8. ASSUME Turn PROVE HorizonInv'
  BY <1>8 DEF Turn, HorizonInv, Vouched, Uncovered, node, spool, poll
<1>9. ASSUME Commit PROVE HorizonInv'
  BY <1>9, CommitHorizon
<1>10. ASSUME Stop PROVE HorizonInv'
  <2>1. /\ stops' = stops + 1 /\ idle' = 0 /\ pc' = "idle"
        /\ UNCHANGED <<table, override, boot, up, file, memory, quiet>>
    BY <1>10 DEF Stop, End, spool
  <2>2. /\ idle \in 0 .. Period /\ Period * stops \in Nat /\ quiet \in [Key -> Nat]
        /\ Period * stops' = Period * stops + Period
    BY <2>1 DEF TypeOK
  <2>3. \A k \in Key : quiet[k] <= Interval - 1 + Period + Period * stops
    BY <2>2 DEF HorizonInv
  <2>4. \A k \in Key : quiet'[k] <= Interval - 1 + idle' + Period * stops'
    BY <2>1, <2>2, <2>3
  <2>5. QED
    BY <2>1, <2>4 DEF HorizonInv, Vouched, Uncovered
<1>11. ASSUME UNCHANGED vars PROVE HorizonInv'
  BY <1>11 DEF vars, HorizonInv, Vouched, Uncovered, node, spool, poll
<1>12. QED
  BY <1>1, <1>2, <1>3, <1>4, <1>5, <1>6, <1>7, <1>8, <1>9, <1>10, <1>11 DEF Next

\* While boot ids can be read, no mount stands uncovered and unspoken of for
\* longer than the cadence, a poll's wait and one for each poll that was
\* stopped, whatever else fails: node/shim/install.sh:2397-2412, 2556-2640.
THEOREM SilenceEnds == ClockIsTold => (Spec => []SilenceHasHorizon)
<1> SUFFICES ASSUME ClockIsTold PROVE Spec => []SilenceHasHorizon
  OBVIOUS
<1>1. Init => HorizonInv
  <2> SUFFICES ASSUME Init PROVE HorizonInv
    OBVIOUS
  <2>1. \A k \in Key : quiet[k] = 0
    BY DEF Init
  <2>2. Period * 0 \in Nat
    BY Periods
  <2>3. QED
    BY <2>1, <2>2, MemoryAssumption DEF Init, HorizonInv, NoMemory, ClockIsTold
<1>2. TypeOK /\ HorizonInv /\ [Next]_vars => HorizonInv'
  BY HorizonKept
<1>3. TypeOK /\ HorizonInv => SilenceHasHorizon
  <2> SUFFICES ASSUME TypeOK, HorizonInv, NEW k \in Key
               PROVE  quiet[k] < Interval + Period * (1 + stops)
    BY DEF SilenceHasHorizon
  <2>1. /\ idle \in 0 .. Period /\ Period * stops \in Nat /\ quiet[k] \in Nat
        /\ Period * (1 + stops) = Period * stops + Period
    BY MemoryAssumption, Periods DEF TypeOK
  <2>2. quiet[k] <= Interval - 1 + Period + Period * stops
    BY <2>1, MemoryAssumption DEF HorizonInv
  <2>3. QED
    BY <2>1, <2>2, MemoryAssumption
<1>4. QED
  BY <1>1, <1>2, <1>3, TypeCorrect, PTL DEF Spec
=============================================================================
