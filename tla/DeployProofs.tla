---------------------------- MODULE DeployProofs ----------------------------
(***************************************************************************)
(* What the run checks of Deploy on two builds and two entries, proved for *)
(* every set of builds, entries and groups, and whatever goes wrong.       *)
(*                                                                         *)
(* No property is inductive by itself.  Phases says what the deployer's    *)
(* place in its run tells of the units it has disarmed; Payload what it    *)
(* tells of the entries under the prefix; and the other three what is      *)
(* established on the way to the status a run ends with.  Each is proved   *)
(* from the ones before it.                                                *)
(***************************************************************************)
EXTENDS Deploy, TLAPS

-----------------------------------------------------------------------------
(* The steps an install goes through, by what holds there. *)

Unwired == {"close", "copy", "links", "own", "prove", "open"}
Layer1Steps == {"spool", "farm", "hooks", "verify", "reprove"}
Layer2Steps == {"service", "timer", "reload", "enable"}
JournalSteps == {"record", "grant", "revoke", "gaps"}

\* The first disarming of a run, by deploy.py itself.
Disarming == pc \in DisarmStep /\ ~helper

\* The helper's part of an uninstall, once the units are removed.
Helping == pc \in {"claim", "strip", "sweep"} \/ helper

\* What the deployer's place tells of its run, and of the units: a timer that
\* was said to be stopped starts nothing until it is enabled again.
Phases ==
    /\ pc \in InstallStep => mode = "install"
    /\ pc \in RemoveStep => mode # "install"
    /\ helper => mode # "install" /\ pc # "idle"
    /\ pc \in {"strip", "sweep"} => helper
    /\ pc \in {"units", "dropin", "ungrant"} => mode = "uninstall" /\ ~helper
    /\ mode = "strip" /\ pc # "idle" => helper
    /\ mode = "install" /\ (pc # "idle" \/ rc # Interrupted) => version \in
        Version
    /\ pc # "idle" => ~claimed
    /\ pc \in {"probeService", "probeFile"} => ~active
    /\ pc = "probeFile" => service = "off"
    /\ pc \in Unwired \cup Layer1Steps \cup Layer2Steps \cup {"strip",
        "sweep"} => ~Armed

\* Between the closing and the opening of the prefix nobody reaches what is
\* copied, entry by entry, and it is accepted before anybody does.
Payload ==
    /\ pc \in Unwired \ {"close"} => ~wide
    /\ pc = "copy" =>
         /\ \A e \in Entry \ left : disk[e] = version /\ e \notin torn
         /\ \A e \in cleared : disk[e] = Absent
    /\ pc # "copy" => cleared = {}
    /\ pc \in (InstallStep \ {"close", "copy"}) => WholeAt(version)
    /\ pc = "open" => Sound
    /\ pc \in Layer1Steps \cup Layer2Steps \cup JournalSteps => wide
    /\ ArmedIsAccepted

\* What an install has put in place when it comes to its status.
Status ==
    /\ pc \in {"hooks", "verify", "reprove"} \cup Layer2Steps \cup
        JournalSteps =>
         farm = version
    /\ pc \in {"reprove"} \cup Layer2Steps \cup JournalSteps =>
         unproven \/ hooks = "proven"
    /\ pc \in {"timer", "reload", "enable"} \cup JournalSteps =>
         unitFile["service"] = version
    /\ pc \in {"reload", "enable"} \cup JournalSteps => unitFile["timer"] =
        version
    /\ pc \in JournalSteps => enabled /\ active
    /\ Disarming => changed = {}
    /\ pc \in Unwired \cup Layer1Steps \cup {"service"} => "units" \notin
        changed
    /\ StatusIsTrue

\* The drop-in a run found is the one it replaces, and what it recorded is
\* what the run still has to revoke.
Grants ==
    /\ Disarming \/ pc \in InstallStep \ {"grant", "revoke", "gaps"} =>
         dropin = recorded
    /\ (Disarming /\ mode = "uninstall") \/ pc \in {"units", "dropin",
        "ungrant"} =>
         stale = recorded
    /\ pc \in {"grant", "revoke"} => stale = recorded \ Want
    /\ pc = "gaps" => held \cap (recorded \ Want) = {}
    /\ mode = "uninstall" /\ Helping => failed \/ held \cap recorded = {}
    /\ RecordedIsRevoked

\* What an uninstall that has failed at nothing has removed.
Removal ==
    /\ mode = "uninstall" /\ (Helping \/ pc \in {"dropin", "ungrant"}) =>
         failed \/ \A u \in Unit : unitFile[u] = Absent
    /\ pc = "sweep" => failed \/ hooks = "none"
    /\ RemovedStaysRemoved

IInv == TypeOK /\ Phases /\ Payload /\ Status /\ Grants /\ Removal

-----------------------------------------------------------------------------
(* Types, by what a command touches. *)

PayloadType ==
    /\ disk \in [Entry -> Content]
    /\ flaw \in [Entry -> Flaw]
    /\ torn \in SUBSET Entry
    /\ wide \in BOOLEAN
Layer1Type == farm \in Content /\ hooks \in {"none", "written", "proven"}
UnitsType ==
    /\ unitFile \in [Unit -> Content]
    /\ enabled \in BOOLEAN
    /\ active \in BOOLEAN
    /\ service \in {"off", "relink", "reaper"}
JournalType == dropin \in SUBSET Gid /\ held \in SUBSET Gid
BuildType ==
    /\ mode \in Mode
    /\ version \in Content
    /\ gid \in Gid
    /\ grant \in BOOLEAN
    /\ recorded \in SUBSET Gid
RunType ==
    /\ pc \in Step
    /\ helper \in BOOLEAN
    /\ left \in SUBSET Entry
    /\ cleared \in SUBSET Entry
    /\ unproven \in BOOLEAN
    /\ stale \in SUBSET Gid
    /\ failed \in BOOLEAN
    /\ rc \in Exit
    /\ claimed \in BOOLEAN

Types ==
    PayloadType /\ Layer1Type /\ UnitsType /\ JournalType /\ BuildType /\
        RunType

\* TypeOK, taken apart by what a command touches.
LEMMA TypeParts ==
    /\ TypeOK <=> Types /\ changed \in SUBSET {"payload", "units"}
    /\ TypeOK' <=> Types' /\ changed' \in SUBSET {"payload", "units"}
BY DEF TypeOK, Types, PayloadType, Layer1Type, UnitsType, JournalType,
       BuildType, RunType

\* What a command leaves alone keeps its type.
LEMMA SameType ==
    ASSUME Types
    PROVE  /\ UNCHANGED payload => PayloadType'
           /\ UNCHANGED layer1 => Layer1Type'
           /\ UNCHANGED units => UnitsType'
           /\ UNCHANGED journal => JournalType'
           /\ UNCHANGED build => BuildType'
           /\ UNCHANGED <<pc, progress, ending>> => RunType'
BY DEF Types, PayloadType, Layer1Type, UnitsType, JournalType, BuildType,
       RunType, payload, layer1, units, journal, build, progress, ending

\* Every step that is named is a step.
LEMMA StepNames ==
    /\ "idle" \in Step
    /\ "close" \in Step
    /\ "copy" \in Step
    /\ "links" \in Step
    /\ "own" \in Step
    /\ "prove" \in Step
    /\ "open" \in Step
    /\ "spool" \in Step
    /\ "farm" \in Step
    /\ "hooks" \in Step
    /\ "verify" \in Step
    /\ "reprove" \in Step
    /\ "service" \in Step
    /\ "timer" \in Step
    /\ "reload" \in Step
    /\ "enable" \in Step
    /\ "record" \in Step
    /\ "grant" \in Step
    /\ "revoke" \in Step
    /\ "gaps" \in Step
    /\ "disable" \in Step
    /\ "stop" \in Step
    /\ "probeTimer" \in Step
    /\ "probeService" \in Step
    /\ "probeFile" \in Step
    /\ "units" \in Step
    /\ "dropin" \in Step
    /\ "ungrant" \in Step
    /\ "claim" \in Step
    /\ "strip" \in Step
    /\ "sweep" \in Step
BY DEF Step, InstallStep, DisarmStep, RemoveStep

\* Going on to the next command keeps the types of the run.
LEMMA GotoType ==
    ASSUME Types, NEW s \in Step, Goto(s)
    PROVE  RunType'
BY DEF Types, RunType, Goto, progress, ending

\* So does ending with a status that the code has.
LEMMA EndType ==
    ASSUME Types, NEW c \in Exit, End(c)
    PROVE  RunType'
BY DEF Types, RunType, End, Ends, Step

\* A command that fails ends with such a status.
LEMMA FailType ==
    ASSUME Types, CommandFails
    PROVE  RunType'
<1>1. Command \in Exit /\ End(Command)
  BY DEF CommandFails, Exit
<1>2. QED
  BY <1>1, EndType

\* And so does a unit that is still up.
LEMMA StillUpExit == StillUp \in Exit
BY DEF StillUp, Exit

\* A failed command of the journal step ends with such a status.
LEMMA JournalFailsType ==
    ASSUME Types, JournalFails
    PROVE  RunType'
<1>1. (IF unproven THEN 4 ELSE Command) \in Exit
  BY DEF Exit
<1>2. QED
  BY <1>1, EndType DEF JournalFails

\* An ending that says what it removed keeps the types too.
LEMMA EndsType ==
    ASSUME Types, NEW c \in Exit, Ends(c), claimed' \in BOOLEAN
    PROVE  RunType'
BY DEF Types, RunType, Ends, Step

\* What is left of the entries is under the prefix as before.
LEMMA RemoveType ==
    ASSUME Types, NEW kept \in Kept, RemoveEntries(kept)
    PROVE  /\ disk' \in [Entry -> Content]
           /\ flaw' \in [Entry -> Flaw]
           /\ torn' \in SUBSET Entry
BY DEF Types, PayloadType, RemoveEntries, Content, Flaw

\* The flags of a removal are truth values.
LEMMA BooleanFailed ==
    ASSUME RemoveUnits
    PROVE  failed' \in BOOLEAN
<1>1. PICK kept : failed' \in {kept # {}, "cmd" \in Faults}
  BY DEF RemoveUnits
<1>2. failed' = (kept # {}) \/ failed' = ("cmd" \in Faults)
  BY <1>1
<1>3. (kept # {}) \in BOOLEAN /\ ("cmd" \in Faults) \in BOOLEAN
  OBVIOUS
<1>4. QED
  BY <1>2, <1>3

\* What the run has changed is of the two kinds.
LEMMA ObserveType ==
    ASSUME TypeOK, Observe
    PROVE  changed' \in SUBSET {"payload", "units"}
BY DEF TypeOK, Observe

\* Every step keeps every type.
LEMMA TypeStep ==
    ASSUME Types, Next
    PROVE  Types'
<1> USE StepNames, SameType, GotoType, EndType, FailType DEF node
<1>1. ASSUME Disable PROVE Types'
  <2>1. UnitsType'
    BY <1>1 DEF Disable, Types, UnitsType, units, Unit, Content
  <2>2. RunType'
    BY <1>1 DEF Disable, Exit
  <2>3. QED
    BY <1>1, <2>1, <2>2 DEF Disable, Types
<1>2. ASSUME Stop PROVE Types'
  <2>1. UnitsType'
    BY <1>2 DEF Stop, Types, UnitsType, units, Unit, Content
  <2>2. RunType'
    BY <1>2 DEF Stop, Exit
  <2>3. QED
    BY <1>2, <2>1, <2>2 DEF Stop, Types
<1>3. ASSUME ProbeTimer PROVE Types'
  <2>1. RunType'
    BY <1>3, StillUpExit DEF ProbeTimer, Probe
  <2>2. QED
    BY <1>3, <2>1 DEF ProbeTimer, Probe, TimerReadsDown, Types
<1>4. ASSUME ProbeService PROVE Types'
  <2>1. RunType'
    BY <1>4, StillUpExit DEF ProbeService, Probe
  <2>2. QED
    BY <1>4, <2>1 DEF ProbeService, Probe, ServiceReadsDown, Types
<1>5. ASSUME ProbeFile PROVE Types'
  <2>1. RunType'
    BY <1>5, StillUpExit DEF ProbeFile, Probe, AfterProbes
  <2>2. QED
    BY <1>5, <2>1 DEF ProbeFile, Probe, FileReadsDown, AfterProbes, Types
<1>6. ASSUME StartInstall PROVE Types'
  <2>1. BuildType'
    BY <1>6 DEF StartInstall, Types, BuildType, JournalType, Mode, Content
  <2>2. RunType'
    BY <1>6 DEF StartInstall, Types, RunType, progress, ending, Exit
  <2>3. QED
    BY <1>6, <2>1, <2>2 DEF StartInstall, Types
<1>7. ASSUME ClosePrefix PROVE Types'
  <2>1. PayloadType'
    BY <1>7 DEF ClosePrefix, Types, PayloadType, payload, Content
  <2>2. RunType'
    BY <1>7 DEF ClosePrefix, Types, RunType, progress, ending, Exit
  <2>3. QED
    BY <1>7, <2>1, <2>2 DEF ClosePrefix, Types
<1>8. ASSUME NEW e \in Entry, RemoveDir(e) PROVE Types'
  <2>1. PayloadType'
    BY <1>8 DEF RemoveDir, Types, PayloadType, Content, Flaw
  <2>2. RunType'
    BY <1>8 DEF RemoveDir, Turn, Types, RunType, progress, ending, Exit
  <2>3. QED
    BY <1>8, <2>1, <2>2 DEF RemoveDir, Turn, Types
<1>9. ASSUME NEW e \in Entry, CopyEntry(e) PROVE Types'
  <2>1. PayloadType'
    BY <1>9 DEF CopyEntry, Brings, Types, PayloadType, BuildType, Flaw
  <2>2. RunType'
    BY <1>9 DEF CopyEntry, Turn, Brings, Types, RunType, progress, ending, Exit
  <2>3. QED
    BY <1>9, <2>1, <2>2 DEF CopyEntry, Turn, Brings, Types
<1>10. ASSUME RefuseLinks PROVE Types'
  <2>1. PayloadType'
    BY <1>10, RemoveType DEF RefuseLinks, Refuse, Types, PayloadType
  <2>2. RunType'
    BY <1>10, EndsType DEF RefuseLinks, Refuse, Exit
  <2>3. QED
    BY <1>10, <2>1, <2>2 DEF RefuseLinks, Refuse, RemoveEntries, Kept, Types
<1>11. ASSUME OwnEntries PROVE Types'
  <2>1. PayloadType'
    BY <1>11 DEF OwnEntries, Reset, Types, PayloadType, Flaw
  <2>2. RunType'
    BY <1>11 DEF OwnEntries, Reset, Exit
  <2>3. QED
    BY <1>11, <2>1, <2>2 DEF OwnEntries, Reset, Types
<1>12. ASSUME ProvePayload PROVE Types'
  <2>1. PayloadType'
    BY <1>12, RemoveType DEF ProvePayload, Refuse, Types, PayloadType
  <2>2. RunType'
    BY <1>12, EndsType DEF ProvePayload, Refuse, Exit
  <2>3. QED
    BY <1>12, <2>1, <2>2 DEF ProvePayload, Refuse, RemoveEntries, Kept,
        Offends, Types
<1>13. ASSUME OpenPrefix PROVE Types'
  <2>1. PayloadType'
    BY <1>13 DEF OpenPrefix, Types, PayloadType, payload, Content
  <2>2. RunType'
    BY <1>13 DEF OpenPrefix, Exit
  <2>3. QED
    BY <1>13, <2>1, <2>2 DEF OpenPrefix, Types
<1>14. ASSUME CreateSpool PROVE Types'
  <2>1. RunType'
    BY <1>14 DEF CreateSpool, Exit
  <2>2. QED
    BY <1>14, <2>1 DEF CreateSpool, Types
<1>15. ASSUME LinkFarm PROVE Types'
  <2>1. Layer1Type'
    BY <1>15, DeployAssumption DEF LinkFarm, Types, Layer1Type, PayloadType
  <2>2. RunType'
    BY <1>15 DEF LinkFarm, Exit
  <2>3. QED
    BY <1>15, <2>1, <2>2 DEF LinkFarm, Types
<1>16. ASSUME WriteHooks PROVE Types'
  <2>1. Layer1Type'
    BY <1>16 DEF WriteHooks, Types, Layer1Type, layer1, Content
  <2>2. RunType'
    BY <1>16 DEF WriteHooks, Exit
  <2>3. QED
    BY <1>16, <2>1, <2>2 DEF WriteHooks, Types
<1>17. ASSUME VerifyHooks PROVE Types'
  <2>1. Layer1Type'
    BY <1>17 DEF VerifyHooks, Types, Layer1Type, layer1, Content
  <2>2. RunType'
    BY <1>17 DEF VerifyHooks, Types, RunType, progress, ending, Exit
  <2>3. QED
    BY <1>17, <2>1, <2>2 DEF VerifyHooks, Types
<1>18. ASSUME ProveFarm PROVE Types'
  <2>1. RunType'
    BY <1>18 DEF ProveFarm, Offends, Exit
  <2>2. QED
    BY <1>18, <2>1 DEF ProveFarm, Offends, Types
<1>19. ASSUME WriteService PROVE Types'
  <2>1. UnitsType'
    BY <1>19 DEF WriteService, WriteUnit, Types, UnitsType, BuildType, Unit
  <2>2. RunType'
    BY <1>19 DEF WriteService, WriteUnit, Exit
  <2>3. QED
    BY <1>19, <2>1, <2>2 DEF WriteService, WriteUnit, Types
<1>20. ASSUME WriteTimer PROVE Types'
  <2>1. UnitsType'
    BY <1>20 DEF WriteTimer, WriteUnit, Types, UnitsType, BuildType, Unit
  <2>2. RunType'
    BY <1>20 DEF WriteTimer, WriteUnit, Exit
  <2>3. QED
    BY <1>20, <2>1, <2>2 DEF WriteTimer, WriteUnit, Types
<1>21. ASSUME Reload PROVE Types'
  <2>1. RunType'
    BY <1>21 DEF Reload, Exit
  <2>2. QED
    BY <1>21, <2>1 DEF Reload, Types
<1>22. ASSUME Enable PROVE Types'
  <2>1. UnitsType'
    BY <1>22 DEF Enable, Types, UnitsType, units, Unit, Content
  <2>2. RunType'
    BY <1>22 DEF Enable, Exit
  <2>3. QED
    BY <1>22, <2>1, <2>2 DEF Enable, Types
<1>23. ASSUME RecordGrant PROVE Types'
  <2>1. JournalType'
    BY <1>23 DEF RecordGrant, Want, Types, JournalType, BuildType
  <2>2. RunType'
    BY <1>23, JournalFailsType DEF RecordGrant, Stale, Types, RunType,
        JournalType, ending
  <2>3. QED
    BY <1>23, <2>1, <2>2 DEF RecordGrant, Want, Stale, JournalFails, Types
<1>24. ASSUME GrantRead PROVE Types'
  <2>1. JournalType'
    BY <1>24 DEF GrantRead, Types, JournalType, BuildType
  <2>2. RunType'
    BY <1>24 DEF GrantRead, JournalFails, Exit
  <2>3. QED
    BY <1>24, <2>1, <2>2 DEF GrantRead, JournalFails, Types
<1>25. ASSUME RevokeStale PROVE Types'
  <2>1. JournalType'
    BY <1>25 DEF RevokeStale, JournalFails, Types, JournalType, journal
  <2>2. RunType'
    BY <1>25 DEF RevokeStale, JournalFails, Exit
  <2>3. QED
    BY <1>25, <2>1, <2>2 DEF RevokeStale, JournalFails, Types
<1>26. ASSUME ReportInstall PROVE Types'
  <2>1. RunType'
    BY <1>26 DEF ReportInstall, InstallStatus, Exit
  <2>2. QED
    BY <1>26, <2>1 DEF ReportInstall, InstallStatus, Types
<1>27. ASSUME StartUninstall PROVE Types'
  <2>1. BuildType'
    BY <1>27 DEF StartUninstall, Types, BuildType, JournalType, Mode
  <2>2. RunType'
    BY <1>27 DEF StartUninstall, Types, RunType, JournalType, Exit, Interrupted
  <2>3. QED
    BY <1>27, <2>1, <2>2 DEF StartUninstall, Marked, Unhelped, HelperFit, Types
<1>28. ASSUME StartStrip PROVE Types'
  <2>1. BuildType'
    BY <1>28 DEF StartStrip, Types, BuildType, JournalType, Mode
  <2>2. RunType'
    BY <1>28 DEF StartStrip, HelperFit, Types, RunType, progress, ending, Exit
  <2>3. QED
    BY <1>28, <2>1, <2>2 DEF StartStrip, HelperFit, Types
<1>29. ASSUME RemoveUnits PROVE Types'
  <2>1. UnitsType'
    BY <1>29 DEF RemoveUnits, Types, UnitsType, units, Unit, Content
  <2>2. RunType'
    BY <1>29, BooleanFailed DEF RemoveUnits, Types, RunType, ending
  <2>3. QED
    BY <1>29, <2>1, <2>2 DEF RemoveUnits, Types
<1>30. ASSUME RemoveDropin PROVE Types'
  <2>1. JournalType'
    BY <1>30 DEF RemoveDropin, Types, JournalType, journal
  <2>2. RunType'
    BY <1>30 DEF RemoveDropin, Types, RunType, progress, ending, Exit
  <2>3. QED
    BY <1>30, <2>1, <2>2 DEF RemoveDropin, Types
<1>31. ASSUME RevokeGranted PROVE Types'
  <2>1. JournalType'
    BY <1>31 DEF RevokeGranted, Types, JournalType, journal
  <2>2. RunType'
    BY <1>31 DEF RevokeGranted, Types, RunType, progress, ending, Exit
  <2>3. QED
    BY <1>31, <2>1, <2>2 DEF RevokeGranted, Types
<1>32. ASSUME ClaimHooks PROVE Types'
  <2>1. RunType'
    BY <1>32 DEF ClaimHooks, Types, RunType, progress, ending, Exit
  <2>2. QED
    BY <1>32, <2>1 DEF ClaimHooks, Types
<1>33. ASSUME StripHooks PROVE Types'
  <2>1. Layer1Type'
    BY <1>33 DEF StripHooks, Types, Layer1Type, layer1, Content
  <2>2. RunType'
    BY <1>33 DEF StripHooks, Types, RunType, progress, ending, Exit
  <2>3. QED
    BY <1>33, <2>1, <2>2 DEF StripHooks, Types
<1>34. ASSUME SweepFarm PROVE Types'
  <2>1. Layer1Type'
    BY <1>34 DEF SweepFarm, Types, Layer1Type, layer1, Content
  <2>2. RunType'
    BY <1>34 DEF SweepFarm, Exit
  <2>3. QED
    BY <1>34, <2>1, <2>2 DEF SweepFarm, Types
<1>35. ASSUME Fire PROVE Types'
  <2>1. UnitsType'
    BY <1>35 DEF Fire, Types, UnitsType, units, Unit, Content
  <2>2. RunType'
    BY <1>35 DEF Fire, Exit
  <2>3. QED
    BY <1>35, <2>1, <2>2 DEF Fire, Types
<1>36. ASSUME Relink PROVE Types'
  <2>1. Layer1Type'
    BY <1>36, DeployAssumption DEF Relink, Types, Layer1Type, PayloadType
  <2>2. UnitsType'
    BY <1>36 DEF Relink, HelperFit, Types, UnitsType, units, Unit, Content
  <2>3. RunType'
    BY <1>36 DEF Relink, HelperFit, Exit
  <2>4. QED
    BY <1>36, <2>1, <2>2, <2>3 DEF Relink, HelperFit, Types
<1>37. ASSUME Reap PROVE Types'
  <2>1. UnitsType'
    BY <1>37 DEF Reap, Types, UnitsType, units, Unit, Content
  <2>2. RunType'
    BY <1>37 DEF Reap, Exit
  <2>3. QED
    BY <1>37, <2>1, <2>2 DEF Reap, Types
<1>38. ASSUME Crash PROVE Types'
  <2>1. RunType'
    BY <1>38 DEF Crash, Exit
  <2>2. QED
    BY <1>38, <2>1 DEF Crash, Types
<1>39. ASSUME Reboot PROVE Types'
  <2>1. UnitsType'
    BY <1>39 DEF Reboot, Types, UnitsType, units, Unit, Content
  <2>2. RunType'
    BY <1>39 DEF Reboot, Exit
  <2>3. QED
    BY <1>39, <2>1, <2>2 DEF Reboot, Types
<1>40. QED
  BY <1>1, <1>2, <1>3, <1>4, <1>5, <1>6, <1>7, <1>8, <1>9, <1>10, <1>11,
      <1>12, <1>13, <1>14, <1>15, <1>16, <1>17, <1>18, <1>19, <1>20, <1>21,
      <1>22, <1>23, <1>24, <1>25, <1>26, <1>27, <1>28, <1>29, <1>30, <1>31,
      <1>32, <1>33, <1>34, <1>35, <1>36, <1>37, <1>38, <1>39
  DEF Next, Deployer, Disarm, Install, Uninstall, Node

-----------------------------------------------------------------------------
(* The deployer's place in its run. *)

\* A timer that was said to be stopped starts nothing until it is enabled.
LEMMA PhasesStep ==
    ASSUME Types, Phases, Next
    PROVE  Phases'
<1> USE DEF Phases, Types, UnitsType, RunType, BuildType, Mode, units, build,
    progress, ending, node, Goto, End, Ends, CommandFails, Armed, InstallStep,
    DisarmStep, RemoveStep, Unwired, Layer1Steps, Layer2Steps, Interrupted,
    Command
<1>1. ASSUME Disable PROVE Phases'
  BY <1>1 DEF Disable
<1>2. ASSUME Stop PROVE Phases'
  BY <1>2 DEF Stop
<1>3. ASSUME ProbeTimer PROVE Phases'
  BY <1>3 DEF ProbeTimer, Probe, TimerReadsDown, StillUp
<1>4. ASSUME ProbeService PROVE Phases'
  BY <1>4 DEF ProbeService, Probe, ServiceReadsDown, StillUp
<1>5. ASSUME ProbeFile PROVE Phases'
  BY <1>5 DEF ProbeFile, Probe, FileReadsDown, AfterProbes, StillUp
<1>6. ASSUME StartInstall PROVE Phases'
  BY <1>6 DEF StartInstall
<1>7. ASSUME ClosePrefix PROVE Phases'
  BY <1>7 DEF ClosePrefix
<1>8. ASSUME NEW e \in Entry, RemoveDir(e) PROVE Phases'
  BY <1>8 DEF RemoveDir, Turn
<1>9. ASSUME NEW e \in Entry, CopyEntry(e) PROVE Phases'
  BY <1>9 DEF CopyEntry, Turn, Brings
<1>10. ASSUME RefuseLinks PROVE Phases'
  BY <1>10 DEF RefuseLinks, Refuse, RemoveEntries, Kept
<1>11. ASSUME OwnEntries PROVE Phases'
  BY <1>11 DEF OwnEntries, Reset
<1>12. ASSUME ProvePayload PROVE Phases'
  BY <1>12 DEF ProvePayload, Refuse, RemoveEntries, Kept, Offends
<1>13. ASSUME OpenPrefix PROVE Phases'
  BY <1>13 DEF OpenPrefix
<1>14. ASSUME CreateSpool PROVE Phases'
  BY <1>14 DEF CreateSpool
<1>15. ASSUME LinkFarm PROVE Phases'
  BY <1>15 DEF LinkFarm
<1>16. ASSUME WriteHooks PROVE Phases'
  BY <1>16 DEF WriteHooks
<1>17. ASSUME VerifyHooks PROVE Phases'
  BY <1>17 DEF VerifyHooks
<1>18. ASSUME ProveFarm PROVE Phases'
  BY <1>18 DEF ProveFarm, Offends
<1>19. ASSUME WriteService PROVE Phases'
  BY <1>19 DEF WriteService, WriteUnit
<1>20. ASSUME WriteTimer PROVE Phases'
  BY <1>20 DEF WriteTimer, WriteUnit
<1>21. ASSUME Reload PROVE Phases'
  BY <1>21 DEF Reload
<1>22. ASSUME Enable PROVE Phases'
  BY <1>22 DEF Enable
<1>23. ASSUME RecordGrant PROVE Phases'
  BY <1>23 DEF RecordGrant, Want, Stale, JournalFails
<1>24. ASSUME GrantRead PROVE Phases'
  BY <1>24 DEF GrantRead, JournalFails
<1>25. ASSUME RevokeStale PROVE Phases'
  BY <1>25 DEF RevokeStale, JournalFails
<1>26. ASSUME ReportInstall PROVE Phases'
  BY <1>26 DEF ReportInstall, InstallStatus
<1>27. ASSUME StartUninstall PROVE Phases'
  BY <1>27 DEF StartUninstall, Marked, Unhelped, HelperFit
<1>28. ASSUME StartStrip PROVE Phases'
  BY <1>28 DEF StartStrip, HelperFit
<1>29. ASSUME RemoveUnits PROVE Phases'
  BY <1>29 DEF RemoveUnits
<1>30. ASSUME RemoveDropin PROVE Phases'
  BY <1>30 DEF RemoveDropin
<1>31. ASSUME RevokeGranted PROVE Phases'
  BY <1>31 DEF RevokeGranted
<1>32. ASSUME ClaimHooks PROVE Phases'
  BY <1>32 DEF ClaimHooks
<1>33. ASSUME StripHooks PROVE Phases'
  BY <1>33 DEF StripHooks
<1>34. ASSUME SweepFarm PROVE Phases'
  BY <1>34 DEF SweepFarm
<1>35. ASSUME Fire PROVE Phases'
  BY <1>35 DEF Fire
<1>36. ASSUME Relink PROVE Phases'
  BY <1>36 DEF Relink, HelperFit
<1>37. ASSUME Reap PROVE Phases'
  BY <1>37 DEF Reap
<1>38. ASSUME Crash PROVE Phases'
  BY <1>38 DEF Crash
<1>39. ASSUME Reboot PROVE Phases'
  BY <1>39 DEF Reboot
<1>40. QED
  BY <1>1, <1>2, <1>3, <1>4, <1>5, <1>6, <1>7, <1>8, <1>9, <1>10, <1>11,
      <1>12, <1>13, <1>14, <1>15, <1>16, <1>17, <1>18, <1>19, <1>20, <1>21,
      <1>22, <1>23, <1>24, <1>25, <1>26, <1>27, <1>28, <1>29, <1>30, <1>31,
      <1>32, <1>33, <1>34, <1>35, <1>36, <1>37, <1>38, <1>39
  DEF Next, Deployer, Disarm, Install, Uninstall, Node

-----------------------------------------------------------------------------
(* What is under the prefix. *)

\* What users can reach is accepted, and what can fire runs under it.
LEMMA PayloadStep ==
    ASSUME Types, Phases, Payload, Next
    PROVE  Payload'
<1> USE DeployAssumption DEF Payload, Types, PayloadType, payload, units,
    Armed, ArmedIsAccepted, Accepted, Whole, WholeAt, Sound, Phases, build,
    progress, ending, node, Goto, End, Ends, CommandFails, InstallStep,
    DisarmStep, RemoveStep, Unwired, Layer1Steps, Layer2Steps, JournalSteps,
    Interrupted, Command
<1>1. ASSUME Disable PROVE Payload'
  <2>1. /\ active' = FALSE \/ active' = active
        /\ enabled' = FALSE \/ enabled' = enabled
    BY <1>1 DEF Disable
  <2>2. pc = "disable" /\ pc' = "stop" /\ UNCHANGED <<payload, service,
      version, left, cleared>>
    BY <1>1 DEF Disable
  <2>3. QED
    BY <2>1, <2>2
<1>2. ASSUME Stop PROVE Payload'
  BY <1>2 DEF Stop
<1>3. ASSUME ProbeTimer PROVE Payload'
  BY <1>3 DEF ProbeTimer, Probe, TimerReadsDown
<1>4. ASSUME ProbeService PROVE Payload'
  BY <1>4 DEF ProbeService, Probe, ServiceReadsDown
<1>5. ASSUME ProbeFile PROVE Payload'
  BY <1>5 DEF ProbeFile, Probe, FileReadsDown, AfterProbes
<1>6. ASSUME StartInstall PROVE Payload'
  BY <1>6 DEF StartInstall
<1>7. ASSUME ClosePrefix PROVE Payload'
  BY <1>7 DEF ClosePrefix
<1>8. ASSUME NEW e \in Entry, RemoveDir(e) PROVE Payload'
  BY <1>8 DEF RemoveDir, Turn
<1>9. ASSUME NEW e \in Entry, CopyEntry(e) PROVE Payload'
  BY <1>9 DEF CopyEntry, Turn, Brings
<1>10. ASSUME RefuseLinks PROVE Payload'
  BY <1>10 DEF RefuseLinks, Refuse, RemoveEntries, Kept
<1>11. ASSUME OwnEntries PROVE Payload'
  BY <1>11 DEF OwnEntries, Reset
<1>12. ASSUME ProvePayload PROVE Payload'
  BY <1>12 DEF ProvePayload, Refuse, RemoveEntries, Kept, Offends
<1>13. ASSUME OpenPrefix PROVE Payload'
  BY <1>13 DEF OpenPrefix
<1>14. ASSUME CreateSpool PROVE Payload'
  BY <1>14 DEF CreateSpool
<1>15. ASSUME LinkFarm PROVE Payload'
  BY <1>15 DEF LinkFarm
<1>16. ASSUME WriteHooks PROVE Payload'
  BY <1>16 DEF WriteHooks
<1>17. ASSUME VerifyHooks PROVE Payload'
  BY <1>17 DEF VerifyHooks
<1>18. ASSUME ProveFarm PROVE Payload'
  BY <1>18 DEF ProveFarm, Offends
<1>19. ASSUME WriteService PROVE Payload'
  BY <1>19 DEF WriteService, WriteUnit
<1>20. ASSUME WriteTimer PROVE Payload'
  BY <1>20 DEF WriteTimer, WriteUnit
<1>21. ASSUME Reload PROVE Payload'
  BY <1>21 DEF Reload
<1>22. ASSUME Enable PROVE Payload'
  BY <1>22 DEF Enable
<1>23. ASSUME RecordGrant PROVE Payload'
  BY <1>23 DEF RecordGrant, Want, Stale, JournalFails
<1>24. ASSUME GrantRead PROVE Payload'
  BY <1>24 DEF GrantRead, JournalFails
<1>25. ASSUME RevokeStale PROVE Payload'
  BY <1>25 DEF RevokeStale, JournalFails
<1>26. ASSUME ReportInstall PROVE Payload'
  BY <1>26 DEF ReportInstall, InstallStatus
<1>27. ASSUME StartUninstall PROVE Payload'
  BY <1>27 DEF StartUninstall, Marked, Unhelped, HelperFit
<1>28. ASSUME StartStrip PROVE Payload'
  BY <1>28 DEF StartStrip, HelperFit
<1>29. ASSUME RemoveUnits PROVE Payload'
  BY <1>29 DEF RemoveUnits
<1>30. ASSUME RemoveDropin PROVE Payload'
  BY <1>30 DEF RemoveDropin
<1>31. ASSUME RevokeGranted PROVE Payload'
  BY <1>31 DEF RevokeGranted
<1>32. ASSUME ClaimHooks PROVE Payload'
  BY <1>32 DEF ClaimHooks
<1>33. ASSUME StripHooks PROVE Payload'
  BY <1>33 DEF StripHooks
<1>34. ASSUME SweepFarm PROVE Payload'
  BY <1>34 DEF SweepFarm
<1>35. ASSUME Fire PROVE Payload'
  BY <1>35 DEF Fire
<1>36. ASSUME Relink PROVE Payload'
  BY <1>36 DEF Relink, HelperFit
<1>37. ASSUME Reap PROVE Payload'
  BY <1>37 DEF Reap
<1>38. ASSUME Crash PROVE Payload'
  BY <1>38 DEF Crash
<1>39. ASSUME Reboot PROVE Payload'
  BY <1>39 DEF Reboot
<1>40. QED
  BY <1>1, <1>2, <1>3, <1>4, <1>5, <1>6, <1>7, <1>8, <1>9, <1>10, <1>11,
      <1>12, <1>13, <1>14, <1>15, <1>16, <1>17, <1>18, <1>19, <1>20, <1>21,
      <1>22, <1>23, <1>24, <1>25, <1>26, <1>27, <1>28, <1>29, <1>30, <1>31,
      <1>32, <1>33, <1>34, <1>35, <1>36, <1>37, <1>38, <1>39
  DEF Next, Deployer, Disarm, Install, Uninstall, Node

-----------------------------------------------------------------------------
(* What an install says. *)

\* What an install has put in place, it has at its status.
LEMMA StatusStep ==
    ASSUME Types, Phases, Payload, Status, Next
    PROVE  Status'
<1> USE DeployAssumption DEF Status, Disarming, StatusIsTrue, Ended, Types,
    PayloadType, Layer1Type, UnitsType, BuildType, payload, layer1, units,
    Unit, Payload, ArmedIsAccepted, WholeAt, Phases, Armed, Observe, Absent,
    build, progress, ending, node, Goto, End, Ends, CommandFails, InstallStep,
    DisarmStep, RemoveStep, Unwired, Layer1Steps, Layer2Steps, JournalSteps,
    Interrupted, Command
<1>1. ASSUME Disable, Observe PROVE Status'
  BY <1>1 DEF Disable
<1>2. ASSUME Stop, Observe PROVE Status'
  BY <1>2 DEF Stop
<1>3. ASSUME ProbeTimer, Observe PROVE Status'
  BY <1>3 DEF ProbeTimer, Probe, TimerReadsDown, StillUp
<1>4. ASSUME ProbeService, Observe PROVE Status'
  BY <1>4 DEF ProbeService, Probe, ServiceReadsDown, StillUp
<1>5. ASSUME ProbeFile, Observe PROVE Status'
  BY <1>5 DEF ProbeFile, Probe, FileReadsDown, AfterProbes, StillUp
<1>6. ASSUME StartInstall, Observe PROVE Status'
  BY <1>6 DEF StartInstall
<1>7. ASSUME ClosePrefix, Observe PROVE Status'
  BY <1>7 DEF ClosePrefix
<1>8. ASSUME NEW e \in Entry, RemoveDir(e), Observe PROVE Status'
  BY <1>8 DEF RemoveDir, Turn
<1>9. ASSUME NEW e \in Entry, CopyEntry(e), Observe PROVE Status'
  BY <1>9 DEF CopyEntry, Turn, Brings
<1>10. ASSUME RefuseLinks, Observe PROVE Status'
  BY <1>10 DEF RefuseLinks, Refuse, RemoveEntries, Kept
<1>11. ASSUME OwnEntries, Observe PROVE Status'
  BY <1>11 DEF OwnEntries, Reset
<1>12. ASSUME ProvePayload, Observe PROVE Status'
  BY <1>12 DEF ProvePayload, Refuse, RemoveEntries, Kept, Offends
<1>13. ASSUME OpenPrefix, Observe PROVE Status'
  BY <1>13 DEF OpenPrefix
<1>14. ASSUME CreateSpool, Observe PROVE Status'
  BY <1>14 DEF CreateSpool
<1>15. ASSUME LinkFarm, Observe PROVE Status'
  BY <1>15 DEF LinkFarm
<1>16. ASSUME WriteHooks, Observe PROVE Status'
  BY <1>16 DEF WriteHooks
<1>17. ASSUME VerifyHooks, Observe PROVE Status'
  BY <1>17 DEF VerifyHooks
<1>18. ASSUME ProveFarm, Observe PROVE Status'
  BY <1>18 DEF ProveFarm, Offends
<1>19. ASSUME WriteService, Observe PROVE Status'
  BY <1>19 DEF WriteService, WriteUnit
<1>20. ASSUME WriteTimer, Observe PROVE Status'
  BY <1>20 DEF WriteTimer, WriteUnit
<1>21. ASSUME Reload, Observe PROVE Status'
  BY <1>21 DEF Reload
<1>22. ASSUME Enable, Observe PROVE Status'
  BY <1>22 DEF Enable
<1>23. ASSUME RecordGrant, Observe PROVE Status'
  BY <1>23 DEF RecordGrant, Want, Stale, JournalFails
<1>24. ASSUME GrantRead, Observe PROVE Status'
  BY <1>24 DEF GrantRead, JournalFails
<1>25. ASSUME RevokeStale, Observe PROVE Status'
  BY <1>25 DEF RevokeStale, JournalFails
<1>26. ASSUME ReportInstall, Observe PROVE Status'
  BY <1>26 DEF ReportInstall, InstallStatus
<1>27. ASSUME StartUninstall, Observe PROVE Status'
  BY <1>27 DEF StartUninstall, Marked, Unhelped, HelperFit
<1>28. ASSUME StartStrip, Observe PROVE Status'
  BY <1>28 DEF StartStrip, HelperFit
<1>29. ASSUME RemoveUnits, Observe PROVE Status'
  BY <1>29 DEF RemoveUnits
<1>30. ASSUME RemoveDropin, Observe PROVE Status'
  BY <1>30 DEF RemoveDropin
<1>31. ASSUME RevokeGranted, Observe PROVE Status'
  BY <1>31 DEF RevokeGranted
<1>32. ASSUME ClaimHooks, Observe PROVE Status'
  BY <1>32 DEF ClaimHooks
<1>33. ASSUME StripHooks, Observe PROVE Status'
  BY <1>33 DEF StripHooks
<1>34. ASSUME SweepFarm, Observe PROVE Status'
  BY <1>34 DEF SweepFarm
<1>35. ASSUME Fire, UNCHANGED changed PROVE Status'
  BY <1>35 DEF Fire
<1>36. ASSUME Relink, UNCHANGED changed PROVE Status'
  BY <1>36 DEF Relink, HelperFit
<1>37. ASSUME Reap, UNCHANGED changed PROVE Status'
  BY <1>37 DEF Reap
<1>38. ASSUME Crash, UNCHANGED changed PROVE Status'
  BY <1>38 DEF Crash
<1>39. ASSUME Reboot, UNCHANGED changed PROVE Status'
  BY <1>39 DEF Reboot
<1>40. QED
  BY <1>1, <1>2, <1>3, <1>4, <1>5, <1>6, <1>7, <1>8, <1>9, <1>10, <1>11,
      <1>12, <1>13, <1>14, <1>15, <1>16, <1>17, <1>18, <1>19, <1>20, <1>21,
      <1>22, <1>23, <1>24, <1>25, <1>26, <1>27, <1>28, <1>29, <1>30, <1>31,
      <1>32, <1>33, <1>34, <1>35, <1>36, <1>37, <1>38, <1>39
  DEF Next, Deployer, Disarm, Install, Uninstall, Node

-----------------------------------------------------------------------------
(* Who reads the journal. *)

\* What the drop-in recorded is revoked before a status of 0.
LEMMA GrantsStep ==
    ASSUME Types, Phases, Grants, Next
    PROVE  Grants'
<1> USE DEF Grants, Disarming, Helping, RecordedIsRevoked, Ended, Types,
    JournalType, BuildType, Mode, journal, Phases, Want, build, progress,
    ending, node, Goto, End, Ends, CommandFails, InstallStep, DisarmStep,
    RemoveStep, Unwired, Layer1Steps, Layer2Steps, JournalSteps, Interrupted,
    Command
<1>1. ASSUME Disable PROVE Grants'
  BY <1>1 DEF Disable
<1>2. ASSUME Stop PROVE Grants'
  BY <1>2 DEF Stop
<1>3. ASSUME ProbeTimer PROVE Grants'
  BY <1>3 DEF ProbeTimer, Probe, TimerReadsDown, StillUp
<1>4. ASSUME ProbeService PROVE Grants'
  BY <1>4 DEF ProbeService, Probe, ServiceReadsDown, StillUp
<1>5. ASSUME ProbeFile PROVE Grants'
  BY <1>5 DEF ProbeFile, Probe, FileReadsDown, AfterProbes, StillUp
<1>6. ASSUME StartInstall PROVE Grants'
  BY <1>6 DEF StartInstall
<1>7. ASSUME ClosePrefix PROVE Grants'
  BY <1>7 DEF ClosePrefix
<1>8. ASSUME NEW e \in Entry, RemoveDir(e) PROVE Grants'
  BY <1>8 DEF RemoveDir, Turn
<1>9. ASSUME NEW e \in Entry, CopyEntry(e) PROVE Grants'
  BY <1>9 DEF CopyEntry, Turn, Brings
<1>10. ASSUME RefuseLinks PROVE Grants'
  BY <1>10 DEF RefuseLinks, Refuse, RemoveEntries, Kept
<1>11. ASSUME OwnEntries PROVE Grants'
  BY <1>11 DEF OwnEntries, Reset
<1>12. ASSUME ProvePayload PROVE Grants'
  BY <1>12 DEF ProvePayload, Refuse, RemoveEntries, Kept, Offends
<1>13. ASSUME OpenPrefix PROVE Grants'
  BY <1>13 DEF OpenPrefix
<1>14. ASSUME CreateSpool PROVE Grants'
  BY <1>14 DEF CreateSpool
<1>15. ASSUME LinkFarm PROVE Grants'
  BY <1>15 DEF LinkFarm
<1>16. ASSUME WriteHooks PROVE Grants'
  BY <1>16 DEF WriteHooks
<1>17. ASSUME VerifyHooks PROVE Grants'
  BY <1>17 DEF VerifyHooks
<1>18. ASSUME ProveFarm PROVE Grants'
  BY <1>18 DEF ProveFarm, Offends
<1>19. ASSUME WriteService PROVE Grants'
  BY <1>19 DEF WriteService, WriteUnit
<1>20. ASSUME WriteTimer PROVE Grants'
  BY <1>20 DEF WriteTimer, WriteUnit
<1>21. ASSUME Reload PROVE Grants'
  BY <1>21 DEF Reload
<1>22. ASSUME Enable PROVE Grants'
  BY <1>22 DEF Enable
<1>23. ASSUME RecordGrant PROVE Grants'
  BY <1>23 DEF RecordGrant, Want, Stale, JournalFails
<1>24. ASSUME GrantRead PROVE Grants'
  BY <1>24 DEF GrantRead, JournalFails
<1>25. ASSUME RevokeStale PROVE Grants'
  BY <1>25 DEF RevokeStale, JournalFails
<1>26. ASSUME ReportInstall PROVE Grants'
  BY <1>26 DEF ReportInstall, InstallStatus
<1>27. ASSUME StartUninstall PROVE Grants'
  BY <1>27 DEF StartUninstall, Marked, Unhelped, HelperFit
<1>28. ASSUME StartStrip PROVE Grants'
  BY <1>28 DEF StartStrip, HelperFit
<1>29. ASSUME RemoveUnits PROVE Grants'
  BY <1>29 DEF RemoveUnits
<1>30. ASSUME RemoveDropin PROVE Grants'
  BY <1>30 DEF RemoveDropin
<1>31. ASSUME RevokeGranted PROVE Grants'
  BY <1>31 DEF RevokeGranted
<1>32. ASSUME ClaimHooks PROVE Grants'
  BY <1>32 DEF ClaimHooks
<1>33. ASSUME StripHooks PROVE Grants'
  BY <1>33 DEF StripHooks
<1>34. ASSUME SweepFarm PROVE Grants'
  BY <1>34 DEF SweepFarm
<1>35. ASSUME Fire PROVE Grants'
  BY <1>35 DEF Fire
<1>36. ASSUME Relink PROVE Grants'
  BY <1>36 DEF Relink, HelperFit
<1>37. ASSUME Reap PROVE Grants'
  BY <1>37 DEF Reap
<1>38. ASSUME Crash PROVE Grants'
  BY <1>38 DEF Crash
<1>39. ASSUME Reboot PROVE Grants'
  BY <1>39 DEF Reboot
<1>40. QED
  BY <1>1, <1>2, <1>3, <1>4, <1>5, <1>6, <1>7, <1>8, <1>9, <1>10, <1>11,
      <1>12, <1>13, <1>14, <1>15, <1>16, <1>17, <1>18, <1>19, <1>20, <1>21,
      <1>22, <1>23, <1>24, <1>25, <1>26, <1>27, <1>28, <1>29, <1>30, <1>31,
      <1>32, <1>33, <1>34, <1>35, <1>36, <1>37, <1>38, <1>39
  DEF Next, Deployer, Disarm, Install, Uninstall, Node

-----------------------------------------------------------------------------
(* What an uninstall leaves. *)

\* What an uninstall leaves out, it has failed at.
LEMMA RemovalStep ==
    ASSUME Types, Phases, Removal, Next
    PROVE  Removal'
<1> USE DEF Removal, Helping, RemovedStaysRemoved, Ended, Types, Layer1Type,
    UnitsType, BuildType, layer1, units, Unit, Phases, Armed, build, progress,
    ending, node, Goto, End, Ends, CommandFails, InstallStep, DisarmStep,
    RemoveStep, Unwired, Layer1Steps, Layer2Steps, JournalSteps, Interrupted,
    Command
<1>1. ASSUME Disable PROVE Removal'
  BY <1>1 DEF Disable
<1>2. ASSUME Stop PROVE Removal'
  BY <1>2 DEF Stop
<1>3. ASSUME ProbeTimer PROVE Removal'
  BY <1>3 DEF ProbeTimer, Probe, TimerReadsDown, StillUp
<1>4. ASSUME ProbeService PROVE Removal'
  BY <1>4 DEF ProbeService, Probe, ServiceReadsDown, StillUp
<1>5. ASSUME ProbeFile PROVE Removal'
  BY <1>5 DEF ProbeFile, Probe, FileReadsDown, AfterProbes, StillUp
<1>6. ASSUME StartInstall PROVE Removal'
  BY <1>6 DEF StartInstall
<1>7. ASSUME ClosePrefix PROVE Removal'
  BY <1>7 DEF ClosePrefix
<1>8. ASSUME NEW e \in Entry, RemoveDir(e) PROVE Removal'
  BY <1>8 DEF RemoveDir, Turn
<1>9. ASSUME NEW e \in Entry, CopyEntry(e) PROVE Removal'
  BY <1>9 DEF CopyEntry, Turn, Brings
<1>10. ASSUME RefuseLinks PROVE Removal'
  BY <1>10 DEF RefuseLinks, Refuse, RemoveEntries, Kept
<1>11. ASSUME OwnEntries PROVE Removal'
  BY <1>11 DEF OwnEntries, Reset
<1>12. ASSUME ProvePayload PROVE Removal'
  BY <1>12 DEF ProvePayload, Refuse, RemoveEntries, Kept, Offends
<1>13. ASSUME OpenPrefix PROVE Removal'
  BY <1>13 DEF OpenPrefix
<1>14. ASSUME CreateSpool PROVE Removal'
  BY <1>14 DEF CreateSpool
<1>15. ASSUME LinkFarm PROVE Removal'
  BY <1>15 DEF LinkFarm
<1>16. ASSUME WriteHooks PROVE Removal'
  BY <1>16 DEF WriteHooks
<1>17. ASSUME VerifyHooks PROVE Removal'
  BY <1>17 DEF VerifyHooks
<1>18. ASSUME ProveFarm PROVE Removal'
  BY <1>18 DEF ProveFarm, Offends
<1>19. ASSUME WriteService PROVE Removal'
  BY <1>19 DEF WriteService, WriteUnit
<1>20. ASSUME WriteTimer PROVE Removal'
  BY <1>20 DEF WriteTimer, WriteUnit
<1>21. ASSUME Reload PROVE Removal'
  BY <1>21 DEF Reload
<1>22. ASSUME Enable PROVE Removal'
  BY <1>22 DEF Enable
<1>23. ASSUME RecordGrant PROVE Removal'
  BY <1>23 DEF RecordGrant, Want, Stale, JournalFails
<1>24. ASSUME GrantRead PROVE Removal'
  BY <1>24 DEF GrantRead, JournalFails
<1>25. ASSUME RevokeStale PROVE Removal'
  BY <1>25 DEF RevokeStale, JournalFails
<1>26. ASSUME ReportInstall PROVE Removal'
  BY <1>26 DEF ReportInstall, InstallStatus
<1>27. ASSUME StartUninstall PROVE Removal'
  BY <1>27 DEF StartUninstall, Marked, Unhelped, HelperFit
<1>28. ASSUME StartStrip PROVE Removal'
  BY <1>28 DEF StartStrip, HelperFit
<1>29. ASSUME RemoveUnits PROVE Removal'
  BY <1>29 DEF RemoveUnits
<1>30. ASSUME RemoveDropin PROVE Removal'
  BY <1>30 DEF RemoveDropin
<1>31. ASSUME RevokeGranted PROVE Removal'
  BY <1>31 DEF RevokeGranted
<1>32. ASSUME ClaimHooks PROVE Removal'
  BY <1>32 DEF ClaimHooks
<1>33. ASSUME StripHooks PROVE Removal'
  BY <1>33 DEF StripHooks
<1>34. ASSUME SweepFarm PROVE Removal'
  BY <1>34 DEF SweepFarm
<1>35. ASSUME Fire PROVE Removal'
  BY <1>35 DEF Fire
<1>36. ASSUME Relink PROVE Removal'
  BY <1>36 DEF Relink, HelperFit
<1>37. ASSUME Reap PROVE Removal'
  BY <1>37 DEF Reap
<1>38. ASSUME Crash PROVE Removal'
  BY <1>38 DEF Crash
<1>39. ASSUME Reboot PROVE Removal'
  BY <1>39 DEF Reboot
<1>40. QED
  BY <1>1, <1>2, <1>3, <1>4, <1>5, <1>6, <1>7, <1>8, <1>9, <1>10, <1>11,
      <1>12, <1>13, <1>14, <1>15, <1>16, <1>17, <1>18, <1>19, <1>20, <1>21,
      <1>22, <1>23, <1>24, <1>25, <1>26, <1>27, <1>28, <1>29, <1>30, <1>31,
      <1>32, <1>33, <1>34, <1>35, <1>36, <1>37, <1>38, <1>39
  DEF Next, Deployer, Disarm, Install, Uninstall, Node

-----------------------------------------------------------------------------
(* The invariant, and what it says for every specification of the constants. *)

\* A node without an install satisfies the invariant.
LEMMA InitInvariant == Init => IInv
<1> SUFFICES ASSUME Init PROVE IInv
  OBVIOUS
<1> USE DEF Init
<1>1. TypeOK
  BY DEF TypeOK, Content, Flaw, Unit, Step, Mode, Exit
<1>2. Phases
  BY DEF Phases, InstallStep, RemoveStep, Unwired, Layer1Steps, Layer2Steps
<1>3. Payload
  BY DEF Payload, ArmedIsAccepted, Armed, InstallStep, Unwired, Layer1Steps,
         Layer2Steps, JournalSteps
<1>4. Status
  BY DEF Status, Disarming, StatusIsTrue, Ended, DisarmStep, Unwired,
         Layer1Steps, Layer2Steps, JournalSteps, Interrupted
<1>5. Grants
  BY DEF Grants, Disarming, Helping, RecordedIsRevoked, Ended, InstallStep,
         DisarmStep, Interrupted
<1>6. Removal
  BY DEF Removal, Helping, RemovedStaysRemoved, Ended, Interrupted
<1>7. QED
  BY <1>1, <1>2, <1>3, <1>4, <1>5, <1>6 DEF IInv

\* A step that changes nothing keeps it.
LEMMA StutterInvariant == IInv /\ UNCHANGED vars => IInv'
<1> SUFFICES ASSUME IInv, UNCHANGED vars PROVE IInv'
  OBVIOUS
<1> USE DEF IInv, vars, payload, layer1, units, journal, build, progress,
    ending
<1>1. TypeOK'
  BY DEF TypeOK
<1>2. Phases'
  BY DEF Phases, Armed
<1>3. Payload'
  BY DEF Payload, ArmedIsAccepted, Accepted, Whole, WholeAt, Sound, Armed
<1>4. Status'
  BY DEF Status, Disarming, StatusIsTrue, Ended, WholeAt, Armed
<1>5. Grants'
  BY DEF Grants, Disarming, Helping, RecordedIsRevoked, Ended, Want
<1>6. Removal'
  BY DEF Removal, Helping, RemovedStaysRemoved, Ended, Armed
<1>7. QED
  BY <1>1, <1>2, <1>3, <1>4, <1>5, <1>6

\* Every step changes what the run has changed, or leaves it alone.
LEMMA ChangedType == TypeOK /\ Next => changed' \in SUBSET {"payload", "units"}
<1> SUFFICES ASSUME TypeOK, Next PROVE changed' \in SUBSET {"payload", "units"}
  OBVIOUS
<1>1. CASE Observe
  BY <1>1, ObserveType
<1>2. CASE UNCHANGED changed
  BY <1>2 DEF TypeOK
<1>3. QED
  BY <1>1, <1>2 DEF Next, Deployer

\* Every step keeps it.
LEMMA NextInvariant == IInv /\ [Next]_vars => IInv'
<1> SUFFICES ASSUME IInv, Next PROVE IInv'
  BY StutterInvariant
<1>1. TypeOK /\ Types
  BY TypeParts DEF IInv
<1>2. TypeOK'
  BY <1>1, TypeStep, ChangedType, TypeParts
<1>3. Phases'
  BY <1>1, PhasesStep DEF IInv
<1>4. Payload'
  BY <1>1, PayloadStep DEF IInv
<1>5. Status'
  BY <1>1, StatusStep DEF IInv
<1>6. Grants'
  BY <1>1, GrantsStep DEF IInv
<1>7. Removal'
  BY <1>1, RemovalStep DEF IInv
<1>8. QED
  BY <1>2, <1>3, <1>4, <1>5, <1>6, <1>7 DEF IInv

\* It holds throughout.
LEMMA Invariance == Spec => []IInv
BY InitInvariant, NextInvariant, PTL DEF Spec

\* Every variable keeps its type: a run of the deployer is always at a step it
\* has, and ends with a status the code defines, node/deploy.py:266-281.
THEOREM TypeCorrect == Spec => []TypeOK
<1>1. IInv => TypeOK
  BY DEF IInv
<1>2. QED
  BY <1>1, Invariance, PTL

\* Whatever can fire as root runs over a payload that is whole, of one build
\* and past the ownership check, wherever an install stopped or the node
\* rebooted: node/deploy.py:3566-3601 and 3664-3692.
THEOREM ArmedOverAccepted == Spec => []ArmedIsAccepted
<1>1. IInv => ArmedIsAccepted
  BY DEF IInv, Payload
<1>2. QED
  BY <1>1, Invariance, PTL

\* What the status of an install says of both layers is so, and stays so until
\* the next run: node/deploy.py:3482-3493 and 3777-3857.
THEOREM StatusHolds == Spec => []StatusIsTrue
<1>1. IInv => StatusIsTrue
  BY DEF IInv, Status
<1>2. QED
  BY <1>1, Invariance, PTL

\* An uninstall that ends 0 has left nothing that could bring either layer
\* back: node/deploy.py:4110-4220, node/shim/install.sh:3200-3300.
THEOREM RemovedForGood == Spec => []RemovedStaysRemoved
<1>1. IInv => RemovedStaysRemoved
  BY DEF IInv, Removal
<1>2. QED
  BY <1>1, Invariance, PTL

\* A run that ends 0 has revoked every gid it knew of and does not grant:
\* journal_step() and system_uninstall(), node/deploy.py:3377-3412, 4172-4183.
THEOREM GrantsAreRevoked == Spec => []RecordedIsRevoked
<1>1. IInv => RecordedIsRevoked
  BY DEF IInv, Grants
<1>2. QED
  BY <1>1, Invariance, PTL
=============================================================================
