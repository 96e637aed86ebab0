---------------------------- MODULE ReaperProofs ----------------------------
(***************************************************************************)
(* What the runs check of Reaper on small instances, proved for every set  *)
(* of pids, every number of lives per pid, every cap, threshold and mode,  *)
(* and, where a theorem does not say otherwise, every combination of       *)
(* faults.                                                                 *)
(***************************************************************************)
EXTENDS Reaper, FiniteSetTheorems, TLAPS

-----------------------------------------------------------------------------
(***************************************************************************)
(* Types.                                                                  *)
(***************************************************************************)
\* A key classify() makes of a snapshot names a life that is in it.
LEMMA FindingsAreKeys ==
    ASSUME NEW table \in [Pid -> Proc],
           \A p \in Pid : table[p].alive => table[p].gen \in Gen,
           NEW streak
    PROVE  /\ Findings(table, streak) \subseteq Key
           /\ \A f \in Findings(table, streak) :
                  table[f.pid].alive /\ table[f.pid].gen = f.gen
<1>1. ASSUME NEW v \in Verdict, NEW p \in Running(table)
      PROVE  /\ KeyOf(v, p, table) \in Key
             /\ KeyOf(v, p, table).pid = p
             /\ KeyOf(v, p, table).gen = table[p].gen
             /\ table[p].alive
  BY DEF KeyOf, Key, Running
<1>2. ProcessFindings(table, streak)
        \subseteq {KeyOf(v, p, table) : v \in Verdict, p \in Running(table)}
  BY DEF ProcessFindings
<1>3. "fanout_traversal" \in Verdict
  BY DEF Verdict, ActionableVerdict
<1>4. FanoutFindings(table)
        \subseteq {KeyOf(v, p, table) : v \in Verdict, p \in Running(table)}
  BY <1>3 DEF FanoutFindings, FanoutLeaders
<1>5. QED
  BY <1>1, <1>2, <1>4 DEF Findings

\* run()'s streaks stay counts between 0 and the two that are asked for.
LEMMA StreakType ==
    ASSUME NEW table, NEW streak \in [Life -> 0 .. OPAQUE_D_POLLS]
    PROVE  NextStreak(table, streak) \in [Life -> 0 .. OPAQUE_D_POLLS]
BY DEF NextStreak, OPAQUE_D_POLLS

LEMMA EmptyStateType == EmptyState \in State
BY DEF EmptyState, State, OPAQUE_D_POLLS

LEMMA InitType == Init => TypeOK
<1> SUFFICES ASSUME Init PROVE TypeOK
  OBVIOUS
<1> USE ClassifyAssumption DEF Init
<1>1. procs \in [Pid -> Proc] /\ \A p \in Pid : procs[p].alive => procs[p].gen \in Gen
  BY DEF Proc, Kind
<1>2. disk \in State /\ mem \in State
  BY EmptyStateType
<1>3. QED
  BY <1>1, <1>2 DEF TypeOK, PC, Action

\* One step of the node: it moves one process and nothing else.
LEMMA NodeType == ASSUME TypeOK, Node PROVE TypeOK'
<1>1. PICK p \in Pid : Start(p) \/ Age(p) \/ Orphan(p) \/ Block(p) \/ Unblock(p) \/ Exit(p)
  BY DEF Node
<1>2. UNCHANGED <<files, pc, memory, history>>
  BY <1>1 DEF Start, Age, Orphan, Block, Unblock, Exit, Set
<1>3. procs' \in [Pid -> Proc] /\ \A q \in Pid : procs'[q].alive => procs'[q].gen \in Gen
  <2> USE DEF TypeOK, Proc, Set, Gen
  <2>1. CASE Start(p)
    <3>1. PICK kind \in Kinds, parent \in Parents :
            procs' = [procs EXCEPT ![p] =
                [alive |-> TRUE, gen |-> procs[p].gen + 1, kind |-> kind,
                 parent |-> parent, old |-> FALSE, inD |-> FALSE, hit |-> "none"]]
      BY <2>1 DEF Start
    <3>2. procs[p].gen + 1 \in 1 .. MaxGen /\ kind \in Kind
      BY <2>1, ClassifyAssumption, ReaperAssumption DEF Start
    <3>3. QED
      BY <3>1, <3>2
  <2>2. CASE Age(p)
    BY <2>2 DEF Age
  <2>3. CASE Orphan(p)
    BY <2>3 DEF Orphan
  <2>4. CASE Block(p)
    BY <2>4 DEF Block
  <2>5. CASE Unblock(p)
    BY <2>5 DEF Unblock
  <2>6. CASE Exit(p)
    BY <2>6 DEF Exit
  <2>7. QED
    BY <1>1, <2>1, <2>2, <2>3, <2>4, <2>5, <2>6
<1>4. QED
  BY <1>2, <1>3 DEF TypeOK, files, memory, history

\* What an append does, whichever way it goes.
LEMMA AppendType ==
    ASSUME TypeOK, NEW row \in Row, Append(row)
    PROVE  /\ audit' \subseteq Row /\ audit1' \subseteq Row
           /\ unrecorded' \in BOOLEAN
           /\ written' \subseteq Row
           /\ rowsNow' \subseteq Key \cup Sentinel
BY DEF TypeOK, Append, AppendAudit, Row

LEMMA RememberType ==
    ASSUME NEW state \in State, NEW row \in Row
    PROVE  [state EXCEPT !.logged = Remember(@, row)] \in State
BY DEF State, Remember

LEMMA DeliverType ==
    ASSUME TypeOK, NEW p \in Pid, NEW signal \in {"term", "kill"}, Deliver(p, signal)
    PROVE  /\ procs' \in [Pid -> Proc]
           /\ \A q \in Pid : procs'[q].alive => procs'[q].gen \in Gen
           /\ \A q \in Pid : /\ procs'[q].alive = procs[q].alive
                             /\ procs'[q].gen = procs[q].gen
                             /\ procs'[q].kind = procs[q].kind
BY DEF TypeOK, Deliver, Proc

\* A reaper's step leaves every type, one case per step.
LEMMA PollType == ASSUME TypeOK, Poll PROVE TypeOK'
<1> USE ClassifyAssumption, ReaperAssumption
<1>1. CASE Begin
  <2>1. mem' \in State /\ unrecorded' \in BOOLEAN
    BY <1>1, EmptyStateType DEF Begin, TypeOK, May
  <2>2. QED
    BY <1>1, <2>1 DEF Begin, TypeOK, PC, node, files, history
<1>2. CASE NoSlices
  <2>1. BlindSlices \in Sentinel /\ "blind" \in Action
    BY DEF Sentinel, Action
  <2>2. QED
    BY <1>2, <2>1 DEF NoSlices, TypeOK, PC, node, files, history
<1>3. CASE NoProcs
  <2>1. BlindProcs \in Sentinel /\ "blind" \in Action
    BY DEF Sentinel, Action
  <2>2. mem' \in State
    BY <1>3 DEF NoProcs, Forget, TypeOK, State
  <2>3. QED
    BY <1>3, <2>1, <2>2 DEF NoProcs, TypeOK, PC, node, files
<1>4. CASE LatchBlind
  <2> DEFINE row == [key |-> cur, action |-> action]
  <2>1. row \in Row /\ Append(row) /\ cur \in Sentinel
    BY <1>4 DEF LatchBlind, TypeOK, Row
  <2>2. mem' \in State
    BY <1>4, <2>1, RememberType DEF LatchBlind, TypeOK
  <2>3. blindOpen' \subseteq Sentinel
    BY <1>4, <2>1 DEF LatchBlind, TypeOK
  <2> HIDE DEF row
  <2>4. QED
    BY <1>4, <2>1, <2>2, <2>3, AppendType DEF LatchBlind, TypeOK, PC, node
<1>5. CASE Scan
  <2> DEFINE streak == NextStreak(procs, mem.streak)
             findings == Findings(procs, streak)
  <2>1. streak \in [Life -> 0 .. OPAQUE_D_POLLS]
    BY StreakType DEF TypeOK, State
  <2>2. findings \subseteq Key
    BY FindingsAreKeys DEF TypeOK
  <2>3. Forget(Sentinel).logged \subseteq Row
    BY DEF Forget, TypeOK, State
  <2>4. LivesIn(procs) \subseteq Life
    BY DEF LivesIn, Running, Life, TypeOK
  <2> HIDE DEF streak, findings
  <2>5. /\ found' = findings /\ pending' = findings
        /\ fresh' = findings \ mem.latched
        /\ mem' = [latched |-> findings, logged |-> Forget(Sentinel).logged,
                   streak |-> streak]
    BY <1>5 DEF Scan, Latch, streak, findings
  <2>6. mem' \in State
    BY <2>1, <2>2, <2>3, <2>5 DEF State
  <2>7. thisD' \subseteq Life /\ seen' \subseteq Life
    BY <1>5, <2>4 DEF Scan
  <2>8. acted = {}
    BY <1>5 DEF Scan, TypeOK
  <2>9. QED
    BY <1>5, <2>2, <2>5, <2>6, <2>7, <2>8 DEF Scan, TypeOK, PC, node, files
<1>6. ASSUME NEW f \in pending, Report(f) PROVE TypeOK'
  <2>1. action' \in Action /\ cur' \in Key /\ pc' = "append"
    BY <1>6 DEF Report, Take, Decide, TypeOK, Action
  <2>2. QED
    BY <1>6, <2>1 DEF Report, Take, TypeOK, PC, node, files, history
<1>7. ASSUME NEW f \in pending, SkipPastCap(f) PROVE TypeOK'
  <2>1. action' \in Action /\ cur' \in Key /\ pc' = "append"
    BY <1>7 DEF SkipPastCap, Take, Decide, TypeOK, Action
  <2>2. QED
    BY <1>7, <2>1 DEF SkipPastCap, Take, TypeOK, PC, node, files, history
<1>8. ASSUME NEW f \in pending, Term(f) PROVE TypeOK'
  <2>1. f \in Key /\ f.pid \in Pid /\ cur' = f
    BY <1>8 DEF Term, Take, TypeOK, Key
  <2>2. action' \in Action /\ pc' \in {"grace", "append"}
    BY <1>8 DEF Term, Decide, TypeOK, Action, GoneAction, KILL_DID_NOT_LAND
  <2>3. /\ procs' \in [Pid -> Proc]
        /\ \A q \in Pid : procs'[q].alive => procs'[q].gen \in Gen
    BY <1>8, <2>1, DeliverType DEF Term, TypeOK, node
  <2>4. QED
    BY <1>8, <2>1, <2>2, <2>3 DEF Term, Take, TypeOK, PC, files, history
<1>9. CASE Kill
  <2>1. cur \in Key /\ cur.pid \in Pid
    BY <1>9 DEF Kill, TypeOK, Key
  <2>2. action' \in Action /\ pc' \in {"settle", "append"}
    BY <1>9 DEF Kill, Decide, TypeOK, Action, GoneAction, KILL_DID_NOT_LAND
  <2>3. /\ procs' \in [Pid -> Proc]
        /\ \A q \in Pid : procs'[q].alive => procs'[q].gen \in Gen
    BY <1>9, <2>1, DeliverType DEF Kill, TypeOK, node
  <2>4. QED
    BY <1>9, <2>1, <2>2, <2>3 DEF Kill, TypeOK, PC, files, history
<1>10. CASE Recheck
  <2>1. cur \in Key /\ action' \in Action /\ pc' = "append"
    BY <1>10 DEF Recheck, Decide, TypeOK, Action, GoneAction, KILL_DID_NOT_LAND
  <2>2. QED
    BY <1>10, <2>1 DEF Recheck, TypeOK, PC, node, files, history
<1>11. CASE AppendFinding
  <2> DEFINE row == [key |-> cur, action |-> action]
  <2>1. row \in Row
    BY <1>11 DEF AppendFinding, TypeOK, Row
  <2>2. /\ audit' \subseteq Row /\ audit1' \subseteq Row
        /\ unrecorded' \in BOOLEAN /\ written' \subseteq Row
        /\ rowsNow' \subseteq Key \cup Sentinel
    BY <1>11, <2>1, AppendType DEF AppendFinding, TypeOK
  <2>3. mem' \in State
    BY <1>11, <2>1, RememberType DEF AppendFinding, TypeOK
  <2>4. entries' \subseteq Row
    BY <1>11, <2>1 DEF AppendFinding, TypeOK
  <2> HIDE DEF row
  <2>5. QED
    BY <1>11, <2>2, <2>3, <2>4 DEF AppendFinding, TypeOK, PC, node
<1>12. CASE Prune
  <2>1. mem' \in State
    BY <1>12 DEF Prune, TypeOK, State
  <2>2. QED
    BY <1>12, <2>1 DEF Prune, TypeOK, PC, node, files, history
<1>13. CASE Save
  BY <1>13 DEF Save, TypeOK, PC, node, history
<1>14. CASE Return
  BY <1>14, EmptyStateType
  DEF Return, Cleared, TypeOK, PC, Action, node, files
<1>15. QED
  BY <1>1, <1>2, <1>3, <1>4, <1>5, <1>6, <1>7, <1>8, <1>9, <1>10, <1>11,
     <1>12, <1>13, <1>14 DEF Poll

LEMMA NextType == ASSUME TypeOK, [Next]_vars PROVE TypeOK'
<1>1. CASE Poll
  BY <1>1, PollType
<1>2. CASE Crash
  BY <1>2, EmptyStateType DEF Crash, Cleared, TypeOK, PC, Action, node, files
<1>3. CASE Node
  BY <1>3, NodeType
<1>4. CASE UNCHANGED vars
  BY <1>4 DEF vars, node, files, memory, history, TypeOK
<1>5. QED
  BY <1>1, <1>2, <1>3, <1>4 DEF Next

\* Every variable keeps its type: no poll acts on a finding it did not make.
THEOREM TypeCorrect == Spec => []TypeOK
<1>1. QED
  BY InitType, NextType, PTL DEF Spec

-----------------------------------------------------------------------------
(***************************************************************************)
(* The trail.  While the door is open, everything decided this poll and    *)
(* everything remembered as logged has been written; and every finding is  *)
(* still to be taken, in hand, or decided.                                 *)
(***************************************************************************)
InHand(f) == pc \in {"grace", "settle", "append"} /\ cur = f

Decided(f) == \E row \in entries : row.key = f

TrailInv ==
    /\ ~unrecorded => entries \subseteq written /\ mem.logged \subseteq written
    /\ disk.logged \subseteq written
    /\ \A f \in found : f \in pending \/ InHand(f) \/ Decided(f)
    /\ pc \in {"save", "return"} => pending = {}

\* A sentinel carries pid 0, which is nobody's.
LEMMA SentinelIsNoKey ==
    /\ \A k \in Sentinel \cup {NoKey} : k \notin Key
    /\ \A k \in Sentinel : LifeOf(k) \notin Life
BY ClassifyAssumption DEF Sentinel, BlindSlices, BlindProcs, NoKey, Key, LifeOf, Life

\* An append leaves the row written, or the door closed.
LEMMA AppendWrites ==
    ASSUME NEW row, Append(row), unrecorded \in BOOLEAN
    PROVE  /\ written \subseteq written'
           /\ written' \subseteq written \cup {row}
           /\ ~unrecorded' => ~unrecorded /\ row \in written'
           /\ unrecorded => unrecorded'
BY DEF Append, AppendAudit

LEMMA TrailStep ==
    ASSUME TypeOK, TrailInv, [Next]_vars PROVE TrailInv'
<1> USE DEF TrailInv, InHand, Decided
<1>1. CASE Begin
  <2>1. mem'.logged \subseteq written /\ entries = {}
    BY <1>1 DEF Begin, EmptyState, TypeOK
  <2>2. QED
    BY <1>1, <2>1 DEF Begin, TypeOK, files, history
<1>2. CASE NoSlices
  BY <1>2 DEF NoSlices, TypeOK, files, history
<1>3. CASE NoProcs
  <2>1. mem'.logged \subseteq mem.logged
    BY <1>3 DEF NoProcs, Forget, TypeOK, State
  <2>2. QED
    BY <1>3, <2>1 DEF NoProcs, TypeOK, files
<1>4. CASE LatchBlind
  <2> DEFINE row == [key |-> cur, action |-> action]
  <2>1. Append(row) /\ mem'.logged \subseteq mem.logged \cup {row}
    BY <1>4 DEF LatchBlind, Remember, TypeOK, State
  <2> HIDE DEF row
  <2>2. entries' = {} /\ found' = {} /\ pending' = {} /\ disk' = disk
    BY <1>4 DEF LatchBlind, TypeOK
  <2>3. QED
    BY <2>1, <2>2, AppendWrites DEF TypeOK
<1>5. CASE Scan
  <2>1. mem'.logged \subseteq mem.logged
    BY <1>5 DEF Scan, Forget
  <2>2. QED
    BY <1>5, <2>1 DEF Scan, TypeOK, files
<1>6. ASSUME NEW f \in pending, Report(f) PROVE TrailInv'
  BY <1>6 DEF Report, Take, Decide, TypeOK, files, history
<1>7. ASSUME NEW f \in pending, SkipPastCap(f) PROVE TrailInv'
  BY <1>7 DEF SkipPastCap, Take, Decide, TypeOK, files, history
<1>8. ASSUME NEW f \in pending, Term(f) PROVE TrailInv'
  BY <1>8 DEF Term, Take, Decide, TypeOK, files, history
<1>9. CASE Kill
  BY <1>9 DEF Kill, Decide, TypeOK, files, history
<1>10. CASE Recheck
  BY <1>10 DEF Recheck, Decide, TypeOK, files, history
<1>11. CASE AppendFinding
  <2> DEFINE row == [key |-> cur, action |-> action]
  <2>1. entries' = entries \cup {row} /\ row.key = cur /\ disk' = disk
    BY <1>11 DEF AppendFinding
  <2>2. /\ written \subseteq written'
        /\ mem'.logged \subseteq mem.logged \cup {row}
        /\ ~unrecorded' => ~unrecorded /\ row \in written'
    <3>1. CASE Append(row) /\ mem' = [mem EXCEPT !.logged = Remember(@, row)]
      <4>1. mem'.logged \subseteq mem.logged \cup {row}
        BY <3>1 DEF Remember, TypeOK, State
      <4> HIDE DEF row
      <4>2. QED
        BY <3>1, <4>1, AppendWrites DEF TypeOK
    <3>2. CASE row \in mem.logged /\ UNCHANGED <<mem, unrecorded, written>>
      BY <3>2
    <3>3. QED
      BY <1>11, <3>1, <3>2 DEF AppendFinding
  <2> HIDE DEF row
  <2>3. \A f \in found' : f \in pending' \/ f = cur \/ Decided(f)
    BY <1>11 DEF AppendFinding
  <2>4. QED
    BY <1>11, <2>1, <2>2, <2>3 DEF AppendFinding
<1>12. CASE Prune
  <2>1. mem'.logged \subseteq mem.logged
    BY <1>12 DEF Prune, TypeOK, State
  <2>2. QED
    BY <1>12, <2>1 DEF Prune, files, history
<1>13. CASE Save
  BY <1>13 DEF Save, TypeOK, history
<1>14. CASE Return \/ Crash
  BY <1>14 DEF Return, Crash, Cleared, EmptyState, files
<1>15. CASE Node
  <2>1. UNCHANGED <<files, pc, memory, history>>
    BY <1>15 DEF Node, Start, Age, Orphan, Block, Unblock, Exit, Set
  <2>2. QED
    BY <2>1 DEF files, memory, history
<1>16. CASE UNCHANGED vars
  BY <1>16 DEF vars, files, memory, history
<1>17. QED
  BY <1>1, <1>2, <1>3, <1>4, <1>5, <1>6, <1>7, <1>8, <1>9, <1>10, <1>11,
     <1>12, <1>13, <1>14, <1>15, <1>16 DEF Next, Poll

LEMMA TrailInvariant == Spec => []TrailInv
<1>1. Init => TrailInv
  BY DEF Init, TrailInv, EmptyState
<1>2. TypeOK /\ TrailInv /\ [Next]_vars => TrailInv'
  BY TrailStep
<1>3. QED
  BY <1>1, <1>2, TypeCorrect, PTL DEF Spec

\* A poll that exits 0 or 1 has every finding it made in the trail, with the
\* action it took, whatever failed and whenever the unit was stopped before.
THEOREM CleanExitIsRecorded == Spec => []TrailComplete
<1>1. TypeOK /\ TrailInv => TrailComplete
  <2> SUFFICES ASSUME TypeOK, TrailInv, pc = "return",
                      ExitCode \in {EXIT_QUIET, EXIT_ACTIONABLE}
               PROVE  \A f \in found : \E row \in entries :
                          row.key = f /\ row \in written
    BY DEF TrailComplete
  <2>1. ~unrecorded
    <3> SUFFICES ASSUME unrecorded PROVE FALSE
      BY DEF TypeOK
    <3>1. CASE cur \in Sentinel
      BY <3>1 DEF ExitCode, EXIT_BLIND, EXIT_QUIET, EXIT_ACTIONABLE
    <3>2. CASE cur \notin Sentinel /\ FailedKills
      BY <3>2 DEF ExitCode, EXIT_KILL_FAILED, EXIT_QUIET, EXIT_ACTIONABLE
    <3>3. CASE cur \notin Sentinel /\ ~FailedKills
      BY <3>3 DEF ExitCode, EXIT_UNRECORDED, EXIT_QUIET, EXIT_ACTIONABLE
    <3>4. QED
      BY <3>1, <3>2, <3>3
  <2>2. \A f \in found : Decided(f)
    BY DEF TrailInv, InHand
  <2>3. QED
    BY <2>1, <2>2 DEF TrailInv, Decided
<1>2. QED
  BY <1>1, TypeCorrect, TrailInvariant, PTL

\* What the state file says was logged was written, so the dedup of a later
\* poll never leaves a row out that no poll wrote.
THEOREM DedupIsSound == Spec => []RememberedIsWritten
<1>1. TrailInv => RememberedIsWritten
  BY DEF TrailInv, RememberedIsWritten
<1>2. QED
  BY <1>1, TrailInvariant, PTL

-----------------------------------------------------------------------------
(***************************************************************************)
(* What is claimed of a process.  Lives of a pid only move on, so a life   *)
(* that is over stays over: `Gone` is stable, and every way of reporting   *)
(* an end has just looked.                                                 *)
(***************************************************************************)
Gone(k) == /\ k \in Key
           /\ k.gen <= procs[k.pid].gen
           /\ procs[k.pid].alive => procs[k.pid].gen # k.gen

Attempt == KILL_DID_NOT_LAND \cup GoneAction

DeathInv ==
    /\ \A f \in found : f.gen <= procs[f.pid].gen
    /\ pc \in {"grace", "settle", "append"} => cur \in found
    /\ \A row \in written \cup entries : row.action \in GoneAction => Gone(row.key)
    /\ pc = "append" /\ action \in GoneAction => Gone(cur)
    /\ pc = "blind" => action \notin GoneAction
    /\ \A f \in acted : \/ InHand(f) /\ (pc = "append" => action \in Attempt)
                        \/ \E row \in entries : row.key = f /\ row.action \in Attempt
    /\ cur \in Sentinel => found = {}

\* A step of the node ends lives and starts later ones.
LEMMA NodeMovesOn ==
    ASSUME TypeOK, Node
    PROVE  /\ UNCHANGED <<files, pc, memory, history>>
           /\ \A p \in Pid :
                /\ procs[p].gen <= procs'[p].gen
                /\ procs'[p].alive => procs[p].alive \/ procs[p].gen < procs'[p].gen
<1>1. PICK p \in Pid : Start(p) \/ Age(p) \/ Orphan(p) \/ Block(p) \/ Unblock(p) \/ Exit(p)
  BY DEF Node
<1>2. UNCHANGED <<files, pc, memory, history>>
  BY <1>1 DEF Start, Age, Orphan, Block, Unblock, Exit, Set
<1>3. \A q \in Pid : procs[q].gen \in Nat
  BY ClassifyAssumption DEF TypeOK, Proc
<1>4. CASE Start(p)
  BY <1>2, <1>3, <1>4 DEF Start, Set, TypeOK
<1>5. CASE Age(p)
  BY <1>2, <1>3, <1>5 DEF Age, Set, TypeOK, Proc
<1>6. CASE Orphan(p)
  BY <1>2, <1>3, <1>6 DEF Orphan, Set, TypeOK, Proc
<1>7. CASE Block(p)
  BY <1>2, <1>3, <1>7 DEF Block, Set, TypeOK, Proc
<1>8. CASE Unblock(p)
  BY <1>2, <1>3, <1>8 DEF Unblock, Set, TypeOK, Proc
<1>9. CASE Exit(p)
  BY <1>2, <1>3, <1>9 DEF Exit, Set, TypeOK, Proc
<1>10. QED
  BY <1>1, <1>4, <1>5, <1>6, <1>7, <1>8, <1>9

\* Signals do not end lives, and nothing but the node does.
LEMMA GoneIsStable ==
    ASSUME TypeOK, NEW k \in Key, k.gen <= procs[k.pid].gen,
           \/ Node
           \/ UNCHANGED procs
           \/ \E p \in Pid, signal \in {"term", "kill"} : Deliver(p, signal)
    PROVE  k.gen <= procs'[k.pid].gen /\ (Gone(k) => Gone(k)')
<1>1. k.pid \in Pid /\ k.gen \in Nat /\ procs[k.pid].gen \in Nat
  <2>1. k.pid \in Pid /\ k.gen \in 1 .. MaxGen
    BY DEF Key, Gen
  <2>2. procs[k.pid] \in Proc
    BY <2>1 DEF TypeOK
  <2>3. procs[k.pid].gen \in 0 .. MaxGen
    BY <2>2 DEF Proc
  <2>4. QED
    BY <2>1, <2>3, ClassifyAssumption
<1>2. CASE Node
  <2>1. /\ procs[k.pid].gen <= procs'[k.pid].gen
        /\ procs'[k.pid].alive => procs[k.pid].alive \/ procs[k.pid].gen < procs'[k.pid].gen
    BY <1>1, <1>2, NodeMovesOn
  <2>2. procs'[k.pid].gen \in Nat
    <3>1. procs'[k.pid] \in Proc
      BY <1>1, <1>2, NodeType DEF TypeOK
    <3>2. procs'[k.pid].gen \in 0 .. MaxGen
      BY <3>1 DEF Proc
    <3>3. QED
      BY <3>2, ClassifyAssumption
  <2>3. CASE procs'[k.pid].gen = procs[k.pid].gen
    BY <1>1, <2>1, <2>2, <2>3 DEF Gone
  <2>4. CASE procs'[k.pid].gen # procs[k.pid].gen
    BY <1>1, <2>1, <2>2, <2>4 DEF Gone
  <2>5. QED
    BY <2>3, <2>4
<1>3. CASE UNCHANGED procs
  BY <1>3 DEF Gone
<1>4. CASE \E p \in Pid, signal \in {"term", "kill"} : Deliver(p, signal)
  BY <1>1, <1>4, DeliverType DEF Gone
<1>5. QED
  BY <1>2, <1>3, <1>4

LEMMA FoundIsStable ==
    ASSUME TypeOK, DeathInv,
           \/ Node
           \/ UNCHANGED procs
           \/ \E p \in Pid, signal \in {"term", "kill"} : Deliver(p, signal)
    PROVE  /\ \A f \in found : f.gen <= procs'[f.pid].gen
           /\ \A row \in written \cup entries :
                  row.action \in GoneAction => Gone(row.key)'
           /\ \A f \in found : Gone(f) => Gone(f)'
<1>1. found \subseteq Key
  BY DEF TypeOK
<1>2. \A f \in found : f.gen <= procs'[f.pid].gen /\ (Gone(f) => Gone(f)')
  BY <1>1, GoneIsStable DEF DeathInv
<1>3. ASSUME NEW row \in written \cup entries, row.action \in GoneAction
      PROVE  Gone(row.key)'
  <2>1. Gone(row.key) /\ row.key \in Key /\ row.key.gen <= procs[row.key.pid].gen
    BY <1>3 DEF DeathInv, Gone
  <2>2. QED
    BY <2>1, GoneIsStable
<1>4. QED
  BY <1>2, <1>3

\* A process that is not running has left every life named so far.
LEMMA NotRunningIsGone ==
    ASSUME TypeOK, DeathInv, NEW f \in found, ~procs[f.pid].alive
    PROVE  Gone(f)
BY DEF TypeOK, DeathInv, Gone

\* Steps that only decide: the finding in hand gets `outcome`.
LEMMA DecideStep ==
    ASSUME TypeOK, DeathInv, cur' \in found,
           UNCHANGED <<procs, found, entries, written>>,
           pc' = "append", action' \in Action,
           action' \in GoneAction => Gone(cur'),
           \A f \in acted' :
               \/ f = cur' /\ action' \in Attempt
               \/ \E row \in entries : row.key = f /\ row.action \in Attempt
    PROVE  DeathInv'
<1>1. cur' \in Key
  BY DEF TypeOK
<1>2. cur' \notin Sentinel
  BY <1>1, SentinelIsNoKey
<1>3. Gone(cur') => Gone(cur)'
  BY <1>1 DEF Gone
<1>4. \A row \in written \cup entries : row.action \in GoneAction => Gone(row.key)'
  BY FoundIsStable
<1>5. QED
  BY <1>2, <1>3, <1>4 DEF DeathInv, InHand

LEMMA DeathStep ==
    ASSUME TypeOK, DeathInv, [Next]_vars PROVE DeathInv'
<1> USE DEF DeathInv, InHand
<1>0. ASSUME UNCHANGED <<procs, written>>
      PROVE  \A row : Gone(row.key) => Gone(row.key)'
  BY <1>0 DEF Gone
<1>1. CASE Begin
  <2>1. /\ found = {} /\ acted = {} /\ pc' = "look"
        /\ UNCHANGED <<procs, found, acted, entries, written, cur, action>>
    BY <1>1 DEF Begin, TypeOK, node, history
  <2>2. \A r \in written \cup entries : r.action \in GoneAction => Gone(r.key)'
    BY <2>1, FoundIsStable
  <2>3. QED
    BY <2>1, <2>2
<1>2. CASE NoSlices
  <2>1. /\ found = {} /\ acted = {} /\ pc' \in {"return", "blind"} /\ action' = "blind"
        /\ UNCHANGED <<procs, found, acted, entries, written>>
    BY <1>2 DEF NoSlices, TypeOK, node, history
  <2>2. \A r \in written \cup entries : r.action \in GoneAction => Gone(r.key)'
    BY <2>1, FoundIsStable
  <2>3. action' \notin GoneAction
    BY <2>1 DEF GoneAction
  <2>4. QED
    BY <2>1, <2>2, <2>3
<1>3. CASE NoProcs
  BY <1>3, <1>0 DEF NoProcs, TypeOK, node, files, GoneAction
<1>4. CASE LatchBlind
  <2> DEFINE row == [key |-> cur, action |-> action]
  <2>1. Append(row) /\ row.action \notin GoneAction
    BY <1>4 DEF LatchBlind
  <2> HIDE DEF row
  <2>2. written' \subseteq written \cup {row}
    BY <2>1, AppendWrites DEF TypeOK
  <2>3. \A r \in written \cup entries : r.action \in GoneAction => Gone(r.key)'
    BY <1>4, FoundIsStable DEF LatchBlind, node
  <2>4. QED
    BY <1>4, <2>1, <2>2, <2>3 DEF LatchBlind, TypeOK, node
<1>5. CASE Scan
  <2>1. found' \subseteq Key /\ \A f \in found' : procs[f.pid].gen = f.gen
    BY <1>5, FindingsAreKeys DEF Scan, TypeOK
  <2>2. \A f \in found' : procs[f.pid].gen \in Nat
    <3>1. \A f \in found' : f.gen \in Gen
      BY <2>1 DEF Key
    <3>2. QED
      BY <2>1, <3>1 DEF Gen
  <2>3. cur' \notin Sentinel /\ entries' = {} /\ acted' = {} /\ procs' = procs
    BY <1>5, SentinelIsNoKey DEF Scan, TypeOK, node, Sentinel, BlindSlices, BlindProcs, NoKey
  <2>4. QED
    BY <1>5, <1>0, <2>1, <2>2, <2>3 DEF Scan, node
<1>6. ASSUME NEW f \in pending, Report(f) PROVE DeathInv'
  <2>1. action' \in Action /\ action' \notin GoneAction
    BY <1>6 DEF Report, Decide, Action, GoneAction
  <2>2. QED
    BY <1>6, <2>1, DecideStep DEF Report, Take, Decide, TypeOK, node, history
<1>7. ASSUME NEW f \in pending, SkipPastCap(f) PROVE DeathInv'
  <2>1. action' \in Action /\ action' \notin GoneAction
    BY <1>7 DEF SkipPastCap, Decide, Action, GoneAction
  <2>2. QED
    BY <1>7, <2>1, DecideStep DEF SkipPastCap, Take, Decide, TypeOK, node, history
<1>8. ASSUME NEW f \in pending, Term(f) PROVE DeathInv'
  <2>1. f \in found /\ f \in Key /\ f.pid \in Pid /\ f \notin Sentinel
    BY <1>8, SentinelIsNoKey DEF Term, Take, TypeOK, Key
  <2>2. /\ cur' = f /\ acted' = acted \cup {f}
        /\ UNCHANGED <<found, entries, written>>
    BY <1>8 DEF Term, Take, history
  <2>3. CASE Deliver(f.pid, "term") /\ pc' = "grace"
    <3>1. \A g \in found : g.gen <= procs'[g.pid].gen
      BY <2>1, <2>3, FoundIsStable
    <3>2. \A row \in written \cup entries : row.action \in GoneAction => Gone(row.key)'
      BY <2>1, <2>3, FoundIsStable
    <3>3. QED
      BY <1>8, <2>1, <2>2, <2>3, <3>1, <3>2 DEF Term, Take
  <2>4. CASE ~procs[f.pid].alive /\ Decide("already_gone") /\ UNCHANGED node
    <3>1. Gone(f)
      BY <2>1, <2>4, NotRunningIsGone
    <3>2. QED
      BY <1>8, <2>1, <2>2, <2>4, <3>1, DecideStep
      DEF Term, Take, Decide, node, Attempt, Action, GoneAction
  <2>5. CASE Decide("signal_failed") /\ UNCHANGED node
    BY <1>8, <2>1, <2>2, <2>5, DecideStep
    DEF Term, Take, Decide, node, Attempt, Action, GoneAction, KILL_DID_NOT_LAND
  <2>6. QED
    BY <1>8, <2>3, <2>4, <2>5 DEF Term
<1>9. CASE Kill
  <2>1. cur \in found /\ cur \in Key /\ cur.pid \in Pid /\ cur' = cur
    BY <1>9 DEF Kill, TypeOK, Key
  <2>2. UNCHANGED <<found, entries, written, acted>> /\ pc = "grace"
    BY <1>9 DEF Kill, history
  <2>3. CASE Deliver(cur.pid, "kill") /\ pc' = "settle"
    <3>1. \A g \in found : g.gen <= procs'[g.pid].gen
      BY <2>1, <2>3, FoundIsStable
    <3>2. \A row \in written \cup entries : row.action \in GoneAction => Gone(row.key)'
      BY <2>1, <2>3, FoundIsStable
    <3>3. QED
      BY <2>1, <2>2, <2>3, <3>1, <3>2
  <2>4. CASE ~procs[cur.pid].alive /\ Decide("terminated") /\ UNCHANGED node
    <3>1. Gone(cur)
      BY <2>1, <2>4, NotRunningIsGone
    <3>2. QED
      BY <2>1, <2>2, <2>4, <3>1, DecideStep
      DEF Decide, node, Attempt, Action, GoneAction
  <2>5. CASE /\ \E outcome \in {"signal_failed", "kill_error"} : Decide(outcome)
             /\ UNCHANGED node
    BY <2>1, <2>2, <2>5, DecideStep
    DEF Decide, node, Attempt, Action, GoneAction, KILL_DID_NOT_LAND
  <2>6. QED
    BY <1>9, <2>3, <2>4, <2>5 DEF Kill
<1>10. CASE Recheck
  <2>1. cur \in found /\ cur \in Key /\ cur' = cur
    BY <1>10 DEF Recheck, TypeOK
  <2>2. UNCHANGED <<procs, found, entries, written, acted>> /\ pc = "settle"
    BY <1>10 DEF Recheck, history, node
  <2>3. action' \in GoneAction => Gone(cur)
    BY <1>10, <2>1, NotRunningIsGone DEF Recheck, Decide, GoneAction
  <2>4. action' \in Action /\ action' \in Attempt /\ pc' = "append"
    BY <1>10 DEF Recheck, Decide, Action, Attempt, GoneAction, KILL_DID_NOT_LAND
  <2>5. QED
    BY <2>1, <2>2, <2>3, <2>4, DecideStep
<1>11. CASE AppendFinding
  <2> DEFINE row == [key |-> cur, action |-> action]
  <2>1. /\ entries' = entries \cup {row} /\ row.key = cur /\ row.action = action
        /\ UNCHANGED <<procs, found, acted>> /\ pc' = "act" /\ cur' = NoKey
    BY <1>11 DEF AppendFinding, node
  <2>2. written' \subseteq written \cup {row}
    <3>1. CASE Append(row)
      <4> HIDE DEF row
      <4>1. QED
        BY <3>1, AppendWrites DEF TypeOK
    <3>2. CASE UNCHANGED written
      BY <3>2
    <3>3. QED
      BY <1>11, <3>1, <3>2 DEF AppendFinding
  <2> HIDE DEF row
  <2>3. \A r \in {row} : r.action \in GoneAction => Gone(r.key)'
    BY <1>11, <2>1 DEF AppendFinding, Gone
  <2>4. \A r \in written \cup entries : r.action \in GoneAction => Gone(r.key)'
    BY <2>1, FoundIsStable
  <2>5. ASSUME NEW f \in acted
        PROVE  \E r \in entries' : r.key = f /\ r.action \in Attempt
    <3>1. CASE f = cur /\ action \in Attempt
      BY <2>1, <3>1
    <3>2. CASE \E r \in entries : r.key = f /\ r.action \in Attempt
      BY <2>1, <3>2
    <3>3. pc = "append"
      BY <1>11 DEF AppendFinding
    <3>4. QED
      BY <3>1, <3>2, <3>3
  <2>6. NoKey \notin Sentinel
    BY DEF Sentinel, BlindSlices, BlindProcs, NoKey
  <2>7. QED
    BY <2>1, <2>2, <2>3, <2>4, <2>5, <2>6
<1>12. CASE Prune
  BY <1>12, <1>0 DEF Prune, node, history, Gone
<1>13. CASE Save
  BY <1>13, <1>0 DEF Save, node, history, Gone
<1>14. CASE Return \/ Crash
  <2>1. /\ found' = {} /\ entries' = {} /\ acted' = {} /\ cur' = NoKey
        /\ pc' = "idle" /\ UNCHANGED <<procs, written>>
    BY <1>14 DEF Return, Crash, Cleared, node
  <2>2. QED
    BY <2>1, FoundIsStable
<1>15. CASE Node
  <2>1. UNCHANGED <<files, pc, memory, history>>
    BY <1>15, NodeMovesOn
  <2>2. pc = "append" => Node /\ FALSE
    BY <1>15 DEF Node, Start, Age, Orphan, Block, Unblock, Exit, Between, Moving
  <2>3. QED
    BY <1>15, <2>1, <2>2, FoundIsStable DEF files, memory, history
<1>16. CASE UNCHANGED vars
  BY <1>16, <1>0 DEF vars, node, files, memory, history, Gone
<1>17. QED
  BY <1>1, <1>2, <1>3, <1>4, <1>5, <1>6, <1>7, <1>8, <1>9, <1>10, <1>11,
     <1>12, <1>13, <1>14, <1>15, <1>16 DEF Next, Poll

LEMMA DeathInvariant == Spec => []DeathInv
<1>1. Init => DeathInv
  BY DEF Init, DeathInv, NoKey, Sentinel, BlindSlices, BlindProcs
<1>2. TypeOK /\ DeathInv /\ [Next]_vars => DeathInv'
  BY DeathStep
<1>3. QED
  BY <1>1, <1>2, TypeCorrect, PTL DEF Spec

\* A row or an entry that says a process is gone names a life that is over,
\* whoever holds the pid now.
THEOREM ClaimedDeathsAreReal == Spec => []NoFalseDeath
<1>1. TypeOK /\ DeathInv => NoFalseDeath
  BY DEF TypeOK, DeathInv, NoFalseDeath, Gone, LivesIn, Running, LifeOf
<1>2. QED
  BY <1>1, TypeCorrect, DeathInvariant, PTL

\* A poll that signals something and does not exit 3 leaves no life it
\* signalled running.
THEOREM GreenKillsLanded == Spec => []GreenMeansGone
<1>1. TypeOK /\ DeathInv => GreenMeansGone
  <2> SUFFICES ASSUME TypeOK, DeathInv, pc = "return", ExitCode # EXIT_KILL_FAILED,
                      NEW f \in acted
               PROVE  LifeOf(f) \notin LivesIn(procs)
    BY DEF GreenMeansGone
  <2>1. f \in found /\ cur \notin Sentinel
    BY DEF TypeOK, DeathInv
  <2>2. ~FailedKills
    BY <2>1 DEF ExitCode, EXIT_BLIND
  <2>3. PICK row \in entries : row.key = f /\ row.action \in Attempt
    BY DEF DeathInv, InHand
  <2>4. row.action \in GoneAction
    BY <2>2, <2>3 DEF FailedKills, Attempt
  <2>5. Gone(f)
    BY <2>3, <2>4 DEF DeathInv
  <2>6. QED
    BY <2>5 DEF Gone, LivesIn, Running, LifeOf
<1>2. QED
  BY <1>1, TypeCorrect, DeathInvariant, PTL

-----------------------------------------------------------------------------
(***************************************************************************)
(* Who is signalled.  kill(2) names a pid and not a life, so the finding's *)
(* process is the one reached only while no pid changes hands during a     *)
(* poll: the theorem says so, and the run of stray signals shows why.      *)
(***************************************************************************)
SignalInv ==
    /\ \A p \in Pid : procs[p].hit # "none" => procs[p].kind = "walk"
    /\ \A f \in found : /\ procs[f.pid].gen = f.gen
                        /\ f.verdict \notin NEVER_KILL => procs[f.pid].kind = "walk"
    /\ pc \in {"grace", "settle", "append"} => cur \in found
    /\ pc \in {"grace", "settle"} => cur.verdict \notin NEVER_KILL

\* Only a walk earns a verdict that may be acted on.
LEMMA ActionableIsWalk ==
    ASSUME NEW table, NEW streak, NEW f \in Findings(table, streak),
           f.verdict \notin NEVER_KILL
    PROVE  table[f.pid].kind = "walk"
<1>1. CASE f \in ProcessFindings(table, streak)
  <2>1. Judged(f.verdict, table[f.pid], streak[LifeOf(f)])
    BY <1>1 DEF ProcessFindings
  <2>2. QED
    BY <2>1 DEF Judged, NEVER_KILL
<1>2. CASE f \in FanoutFindings(table)
  <2>1. PICK p \in FanoutLeaders(table) : f = KeyOf("fanout_traversal", p, table)
    BY <1>2 DEF FanoutFindings
  <2>2. f.pid = p
    BY <2>1 DEF KeyOf
  <2>3. p \in Group(p, table)
    BY DEF FanoutLeaders
  <2>4. QED
    BY <2>2, <2>3 DEF Group
<1>3. QED
  BY <1>1, <1>2 DEF Findings

LEMMA SignalWalk ==
    ASSUME TypeOK, SignalInv, NEW p \in Pid, procs[p].kind = "walk",
           NEW signal \in {"term", "kill"}, Deliver(p, signal)
    PROVE  /\ \A q \in Pid : procs'[q].hit # "none" => procs'[q].kind = "walk"
           /\ \A f \in found :
                /\ procs'[f.pid].gen = f.gen
                /\ f.verdict \notin NEVER_KILL => procs'[f.pid].kind = "walk"
<1>1. \A q \in Pid : q # p => procs'[q] = procs[q]
  BY DEF Deliver, TypeOK
<1>2. \A q \in Pid : procs'[q].gen = procs[q].gen /\ procs'[q].kind = procs[q].kind
  BY DeliverType
<1>3. \A f \in found : f.pid \in Pid
  BY DEF TypeOK, Key
<1>4. QED
  BY <1>1, <1>2, <1>3 DEF SignalInv

LEMMA SignalStep ==
    ASSUME "reuse" \notin Faults, TypeOK, SignalInv, [Next]_vars PROVE SignalInv'
<1> USE DEF SignalInv
<1>1. CASE Begin \/ NoSlices \/ NoProcs \/ LatchBlind
  BY <1>1 DEF Begin, NoSlices, NoProcs, LatchBlind, node
<1>2. CASE Scan
  <2>1. found' = Findings(procs, NextStreak(procs, mem.streak))
        /\ procs' = procs /\ pc' = "act"
    BY <1>2 DEF Scan, node
  <2>2. \A f \in found' : procs[f.pid].gen = f.gen
    BY <2>1, FindingsAreKeys DEF TypeOK
  <2>3. QED
    BY <2>1, <2>2, ActionableIsWalk
<1>3. ASSUME NEW f \in pending, Report(f) \/ SkipPastCap(f) PROVE SignalInv'
  BY <1>3 DEF Report, SkipPastCap, Take, Decide, TypeOK, node
<1>4. ASSUME NEW f \in pending, Term(f) PROVE SignalInv'
  <2>1. /\ f \in found /\ f.pid \in Pid /\ procs[f.pid].kind = "walk"
        /\ cur' = f /\ f.verdict \notin NEVER_KILL /\ found' = found
    BY <1>4 DEF Term, Take, Killable, TypeOK, Key
  <2>2. CASE Deliver(f.pid, "term")
    BY <1>4, <2>1, <2>2, SignalWalk
  <2>3. CASE UNCHANGED node
    BY <1>4, <2>1, <2>3 DEF Term, Decide, node
  <2>4. QED
    BY <1>4, <2>2, <2>3 DEF Term
<1>5. CASE Kill
  <2>1. /\ cur \in found /\ cur.pid \in Pid /\ procs[cur.pid].kind = "walk"
        /\ cur.verdict \notin NEVER_KILL /\ cur' = cur /\ found' = found
    BY <1>5 DEF Kill, TypeOK, Key
  <2>2. CASE Deliver(cur.pid, "kill")
    BY <2>1, <2>2, SignalWalk
  <2>3. CASE UNCHANGED node
    BY <1>5, <2>1, <2>3 DEF Kill, Decide, node
  <2>4. QED
    BY <1>5, <2>2, <2>3 DEF Kill
<1>6. CASE Recheck
  BY <1>6 DEF Recheck, Decide, node
<1>7. CASE AppendFinding \/ Prune \/ Save
  BY <1>7 DEF AppendFinding, Prune, Save, node
<1>8. CASE Return \/ Crash
  BY <1>8 DEF Return, Crash, Cleared, node
<1>9. CASE Node
  <2>1. UNCHANGED <<pc, found, cur>>
    BY <1>9, NodeMovesOn DEF memory
  <2>2. PICK p \in Pid : Start(p) \/ Age(p) \/ Orphan(p) \/ Block(p) \/ Unblock(p) \/ Exit(p)
    BY <1>9 DEF Node
  <2>3. CASE Start(p)
    <3>1. found = {} /\ pc = "idle"
      BY <2>3 DEF Start, Between, TypeOK
    <3>2. \A q \in Pid : q # p => procs'[q] = procs[q]
      BY <2>3 DEF Start, Set, TypeOK
    <3>3. procs'[p].hit = "none"
      BY <2>3 DEF Start, Set, TypeOK
    <3>4. QED
      BY <2>1, <3>1, <3>2, <3>3
  <2>4. ASSUME NEW proc \in Proc, procs' = [procs EXCEPT ![p] = proc],
               proc.gen = procs[p].gen, proc.kind = procs[p].kind,
               proc.hit = procs[p].hit
        PROVE  SignalInv'
    <3>1. \A q \in Pid : /\ procs'[q].gen = procs[q].gen
                         /\ procs'[q].kind = procs[q].kind
                         /\ procs'[q].hit = procs[q].hit
      BY <2>4 DEF TypeOK
    <3>2. \A f \in found : f.pid \in Pid
      BY DEF TypeOK, Key
    <3>3. QED
      BY <2>1, <3>1, <3>2
  <2>5. CASE Age(p)
    BY <2>4, <2>5 DEF Age, Set, TypeOK, Proc
  <2>6. CASE Orphan(p)
    BY <2>4, <2>6 DEF Orphan, Set, TypeOK, Proc
  <2>7. CASE Block(p)
    BY <2>4, <2>7 DEF Block, Set, TypeOK, Proc
  <2>8. CASE Unblock(p)
    BY <2>4, <2>8 DEF Unblock, Set, TypeOK, Proc
  <2>9. CASE Exit(p)
    BY <2>4, <2>9 DEF Exit, Set, TypeOK, Proc
  <2>10. QED
    BY <2>2, <2>3, <2>5, <2>6, <2>7, <2>8, <2>9
<1>10. CASE UNCHANGED vars
  BY <1>10 DEF vars, node, memory
<1>11. QED
  BY <1>1, <1>2, <1>3, <1>4, <1>5, <1>6, <1>7, <1>8, <1>9, <1>10 DEF Next, Poll

\* Unless a pid changes hands during a poll, only walks are ever signalled:
\* not a process the parser failed on, not a leak, not an opaque one.
THEOREM SignalsReachWalks ==
    ASSUME "reuse" \notin Faults
    PROVE  Spec => []OnlyWalksSignalled
<1>1. Init => SignalInv
  BY DEF Init, SignalInv
<1>2. TypeOK /\ SignalInv /\ [Next]_vars => SignalInv'
  BY SignalStep
<1>3. SignalInv => OnlyWalksSignalled
  BY DEF SignalInv, OnlyWalksSignalled
<1>4. QED
  BY <1>1, <1>2, <1>3, TypeCorrect, PTL DEF Spec

-----------------------------------------------------------------------------
(***************************************************************************)
(* The alert.  The latch that keeps a standing finding quiet is the state  *)
(* file's: what it holds has failed the unit, but for the poll that has    *)
(* just saved it and not returned yet; and what a poll does not call new   *)
(* it found in the latch.                                                  *)
(***************************************************************************)
ToldAll(keys) == \A k \in keys : k.verdict \in ActionableVerdict => k \in told

Past == {"act", "grace", "settle", "append", "save", "return"}

AlertInv ==
    /\ ToldAll(disk.latched) \/ (pc = "return" /\ ToldAll(disk.latched \ found))
    /\ pc \in {"look", "blind"} \/ cur \in Sentinel => ToldAll(mem.latched)
    /\ pc \in Past /\ cur \notin Sentinel => /\ mem.latched = found
                                             /\ ToldAll(found \ fresh)
    /\ cur \in Sentinel => found = {}

\* A poll that scanned and exits 0 called nothing actionable new.
LEMMA QuietIsNothingNew ==
    ASSUME cur \notin Sentinel, ExitCode = EXIT_QUIET
    PROVE  \A f \in fresh : f.verdict \notin ActionableVerdict
<1>1. CASE FailedKills
  BY <1>1 DEF ExitCode, EXIT_KILL_FAILED, EXIT_QUIET
<1>2. CASE ~FailedKills /\ unrecorded
  BY <1>2 DEF ExitCode, EXIT_UNRECORDED, EXIT_QUIET
<1>3. CASE ~FailedKills /\ ~unrecorded
  <2>1. ~ \E f \in fresh : f.verdict \notin NEVER_KILL
    BY <1>3 DEF ExitCode, EXIT_ACTIONABLE, EXIT_QUIET
  <2>2. QED
    BY <2>1 DEF NEVER_KILL, ActionableVerdict
<1>4. QED
  BY <1>1, <1>2, <1>3

LEMMA AlertStep ==
    ASSUME TypeOK, AlertInv, [Next]_vars PROVE AlertInv'
<1> USE DEF AlertInv, ToldAll, Past
<1>1. CASE Begin
  BY <1>1, SentinelIsNoKey DEF Begin, EmptyState, TypeOK, files, history
<1>2. CASE NoSlices
  BY <1>2 DEF NoSlices, TypeOK, files, history, Sentinel
<1>3. CASE NoProcs
  <2>1. mem'.latched = mem.latched
    BY <1>3 DEF NoProcs, Forget, TypeOK, State
  <2>2. QED
    BY <1>3, <2>1 DEF NoProcs, TypeOK, files, Sentinel
<1>4. CASE LatchBlind
  <2>1. mem'.latched = mem.latched
    BY <1>4 DEF LatchBlind, TypeOK, State
  <2>2. QED
    BY <1>4, <2>1 DEF LatchBlind, TypeOK
<1>5. CASE Scan
  <2>1. cur' \notin Sentinel
    BY <1>5, SentinelIsNoKey DEF Scan, TypeOK, Sentinel, BlindSlices, BlindProcs, NoKey
  <2>2. mem'.latched = found' /\ found' \ fresh' \subseteq mem.latched
    BY <1>5 DEF Scan, Latch
  <2>3. ToldAll(disk.latched) /\ ToldAll(mem.latched)
    BY <1>5 DEF Scan
  <2>4. QED
    BY <1>5, <2>1, <2>2, <2>3 DEF Scan, files
<1>6. ASSUME NEW f \in pending, Report(f) \/ SkipPastCap(f) \/ Term(f)
      PROVE  AlertInv'
  <2>1. cur' \in Key /\ cur' \notin Sentinel /\ cur \notin Sentinel /\ pc' \in {"append", "grace"}
    BY <1>6, SentinelIsNoKey
    DEF Report, SkipPastCap, Term, Take, Decide, TypeOK, NoKey, Sentinel, BlindSlices, BlindProcs
  <2>2. pc = "act" /\ UNCHANGED <<disk, mem, found, fresh, told>>
    BY <1>6 DEF Report, SkipPastCap, Term, Take, files, history
  <2>3. QED
    BY <2>1, <2>2
<1>7. CASE Kill \/ Recheck
  BY <1>7 DEF Kill, Recheck, Decide, TypeOK, files, history
<1>8. CASE AppendFinding
  <2>1. cur \notin Sentinel /\ cur' \notin Sentinel
    BY <1>8, SentinelIsNoKey
    DEF AppendFinding, TypeOK, NoKey, Sentinel, BlindSlices, BlindProcs
  <2>2. mem'.latched = mem.latched
    BY <1>8 DEF AppendFinding, TypeOK, State
  <2>3. QED
    BY <1>8, <2>1, <2>2 DEF AppendFinding
<1>9. CASE Prune
  <2>1. mem'.latched = mem.latched
    BY <1>9 DEF Prune, TypeOK, State
  <2>2. QED
    BY <1>9, <2>1 DEF Prune, files, history
<1>10. CASE Save
  <2>1. ToldAll(disk.latched) /\ (disk' = disk \/ disk' = mem)
    BY <1>10 DEF Save
  <2>2. /\ pc' = "return" /\ pc = "save"
        /\ UNCHANGED <<mem, found, fresh, cur, told>>
    BY <1>10 DEF Save, history
  <2>3. QED
    BY <2>1, <2>2
<1>11. CASE Return
  <2>1. CASE cur \in Sentinel
    <3>1. ToldAll(disk.latched)
      BY <1>11, <2>1
    <3>2. QED
      BY <1>11, <3>1, SentinelIsNoKey DEF Return, Cleared, TypeOK, files,
         NoKey, Sentinel, BlindSlices, BlindProcs
  <2>2. CASE cur \notin Sentinel
    <3>1. \A f \in found : f.verdict \in ActionableVerdict => f \in told'
      <4>1. CASE ExitCode # EXIT_QUIET
        BY <1>11, <4>1 DEF Return
      <4>2. CASE ExitCode = EXIT_QUIET
        BY <1>11, <2>2, <4>2, QuietIsNothingNew DEF Return
      <4>3. QED
        BY <4>1, <4>2
    <3>2. /\ told \subseteq told' /\ found' = {} /\ pc' = "idle" /\ disk' = disk
          /\ cur' = NoKey
      BY <1>11 DEF Return, Cleared, files
    <3>3. NoKey \notin Sentinel
      BY DEF NoKey, Sentinel, BlindSlices, BlindProcs
    <3>4. QED
      BY <3>1, <3>2, <3>3
  <2>3. QED
    BY <2>1, <2>2
<1>12. CASE Crash
  <2>1. told' = told \cup found /\ disk' = disk /\ pc' = "idle" /\ cur' = NoKey
        /\ found' = {}
    BY <1>12 DEF Crash, Cleared, files
  <2>2. NoKey \notin Sentinel
    BY DEF NoKey, Sentinel, BlindSlices, BlindProcs
  <2>3. QED
    BY <2>1, <2>2
<1>13. CASE Node
  <2>1. UNCHANGED <<files, pc, memory, history>>
    BY <1>13, NodeMovesOn
  <2>2. QED
    BY <2>1 DEF files, memory, history
<1>14. CASE UNCHANGED vars
  BY <1>14 DEF vars, files, memory, history
<1>15. QED
  BY <1>1, <1>2, <1>3, <1>4, <1>5, <1>6, <1>7, <1>8, <1>9, <1>10, <1>11,
     <1>12, <1>13, <1>14 DEF Next, Poll

LEMMA AlertInvariant == Spec => []AlertInv
<1>1. Init => AlertInv
  BY DEF Init, AlertInv, ToldAll, Past, EmptyState, NoKey, Sentinel,
         BlindSlices, BlindProcs
<1>2. TypeOK /\ AlertInv /\ [Next]_vars => AlertInv'
  BY AlertStep
<1>3. QED
  BY <1>1, <1>2, TypeCorrect, PTL DEF Spec

\* A poll that exits 0 saw nothing actionable over which no poll failed the
\* unit: no crash, write failure or lost state file makes the latch swallow it.
THEOREM AlertsAreNotSwallowed == Spec => []NoAlertSwallowed
<1>1. TypeOK /\ AlertInv => NoAlertSwallowed
  <2> SUFFICES ASSUME TypeOK, AlertInv, pc = "return", ExitCode = EXIT_QUIET,
                      NEW f \in found, f.verdict \in ActionableVerdict
               PROVE  f \in told
    BY DEF NoAlertSwallowed
  <2>1. cur \notin Sentinel
    BY DEF AlertInv
  <2>2. f \notin fresh
    BY <2>1, QuietIsNothingNew
  <2>3. QED
    BY <2>1, <2>2 DEF AlertInv, ToldAll, Past
<1>2. QED
  BY <1>1, TypeCorrect, AlertInvariant, PTL

-----------------------------------------------------------------------------
(***************************************************************************)
(* The row of an attempt.  While the door is open the only attempt without *)
(* a row is the one in hand; it is the one the door closes on, and behind  *)
(* a closed door none is begun.                                            *)
(***************************************************************************)
AttemptInv ==
    /\ ~unrecorded => \A f \in acted : f \in rowsNow \/ InHand(f)
    /\ \E k : acted \subseteq rowsNow \cup {k}

\* An append has the row's key among the poll's, or closes the door.
LEMMA AppendKeys ==
    ASSUME NEW row, Append(row), unrecorded \in BOOLEAN
    PROVE  /\ rowsNow \subseteq rowsNow'
           /\ ~unrecorded' => ~unrecorded /\ row.key \in rowsNow'
BY DEF Append, AppendAudit

\* Every step keeps to one attempt without its row.
LEMMA AttemptStep ==
    ASSUME TypeOK, AttemptInv, [Next]_vars PROVE AttemptInv'
<1> USE DEF AttemptInv, InHand
<1>1. CASE Begin
  BY <1>1 DEF Begin, TypeOK, history
<1>2. CASE NoSlices \/ NoProcs \/ Scan
  BY <1>2 DEF NoSlices, NoProcs, Scan, TypeOK, history
<1>3. CASE LatchBlind
  <2>1. acted = {} /\ acted' = {}
    BY <1>3 DEF LatchBlind, TypeOK
  <2>2. QED
    BY <2>1
<1>4. ASSUME NEW f \in pending, Report(f) \/ SkipPastCap(f) PROVE AttemptInv'
  BY <1>4 DEF Report, SkipPastCap, Take, Decide, history
<1>5. ASSUME NEW f \in pending, Term(f) PROVE AttemptInv'
  <2>1. pc = "act" /\ ~unrecorded /\ UNCHANGED <<unrecorded, rowsNow>>
    BY <1>5 DEF Term, Take, Killable, history
  <2>2. acted' = acted \cup {f} /\ cur' = f /\ pc' \in {"grace", "append"}
    BY <1>5 DEF Term, Take, Decide
  <2>3. acted \subseteq rowsNow
    BY <2>1
  <2>4. QED
    BY <2>1, <2>2, <2>3
<1>6. CASE Kill \/ Recheck
  BY <1>6 DEF Kill, Recheck, Decide, history
<1>7. CASE AppendFinding
  <2> DEFINE row == [key |-> cur, action |-> action]
  <2>1. pc = "append" /\ pc' = "act" /\ acted' = acted /\ row.key = cur
    BY <1>7 DEF AppendFinding
  <2>2. \/ Append(row)
        \/ cur \notin acted /\ UNCHANGED <<unrecorded, rowsNow>>
    BY <1>7 DEF AppendFinding
  <2> HIDE DEF row
  <2>3. CASE Append(row)
    <3>1. /\ rowsNow \subseteq rowsNow'
          /\ ~unrecorded' => ~unrecorded /\ cur \in rowsNow'
      BY <2>1, <2>3, AppendKeys DEF TypeOK
    <3>2. QED
      BY <2>1, <3>1
  <2>4. CASE cur \notin acted /\ UNCHANGED <<unrecorded, rowsNow>>
    BY <2>1, <2>4
  <2>5. QED
    BY <2>2, <2>3, <2>4
<1>8. CASE Prune \/ Save
  BY <1>8 DEF Prune, Save, history
<1>9. CASE Return \/ Crash
  BY <1>9 DEF Return, Crash, Cleared
<1>10. CASE Node
  <2>1. UNCHANGED <<files, pc, memory, history>>
    BY <1>10, NodeMovesOn
  <2>2. QED
    BY <2>1 DEF memory, history
<1>11. CASE UNCHANGED vars
  BY <1>11 DEF vars, memory, history
<1>12. QED
  BY <1>1, <1>2, <1>3, <1>4, <1>5, <1>6, <1>7, <1>8, <1>9, <1>10, <1>11
  DEF Next, Poll

\* A poll leaves at most one of the signals it began without a row, however
\* its writes fail: node/reaper.py:1666-1671 and 1703-1725.
THEOREM AttemptsAreRecorded == Spec => []OneUnrecordedAttempt
<1>1. Init => AttemptInv
  BY DEF Init, AttemptInv
<1>2. TypeOK /\ AttemptInv /\ [Next]_vars => AttemptInv'
  BY AttemptStep
<1>3. AttemptInv => OneUnrecordedAttempt
  <2> SUFFICES ASSUME AttemptInv PROVE Cardinality(acted \ rowsNow) <= 1
    BY DEF OneUnrecordedAttempt
  <2>1. PICK k : acted \subseteq rowsNow \cup {k}
    BY DEF AttemptInv
  <2>2. acted \ rowsNow = {} \/ acted \ rowsNow = {k}
    BY <2>1
  <2>3. Cardinality({}) = 0 /\ Cardinality({k}) = 1
    BY FS_EmptySet, FS_Singleton
  <2>4. QED
    BY <2>2, <2>3
<1>4. QED
  BY <1>1, <1>2, <1>3, TypeCorrect, PTL DEF Spec

-----------------------------------------------------------------------------
(***************************************************************************)
(* What is remembered from poll to poll, when every poll saves: no write   *)
(* fails and no unit is stopped.  The memory is then the last poll's, and  *)
(* knows no sentinel of an older episode and no streak of an older scan.   *)
(***************************************************************************)
EveryPollSaves == Faults \cap {"spool", "crash"} = {}

SentinelsIn(state) ==
    {k \in Sentinel : \E row \in state.logged : row.key = k}

StreaksIn(state) == {life \in Life : state.streak[life] > 0}

\* Between a scan and its save the file is older than what was seen.
UpToDate == pc \in {"idle", "look", "return"}

SavedInv ==
    /\ ~unrecorded
    /\ SentinelsIn(mem) \subseteq blindOpen
    /\ StreaksIn(mem) \subseteq thisD
    /\ UpToDate => /\ SentinelsIn(disk) \subseteq blindOpen
                   /\ StreaksIn(disk) \subseteq thisD
    /\ pc \in {"save", "return"} /\ cur \in Sentinel => cur \in blindOpen
    /\ OpaqueIsSustained

\* A streak that goes on is of a process in D, and one that is long enough
\* was going on before.
LEMMA StreakIsSeen ==
    ASSUME NEW table, NEW streak \in [Life -> 0 .. OPAQUE_D_POLLS],
           NEW life \in Life, NextStreak(table, streak)[life] > 0
    PROVE  /\ life \in {l \in LivesIn(table) : table[l[1]].inD}
           /\ NextStreak(table, streak)[life] >= OPAQUE_D_POLLS => streak[life] > 0
<1>1. PICK p \in Pid, g \in Gen : life = <<p, g>>
  BY DEF Life
<1>2. table[p].alive /\ table[p].gen = g /\ table[p].inD
  BY <1>1 DEF NextStreak
<1>3. NextStreak(table, streak)[life] =
          IF streak[life] < OPAQUE_D_POLLS THEN streak[life] + 1 ELSE OPAQUE_D_POLLS
  BY <1>1, <1>2 DEF NextStreak
<1>4. life \in LivesIn(table)
  BY <1>1, <1>2 DEF LivesIn, Running
<1>5. QED
  BY <1>1, <1>2, <1>3, <1>4 DEF OPAQUE_D_POLLS

\* The opaque arm asks for a streak.
LEMMA OpaqueHasStreak ==
    ASSUME NEW table, NEW streak, NEW f \in Findings(table, streak),
           f.verdict = "opaque_traversal"
    PROVE  streak[LifeOf(f)] >= OPAQUE_D_POLLS
<1>1. f \in ProcessFindings(table, streak)
  BY DEF Findings, FanoutFindings, KeyOf
<1>2. Judged(f.verdict, table[f.pid], streak[LifeOf(f)])
  BY <1>1 DEF ProcessFindings
<1>3. QED
  BY <1>2 DEF Judged

\* An append that cannot fail leaves the door open.
LEMMA AppendSucceeds ==
    ASSUME NEW row, Append(row), ~unrecorded, "spool" \notin Faults
    PROVE  ~unrecorded'
BY DEF Append

\* Every step keeps it.
LEMMA SavedStep ==
    ASSUME EveryPollSaves, TypeOK, SavedInv, [Next]_vars PROVE SavedInv'
<1> USE DEF SavedInv, UpToDate, OpaqueIsSustained
<1>0. "spool" \notin Faults /\ "crash" \notin Faults
  BY DEF EveryPollSaves
<1>1. CASE Begin
  <2>1. ~unrecorded' /\ mem' \in {EmptyState, disk}
    BY <1>0, <1>1 DEF Begin, May
  <2>2. SentinelsIn(EmptyState) = {} /\ StreaksIn(EmptyState) = {}
    BY DEF SentinelsIn, StreaksIn, EmptyState
  <2>3. pc = "idle" /\ pc' = "look" /\ UNCHANGED <<disk, found, cur, history>>
    BY <1>1 DEF Begin, files
  <2>4. QED
    BY <2>1, <2>2, <2>3 DEF history
<1>2. CASE NoSlices
  <2>1. Logged(BlindSlices) => BlindSlices \in SentinelsIn(mem)
    BY DEF Logged, SentinelsIn, Sentinel
  <2>2. QED
    BY <1>2, <2>1 DEF NoSlices, TypeOK, files, history
<1>3. CASE NoProcs
  <2>1. /\ mem'.streak = mem.streak
        /\ mem'.logged = {row \in mem.logged : row.key \notin {BlindSlices}}
    BY <1>3 DEF NoProcs, Forget, TypeOK, State
  <2>2. SentinelsIn(mem') \subseteq SentinelsIn(mem) \ {BlindSlices}
    BY <2>1 DEF SentinelsIn
  <2>3. StreaksIn(mem') = StreaksIn(mem)
    BY <2>1 DEF StreaksIn
  <2>4. Logged(BlindProcs) => BlindProcs \in SentinelsIn(mem)
    BY DEF Logged, SentinelsIn, Sentinel
  <2>5. BlindProcs # BlindSlices
    BY DEF BlindProcs, BlindSlices
  <2>6. QED
    BY <1>3, <2>2, <2>3, <2>4, <2>5 DEF NoProcs, TypeOK
<1>4. CASE LatchBlind
  <2> DEFINE row == [key |-> cur, action |-> action]
  <2>1. Append(row) /\ mem' = [mem EXCEPT !.logged = Remember(@, row)] /\ row.key = cur
    BY <1>4 DEF LatchBlind
  <2> HIDE DEF row
  <2>2. ~unrecorded'
    BY <1>0, <2>1, AppendSucceeds
  <2>3. mem'.streak = mem.streak /\ mem'.logged \subseteq mem.logged \cup {row}
    BY <2>1 DEF TypeOK, State, Remember
  <2>4. SentinelsIn(mem') \subseteq SentinelsIn(mem) \cup {cur}
    BY <2>1, <2>3 DEF SentinelsIn
  <2>5. StreaksIn(mem') = StreaksIn(mem)
    BY <2>3 DEF StreaksIn
  <2>6. blindOpen' = blindOpen \cup {cur} /\ pc' = "save" /\ UNCHANGED <<cur, found, lastD, thisD>>
    BY <1>4, <2>2 DEF LatchBlind
  <2>7. QED
    BY <2>2, <2>4, <2>5, <2>6
<1>5. CASE Scan
  <2> DEFINE streak == NextStreak(procs, mem.streak)
  <2>1. mem.streak \in [Life -> 0 .. OPAQUE_D_POLLS]
    BY DEF TypeOK, State
  <2>2. /\ mem'.streak = streak
        /\ mem'.logged = {row \in mem.logged : row.key \notin Sentinel}
        /\ found' = Findings(procs, streak)
    BY <1>5 DEF Scan, Forget, TypeOK, State
  <2>3. /\ lastD' = thisD
        /\ thisD' = {life \in LivesIn(procs) : procs[life[1]].inD}
        /\ blindOpen' = {}
    BY <1>5 DEF Scan
  <2>4. SentinelsIn(mem') = {}
    BY <2>2 DEF SentinelsIn
  <2>5. \A life \in Life : streak[life] > 0 =>
            life \in thisD' /\ (streak[life] >= OPAQUE_D_POLLS => mem.streak[life] > 0)
    BY <2>1, <2>3, StreakIsSeen
  <2>6. ASSUME NEW f \in found', f.verdict = "opaque_traversal"
        PROVE  LifeOf(f) \in lastD' /\ LifeOf(f) \in thisD'
    <3>1. LifeOf(f) \in Life
      BY <2>2, <2>6, FindingsAreKeys DEF TypeOK, Key, LifeOf, Life
    <3>2. streak[LifeOf(f)] >= OPAQUE_D_POLLS
      BY <2>2, <2>6, OpaqueHasStreak
    <3>3. streak[LifeOf(f)] > 0
      <4>1. streak[LifeOf(f)] \in 0 .. OPAQUE_D_POLLS
        BY <2>1, <3>1, StreakType
      <4>2. QED
        BY <3>2, <4>1 DEF OPAQUE_D_POLLS
    <3>4. LifeOf(f) \in thisD' /\ LifeOf(f) \in StreaksIn(mem)
      BY <2>5, <3>1, <3>2, <3>3 DEF StreaksIn
    <3>5. QED
      BY <2>3, <3>4
  <2>7. StreaksIn(mem') \subseteq thisD'
    BY <2>2, <2>5 DEF StreaksIn
  <2> HIDE DEF streak
  <2>8. pc' = "act" /\ ~unrecorded'
    BY <1>5 DEF Scan
  <2>9. QED
    BY <2>4, <2>6, <2>7, <2>8
<1>6. ASSUME NEW f \in pending, Report(f) \/ SkipPastCap(f) \/ Term(f)
      PROVE  SavedInv'
  <2>1. pc' \in {"append", "grace"} /\ UNCHANGED <<mem, unrecorded, found, lastD, thisD, blindOpen>>
    BY <1>6 DEF Report, SkipPastCap, Term, Decide, history
  <2>2. QED
    BY <2>1
<1>7. CASE Kill \/ Recheck
  BY <1>7 DEF Kill, Recheck, Decide, history
<1>8. CASE AppendFinding
  <2> DEFINE row == [key |-> cur, action |-> action]
  <2>1. row.key \notin Sentinel
    BY <1>8, SentinelIsNoKey DEF AppendFinding, TypeOK
  <2>2. /\ ~unrecorded'
        /\ mem'.streak = mem.streak
        /\ mem'.logged \subseteq mem.logged \cup {row}
    <3>1. CASE Append(row) /\ mem' = [mem EXCEPT !.logged = Remember(@, row)]
      <4>1. mem'.streak = mem.streak /\ mem'.logged \subseteq mem.logged \cup {row}
        BY <3>1 DEF TypeOK, State, Remember
      <4> HIDE DEF row
      <4>2. QED
        BY <1>0, <3>1, <4>1, AppendSucceeds
    <3>2. CASE UNCHANGED <<mem, unrecorded>>
      BY <3>2
    <3>3. QED
      BY <1>8, <3>1, <3>2 DEF AppendFinding
  <2>3. pc' = "act" /\ UNCHANGED <<found, lastD, thisD, blindOpen>>
    BY <1>8 DEF AppendFinding
  <2> HIDE DEF row
  <2>4. SentinelsIn(mem') \subseteq SentinelsIn(mem) /\ StreaksIn(mem') = StreaksIn(mem)
    BY <2>1, <2>2 DEF SentinelsIn, StreaksIn
  <2>5. QED
    BY <2>2, <2>3, <2>4
<1>9. CASE Prune
  <2>1. cur \notin Sentinel
    BY <1>9, SentinelIsNoKey DEF Prune, TypeOK, NoKey, Sentinel, BlindSlices, BlindProcs
  <2>2. mem'.streak = mem.streak /\ mem'.logged \subseteq mem.logged
    BY <1>9 DEF Prune, TypeOK, State
  <2>3. SentinelsIn(mem') \subseteq SentinelsIn(mem) /\ StreaksIn(mem') = StreaksIn(mem)
    BY <2>2 DEF SentinelsIn, StreaksIn
  <2>4. QED
    BY <1>9, <2>1, <2>3 DEF Prune, history
<1>10. CASE Save
  <2>1. disk' = mem /\ ~unrecorded'
    BY <1>0, <1>10 DEF Save
  <2>2. pc = "save" /\ UNCHANGED <<mem, found, cur, history>>
    BY <1>10 DEF Save
  <2>3. QED
    BY <2>1, <2>2 DEF history
<1>11. CASE Return
  <2>1. SentinelsIn(mem') = {} /\ StreaksIn(mem') = {}
    BY <1>11 DEF Return, Cleared, SentinelsIn, StreaksIn, EmptyState
  <2>2. QED
    BY <1>11, <2>1 DEF Return, Cleared, files
<1>12. CASE Crash
  BY <1>0, <1>12 DEF Crash
<1>13. CASE Node
  <2>1. UNCHANGED <<files, pc, memory, history>>
    BY <1>13, NodeMovesOn
  <2>2. QED
    BY <2>1 DEF files, memory, history
<1>14. CASE UNCHANGED vars
  BY <1>14 DEF vars, files, memory, history
<1>15. QED
  BY <1>1, <1>2, <1>3, <1>4, <1>5, <1>6, <1>7, <1>8, <1>9, <1>10, <1>11,
     <1>12, <1>13, <1>14 DEF Next, Poll

\* It holds throughout.
LEMMA SavedInvariant == EveryPollSaves => (Spec => []SavedInv)
<1> SUFFICES ASSUME EveryPollSaves PROVE Spec => []SavedInv
  OBVIOUS
<1>1. Init => SavedInv
  BY DEF Init, SavedInv, UpToDate, OpaqueIsSustained, SentinelsIn, StreaksIn,
         EmptyState
<1>2. TypeOK /\ SavedInv /\ [Next]_vars => SavedInv'
  BY SavedStep
<1>3. QED
  BY <1>1, <1>2, TypeCorrect, PTL DEF Spec

\* While every poll saves, an opaque finding was blocked at this scan and at
\* the one before: node/reaper.py:1631-1636 and 948-963.
THEOREM OpaqueMeansTwoScans == EveryPollSaves => (Spec => []OpaqueIsSustained)
<1>1. SavedInv => OpaqueIsSustained
  BY DEF SavedInv
<1>2. QED
  BY <1>1, SavedInvariant, PTL

\* While every poll saves, each blind episode has a row of its own:
\* node/reaper.py:1263-1281 and 1535-1539.
THEOREM BlindEpisodesAreRecorded == EveryPollSaves => (Spec => []BlindIsRecorded)
<1>1. SavedInv => BlindIsRecorded
  BY DEF SavedInv, BlindIsRecorded
<1>2. QED
  BY <1>1, SavedInvariant, PTL
=============================================================================
