------------------------- MODULE FrozenPipelineProofs -------------------------
(***************************************************************************)
(* Proofs about FrozenPipeline: its runners and scorers behave as those of   *)
(* FrozenRunner, whose theorems therefore hold of it, and the files of the   *)
(* freeze do not change under a command that verified them.                  *)
(***************************************************************************)
EXTENDS FrozenPipeline, FrozenRunnerProofs

Made == [by : Freezers, whole : BOOLEAN]
FreezerStates == {"idle", "opening", "writing", "stopped", "killed", "done"}

\* A file that f has made and closed.
ClosedBy(f, m) == m # None /\ m.by = f /\ m.whole

FreezeTypes ==
    /\ fpc \in [Freezers -> FreezerStates]
    /\ fat \in [Freezers -> 1..3]
    /\ target \in [1..3 -> Made \cup {None}]

\* Whoever is at a target made all those before it, whole; whoever writes one
\* made that too.  A later target is never there before an earlier one.
FreezeInv ==
    /\ FreezeTypes
    /\ \A f \in Freezers : fpc[f] = "idle" => fat[f] = 1
    /\ \A f \in Freezers : fpc[f] \in {"opening", "writing"} =>
        \A i \in 1..3 : i < fat[f] => ClosedBy(f, target[i])
    /\ \A f \in Freezers : fpc[f] = "writing" =>
        target[fat[f]] # None /\ target[fat[f]].by = f /\ ~target[fat[f]].whole
    /\ \A i, j \in 1..3 : i < j /\ target[j] # None =>
        target[i] # None /\ target[i].whole /\ target[i].by = target[j].by

\* A verified command's file is the wanted one, and so is what it read.
CommandInv ==
    /\ loaded \in [Runners \cup Scorers -> Made \cup {None}]
    /\ \A p \in verified : ClosedBy(Wanted, Cases)
    /\ \A p \in Runners \cup Scorers : HasCases(p) =>
        p \in verified /\ loaded[p] = Cases

LEMMA TargetCount == Len(Freeze!Targets) = 3
  BY DEF Freeze!Targets
LEMMA MadeNotNone == None \notin Made
  BY PipelineAssumption DEF Made

LEMMA MadeIsThere ==
    ASSUME NEW f \in Freezers, NEW b \in BOOLEAN
    PROVE  [by |-> f, whole |-> b] \in Made /\ [by |-> f, whole |-> b] # None
  <1>1. [by |-> f, whole |-> b] \in Made
    BY DEF Made
  <1> QED
    BY <1>1, MadeNotNone

\* A file that is closed.
LEMMA MadeWhole ==
    ASSUME NEW m \in Made
    PROVE  LET w == [m EXCEPT !.whole = TRUE]
           IN w \in Made /\ w # None /\ w.by = m.by /\ w.whole
  <1>1. [m EXCEPT !.whole = TRUE] \in Made
    BY DEF Made
  <1>2. [m EXCEPT !.whole = TRUE].by = m.by /\ [m EXCEPT !.whole = TRUE].whole
    BY DEF Made
  <1> QED
    BY <1>1, <1>2, MadeNotNone

-----------------------------------------------------------------------------
(* The freeze. *)

LEMMA InitFreeze == Freeze!Init => FreezeInv
  BY TargetCount DEF Freeze!Init, FreezeInv, FreezeTypes, FreezerStates

LEMMA NextFreeze == FreezeInv /\ (Freeze!Next \/ UNCHANGED freezing) => FreezeInv'
  <1> SUFFICES ASSUME FreezeInv, Freeze!Next \/ UNCHANGED freezing PROVE FreezeInv'
    OBVIOUS
  <1> USE TargetCount DEF FreezeInv, FreezeTypes, FreezerStates, ClosedBy
  <1>1. ASSUME NEW f \in Freezers, Freeze!CheckTargets(f) PROVE FreezeInv'
    BY <1>1 DEF Freeze!CheckTargets, Freeze!Proceed
  <1>2. ASSUME NEW f \in Freezers, Freeze!OpenTarget(f) PROVE FreezeInv'
    <2>1. CASE target[fat[f]] # None
      <3>1. fpc' = [fpc EXCEPT ![f] = "stopped"] /\ target' = target /\ fat' = fat
        BY <1>2, <2>1 DEF Freeze!OpenTarget, Freeze!Proceed
      <3> QED
        BY <3>1
    <2>2. CASE target[fat[f]] = None
      <3>1. /\ target' = [target EXCEPT ![fat[f]] = [by |-> f, whole |-> FALSE]]
            /\ fpc' = [fpc EXCEPT ![f] = "writing"] /\ fat' = fat
            /\ fpc[f] = "opening" /\ fat[f] \in 1..3
        BY <1>2, <2>2 DEF Freeze!OpenTarget, Freeze!Proceed
      <3>2. [by |-> f, whole |-> FALSE] \in Made /\ [by |-> f, whole |-> FALSE] # None
        BY MadeIsThere
      <3>3. \A j \in 1..3 : fat[f] < j => target[j] = None
        BY <2>2, <3>1
      <3>4. FreezeTypes'
        BY <3>1, <3>2
      <3>5. ASSUME NEW g \in Freezers, NEW i \in 1..3, i < fat[g],
                   ClosedBy(g, target[i])
            PROVE  i # fat[f]
        BY <2>2, <3>5, MadeIsThere
      <3>6. \A g \in Freezers : fpc'[g] = "writing" /\ g # f => fat[g] # fat[f]
        BY <2>2, <3>1
      <3>7. \A g \in Freezers : fpc'[g] \in {"opening", "writing"} =>
              \A i \in 1..3 : i < fat'[g] => ClosedBy(g, target'[i])
        <4>1. ASSUME NEW g \in Freezers, fpc'[g] \in {"opening", "writing"},
                     NEW i \in 1..3, i < fat'[g]
              PROVE  ClosedBy(g, target'[i])
          <5>1. fpc[g] \in {"opening", "writing"} /\ fat'[g] = fat[g] /\ fat[g] \in 1..3
            BY <3>1, <4>1
          <5>2. ClosedBy(g, target[i])
            BY <4>1, <5>1
          <5>3. i # fat[f]
            BY <3>5, <4>1, <5>1, <5>2
          <5> QED
            BY <3>1, <5>2, <5>3
        <4> QED
          BY <4>1
      <3>8. \A i, j \in 1..3 : i < j /\ target'[j] # None =>
              target'[i] # None /\ target'[i].whole /\ target'[i].by = target'[j].by
        <4>1. ASSUME NEW i \in 1..3, NEW j \in 1..3, i < j, target'[j] # None
              PROVE  target'[i] # None /\ target'[i].whole /\ target'[i].by = target'[j].by
          <5>1. CASE j = fat[f]
            <6>1. ClosedBy(f, target'[i]) /\ target'[j] = [by |-> f, whole |-> FALSE]
              BY <3>1, <3>7, <4>1, <5>1
            <6>2. target'[i] # None
              BY <6>1, MadeIsThere
            <6> QED
              BY <6>1, <6>2
          <5>2. CASE j # fat[f]
            BY <2>2, <3>1, <4>1, <5>2
          <5> QED
            BY <5>1, <5>2
        <4> QED
          BY <4>1
      <3> QED
        BY <3>1, <3>2, <3>4, <3>6, <3>7, <3>8
    <2> QED
      BY <2>1, <2>2
  <1>3. ASSUME NEW f \in Freezers, Freeze!WriteTarget(f) PROVE FreezeInv'
    <2>1. /\ fat[f] \in 1..3 /\ target[fat[f]] \in Made /\ fpc[f] = "writing"
          /\ target[fat[f]].by = f /\ ~target[fat[f]].whole
      BY <1>3 DEF Freeze!WriteTarget
    <2> DEFINE w == [target[fat[f]] EXCEPT !.whole = TRUE]
    <2>2. target' = [target EXCEPT ![fat[f]] = w]
      BY <1>3 DEF Freeze!WriteTarget
    <2>3. w \in Made /\ w # None /\ w.by = f /\ w.whole
      BY <2>1, MadeWhole
    <2> HIDE DEF w
    <2>4. \/ fpc' = [fpc EXCEPT ![f] = "done"] /\ fat' = fat
          \/ /\ fat[f] < 3 /\ fat' = [fat EXCEPT ![f] = fat[f] + 1]
             /\ fpc' = [fpc EXCEPT ![f] = "opening"]
      BY <1>3 DEF Freeze!WriteTarget, Freeze!Proceed
    <2>5. FreezeTypes'
      <3>1. fat' \in [Freezers -> 1..3] /\ fpc' \in [Freezers -> FreezerStates]
        BY <2>1, <2>4
      <3> QED
        BY <2>2, <2>3, <3>1
    <2>6. \A g \in Freezers : g # f => fpc'[g] = fpc[g] /\ fat'[g] = fat[g]
      BY <2>4
    <2>7. \A g \in Freezers : fpc'[g] = "idle" => fat'[g] = 1
      BY <2>4, <2>6
    <2>8. \A g \in Freezers : fpc'[g] \in {"opening", "writing"} =>
            \A i \in 1..3 : i < fat'[g] => ClosedBy(g, target'[i])
      <3>1. \A g \in Freezers : fpc'[g] \in {"opening", "writing"} =>
              \A i \in 1..3 : i < fat[g] => ClosedBy(g, target'[i])
        <4>1. ASSUME NEW g \in Freezers, fpc'[g] \in {"opening", "writing"},
                     NEW i \in 1..3, i < fat[g]
              PROVE  ClosedBy(g, target'[i])
          <5>1. fpc[g] \in {"opening", "writing"}
            BY <2>1, <2>4, <4>1
          <5>2. ClosedBy(g, target[i])
            BY <4>1, <5>1
          <5>3. i # fat[f]
            <6>1. CASE i = fat[f]
              BY <2>1, <5>2, <6>1
            <6> QED
              BY <6>1
          <5> QED
            BY <2>2, <5>2, <5>3
        <4> QED
          BY <4>1
      <3>2. fpc'[f] \in {"opening", "writing"} =>
              \A i \in 1..3 : i < fat'[f] => i < fat[f] \/ i = fat[f]
        BY <2>1, <2>4
      <3> QED
        <4>1. \A i \in 1..3 : i = fat[f] => ClosedBy(f, target'[i])
          BY <2>1, <2>2, <2>3
        <4>2. ASSUME NEW g \in Freezers, g # f PROVE fat'[g] = fat[g]
          BY <2>6, <4>2
        <4> QED
          BY <3>1, <3>2, <4>1, <4>2
    <2>9. \A g \in Freezers : fpc'[g] = "writing" =>
            target'[fat'[g]] # None /\ target'[fat'[g]].by = g /\ ~target'[fat'[g]].whole
      <3>1. \A g \in Freezers : fpc'[g] = "writing" => g # f
        BY <2>4
      <3>2. \A g \in Freezers : fpc'[g] = "writing" => fat[g] # fat[f]
        BY <2>1, <2>6, <3>1
      <3> QED
        BY <2>2, <2>6, <3>1, <3>2
    <2>10. \A i, j \in 1..3 : i < j /\ target'[j] # None =>
             target'[i] # None /\ target'[i].whole /\ target'[i].by = target'[j].by
      <3>1. \A j \in 1..3 : target'[j] # None <=> target[j] # None
        BY <2>1, <2>2, <2>3, MadeNotNone
      <3>2. \A j \in 1..3 : target[j] # None =>
              target'[j].by = target[j].by /\ (target[j].whole => target'[j].whole)
        BY <2>1, <2>2, <2>3
      <3> QED
        BY <3>1, <3>2
    <2> QED
      BY <2>5, <2>7, <2>8, <2>9, <2>10
  <1>4. ASSUME NEW f \in Freezers, Freeze!StopFreezer(f) PROVE FreezeInv'
    BY <1>4 DEF Freeze!StopFreezer, Freeze!Proceed
  <1>5. CASE UNCHANGED freezing
    BY <1>5 DEF freezing
  <1> QED
    BY <1>1, <1>2, <1>3, <1>4, <1>5 DEF Freeze!Next, Freeze!FreezeStep

\* A file once whole is never touched again.
LEMMA WholeStays ==
    ASSUME FreezeInv, Freeze!Next, NEW i \in 1..3, target[i] # None, target[i].whole
    PROVE  target'[i] = target[i]
  <1> USE TargetCount DEF FreezeInv, FreezeTypes
  <1>1. ASSUME NEW f \in Freezers, Freeze!CheckTargets(f) \/ Freeze!StopFreezer(f)
        PROVE  target' = target
    BY <1>1 DEF Freeze!CheckTargets, Freeze!StopFreezer
  <1>2. ASSUME NEW f \in Freezers, Freeze!OpenTarget(f) PROVE target'[i] = target[i]
    BY <1>2 DEF Freeze!OpenTarget
  <1>3. ASSUME NEW f \in Freezers, Freeze!WriteTarget(f) PROVE target'[i] = target[i]
    BY <1>3 DEF Freeze!WriteTarget
  <1> QED
    BY <1>1, <1>2, <1>3 DEF Freeze!Next, Freeze!FreezeStep

-----------------------------------------------------------------------------
(* The commands. *)

\* A step of the pipeline is one of the runner and scorer, or leaves them alone.
LEMMA StepIsARunnersStep == [PNext]_allVars => [Next]_vars
  <1>1. ASSUME Commands, UNCHANGED <<command, freezing, verified, loaded>> PROVE Next
    BY <1>1 DEF Commands, Next
  <1> QED
    BY <1>1 DEF PNext, allVars, Verify, LoadCases

LEMMA NextCommandInv == IInv /\ FreezeInv /\ CommandInv /\ [PNext]_allVars => CommandInv'
  <1> SUFFICES ASSUME IInv, FreezeInv, CommandInv, [PNext]_allVars PROVE CommandInv'
    OBVIOUS
  <1> USE DEF CommandInv, HasCases
  <1>1. ASSUME NEW p \in Runners \cup Scorers, Verify(p) PROVE CommandInv'
    BY <1>1 DEF Verify, Cases, vars, command, freezing, ClosedBy
  <1>2. ASSUME NEW p \in Runners \cup Scorers, LoadCases(p) PROVE CommandInv'
    <2>1. Cases \in Made \cup {None}
      BY DEF Cases, FreezeInv, FreezeTypes
    <2> QED
      BY <1>2, <2>1 DEF LoadCases, Cases, vars, command, freezing
  <1>3. ASSUME UNCHANGED <<command, freezing, verified, loaded>> PROVE CommandInv'
    BY <1>3 DEF Cases, command, freezing
  <1>4. ASSUME Freeze!Next, UNCHANGED <<vars, verified, loaded>> PROVE CommandInv'
    <2>1. ASSUME NEW p \in verified PROVE Cases' = Cases
      <3>1. Cases # None /\ Cases.whole
        BY <2>1 DEF ClosedBy
      <3> QED
        BY <1>4, <3>1, WholeStays DEF Cases, vars, command
    <2> QED
      BY <1>4, <2>1
  <1>5. CASE UNCHANGED allVars
    BY <1>3, <1>5 DEF allVars, vars
  <1> QED
    BY <1>1, <1>2, <1>3, <1>4, <1>5 DEF PNext

-----------------------------------------------------------------------------
(* Results. *)

LEMMA PipelineInductive == PSpec => [](FreezeInv /\ CommandInv)
  <1>1. PInit => IInv /\ FreezeInv /\ CommandInv
    BY InitFreeze, InitTypes, InitLogInv, InitScorers
    DEF PInit, IInv, CommandInv, HasCases
  <1>2. IInv /\ FreezeInv /\ CommandInv /\ [PNext]_allVars => (IInv /\ FreezeInv /\ CommandInv)'
    <2>1. IInv /\ [Next]_vars => IInv'
      BY NextTypes, NextLogInv, NextReadInv, NextOutputInv DEF IInv
    <2>2. [PNext]_allVars => Freeze!Next \/ UNCHANGED freezing
      BY DEF PNext, allVars, Verify, LoadCases
    <2> QED
      BY <2>1, <2>2, StepIsARunnersStep, NextFreeze, NextCommandInv
  <1> QED
    BY <1>1, <1>2, PTL DEF PSpec

\* Among freezes and with files that are verified and read, the runners and the
\* scorers do what FrozenRunner says: its theorems hold of them.
THEOREM PipelineRuns == PSpec => Spec
  <1>1. PInit => Init
    BY DEF PInit
  <1> QED
    BY <1>1, StepIsARunnersStep, PTL DEF PSpec, Spec

\* A sealed run directory is complete, also in the pipeline.
THEOREM PipelineSeals == PSpec => []SealedRunIsWhole
  BY PipelineRuns, SealedRuns, PTL

\* Each raw row has its trace or its fault result, also in the pipeline.
THEOREM PipelineRecords == PSpec => []RowsHaveTheirRecord
  BY PipelineRuns, RecordsFirst, PTL

\* One scorer wrote every file that is there, also in the pipeline.
THEOREM PipelinePublishes == PSpec => []OneScorerPublishes
  BY PipelineRuns, OnePublishes, PTL

\* Scores are of every frozen case and of the rows as they stay, also in the
\* pipeline.
THEOREM PipelineScores == PSpec => []ScoresAreOfTheWholeRun
  BY PipelineRuns, WholeScores, PTL

\* The race of the scorers has a winner that nobody stops, also in the pipeline:
\* the safety half of ScoringCompletes.
THEOREM PipelineReports == PSpec => []FirstWriterPublishes /\ [][GivesUpForAnother]_vars
  BY PipelineRuns, FirstPublishes, LosersYield, PTL

\* Neither a race of freezes nor a kill leaves a manifest that vouches for
\* cases that are missing, torn or of another freeze.
THEOREM DescribedSets == PSpec => []DescribedSetIsWhole
  <1>1. FreezeInv => DescribedSetIsWhole
    BY DEF FreezeInv, DescribedSetIsWhole, Freeze!ManifestDescribesTheSet
  <1> QED
    BY <1>1, PipelineInductive, PTL

\* What a command reads after it verified the digest is what it verified, and
\* stays in the file.
THEOREM FrozenCases == PSpec => []CommandsUseTheFrozenCases
  <1>1. CommandInv => CommandsUseTheFrozenCases
    BY DEF CommandInv, CommandsUseTheFrozenCases, ClosedBy
  <1> QED
    BY <1>1, PipelineInductive, PTL
=============================================================================
