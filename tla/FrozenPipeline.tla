---------------------------- MODULE FrozenPipeline ----------------------------
(***************************************************************************)
(* The commands of src/src/frozen_runner.py on a set of cases that          *)
(* DatasetFreeze writes, maybe at the same time: main() compares the digest *)
(* of the file of cases with the one it was given, then reads the file once *)
(* more for the cases, and only then runs or scores them.                   *)
(***************************************************************************)
EXTENDS FrozenRunner

CONSTANTS
    Freezers,       \* invocations of the freeze
    Wanted          \* the one whose files have the digests the commands are given

VARIABLES
    fpc, fat, target,   \* see DatasetFreeze
    verified,           \* commands that have found the digest they were given
    loaded              \* the cases each command has read, or None

Freeze == INSTANCE DatasetFreeze

ASSUME PipelineAssumption ==
    /\ Wanted \in Freezers
    /\ None \notin [by : Freezers, whole : BOOLEAN]

freezing == <<fpc, fat, target>>
allVars == <<vars, freezing, verified, loaded>>

PInit ==
    /\ Init /\ Freeze!Init
    /\ verified = {}
    /\ loaded = [p \in Runners \cup Scorers |-> None]

\* The file a command is given; the scorer scores requirement cases only.
Cases == target[IF mode = "requirements" THEN 1 ELSE 2]

Waiting(p) == IF p \in Runners THEN pc[p] = "idle" ELSE spc[p] = "idle" /\ mode = "requirements"

SkipVerifyMutant(p) ==
    /\ Waiting(p) /\ Cases # None
    /\ verified' = verified \cup {p}
    /\ UNCHANGED <<vars, freezing, loaded>>

\* verify_sha256 passes; otherwise the command is over before it did anything.
Verify(p) ==
    /\ Waiting(p) /\ Cases # None
    /\ Cases.by = Wanted /\ Cases.whole
    /\ verified' = verified \cup {p}
    /\ UNCHANGED <<vars, freezing, loaded>>

\* _load_requirements, _load_faults: the file is read again.
LoadCases(p) ==
    /\ Waiting(p) /\ p \in verified /\ loaded[p] = None
    /\ loaded' = [loaded EXCEPT ![p] = Cases]
    /\ UNCHANGED <<vars, freezing, verified>>

HasCases(p) == loaded[p] # None

Commands ==
    \/ \E r \in Runners : \/ HasCases(r) /\ MakeDirectory(r)
                          \/ RunnerStep(r) \/ StopRunner(r)
    \/ \E s \in Scorers : \/ HasCases(s) /\ ReadRows(s)
                          \/ ScorerStep(s) \/ StopScorer(s)

PNext ==
    \/ \E p \in Runners \cup Scorers : Verify(p) \/ LoadCases(p)
    \/ Commands /\ UNCHANGED <<command, freezing, verified, loaded>>
    \/ Freeze!Next /\ UNCHANGED <<vars, verified, loaded>>

\* A scorer once begun goes on, or is stopped; nobody is obliged to begin one.
PSpec == /\ PInit /\ [][PNext]_allVars
         /\ \A s \in Scorers : WF_vars(ScorerStep(s) /\ UNCHANGED command)

-----------------------------------------------------------------------------
(* Properties. *)

\* Whatever else goes on, a manifest of the freeze describes two files that are
\* there, whole, and of the same invocation (see DatasetFreeze).
DescribedSetIsWhole == Freeze!ManifestDescribesTheSet

\* A run has the cases whose digest was verified, whole, and they are still the
\* ones in the file: no freeze puts others there between the two readings, nor
\* while the run or its scoring goes on.
CommandsUseTheFrozenCases ==
    \A p \in Runners \cup Scorers : HasCases(p) =>
        loaded[p].by = Wanted /\ loaded[p].whole /\ loaded[p] = Cases
=============================================================================
