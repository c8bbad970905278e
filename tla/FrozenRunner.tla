----------------------------- MODULE FrozenRunner -----------------------------
(***************************************************************************)
(* The batch runner and scorer of src/src/frozen_runner.py.  An invocation  *)
(* of the runner owns a run directory and, case by case, records the result *)
(* in two places; then it seals the manifest.  Invocations of the scorer    *)
(* read the rows, while the runner runs or after it died, and publish four  *)
(* files that none may overwrite.                                           *)
(*                                                                         *)
(* run_requirement_cases keeps a trace (an atomic publication, see          *)
(* TraceWriter) and then a row of raw_predictions.jsonl; run_fault_cases a  *)
(* row of fault_results.jsonl and then one of raw_fault_runs.jsonl.  One    *)
(* collaboration (see Orchestrator) always returns and is one step.         *)
(***************************************************************************)
EXTENDS Naturals, Sequences

CONSTANTS
    Runners,        \* invocations of the runner with one and the same run id
    Scorers,        \* invocations of the scorer on that run's directory
    FrozenCount,    \* the cases of the frozen set are 1..FrozenCount
    None

ASSUME RunAssumption ==
    /\ FrozenCount \in Nat
    /\ None \notin Runners \cup Scorers \cup [by : Scorers, whole : BOOLEAN, of : Seq(Nat)]

\* What the scorer writes, in this order.
Outputs == <<"evaluated_cases", "metrics", "failures", "report">>

VARIABLES
    mode,       \* the command of the runners: "requirements" or "faults"
    limit,      \* the cases they run are 1..limit (--limit may cut the frozen set)
    pc,         \* where each runner stands
    case,       \* the case each runner is at
    digest,     \* rows whose hash each runner took for the manifest
    owner,      \* the runner that created the run directory, or None
    manifest,   \* run_manifest.json: absent, torn, open (no finish) or sealed
    sealed,     \* the rows whose hash the manifest carries
    first,      \* cases recorded in the first place: traces or fault results
    rows,       \* cases recorded in the second: the raw rows
    named,      \* dataset.json: absent, torn or whole
    torn,       \* which log ends with a part of a line, or None
    spc,        \* where each scorer stands
    at,         \* the output each scorer is at
    read,       \* the rows each scorer read
    output      \* the files of the scorers: who wrote each and whether it is whole

command == <<mode, limit>>
log == <<sealed, first, rows, torn>>
directory == <<owner, manifest, named, log>>
runner == <<pc, case, digest>>
scorer == <<spc, at, read, output>>
vars == <<command, runner, directory, scorer>>

Init ==
    /\ mode \in {"requirements", "faults"} /\ limit \in 0..FrozenCount
    /\ pc = [r \in Runners |-> "idle"]
    /\ case = [r \in Runners |-> 1]
    /\ digest = [r \in Runners |-> <<>>]
    /\ owner = None /\ manifest = "absent" /\ sealed = <<>> /\ named = "absent"
    /\ first = <<>> /\ rows = <<>> /\ torn = None
    /\ spc = [s \in Scorers |-> "idle"]
    /\ at = [s \in Scorers |-> 1]
    /\ read = [s \in Scorers |-> <<>>]
    /\ output = [i \in 1..Len(Outputs) |-> None]

Goto(r, next) == pc' = [pc EXCEPT ![r] = next]

-----------------------------------------------------------------------------
(* The runner. *)

ResumeMutant(r) ==
    /\ pc[r] = "idle"
    /\ owner' = r /\ Goto(r, IF manifest = "absent" THEN "creating" ELSE "running")
    /\ UNCHANGED <<case, digest, manifest, named, log, scorer>>

\* _create_run_directory: mkdir(exist_ok=False).
MakeDirectory(r) ==
    /\ pc[r] = "idle"
    /\ \/ owner = None /\ owner' = r /\ Goto(r, "creating")
       \/ owner # None /\ Goto(r, "stopped") /\ UNCHANGED owner
    /\ UNCHANGED <<case, digest, manifest, named, log, scorer>>

\* _write_json opens the file, which empties it, at first only if it makes it
\* (exclusive=True) ...
OpenManifest(r) ==
    /\ pc[r] \in {"creating", "sealing"}
    /\ pc[r] = "creating" => manifest = "absent"
    /\ manifest' = "torn"
    /\ Goto(r, IF pc[r] = "creating" THEN "describing" ELSE "finishing")
    /\ UNCHANGED <<case, digest, owner, named, log, scorer>>

\* ... and writes it: the description of the run first, ...
DescribeRun(r) ==
    /\ pc[r] = "describing"
    /\ manifest' = "open"
    /\ Goto(r, "running")
    /\ UNCHANGED <<case, digest, owner, named, log, scorer>>

SkipRecordMutant(r) ==
    /\ pc[r] = "running" /\ case[r] <= limit
    /\ Goto(r, "appending")
    /\ UNCHANGED <<case, digest, directory, scorer>>

\* A collaboration has returned a result, whatever its status.
RunCase(r) ==
    /\ pc[r] = "running" /\ case[r] <= limit
    /\ Goto(r, IF mode = "requirements" THEN "tracing" ELSE "noting")
    /\ UNCHANGED <<case, digest, directory, scorer>>

\* save_trace.
SaveTrace(r) ==
    /\ pc[r] = "tracing"
    /\ first' = Append(first, case[r])
    /\ Goto(r, "appending")
    /\ UNCHANGED <<case, digest, owner, manifest, named, sealed, rows, torn, scorer>>

\* _append_jsonl: a line under way is a torn line to whoever reads it.
BeginAppend(r) ==
    /\ pc[r] \in {"noting", "appending"}
    /\ torn' = IF pc[r] = "noting" THEN "first" ELSE "rows"
    /\ Goto(r, IF pc[r] = "noting" THEN "noted" ELSE "appended")
    /\ UNCHANGED <<case, digest, owner, manifest, named, sealed, first, rows, scorer>>

\* The line of fault_results.jsonl is whole.
EndNote(r) ==
    /\ pc[r] = "noted"
    /\ first' = Append(first, case[r]) /\ torn' = None
    /\ Goto(r, "appending")
    /\ UNCHANGED <<case, digest, owner, manifest, named, sealed, rows, scorer>>

\* The raw row is whole: on to the next case.
EndAppend(r) ==
    /\ pc[r] = "appended"
    /\ rows' = Append(rows, case[r]) /\ torn' = None
    /\ case' = [case EXCEPT ![r] = @ + 1]
    /\ Goto(r, "running")
    /\ UNCHANGED <<digest, owner, manifest, named, sealed, first, scorer>>

\* The log the manifest vouches for.
SealedLog == IF mode = "requirements" THEN rows ELSE first

\* All cases are done: the log is hashed.  Without a case there is no log, and
\* reading it raises.
HashLog(r) ==
    /\ pc[r] = "running" /\ case[r] > limit
    /\ digest' = [digest EXCEPT ![r] = SealedLog]
    /\ Goto(r, IF limit = 0 THEN "stopped" ELSE "sealing")
    /\ UNCHANGED <<case, directory, scorer>>

\* ... and at the end its finishing time and the hash.
SealManifest(r) ==
    /\ pc[r] = "finishing"
    /\ manifest' = "sealed" /\ sealed' = digest[r]
    /\ Goto(r, IF mode = "requirements" THEN "done" ELSE "naming")
    /\ UNCHANGED <<case, digest, owner, named, first, rows, torn, scorer>>

\* main() adds dataset.json, the name and digest of the cases, to a fault run,
\* where it must be new.
NameDataset(r) ==
    /\ \/ pc[r] = "naming" /\ named = "absent" /\ named' = "torn" /\ Goto(r, "named")
       \/ pc[r] = "named" /\ named' = "whole" /\ Goto(r, "done")
    /\ UNCHANGED <<case, digest, owner, manifest, log, scorer>>

Ended == {"done", "stopped", "killed"}

\* Killed, or stopped by an OSError: nothing is undone.
StopRunner(r) ==
    /\ pc[r] \notin Ended \cup {"idle"}
    /\ Goto(r, "killed")
    /\ UNCHANGED <<case, digest, directory, scorer>>

-----------------------------------------------------------------------------
(* The scorer. *)

Advance(s, next) == spc' = [spc EXCEPT ![s] = next]

\* One row for each frozen case and no other.
OneToOne(seen) ==
    /\ Len(seen) = FrozenCount
    /\ {seen[i] : i \in 1..Len(seen)} = 1..FrozenCount

ScorePartOfTheRunMutant(s) ==
    /\ spc[s] = "idle" /\ owner # None /\ mode = "requirements"
    /\ torn = None /\ rows # <<>> /\ Advance(s, "checking")
    /\ read' = [read EXCEPT ![s] = rows]
    /\ UNCHANGED <<runner, directory, at, output>>

\* The rows are read and compared with the cases; a missing file, a torn line
\* or a mismatch raises.
ReadRows(s) ==
    /\ spc[s] = "idle" /\ owner # None /\ mode = "requirements"
    /\ \/ torn = None /\ OneToOne(rows) /\ rows # <<>> /\ Advance(s, "checking")
       \/ ~(torn = None /\ OneToOne(rows) /\ rows # <<>>) /\ Advance(s, "stopped")
    /\ read' = [read EXCEPT ![s] = rows]
    /\ UNCHANGED <<runner, directory, at, output>>

\* evaluated_path.exists().
CheckUnscored(s) ==
    /\ spc[s] = "checking"
    /\ Advance(s, IF output[1] = None THEN "publishing" ELSE "stopped")
    /\ UNCHANGED <<runner, directory, at, read, output>>

Started(s) == [by |-> s, whole |-> FALSE, of |-> read[s]]

OverwriteMutant(s) ==
    /\ spc[s] = "publishing"
    /\ output' = [output EXCEPT ![at[s]] = Started(s)]
    /\ Advance(s, "writing")
    /\ UNCHANGED <<runner, directory, at, read>>

RecheckMutant(s) ==
    /\ spc[s] = "publishing"
    /\ IF output[1] = None
       THEN output' = [output EXCEPT ![at[s]] = Started(s)] /\ Advance(s, "writing")
       ELSE Advance(s, "stopped") /\ UNCHANGED output
    /\ UNCHANGED <<runner, directory, at, read>>

\* open(..., "x"): the file is created, or exists already, which raises.
CreateOutput(s) ==
    /\ spc[s] = "publishing"
    /\ IF output[at[s]] = None
       THEN output' = [output EXCEPT ![at[s]] = Started(s)] /\ Advance(s, "writing")
       ELSE Advance(s, "stopped") /\ UNCHANGED output
    /\ UNCHANGED <<runner, directory, at, read>>

\* It is written and closed; the next one follows.
CloseOutput(s) ==
    /\ spc[s] = "writing"
    /\ output' = [output EXCEPT ![at[s]].whole = TRUE]
    /\ \/ at[s] = Len(Outputs) /\ Advance(s, "done") /\ UNCHANGED at
       \/ /\ at[s] < Len(Outputs)
          /\ at' = [at EXCEPT ![s] = @ + 1] /\ Advance(s, "publishing")
    /\ UNCHANGED <<runner, directory, read>>

StopScorer(s) ==
    /\ spc[s] \notin Ended \cup {"idle"}
    /\ Advance(s, "killed")
    /\ UNCHANGED <<runner, directory, at, read, output>>

-----------------------------------------------------------------------------

RunnerStep(r) == \/ OpenManifest(r) \/ DescribeRun(r) \/ RunCase(r) \/ SaveTrace(r)
                 \/ BeginAppend(r) \/ EndNote(r) \/ EndAppend(r) \/ HashLog(r)
                 \/ SealManifest(r) \/ NameDataset(r)
ScorerStep(s) == CheckUnscored(s) \/ CreateOutput(s) \/ CloseOutput(s)

Quiet ==
    /\ \A r \in Runners : pc[r] \in Ended
    /\ \A s \in Scorers : spc[s] \in Ended \cup (IF mode = "faults" THEN {"idle"} ELSE {})

Next == /\ \/ \E r \in Runners : MakeDirectory(r) \/ RunnerStep(r) \/ StopRunner(r)
           \/ \E s \in Scorers : ReadRows(s) \/ ScorerStep(s) \/ StopScorer(s)
           \/ Quiet /\ UNCHANGED vars
        /\ UNCHANGED command

Spec == Init /\ [][Next]_vars

-----------------------------------------------------------------------------
(* Properties. *)

\* A sealed manifest carries the hash of the log as it is, and both logs hold
\* every case once, in order: no invocation adds to a sealed run.  Only a sealed
\* run has the name of its cases beside it.
SealedRunIsWhole ==
    /\ manifest = "sealed" =>
        /\ sealed = SealedLog /\ torn = None
        /\ first = rows /\ rows = [i \in 1..limit |-> i]
    /\ named # "absent" => manifest = "sealed"

\* A raw row never lacks its trace, nor its fault result, and at most one
\* record is ahead of its row, whenever the runner died.
RowsHaveTheirRecord ==
    /\ Len(rows) <= Len(first) /\ Len(first) <= Len(rows) + 1
    /\ rows = SubSeq(first, 1, Len(rows))

\* However many scorers run at once, all files they leave are of one of them.
OneScorerPublishes ==
    \A i, j \in 1..Len(Outputs) :
        output[i] # None /\ output[j] # None => output[i].by = output[j].by

\* Scores are of every frozen case and of the rows as they are for ever after,
\* also when the runner was still running while they were read.
ScoresAreOfTheWholeRun ==
    \A i \in 1..Len(Outputs) : output[i] # None =>
        OneToOne(output[i].of) /\ output[i].of = rows

\* Of scorers that race each other on a whole run, one gets its report out,
\* unless a scorer is killed.
ScoringCompletes ==
    (\E s \in Scorers : spc[s] = "checking")
        ~> \/ output[Len(Outputs)] # None /\ output[Len(Outputs)].whole
           \/ \E s \in Scorers : spc[s] = "killed"
=============================================================================
