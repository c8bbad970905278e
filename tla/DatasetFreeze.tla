---------------------------- MODULE DatasetFreeze ----------------------------
(***************************************************************************)
(* freeze_architecture_datasets of src/src/architecture_evaluation_dataset.py: *)
(* an invocation builds the evaluation cases of its program and writes three *)
(* files, none of which may exist: the requirement cases, the fault cases,   *)
(* and the manifest with the digests of both.  Invocations may race, and any *)
(* may be killed between two steps.                                         *)
(*                                                                         *)
(* The bytes of a file are named by the invocation that wrote them: they     *)
(* depend on its program and its time of freezing.                          *)
(***************************************************************************)
EXTENDS Naturals, Sequences

CONSTANTS
    Freezers,       \* invocations with the same three paths
    None

\* The targets, in the order they are written.
Targets == <<"requirements", "faults", "manifest">>

VARIABLES
    fpc,        \* where each invocation stands
    fat,        \* the target each is at
    target      \* the files: who wrote each and whether it is whole, or None

vars == <<fpc, fat, target>>

Init ==
    /\ fpc = [f \in Freezers |-> "idle"]
    /\ fat = [f \in Freezers |-> 1]
    /\ target = [i \in 1..Len(Targets) |-> None]

Proceed(f, next) == fpc' = [fpc EXCEPT ![f] = next]

\* path.exists() of all targets; then the cases are built and validated.
CheckTargets(f) ==
    /\ fpc[f] = "idle"
    /\ Proceed(f, IF \E i \in 1..Len(Targets) : target[i] # None THEN "stopped" ELSE "opening")
    /\ UNCHANGED <<fat, target>>

ReplaceTargetMutant(f) ==
    /\ fpc[f] = "opening"
    /\ target' = [target EXCEPT ![fat[f]] = [by |-> f, whole |-> FALSE]]
    /\ Proceed(f, "writing")
    /\ UNCHANGED fat

\* open("xb"), open("x"): the file is created, or exists already, which raises.
OpenTarget(f) ==
    /\ fpc[f] = "opening"
    /\ \/ /\ target[fat[f]] = None
          /\ target' = [target EXCEPT ![fat[f]] = [by |-> f, whole |-> FALSE]]
          /\ Proceed(f, "writing")
       \/ target[fat[f]] # None /\ Proceed(f, "stopped") /\ UNCHANGED target
    /\ UNCHANGED fat

\* The file is written and closed; the next one follows.
WriteTarget(f) ==
    /\ fpc[f] = "writing"
    /\ target' = [target EXCEPT ![fat[f]].whole = TRUE]
    /\ \/ fat[f] = Len(Targets) /\ Proceed(f, "done") /\ UNCHANGED fat
       \/ /\ fat[f] < Len(Targets)
          /\ fat' = [fat EXCEPT ![f] = @ + 1] /\ Proceed(f, "opening")

\* Killed, or stopped by an OSError: what it wrote stays.
StopFreezer(f) ==
    /\ fpc[f] \in {"opening", "writing"}
    /\ Proceed(f, "killed")
    /\ UNCHANGED <<fat, target>>

FreezeStep(f) == CheckTargets(f) \/ OpenTarget(f) \/ WriteTarget(f) \/ StopFreezer(f)

Next == \E f \in Freezers : FreezeStep(f)

Spec == Init /\ [][Next]_vars

-----------------------------------------------------------------------------
(* Property. *)

\* A manifest, even one being written, describes two files that are there and
\* whole, and all are of one invocation: neither a race nor a kill leaves a
\* manifest that vouches for missing, torn or foreign cases.
ManifestDescribesTheSet ==
    target[3] # None => \A i \in 1..2 :
        target[i] # None /\ target[i].whole /\ target[i].by = target[3].by
=============================================================================
