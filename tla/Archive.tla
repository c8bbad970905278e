------------------------------- MODULE Archive -------------------------------
(***************************************************************************)
(* What save_trace of src/src/trace_writer.py promises of the records of    *)
(* the runs, without files, names or disks: a record is seen whole or not   *)
(* at all, is not replaced, and is not taken away once save_trace returned. *)
(***************************************************************************)

CONSTANTS
    Writers,    \* calls of save_trace, each with a record
    Run,        \* Run[w]: the run that record is of
    None

Runs == {Run[w] : w \in Writers}

VARIABLES
    record,     \* the call whose record is seen for each run, or None
    returned,   \* the calls that have returned
    settled     \* the place of the records outlives the power

archive == <<record, returned, settled>>

Init ==
    /\ record = [r \in Runs |-> None]
    /\ returned = {}
    /\ settled \in BOOLEAN

\* The whole record appears at once, and only where there is none.
Publish(w) ==
    /\ w \notin returned
    /\ record[Run[w]] = None
    /\ record' = [record EXCEPT ![Run[w]] = w]
    /\ UNCHANGED <<returned, settled>>

\* A call returns when its record is seen.
Return(w) ==
    /\ w \notin returned
    /\ record[Run[w]] = w
    /\ returned' = returned \cup {w}
    /\ UNCHANGED <<record, settled>>

\* Power loss takes records whose calls have not returned, if any.
Forget ==
    /\ \A r \in Runs : record'[r] = record[r] \/ (record'[r] = None /\ record[r] \notin returned)
    /\ record' = [r \in Runs |-> record'[r]]
    /\ settled' \in {settled, TRUE}
    /\ UNCHANGED returned

\* It takes all of them with a place that was made since the last one.
LoseAll ==
    /\ ~settled
    /\ record' = [r \in Runs |-> None]
    /\ UNCHANGED <<returned, settled>>

Next == (\E w \in Writers : Publish(w) \/ Return(w)) \/ Forget \/ LoseAll

Spec == Init /\ [][Next]_archive
=============================================================================
