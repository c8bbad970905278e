----------------------------- MODULE TraceWriter -----------------------------
(***************************************************************************)
(* save_trace of src/src/trace_writer.py: a record is written to a private  *)
(* temporary file, synced, published under its run's name by a hard link,   *)
(* and the directory is synced.                                             *)
(*                                                                         *)
(* Each call is one actor; calls of one process exclude each other by       *)
(* _TRACE_WRITE_LOCK, calls of different processes do not.  Any system call *)
(* may fail, a process may be killed, and the machine may lose power: then  *)
(* data not synced and directory entries not synced may or may not survive. *)
(***************************************************************************)
EXTENDS Naturals, FiniteSets

CONSTANTS
    Writers,        \* calls of save_trace
    Process,        \* Process[w]: the process that makes call w
    Run,            \* Run[w]: the run id of the record, hence the final name
    None

Processes == {Process[w] : w \in Writers}
Runs == {Run[w] : w \in Writers}

ASSUME WritersAssumption ==
    None \notin Writers

VARIABLES
    pc,         \* where each call stands
    lock,       \* the call that holds each process's lock, or None
    data,       \* what is in the file each call created
    synced,     \* that file was fsynced
    tmp,        \* the temporary name of each call exists
    final,      \* the call whose file each final name refers to, or None
    diskTmp,    \* the same two, as last synced to disk
    diskFinal,
    directory,  \* the output directory: absent, volatile (made, not synced) or durable
    lost        \* a power loss took the directory and all in it

files == <<data, synced>>
names == <<tmp, final>>
disk == <<diskTmp, diskFinal>>
place == <<directory, lost>>
vars == <<pc, lock, files, names, disk, place>>

Init ==
    /\ pc = [w \in Writers |-> "ready"]
    /\ lock = [p \in Processes |-> None]
    /\ data = [w \in Writers |-> "partial"]
    /\ synced = [w \in Writers |-> FALSE]
    /\ tmp = [w \in Writers |-> FALSE] /\ diskTmp = tmp
    /\ final = [r \in Runs |-> None] /\ diskFinal = final
    /\ directory \in {"absent", "durable"} /\ lost = FALSE

Goto(w, next) == pc' = [pc EXCEPT ![w] = next]

\* The system call at hand raises: the except clause cleans up.
Fails(w) == Goto(w, "cleaning") /\ UNCHANGED <<files, names, disk>>

\* _open_private_directory: what is missing of the path is made, and nothing
\* of it is synced into its parent.
OpenDirectory ==
    /\ directory' = IF directory = "absent" THEN "volatile" ELSE directory
    /\ UNCHANGED lost

\* The lock is taken and the directory opened; if that fails, the directory may
\* have been made all the same.
Begin(w) ==
    /\ pc[w] = "ready" /\ lock[Process[w]] = None
    /\ \/ Goto(w, "creating") /\ OpenDirectory /\ lock' = [lock EXCEPT ![Process[w]] = w]
       \/ Goto(w, "raised") /\ (OpenDirectory \/ UNCHANGED place) /\ UNCHANGED lock
    /\ UNCHANGED <<files, names, disk>>

\* os.open with O_EXCL under a random name.
Create(w) ==
    /\ pc[w] = "creating"
    /\ \/ /\ tmp' = [tmp EXCEPT ![w] = TRUE] /\ Goto(w, "writing")
          /\ UNCHANGED <<files, final, disk>>
       \/ Fails(w)
    /\ UNCHANGED <<lock, place>>

PublishUnsyncedMutant(w) ==
    /\ pc[w] = "writing"
    /\ \/ /\ data' = [data EXCEPT ![w] = "full"] /\ Goto(w, "linking")
          /\ UNCHANGED <<synced, names, disk>>
       \/ Fails(w)
    /\ UNCHANGED <<lock, place>>

\* The loop of os.write; a failure leaves a part.
Write(w) ==
    /\ pc[w] = "writing"
    /\ \/ /\ data' = [data EXCEPT ![w] = "full"] /\ Goto(w, "syncing")
          /\ UNCHANGED <<synced, names, disk>>
       \/ Fails(w)
    /\ UNCHANGED <<lock, place>>

\* os.fsync and os.close of the file.
Sync(w) ==
    /\ pc[w] = "syncing"
    /\ \/ /\ synced' = [synced EXCEPT ![w] = TRUE] /\ Goto(w, "linking")
          /\ UNCHANGED <<data, names, disk>>
       \/ Fails(w)
    /\ UNCHANGED <<lock, place>>

RenameMutant(w) ==
    /\ pc[w] = "linking"
    /\ \/ /\ final' = [final EXCEPT ![Run[w]] = w] /\ Goto(w, "unlinking")
          /\ UNCHANGED <<files, tmp, disk>>
       \/ Fails(w)
    /\ UNCHANGED <<lock, place>>

\* os.link publishes and refuses to replace.
Link(w) ==
    /\ pc[w] = "linking"
    /\ \/ /\ final[Run[w]] = None
          /\ final' = [final EXCEPT ![Run[w]] = w] /\ Goto(w, "unlinking")
          /\ UNCHANGED <<files, tmp, disk>>
       \/ Fails(w)
    /\ UNCHANGED <<lock, place>>

\* os.unlink of the temporary name.
Unlink(w) ==
    /\ pc[w] = "unlinking"
    /\ \/ /\ tmp' = [tmp EXCEPT ![w] = FALSE] /\ Goto(w, "syncing_directory")
          /\ UNCHANGED <<files, final, disk>>
       \/ Fails(w)
    /\ UNCHANGED <<lock, place>>

NoDirectorySyncMutant(w) ==
    /\ pc[w] = "syncing_directory"
    /\ Goto(w, "returned") /\ lock' = [lock EXCEPT ![Process[w]] = None]
    /\ UNCHANGED <<files, names, disk, place>>

\* os.fsync of the directory makes every name in it durable; the call returns.
SyncDirectory(w) ==
    /\ pc[w] = "syncing_directory"
    /\ \/ /\ diskTmp' = tmp /\ diskFinal' = final
          /\ Goto(w, "returned") /\ lock' = [lock EXCEPT ![Process[w]] = None]
          /\ UNCHANGED <<files, names>>
       \/ Fails(w) /\ UNCHANGED lock
    /\ UNCHANGED place

CleanFinalMutant(w) ==
    /\ pc[w] = "cleaning"
    /\ tmp' = [tmp EXCEPT ![w] = FALSE]
    /\ final' = [final EXCEPT ![Run[w]] = None]
    /\ Goto(w, "raised") /\ lock' = [lock EXCEPT ![Process[w]] = None]
    /\ UNCHANGED <<files, disk, place>>

\* The except clause: remove the temporary name if it is there, and re-raise.
Clean(w) ==
    /\ pc[w] = "cleaning"
    /\ tmp' = [tmp EXCEPT ![w] = FALSE] \/ UNCHANGED tmp
    /\ Goto(w, "raised") /\ lock' = [lock EXCEPT ![Process[w]] = None]
    /\ UNCHANGED <<files, final, disk, place>>

Ended == {"ready", "returned", "raised", "killed"}

\* A process is killed; its names stay as they are.
Kill(p) ==
    /\ \E w \in Writers : Process[w] = p /\ pc[w] \notin Ended
    /\ pc' = [w \in Writers |->
                IF Process[w] = p /\ pc[w] \notin Ended THEN "killed" ELSE pc[w]]
    /\ lock' = [lock EXCEPT ![p] = None]
    /\ UNCHANGED <<files, names, disk, place>>

\* The directory is on disk after the power loss: of every name in it either the
\* current or the synced state survives.
KeepDirectory ==
    /\ directory' = IF directory = "volatile" THEN "durable" ELSE directory
    /\ tmp' \in {t \in [Writers -> BOOLEAN] :
                    \A w \in Writers : t[w] \in {tmp[w], diskTmp[w]}}
    /\ final' \in {f \in [Runs -> Writers \cup {None}] :
                    \A r \in Runs : f[r] \in {final[r], diskFinal[r]}}
    /\ UNCHANGED lost

\* It was made since the last one, and is gone with all its names.
LoseDirectory ==
    /\ directory = "volatile" /\ directory' = "absent" /\ lost' = TRUE
    /\ tmp' = [w \in Writers |-> FALSE]
    /\ final' = [r \in Runs |-> None]

\* Power is lost: of every file not synced perhaps a part only is left.  What
\* survives is on disk.
LosePower ==
    /\ \E w \in Writers : pc[w] \notin {"ready", "killed"}
    /\ pc' = [w \in Writers |-> IF pc[w] \in Ended THEN pc[w] ELSE "killed"]
    /\ lock' = [p \in Processes |-> None]
    /\ data' \in {d \in [Writers -> {"partial", "full"}] :
                    \A w \in Writers : d[w] = data[w] \/ (~synced[w] /\ d[w] = "partial")}
    /\ KeepDirectory \/ LoseDirectory
    /\ diskTmp' = tmp' /\ diskFinal' = final'
    /\ UNCHANGED synced

Next ==
    \/ \E w \in Writers : \/ Begin(w) \/ Create(w) \/ Write(w) \/ Sync(w) \/ Link(w)
                          \/ Unlink(w) \/ SyncDirectory(w) \/ Clean(w)
    \/ \E p \in Processes : Kill(p)
    \/ LosePower
    \/ (\A w \in Writers : pc[w] \in Ended \ {"ready"}) /\ UNCHANGED vars

Spec == Init /\ [][Next]_vars

-----------------------------------------------------------------------------
(* Properties. *)

\* Every call, lock, file and name is in a state the code can put it in, only a
\* call of the process holds its lock, and it has a directory to work in.
TypeOK ==
    /\ pc \in [Writers -> Ended \cup {"creating", "writing", "syncing", "linking",
                              "unlinking", "syncing_directory", "cleaning"}]
    /\ lock \in [Processes -> Writers \cup {None}]
    /\ \A w \in Writers : pc[w] \notin Ended => lock[Process[w]] = w /\ directory # "absent"
    /\ data \in [Writers -> {"partial", "full"}]
    /\ synced \in [Writers -> BOOLEAN]
    /\ tmp \in [Writers -> BOOLEAN] /\ diskTmp \in [Writers -> BOOLEAN]
    /\ final \in [Runs -> Writers \cup {None}] /\ diskFinal \in [Runs -> Writers \cup {None}]
    /\ directory \in {"absent", "volatile", "durable"} /\ lost \in BOOLEAN

\* A record that can be seen under a run's name is complete, whenever a writer
\* was killed or failed, and after a power loss too.
PublishedIsComplete ==
    \A r \in Runs : final[r] # None => data[final[r]] = "full" /\ Run[final[r]] = r

\* When save_trace has returned, its record is there to stay: no later call for
\* the same run, failure, kill or power loss removes or replaces it, except a
\* power loss that takes the directory save_trace itself had made.
ReturnedIsDurable ==
    \A w \in Writers : pc[w] = "returned" /\ ~lost =>
        final[Run[w]] = w /\ diskFinal[Run[w]] = w /\ ~tmp[w]

\* A record once published stays what its run's name refers to, whether its own
\* call then fails and cleans up, another call of the run cleans up after its
\* link was refused, or a process is killed: only a power loss takes it, and
\* nothing replaces it.
PublishedStays ==
    [][\A r \in Runs : final[r] # None =>
        final'[r] = final[r] \/ (final'[r] = None /\ LosePower)]_vars
=============================================================================
