-------------------------- MODULE TraceWriterProofs --------------------------
(* For any number of writers, processes and runs: what TraceWriter publishes  *)
(* is complete, stays, and is never replaced.                                 *)
EXTENDS TraceRefinement, TLAPS

\* What each position of a call has achieved.
ProgressInv ==
    \A w \in Writers :
        /\ pc[w] \in {"syncing", "linking"} => data[w] = "full"
        /\ pc[w] = "linking" => synced[w]
        /\ pc[w] \in {"unlinking", "syncing_directory"} => final[Run[w]] = w
        /\ pc[w] = "syncing_directory" => ~tmp[w]
        /\ pc[w] = "returned" /\ ~lost => diskFinal[Run[w]] = w /\ ~tmp[w] /\ ~diskTmp[w]
        /\ synced[w] => data[w] = "full"

\* A published file was synced before, and a name on disk is a name in use.
NamesInv ==
    \A r \in Runs :
        /\ final[r] # None => synced[final[r]] /\ Run[final[r]] = r
        /\ diskFinal[r] # None => final[r] = diskFinal[r]

Inv == TypeOK /\ ProgressInv /\ NamesInv

LEMMA InitInv == Init => Inv
<1> SUFFICES ASSUME Init PROVE Inv
  OBVIOUS
<1>1. TypeOK
  BY DEF Init, TypeOK, Ended
<1>2. ProgressInv /\ NamesInv
  BY DEF Init, ProgressInv, NamesInv
<1> QED BY <1>1, <1>2 DEF Inv

\* The steps of one call; each is checked against the three parts.
LEMMA BeginKeepsInv ==
    ASSUME Inv, NEW w \in Writers, Begin(w) PROVE Inv'
<1>1. Process[w] \in Processes /\ None \notin Writers
  BY WritersAssumption DEF Processes
<1>2. TypeOK'
  BY <1>1 DEF Inv, TypeOK, Begin, Goto, Ended, files, names, disk, place, OpenDirectory, Processes
<1>3. ProgressInv' /\ NamesInv'
  BY DEF Inv, TypeOK, ProgressInv, NamesInv, Begin, Goto, OpenDirectory, files, names, disk, place
<1> QED BY <1>2, <1>3 DEF Inv

LEMMA FilesKeepInv ==
    ASSUME Inv, NEW w \in Writers, Create(w) \/ Write(w) \/ Sync(w) PROVE Inv'
<1>1. TypeOK'
  BY DEF Inv, TypeOK, Create, Write, Sync, Fails, Goto, Ended, files, names, disk, place
<1>2. ProgressInv' /\ NamesInv'
  BY DEF Inv, TypeOK, ProgressInv, NamesInv, Create, Write, Sync, Fails, Goto,
         files, names, disk, place
<1> QED BY <1>1, <1>2 DEF Inv

LEMMA LinkKeepsInv ==
    ASSUME Inv, NEW w \in Writers, Link(w) PROVE Inv'
<1>1. Run[w] \in Runs /\ None \notin Writers
  BY WritersAssumption DEF Runs
<1>2. TypeOK'
  BY <1>1 DEF Inv, TypeOK, Link, Fails, Goto, Ended, files, names, disk, place
<1>3. ProgressInv' /\ NamesInv'
  BY <1>1 DEF Inv, TypeOK, ProgressInv, NamesInv, Link, Fails, Goto,
              files, names, disk, place, Runs
<1> QED BY <1>2, <1>3 DEF Inv

LEMMA UnlinkKeepsInv ==
    ASSUME Inv, NEW w \in Writers, Unlink(w) PROVE Inv'
<1>1. TypeOK'
  BY DEF Inv, TypeOK, Unlink, Fails, Goto, Ended, files, names, disk, place
<1>2. ProgressInv' /\ NamesInv'
  BY DEF Inv, TypeOK, ProgressInv, NamesInv, Unlink, Fails, Goto, files, names, disk, place
<1> QED BY <1>1, <1>2 DEF Inv

LEMMA SyncDirectoryKeepsInv ==
    ASSUME Inv, NEW w \in Writers, SyncDirectory(w) PROVE Inv'
<1>1. Process[w] \in Processes /\ Run[w] \in Runs /\ None \notin Writers
  BY WritersAssumption DEF Processes, Runs
<1>2. CASE Fails(w) /\ UNCHANGED lock
  <2>1. TypeOK'
    BY <1>2 DEF Inv, TypeOK, SyncDirectory, Fails, Goto, Ended, files, names, disk, place
  <2>2. ProgressInv' /\ NamesInv'
    BY <1>2 DEF Inv, TypeOK, ProgressInv, NamesInv, SyncDirectory, Fails, Goto,
                files, names, disk, place
  <2> QED BY <2>1, <2>2 DEF Inv
<1>3. CASE /\ diskTmp' = tmp /\ diskFinal' = final
           /\ Goto(w, "returned") /\ lock' = [lock EXCEPT ![Process[w]] = None]
           /\ UNCHANGED <<files, names>>
  <2>1. TypeOK'
    BY <1>1, <1>3 DEF Inv, TypeOK, SyncDirectory, Goto, Ended, files, names, place
  <2>2. ProgressInv'
    BY <1>1, <1>3 DEF Inv, TypeOK, ProgressInv, NamesInv, SyncDirectory, Goto, files, names, place, Runs
  <2>3. NamesInv'
    BY <1>3 DEF Inv, NamesInv, files, names, place
  <2> QED BY <2>1, <2>2, <2>3 DEF Inv
<1> QED BY <1>2, <1>3 DEF SyncDirectory

LEMMA CleanKeepsInv ==
    ASSUME Inv, NEW w \in Writers, Clean(w) PROVE Inv'
<1>1. Process[w] \in Processes /\ None \notin Writers
  BY WritersAssumption DEF Processes
<1>2. TypeOK'
  <2>1. pc' = [pc EXCEPT ![w] = "raised"] /\ lock' = [lock EXCEPT ![Process[w]] = None]
        /\ pc[w] = "cleaning" /\ UNCHANGED <<data, synced, final, diskTmp, diskFinal, place>>
    BY DEF Clean, Goto, files, disk
  <2>2. tmp' \in [Writers -> BOOLEAN]
    BY DEF Inv, TypeOK, Clean
  <2>3. \A v \in Writers : pc'[v] \notin Ended => lock'[Process[v]] = v /\ directory' # "absent"
    BY <1>1, <2>1 DEF Inv, TypeOK, Ended, place
  <2>4. lock' \in [Processes -> Writers \cup {None}]
    BY <2>1 DEF Inv, TypeOK
  <2> QED BY <2>1, <2>2, <2>3, <2>4 DEF Inv, TypeOK, Ended, place
<1>3. ProgressInv' /\ NamesInv'
  BY DEF Inv, TypeOK, ProgressInv, NamesInv, Clean, Goto, files, disk, place
<1> QED BY <1>2, <1>3 DEF Inv

LEMMA KillKeepsInv ==
    ASSUME Inv, NEW p \in Processes, Kill(p) PROVE Inv'
<1>1. ASSUME NEW w \in Writers
      PROVE  /\ pc'[w] \in Ended \/ (pc'[w] = pc[w] /\ Process[w] # p)
             /\ pc'[w] = pc[w] \/ pc'[w] = "killed"
             /\ Process[w] \in Processes
  BY DEF Kill, Ended, Processes
<1>2. UNCHANGED <<files, names, disk, place>>
  BY DEF Kill
<1>3. pc' \in [Writers -> Ended \cup {"creating", "writing", "syncing", "linking",
                              "unlinking", "syncing_directory", "cleaning"}]
  BY DEF Inv, TypeOK, Kill, Ended
<1>4. lock' = [lock EXCEPT ![p] = None]
  BY DEF Kill
<1>5. lock' \in [Processes -> Writers \cup {None}]
  BY <1>4 DEF Inv, TypeOK
<1>6. \A w \in Writers : pc'[w] \notin Ended => lock'[Process[w]] = w /\ directory' # "absent"
  BY <1>1, <1>2, <1>4 DEF Inv, TypeOK, place
<1>7. TypeOK'
  BY <1>2, <1>3, <1>5, <1>6 DEF Inv, TypeOK, files, names, disk, place, Ended
<1>8. ProgressInv' /\ NamesInv'
  BY <1>1, <1>2 DEF Inv, ProgressInv, NamesInv, files, names, disk, place
<1> QED BY <1>7, <1>8 DEF Inv

\* What a power loss leaves of the names: the surviving ones are on disk, and
\* with the directory all of them go.
LEMMA SurvivingNames ==
    ASSUME Inv, LosePower
    PROVE  /\ tmp' \in [Writers -> BOOLEAN] /\ diskTmp' = tmp'
           /\ final' \in [Runs -> Writers \cup {None}] /\ diskFinal' = final'
           /\ \A r \in Runs : final'[r] \in {final[r], diskFinal[r], None}
           /\ ~lost' => /\ ~lost
                        /\ \A r \in Runs : final'[r] \in {final[r], diskFinal[r]}
                        /\ \A w \in Writers : tmp'[w] \in {tmp[w], diskTmp[w]}
           /\ directory' \in {"absent", "volatile", "durable"} /\ lost' \in BOOLEAN
<1>1. CASE KeepDirectory
  BY <1>1 DEF Inv, TypeOK, LosePower, KeepDirectory
<1>2. CASE LoseDirectory
  BY <1>2 DEF Inv, TypeOK, LosePower, LoseDirectory
<1> QED BY <1>1, <1>2 DEF LosePower

\* A power loss forgets only what was not synced, and a record is synced before
\* it has a name.
LEMMA PowerLossKeepsInv == Inv /\ LosePower => Inv'
<1> SUFFICES ASSUME Inv, LosePower PROVE Inv'
  OBVIOUS
<1>1. \A w \in Writers : pc'[w] \in Ended /\ (pc'[w] = pc[w] \/ pc'[w] = "killed")
  BY DEF LosePower, Inv, TypeOK, Ended
<1>2. \A w \in Writers : Run[w] \in Runs /\ w # None
  BY WritersAssumption DEF Runs
<1>3. data' \in [Writers -> {"partial", "full"}]
      /\ \A w \in Writers : synced[w] => data'[w] = data[w]
  BY DEF LosePower
<1>4. TypeOK'
  <2>1. pc' \in [Writers -> Ended] /\ lock' \in [Processes -> Writers \cup {None}]
        /\ synced' = synced
    BY DEF LosePower, Inv, TypeOK, Ended
  <2> QED BY <1>1, <1>3, <2>1, SurvivingNames DEF Inv, TypeOK, Ended
<1>5. ProgressInv'
  <2> SUFFICES ASSUME NEW w \in Writers
               PROVE  /\ pc'[w] \notin {"syncing", "linking", "unlinking", "syncing_directory"}
                      /\ pc'[w] = "returned" /\ ~lost' =>
                            diskFinal'[Run[w]] = w /\ ~tmp'[w] /\ ~diskTmp'[w]
                      /\ synced'[w] => data'[w] = "full"
    BY DEF ProgressInv
  <2>1. pc'[w] \notin {"syncing", "linking", "unlinking", "syncing_directory"}
    BY <1>1 DEF Ended
  <2>2. ASSUME pc'[w] = "returned", ~lost'
        PROVE diskFinal'[Run[w]] = w /\ ~tmp'[w] /\ ~diskTmp'[w]
    <3>1. pc[w] = "returned" /\ ~lost
      BY <1>1, <2>2, SurvivingNames
    <3>2. diskFinal[Run[w]] = w /\ ~tmp[w] /\ ~diskTmp[w] /\ final[Run[w]] = w
      BY <3>1, <1>2 DEF Inv, ProgressInv, NamesInv
    <3> QED BY <2>2, <3>2, <1>2, SurvivingNames
  <2>3. synced'[w] => data'[w] = "full"
    BY <1>3 DEF LosePower, Inv, ProgressInv
  <2> QED BY <2>1, <2>2, <2>3
<1>6. NamesInv'
  BY SurvivingNames DEF Inv, NamesInv, LosePower
<1> QED BY <1>4, <1>5, <1>6 DEF Inv

LEMMA StutterKeepsInv == Inv /\ UNCHANGED vars => Inv'
BY DEF Inv, TypeOK, ProgressInv, NamesInv, vars, files, names, disk, place

LEMMA StepKeepsInv == Inv /\ [Next]_vars => Inv'
BY BeginKeepsInv, FilesKeepInv, LinkKeepsInv, UnlinkKeepsInv, SyncDirectoryKeepsInv, CleanKeepsInv,
   KillKeepsInv, PowerLossKeepsInv, StutterKeepsInv DEF Next

THEOREM WriterInvariant == Spec => []Inv
BY InitInv, StepKeepsInv, PTL DEF Spec

\* Calls, locks, files and names stay within their types, and a lock has one
\* holder, whatever the number of processes.
THEOREM WriterTypes == Spec => []TypeOK
BY WriterInvariant, PTL DEF Inv

\* No run name ever shows an incomplete record or another run's.
THEOREM PublishedComplete == Spec => []PublishedIsComplete
<1>1. Inv => PublishedIsComplete
  BY DEF Inv, TypeOK, ProgressInv, NamesInv, PublishedIsComplete
<1> QED BY <1>1, WriterInvariant, PTL

\* Once save_trace has returned, its record survives everything but the loss of
\* a directory that was never synced into its parent.
THEOREM ReturnedDurable == Spec => []ReturnedIsDurable
<1>1. Inv => ReturnedIsDurable
  BY WritersAssumption DEF Inv, TypeOK, ProgressInv, NamesInv, ReturnedIsDurable, Runs
<1> QED BY <1>1, WriterInvariant, PTL

\* No step but a power loss takes a published name from its record, and none
\* gives it to another: neither the clean-up of a call that failed after its
\* record was out nor that of a call whose link was refused.
THEOREM PublishedRecordsStay == Spec => PublishedStays
<1> DEFINE Kept == \A r \in Runs : final[r] # None =>
        final'[r] = final[r] \/ (final'[r] = None /\ LosePower)
<1>1. Inv /\ [Next]_vars => [Kept]_vars
  <2> SUFFICES ASSUME Inv, Next PROVE Kept
    OBVIOUS
  <2>1. ASSUME NEW w \in Writers, Link(w) PROVE Kept
    BY <2>1 DEF Inv, TypeOK, Link, Fails, names
  <2>2. ASSUME LosePower PROVE Kept
    BY <2>2, SurvivingNames DEF Inv, NamesInv
  <2>3. ASSUME UNCHANGED final PROVE Kept
    BY <2>3
  <2> QED BY <2>1, <2>2, <2>3 DEF Next, Begin, Create, Write, Sync, Unlink, SyncDirectory,
             Clean, Kill, Fails, vars, names
<1> QED BY <1>1, WriterInvariant, PTL DEF Spec, PublishedStays

-----------------------------------------------------------------------------
(* The refinement: a call publishes when it links and returns when the        *)
(* directory is synced; all else but a power loss is a stutter.               *)

\* What a returned call has put there is on disk: of a place that is settled
\* as of one that is not, and after it was lost as well.
DurableInv ==
    \A w \in Writers : pc[w] = "returned" /\ final[Run[w]] = w => diskFinal[Run[w]] = w

\* Nobody's name refers to an incomplete file, so what is seen is what is named.
LEMMA SeenIsFinal == Inv => Seen = final
<1> SUFFICES ASSUME Inv PROVE Seen = final
  OBVIOUS
<1>1. \A r \in Runs : final[r] # None => data[final[r]] = "full" /\ Run[final[r]] = r
  BY DEF Inv, TypeOK, ProgressInv, NamesInv
<1>2. final \in [Runs -> Writers \cup {None}]
  BY DEF Inv, TypeOK
<1>3. Seen = [r \in Runs |-> final[r]]
  BY <1>1 DEF Seen
<1> QED BY <1>2, <1>3

\* After a power loss each name is as it was, or as it was on disk.
LEMMA LossKeepsOrRemoves ==
    ASSUME Inv, LosePower, KeepDirectory
    PROVE  final' \in [Runs -> Writers \cup {None}]
           /\ \A r \in Runs : final'[r] \in {final[r], diskFinal[r]} /\ diskFinal'[r] = final'[r]
BY DEF LosePower, KeepDirectory

LEMMA NextDurableInv == Inv /\ DurableInv /\ [Next]_vars => DurableInv'
<1> SUFFICES ASSUME Inv, DurableInv, [Next]_vars PROVE DurableInv'
  OBVIOUS
<1>1. CASE LosePower
  <2>1. \A w \in Writers : Run[w] \in Runs
    BY DEF Runs
  <2>2. \A r \in Runs : diskFinal'[r] = final'[r]
    BY <1>1 DEF LosePower
  <2> QED BY <2>1, <2>2 DEF DurableInv
<1>2. ASSUME NEW w \in Writers, SyncDirectory(w) PROVE DurableInv'
  <2>1. \/ diskFinal' = final /\ final' = final
        \/ UNCHANGED <<final, diskFinal>> /\ pc' = [pc EXCEPT ![w] = "cleaning"]
    BY <1>2 DEF SyncDirectory, Fails, Goto, names, disk
  <2> QED BY <2>1 DEF DurableInv, Inv, TypeOK
<1>3. ASSUME NEW w \in Writers, Link(w) PROVE DurableInv'
  <2>1. /\ diskFinal' = diskFinal
        /\ pc' \in {[pc EXCEPT ![w] = "unlinking"], [pc EXCEPT ![w] = "cleaning"]}
        /\ final' = final \/ final' = [final EXCEPT ![Run[w]] = w]
    BY <1>3 DEF Link, Fails, Goto, names, disk
  <2>2. ASSUME NEW v \in Writers, pc'[v] = "returned", final'[Run[v]] = v
        PROVE  diskFinal'[Run[v]] = v
    <3>1. v # w /\ pc[v] = "returned"
      BY <2>1, <2>2 DEF Inv, TypeOK
    <3>2. final[Run[v]] = v
      BY <2>1, <2>2, <3>1 DEF Inv, TypeOK, Runs
    <3> QED BY <2>1, <3>1, <3>2 DEF DurableInv
  <2> QED BY <2>2 DEF DurableInv
<1>4. ASSUME UNCHANGED <<final, diskFinal>>,
             \A w \in Writers : pc'[w] = "returned" => pc[w] = "returned"
      PROVE  DurableInv'
  BY <1>4 DEF DurableInv
<1>5. ASSUME NEW w \in Writers, Begin(w) \/ Create(w) \/ Write(w) \/ Sync(w) \/ Unlink(w) \/ Clean(w)
      PROVE  DurableInv'
  BY <1>4, <1>5 DEF Begin, Create, Write, Sync, Unlink, Clean, Fails, Goto, names, disk, Inv, TypeOK
<1>6. ASSUME NEW p \in Processes, Kill(p) PROVE DurableInv'
  BY <1>4, <1>6 DEF Kill, names, disk
<1>7. CASE UNCHANGED vars
  BY <1>4, <1>7 DEF vars, names, disk
<1> QED BY <1>1, <1>2, <1>3, <1>5, <1>6, <1>7 DEF Next

LEMMA StepImplements ==
    Inv /\ DurableInv /\ Seen = final /\ (Seen = final)' /\ [Next]_vars
        => [A!Next]_A!archive
<1> SUFFICES ASSUME Inv, DurableInv, Seen = final, (Seen = final)', [Next]_vars
             PROVE  [A!Next]_A!archive
  OBVIOUS
<1>1. Seen = final /\ Seen' = final'
  OBVIOUS
<1>2. final \in [Runs -> Writers \cup {None}] /\ A!Runs = Runs /\ None \notin Writers
  BY WritersAssumption DEF Inv, TypeOK, A!Runs, Runs
<1>3. ASSUME UNCHANGED final, Returned' = Returned, (directory = "durable")' = (directory = "durable")
      PROVE  UNCHANGED A!archive
  BY <1>1, <1>3 DEF A!archive
<1>4. ASSUME NEW w \in Writers, Begin(w) PROVE UNCHANGED A!archive
  <2>1. UNCHANGED final /\ (directory = "durable")' = (directory = "durable")
    BY <1>4 DEF Begin, OpenDirectory, names, place
  <2>2. Returned' = Returned
    BY <1>4 DEF Begin, Goto, Returned, Inv, TypeOK
  <2> QED BY <1>3, <2>1, <2>2
<1>5. ASSUME NEW w \in Writers, Create(w) \/ Write(w) \/ Sync(w) \/ Unlink(w) \/ Clean(w)
      PROVE  UNCHANGED A!archive
  <2>1. UNCHANGED <<final, directory>>
    BY <1>5 DEF Create, Write, Sync, Unlink, Clean, Fails, names, place
  <2>2. Returned' = Returned
    BY <1>5 DEF Create, Write, Sync, Unlink, Clean, Fails, Goto, Returned, Inv, TypeOK
  <2> QED BY <1>3, <2>1, <2>2
<1>6. ASSUME NEW w \in Writers, Link(w) PROVE [A!Next]_A!archive
  <2>1. Returned' = Returned /\ UNCHANGED directory /\ w \notin Returned
    BY <1>6 DEF Link, Fails, Goto, place, Returned, Inv, TypeOK
  <2>2. CASE final[Run[w]] = None /\ final' = [final EXCEPT ![Run[w]] = w]
    BY <1>1, <2>1, <2>2 DEF A!Next, A!Publish
  <2>3. CASE UNCHANGED final
    BY <1>3, <2>1, <2>3
  <2> QED BY <1>6, <2>2, <2>3 DEF Link, Fails, names
<1>7. ASSUME NEW w \in Writers, SyncDirectory(w) PROVE [A!Next]_A!archive
  <2>1. UNCHANGED <<final, directory>> /\ final[Run[w]] = w /\ w \notin Returned
    BY <1>7 DEF SyncDirectory, Fails, names, place, Returned, Inv, ProgressInv
  <2>2. CASE pc' = [pc EXCEPT ![w] = "returned"]
    <3>1. Returned' = Returned \cup {w}
      BY <2>2 DEF Returned, Inv, TypeOK
    <3> QED BY <1>1, <2>1, <3>1 DEF A!Next, A!Return
  <2>3. CASE pc' = [pc EXCEPT ![w] = "cleaning"]
    <3>1. Returned' = Returned
      BY <1>7, <2>3 DEF SyncDirectory, Returned, Inv, TypeOK
    <3> QED BY <1>3, <2>1, <3>1
  <2> QED BY <1>7, <2>2, <2>3 DEF SyncDirectory, Fails, Goto
<1>8. ASSUME NEW p \in Processes, Kill(p) PROVE UNCHANGED A!archive
  <2>1. UNCHANGED <<final, directory>>
    BY <1>8 DEF Kill, names, place
  <2>2. Returned' = Returned
    BY <1>8 DEF Kill, Returned, Ended
  <2> QED BY <1>3, <2>1, <2>2
<1>9. CASE LosePower
  <2>1. Returned' = Returned
    BY <1>9 DEF LosePower, Returned, Ended
  <2>2. CASE KeepDirectory
    <3>1. \A r \in Runs : final'[r] = final[r] \/ (final'[r] = None /\ final[r] \notin Returned)
      <4> SUFFICES ASSUME NEW r \in Runs, final'[r] # final[r]
                   PROVE  final'[r] = None /\ final[r] \notin Returned
        OBVIOUS
      <4>1. final'[r] = diskFinal[r]
        BY <1>9, <2>2, LossKeepsOrRemoves
      <4>2. diskFinal[r] = None
        BY <4>1 DEF Inv, NamesInv
      <4>3. ASSUME final[r] \in Returned PROVE FALSE
        <5>1. final[r] \in Writers /\ pc[final[r]] = "returned" /\ Run[final[r]] = r
          BY <1>2, <4>3 DEF Returned, Inv, NamesInv
        <5> QED BY <1>2, <4>2, <5>1 DEF DurableInv
      <4> QED BY <4>1, <4>2, <4>3
    <3>2. final' = [r \in Runs |-> final'[r]]
      BY <1>9, <2>2, LossKeepsOrRemoves
    <3>3. (directory = "durable")' \in {directory = "durable", TRUE}
      BY <2>2 DEF KeepDirectory
    <3> QED BY <1>1, <1>2, <2>1, <3>1, <3>2, <3>3 DEF A!Next, A!Forget
  <2>3. CASE LoseDirectory
    BY <1>1, <1>2, <2>1, <2>3 DEF LoseDirectory, A!Next, A!LoseAll
  <2> QED BY <1>9, <2>2, <2>3 DEF LosePower
<1>10. CASE UNCHANGED vars
  BY <1>3, <1>10 DEF vars, names, place, Returned
<1> QED BY <1>4, <1>5, <1>6, <1>7, <1>8, <1>9, <1>10 DEF Next

\* For any number of calls, processes and runs: save_trace implements an archive
\* of whole records that are neither replaced nor, once returned, removed.
THEOREM Archives == Spec => ImplementsArchive
<1>1. Init => Inv /\ DurableInv /\ A!Init
  <2> SUFFICES ASSUME Init PROVE Inv /\ DurableInv /\ A!Init
    OBVIOUS
  <2>1. Inv
    BY InitInv
  <2>2. Returned = {} /\ DurableInv
    BY DEF Init, Returned, DurableInv
  <2>3. Seen = [r \in Runs |-> None]
    BY <2>1, SeenIsFinal DEF Init
  <2> QED BY <2>1, <2>2, <2>3 DEF A!Init, A!Runs, Runs
<1>2. Inv /\ DurableInv /\ [Next]_vars => (Inv /\ DurableInv)'
  BY StepKeepsInv, NextDurableInv
<1> QED BY <1>1, <1>2, SeenIsFinal, StepImplements, PTL DEF Spec, ImplementsArchive, A!Spec
=============================================================================
