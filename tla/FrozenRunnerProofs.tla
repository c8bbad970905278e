-------------------------- MODULE FrozenRunnerProofs --------------------------
(***************************************************************************)
(* Proofs about FrozenRunner: what holds of a run directory for any number  *)
(* of cases and of invocations of the runner and the scorer, wherever each   *)
(* of them stops.                                                           *)
(*                                                                         *)
(* Only the runner that made the directory gets past "idle" and "stopped";   *)
(* so the two logs, the manifest and its digest are as far as that runner    *)
(* is (LogInv).  A scorer reads either less than the frozen set or a log     *)
(* that nobody appends to any more (ReadInv), and whoever creates the first  *)
(* output is the only one to create the others (OutputInv).                 *)
(***************************************************************************)
EXTENDS FrozenRunner, Integers, TLAPS

\* A log of the cases 1 to n.
Count(n) == [i \in 1..n |-> i]

States == {"idle", "creating", "describing", "running", "tracing", "noting", "noted",
           "appending", "appended", "sealing", "finishing", "naming", "named", "done",
           "stopped", "killed"}
ScorerStates == {"idle", "checking", "publishing", "writing", "done", "stopped", "killed"}
Files == [by : Scorers, whole : BOOLEAN, of : Seq(Nat)]

\* Every variable has its type.
Types ==
    /\ mode \in {"requirements", "faults"} /\ limit \in 0..FrozenCount
    /\ pc \in [Runners -> States]
    /\ case \in [Runners -> Nat]
    /\ digest \in [Runners -> Seq(Nat)]
    /\ owner \in Runners \cup {None}
    /\ manifest \in {"absent", "torn", "open", "sealed"}
    /\ named \in {"absent", "torn", "whole"}
    /\ sealed \in Seq(Nat) /\ first \in Seq(Nat) /\ rows \in Seq(Nat)
    /\ torn \in {"first", "rows", None}
    /\ spc \in [Scorers -> ScorerStates]
    /\ at \in [Scorers -> 1..4]
    /\ read \in [Scorers -> Seq(Nat)]
    /\ output \in [1..4 -> Files \cup {None}]

Sealers == {"naming", "named", "done"}
Finishers == {"sealing", "finishing"} \cup Sealers
InACase == {"tracing", "noting", "noted", "appending", "appended"}

\* Only the runner that made the directory is past the making of it.
OwnerInv ==
    /\ \A r \in Runners : pc[r] \notin {"idle", "stopped"} => owner = r
    /\ \A r \in Runners : owner = r => pc[r] # "idle"
    /\ owner = None => /\ rows = <<>> /\ first = <<>> /\ case = [r \in Runners |-> 1]
                       /\ torn = None /\ manifest = "absent"

\* Both logs hold the cases in order, the second at most one less.
CountInv ==
    /\ first = Count(Len(first)) /\ rows = Count(Len(rows))
    /\ Len(rows) <= Len(first) /\ Len(first) <= Len(rows) + 1 /\ Len(rows) <= limit

\* The logs are as far as that runner is.
CaseInv ==
    /\ \A r \in Runners : pc[r] \notin {"idle", "stopped"} => case[r] = Len(rows) + 1
    /\ \A r \in Runners : pc[r] \in InACase => case[r] <= limit
    /\ \A r \in Runners : pc[r] \notin {"idle", "stopped", "killed"} =>
        /\ Len(first) = Len(rows) <=> pc[r] \notin {"appending", "appended"}
        /\ pc[r] \notin {"noted", "appended"} => torn = None

\* The manifest is sealed over logs that are finished.
SealInv ==
    /\ \A r \in Runners : pc[r] \in Finishers =>
        Len(rows) = limit /\ digest[r] = SealedLog
    /\ \A r \in Runners : pc[r] \in Sealers => manifest = "sealed"
    /\ manifest = "sealed" =>
        /\ \A r \in Runners : pc[r] \in {"idle", "stopped", "killed"} \cup Sealers
        /\ sealed = SealedLog /\ torn = None
        /\ Len(first) = limit /\ Len(rows) = limit
    /\ named # "absent" => manifest = "sealed"

LogInv == OwnerInv /\ CountInv /\ CaseInv /\ SealInv

Reading == {"checking", "publishing", "writing"}

\* A scorer that goes on has read a whole log; nobody appends to that.
ReadInv ==
    \A s \in Scorers : spc[s] \in Reading => OneToOne(read[s]) /\ read[s] = rows

\* All outputs are of the scorer that created the first.
OutputInv ==
    /\ \A i \in 1..4 : output[i] # None =>
        /\ output[1] # None /\ output[1].by = output[i].by
        /\ output[i].of = rows /\ OneToOne(rows)
    /\ \A s \in Scorers : spc[s] \in {"idle", "checking"} => at[s] = 1
    /\ \A s \in Scorers : spc[s] \in {"publishing", "writing"} /\ at[s] > 1 =>
        output[1] # None /\ output[1].by = s
    /\ \A s \in Scorers : spc[s] = "writing" =>
        output[at[s]] # None /\ output[at[s]].by = s

-----------------------------------------------------------------------------
(* Logs. *)

LEMMA CountLength ==
    ASSUME NEW n \in Nat
    PROVE  Count(n) \in Seq(Nat) /\ Len(Count(n)) = n
  BY DEF Count

LEMMA CountAppend ==
    ASSUME NEW n \in Nat
    PROVE  Append(Count(n), n + 1) = Count(n + 1)
  BY DEF Count

LEMMA OutputCount == Len(Outputs) = 4
  BY DEF Outputs

\* A log of n cases followed by the next.
LEMMA CountNext ==
    ASSUME NEW s \in Seq(Nat), NEW c \in Nat, s = Count(Len(s)), c = Len(s) + 1
    PROVE  Append(s, c) = Count(Len(s) + 1) /\ Len(Append(s, c)) = Len(s) + 1
  <1>1. Len(s) \in Nat
    OBVIOUS
  <1>2. Append(Count(Len(s)), Len(s) + 1) = Count(Len(s) + 1)
    BY <1>1, CountAppend
  <1>3. Len(Count(Len(s) + 1)) = Len(s) + 1
    BY <1>1, CountLength
  <1> QED
    BY <1>2, <1>3

-----------------------------------------------------------------------------
(* Types. *)

LEMMA InitTypes == Init => Types
  BY RunAssumption, OutputCount DEF Init, Types, States, ScorerStates

LEMMA NextTypes == Types /\ OutputInv /\ [Next]_vars => Types'
  <1> SUFFICES ASSUME Types, OutputInv, [Next]_vars PROVE Types'
    OBVIOUS
  <1> USE RunAssumption, OutputCount DEF Types, States, ScorerStates
  <1>1. ASSUME NEW r \in Runners, MakeDirectory(r), UNCHANGED command PROVE Types'
    BY <1>1 DEF MakeDirectory, Goto, command, log, scorer
  <1>2. ASSUME NEW r \in Runners, OpenManifest(r), UNCHANGED command PROVE Types'
    BY <1>2 DEF OpenManifest, Goto, command, log, scorer
  <1>3. ASSUME NEW r \in Runners, DescribeRun(r), UNCHANGED command PROVE Types'
    BY <1>3 DEF DescribeRun, Goto, command, log, scorer
  <1>4. ASSUME NEW r \in Runners, RunCase(r), UNCHANGED command PROVE Types'
    BY <1>4 DEF RunCase, Goto, command, directory, log, scorer
  <1>5. ASSUME NEW r \in Runners, SaveTrace(r), UNCHANGED command PROVE Types'
    BY <1>5 DEF SaveTrace, Goto, command, scorer
  <1>6. ASSUME NEW r \in Runners, BeginAppend(r), UNCHANGED command PROVE Types'
    BY <1>6 DEF BeginAppend, Goto, command, scorer
  <1>7. ASSUME NEW r \in Runners, EndNote(r), UNCHANGED command PROVE Types'
    BY <1>7 DEF EndNote, Goto, command, scorer
  <1>8. ASSUME NEW r \in Runners, EndAppend(r), UNCHANGED command PROVE Types'
    <2>1. case[r] \in Nat /\ rows \in Seq(Nat)
      OBVIOUS
    <2>2. case' \in [Runners -> Nat] /\ rows' \in Seq(Nat)
      BY <1>8, <2>1 DEF EndAppend
    <2> QED
      BY <1>8, <2>2 DEF EndAppend, Goto, command, scorer
  <1>9. ASSUME NEW r \in Runners, HashLog(r), UNCHANGED command PROVE Types'
    BY <1>9 DEF HashLog, SealedLog, Goto, command, directory, log, scorer
  <1>10. ASSUME NEW r \in Runners, SealManifest(r), UNCHANGED command PROVE Types'
    BY <1>10 DEF SealManifest, Goto, command, scorer
  <1>11. ASSUME NEW r \in Runners, NameDataset(r), UNCHANGED command PROVE Types'
    BY <1>11 DEF NameDataset, Goto, command, log, scorer
  <1>12. ASSUME NEW r \in Runners, StopRunner(r), UNCHANGED command PROVE Types'
    BY <1>12 DEF StopRunner, Goto, command, directory, log, scorer
  <1>13. ASSUME NEW s \in Scorers, ReadRows(s), UNCHANGED command PROVE Types'
    BY <1>13 DEF ReadRows, Advance, command, runner, directory, log
  <1>14. ASSUME NEW s \in Scorers, CheckUnscored(s), UNCHANGED command PROVE Types'
    BY <1>14 DEF CheckUnscored, Advance, command, runner, directory, log
  <1>15. ASSUME NEW s \in Scorers, CreateOutput(s), UNCHANGED command PROVE Types'
    <2>1. Started(s) \in Files
      BY DEF Started, Files
    <2> QED
      BY <1>15, <2>1 DEF CreateOutput, Advance, command, runner, directory, log
  <1>16. ASSUME NEW s \in Scorers, CloseOutput(s), UNCHANGED command PROVE Types'
    <2>1. output[at[s]] \in Files
      BY <1>16 DEF CloseOutput, OutputInv
    <2>2. [output[at[s]] EXCEPT !.whole = TRUE] \in Files
      BY <2>1 DEF Files
    <2>3. output' = [output EXCEPT ![at[s]] = [output[at[s]] EXCEPT !.whole = TRUE]]
      BY <1>16 DEF CloseOutput
    <2>4. output' \in [1..4 -> Files \cup {None}]
      BY <2>2, <2>3
    <2>5. spc' \in [Scorers -> ScorerStates]
      BY <1>16 DEF CloseOutput, Advance
    <2>6. at' \in [Scorers -> 1..4]
      <3>1. CASE at' = at
        BY <3>1
      <3>2. CASE at[s] < 4 /\ at' = [at EXCEPT ![s] = @ + 1]
        <4>1. at[s] \in 1..4 /\ at \in [Scorers -> 1..4]
          OBVIOUS
        <4>2. at[s] + 1 \in 1..4
          BY <4>1, <3>2
        <4> HIDE DEF Types
        <4> QED
          BY <4>1, <4>2, <3>2
      <3> QED
        BY <1>16, <3>1, <3>2 DEF CloseOutput
    <2> QED
      BY <1>16, <2>4, <2>5, <2>6 DEF CloseOutput, command, runner, directory, log
  <1>17. ASSUME NEW s \in Scorers, StopScorer(s), UNCHANGED command PROVE Types'
    BY <1>17 DEF StopScorer, Advance, command, runner, directory, log
  <1>18. CASE UNCHANGED vars
    BY <1>18 DEF vars, command, directory, log, runner, scorer
  <1> QED
    BY <1>1, <1>2, <1>3, <1>4, <1>5, <1>6, <1>7, <1>8, <1>9, <1>10, <1>11, <1>12, <1>13,
       <1>14, <1>15, <1>16, <1>17, <1>18 DEF Next, RunnerStep, ScorerStep

-----------------------------------------------------------------------------
(* The run directory. *)

LEMMA InitLogInv == Init => LogInv
  <1> SUFFICES ASSUME Init PROVE LogInv
    OBVIOUS
  <1>1. Count(0) = <<>> /\ Len(<<>>) = 0
    BY DEF Count
  <1> QED
    BY <1>1, RunAssumption DEF Init, LogInv, OwnerInv, CountInv, CaseInv, SealInv, Finishers, Sealers, InACase, SealedLog

LEMMA NextLogInv == Types /\ LogInv /\ [Next]_vars => LogInv'
  <1> SUFFICES ASSUME Types, LogInv, [Next]_vars PROVE LogInv'
    OBVIOUS
  <1>0. Len(first) \in Nat /\ Len(rows) \in Nat /\ limit \in Nat
    <2>1. first \in Seq(Nat) /\ rows \in Seq(Nat) /\ limit \in 0..FrozenCount
      BY DEF Types
    <2>2. FrozenCount \in Nat
      BY RunAssumption
    <2> QED
      BY <2>1, <2>2
  <1> USE RunAssumption DEF Types, LogInv, OwnerInv, CountInv, CaseInv, SealInv, Finishers,
          Sealers, InACase, States
  <1>1. ASSUME NEW r \in Runners, MakeDirectory(r), UNCHANGED command PROVE LogInv'
    <2>1. CASE owner = None /\ owner' = r /\ pc' = [pc EXCEPT ![r] = "creating"]
      <3>1. \A q \in Runners : pc[q] \in {"idle", "stopped"}
        BY <2>1
      <3>2. rows' = rows /\ first' = first /\ rows = <<>> /\ first = <<>> /\ case' = case
            /\ case[r] = 1 /\ Len(rows) = 0
        BY <1>1, <2>1 DEF MakeDirectory, log
      <3>6. OwnerInv'
        BY <1>1, <2>1, <3>1, <3>2 DEF MakeDirectory, SealedLog, command, log
      <3>7. CountInv'
        BY <1>1, <2>1, <3>1, <3>2 DEF MakeDirectory, SealedLog, command, log
      <3>8. CaseInv'
        BY <1>1, <2>1, <3>1, <3>2 DEF MakeDirectory, SealedLog, command, log
      <3>9. SealInv'
        BY <1>1, <2>1, <3>1, <3>2 DEF MakeDirectory, SealedLog, command, log
      <3> QED
        BY <3>6, <3>7, <3>8, <3>9
    <2>2. CASE owner # None /\ owner' = owner /\ pc' = [pc EXCEPT ![r] = "stopped"]
      BY <1>1, <2>2 DEF MakeDirectory, SealedLog, command, log
    <2> QED
      BY <1>1, <2>1, <2>2 DEF MakeDirectory, Goto
  <1>2. ASSUME NEW r \in Runners, OpenManifest(r), UNCHANGED command PROVE LogInv'
    BY <1>2 DEF OpenManifest, Goto, SealedLog, command, log, scorer
  <1>3. ASSUME NEW r \in Runners, DescribeRun(r), UNCHANGED command PROVE LogInv'
    BY <1>3 DEF DescribeRun, Goto, SealedLog, command, log, scorer
  <1>4. ASSUME NEW r \in Runners, RunCase(r), UNCHANGED command PROVE LogInv'
    BY <1>4 DEF RunCase, Goto, SealedLog, command, directory, log, scorer
  <1>5. ASSUME NEW r \in Runners, SaveTrace(r), UNCHANGED command PROVE LogInv'
    <2>0. case[r] = Len(first) + 1 /\ case[r] \in Nat /\ first' = Append(first, case[r])
      BY <1>5 DEF SaveTrace
    <2>1. first' = Count(Len(first) + 1) /\ Len(first') = Len(first) + 1
      BY <2>0, CountNext
    <2>6. OwnerInv'
      BY <1>5, <2>1 DEF SaveTrace, Goto, SealedLog, command
    <2>2. /\ Len(first) \in Nat /\ Len(rows) \in Nat /\ limit \in Nat /\ limit' = limit
          /\ Len(first) = Len(rows) /\ case[r] <= limit /\ rows' = rows
      <3>2. limit' = limit /\ rows' = rows /\ case[r] <= limit
        BY <1>5 DEF SaveTrace, command
      <3>3. Len(first) = Len(rows)
        BY <1>5, <1>0 DEF SaveTrace
      <3> QED
        BY <1>0, <3>2, <3>3
    <2>7. CountInv'
      <3> HIDE DEF Types, OwnerInv, CaseInv, SealInv
      <3> QED
        BY <2>0, <2>1, <2>2
    <2>8. CaseInv'
      <3>1. \A q \in Runners : pc[q] \notin {"idle", "stopped"} => q = r
        BY <1>5 DEF SaveTrace
      <3>2. pc[r] \in States /\ pc' \in [Runners -> States] /\ case' \in [Runners -> Nat]
            /\ \A q \in Runners : q # r => pc'[q] = pc[q]
        BY <1>5 DEF SaveTrace, Goto
      <3>3. torn' = torn /\ torn = None /\ pc'[r] = "appending" /\ case'[r] = case[r]
        BY <1>5 DEF SaveTrace, Goto
      <3>4. \A q \in Runners : pc'[q] \notin {"idle", "stopped"} => q = r
        BY <3>1, <3>2
      <3>5. /\ case'[r] = Len(rows') + 1 /\ case'[r] <= limit'
            /\ Len(first') # Len(rows') /\ torn' = None
        BY <2>0, <2>1, <2>2, <3>3
      <3> HIDE DEF Types, OwnerInv, CountInv, SealInv
      <3> QED
        BY <3>3, <3>4, <3>5
    <2>9. SealInv'
      BY <1>5, <2>0, <2>1 DEF SaveTrace, Goto, SealedLog, command
    <2> QED
      BY <2>6, <2>7, <2>8, <2>9
  <1>6. ASSUME NEW r \in Runners, BeginAppend(r), UNCHANGED command PROVE LogInv'
    BY <1>6 DEF BeginAppend, Goto, SealedLog, command, scorer
  <1>7. ASSUME NEW r \in Runners, EndNote(r), UNCHANGED command PROVE LogInv'
    <2>0. case[r] = Len(first) + 1 /\ case[r] \in Nat /\ first' = Append(first, case[r])
      BY <1>7 DEF EndNote
    <2>1. first' = Count(Len(first) + 1) /\ Len(first') = Len(first) + 1
      BY <2>0, CountNext
    <2>6. OwnerInv'
      BY <1>7, <2>1 DEF EndNote, Goto, SealedLog, command
    <2>2. /\ Len(first) \in Nat /\ Len(rows) \in Nat /\ limit \in Nat /\ limit' = limit
          /\ Len(first) = Len(rows) /\ case[r] <= limit /\ rows' = rows
      <3>2. limit' = limit /\ rows' = rows /\ case[r] <= limit
        BY <1>7 DEF EndNote, command
      <3>3. Len(first) = Len(rows)
        BY <1>7, <1>0 DEF EndNote
      <3> QED
        BY <1>0, <3>2, <3>3
    <2>7. CountInv'
      <3> HIDE DEF Types, OwnerInv, CaseInv, SealInv
      <3> QED
        BY <2>0, <2>1, <2>2
    <2>8. CaseInv'
      <3>1. \A q \in Runners : pc[q] \notin {"idle", "stopped"} => q = r
        BY <1>7 DEF EndNote
      <3>2. pc[r] \in States /\ pc' \in [Runners -> States] /\ case' \in [Runners -> Nat]
            /\ \A q \in Runners : q # r => pc'[q] = pc[q]
        BY <1>7 DEF EndNote, Goto
      <3>3. torn' = None /\ pc'[r] = "appending" /\ case'[r] = case[r]
        BY <1>7 DEF EndNote, Goto
      <3>4. \A q \in Runners : pc'[q] \notin {"idle", "stopped"} => q = r
        BY <3>1, <3>2
      <3>5. /\ case'[r] = Len(rows') + 1 /\ case'[r] <= limit'
            /\ Len(first') # Len(rows') /\ torn' = None
        BY <2>0, <2>1, <2>2, <3>3
      <3> HIDE DEF Types, OwnerInv, CountInv, SealInv
      <3> QED
        BY <3>3, <3>4, <3>5
    <2>9. SealInv'
      BY <1>7, <2>0, <2>1 DEF EndNote, Goto, SealedLog, command
    <2> QED
      BY <2>6, <2>7, <2>8, <2>9
  <1>8. ASSUME NEW r \in Runners, EndAppend(r), UNCHANGED command PROVE LogInv'
    <2>0. case[r] = Len(rows) + 1 /\ case[r] \in Nat /\ rows' = Append(rows, case[r])
      BY <1>8 DEF EndAppend
    <2>1. rows' = Count(Len(rows) + 1) /\ Len(rows') = Len(rows) + 1
      BY <2>0, CountNext
    <2>6. OwnerInv'
      BY <1>8, <2>1 DEF EndAppend, Goto, SealedLog, command
    <2>2. /\ Len(first) \in Nat /\ Len(rows) \in Nat /\ limit \in Nat /\ limit' = limit
          /\ Len(first) = Len(rows) + 1 /\ case[r] <= limit /\ first' = first
      <3>2. limit' = limit /\ first' = first /\ case[r] <= limit
        BY <1>8 DEF EndAppend, command
      <3>3. Len(first) = Len(rows) + 1
        <4>1. Len(first) # Len(rows)
          BY <1>8 DEF EndAppend
        <4>2. Len(rows) <= Len(first) /\ Len(first) <= Len(rows) + 1
          BY DEF CountInv
        <4> QED
          BY <4>1, <4>2, <1>0
      <3> QED
        BY <1>0, <3>2, <3>3
    <2>7. CountInv'
      <3> HIDE DEF Types, OwnerInv, CaseInv, SealInv
      <3> QED
        BY <2>0, <2>1, <2>2
    <2>8. CaseInv'
      <3>1. \A q \in Runners : pc[q] \notin {"idle", "stopped"} => q = r
        BY <1>8 DEF EndAppend
      <3>2. pc[r] \in States /\ pc' \in [Runners -> States] /\ case' \in [Runners -> Nat]
            /\ \A q \in Runners : q # r => pc'[q] = pc[q]
        BY <1>8 DEF EndAppend, Goto
      <3>3. torn' = None /\ pc'[r] = "running" /\ case'[r] = case[r] + 1
        BY <1>8 DEF EndAppend, Goto
      <3> HIDE DEF Types, OwnerInv, CountInv, SealInv
      <3> QED
        BY <2>0, <2>1, <2>2, <3>1, <3>2, <3>3
    <2>9. SealInv'
      BY <1>8, <2>0, <2>1 DEF EndAppend, Goto, SealedLog, command
    <2> QED
      BY <2>6, <2>7, <2>8, <2>9
  <1>9. ASSUME NEW r \in Runners, HashLog(r), UNCHANGED command PROVE LogInv'
    <2>1. /\ case[r] = Len(rows) + 1 /\ case[r] > limit /\ Len(first) = Len(rows)
          /\ owner = r /\ torn = None /\ manifest # "sealed"
      BY <1>9 DEF HashLog
    <2>6. OwnerInv'
      BY <1>9, <2>1 DEF HashLog, Goto, SealedLog, command, directory, log
    <2>7. CountInv'
      BY <1>9, <2>1 DEF HashLog, Goto, SealedLog, command, directory, log
    <2>8. CaseInv'
      BY <1>9, <2>1 DEF HashLog, Goto, SealedLog, command, directory, log
    <2>9. SealInv'
      BY <1>9, <2>1 DEF HashLog, Goto, SealedLog, command, directory, log
    <2> QED
      BY <2>6, <2>7, <2>8, <2>9
  <1>10. ASSUME NEW r \in Runners, SealManifest(r), UNCHANGED command PROVE LogInv'
    BY <1>10 DEF SealManifest, Goto, SealedLog, command, scorer
  <1>11. ASSUME NEW r \in Runners, NameDataset(r), UNCHANGED command PROVE LogInv'
    BY <1>11 DEF NameDataset, Goto, SealedLog, command, log, scorer
  <1>12. ASSUME NEW r \in Runners, StopRunner(r), UNCHANGED command PROVE LogInv'
    <2>1. owner = r /\ case[r] = Len(rows) + 1 /\ pc' = [pc EXCEPT ![r] = "killed"]
      BY <1>12 DEF StopRunner, Goto, Ended
    <2>6. OwnerInv'
      BY <1>12, <2>1 DEF StopRunner, SealedLog, command, directory, log
    <2>7. CountInv'
      BY <1>12, <2>1 DEF StopRunner, SealedLog, command, directory, log
    <2>8. CaseInv'
      BY <1>12, <2>1 DEF StopRunner, SealedLog, command, directory, log
    <2>9. SealInv'
      BY <1>12, <2>1 DEF StopRunner, SealedLog, command, directory, log
    <2> QED
      BY <2>6, <2>7, <2>8, <2>9
  <1>13. ASSUME UNCHANGED <<command, runner, directory>> PROVE LogInv'
    BY <1>13 DEF command, runner, directory, log, SealedLog
  <1>14. ASSUME NEW s \in Scorers, ReadRows(s) \/ ScorerStep(s) \/ StopScorer(s)
         PROVE UNCHANGED <<runner, directory>>
    BY <1>14 DEF ReadRows, ScorerStep, CheckUnscored, CreateOutput, CloseOutput, StopScorer
  <1>15. CASE UNCHANGED vars
    BY <1>13, <1>15 DEF vars
  <1> QED
    BY <1>1, <1>2, <1>3, <1>4, <1>5, <1>6, <1>7, <1>8, <1>9, <1>10, <1>11, <1>12, <1>13,
       <1>14, <1>15 DEF Next, RunnerStep

-----------------------------------------------------------------------------
(* The scorers. *)

\* Only EndAppend makes the log that is read longer.
LEMMA RowsGrow ==
    ASSUME NEW r \in Runners, RunnerStep(r) \/ MakeDirectory(r) \/ StopRunner(r)
    PROVE  UNCHANGED scorer /\ (rows' # rows => EndAppend(r))
  BY DEF RunnerStep, MakeDirectory, StopRunner, OpenManifest, DescribeRun, RunCase,
         SaveTrace, BeginAppend, EndNote, EndAppend, HashLog, SealManifest, NameDataset,
         directory, log, scorer

\* A log with a row for each frozen case is not appended to.
LEMMA WholeLogStays ==
    ASSUME Types, LogInv, OneToOne(rows), NEW r \in Runners
    PROVE  ~EndAppend(r)
  <1>1. Len(rows) = FrozenCount /\ limit \in 0..FrozenCount /\ FrozenCount \in Nat
    BY RunAssumption DEF OneToOne, Types
  <1>2. pc[r] = "appended" => case[r] = Len(rows) + 1 /\ case[r] <= limit
    BY DEF LogInv, CaseInv, InACase
  <1> QED
    BY <1>1, <1>2 DEF EndAppend

LEMMA InitScorers == Init => ReadInv /\ OutputInv
  BY RunAssumption, OutputCount DEF Init, ReadInv, OutputInv, Reading

LEMMA NextReadInv == Types /\ LogInv /\ ReadInv /\ [Next]_vars => ReadInv'
  <1> SUFFICES ASSUME Types, LogInv, ReadInv, [Next]_vars PROVE ReadInv'
    OBVIOUS
  <1> USE DEF ReadInv, Reading
  <1>1. ASSUME NEW r \in Runners, RunnerStep(r) \/ MakeDirectory(r) \/ StopRunner(r)
        PROVE  ReadInv'
    <2>1. \A s \in Scorers : spc'[s] = spc[s] /\ read'[s] = read[s]
      BY <1>1, RowsGrow DEF scorer
    <2>2. ASSUME NEW s \in Scorers, spc[s] \in Reading PROVE rows' = rows
      BY <1>1, <2>2, RowsGrow, WholeLogStays
    <2> QED
      BY <2>1, <2>2 DEF OneToOne
  <1>2. ASSUME NEW s \in Scorers, ReadRows(s) PROVE ReadInv'
    BY <1>2 DEF ReadRows, Advance, Types, directory, log, OneToOne
  <1>3. ASSUME NEW s \in Scorers, CheckUnscored(s) \/ CreateOutput(s) \/ CloseOutput(s)
                                  \/ StopScorer(s)
        PROVE  ReadInv'
    <2>1. rows' = rows /\ read' = read
      BY <1>3 DEF CheckUnscored, CreateOutput, CloseOutput, StopScorer, directory, log
    <2>2. \A q \in Scorers : spc'[q] \in Reading => spc[q] \in Reading
      BY <1>3 DEF CheckUnscored, CreateOutput, CloseOutput, StopScorer, Advance, Types,
                  Ended, ScorerStates
    <2> QED
      BY <2>1, <2>2 DEF OneToOne
  <1>4. CASE UNCHANGED vars
    BY <1>4 DEF vars, directory, log, scorer, OneToOne
  <1> QED
    BY <1>1, <1>2, <1>3, <1>4 DEF Next, ScorerStep

LEMMA NextOutputInv == Types /\ LogInv /\ ReadInv /\ OutputInv /\ [Next]_vars => OutputInv'
  <1> SUFFICES ASSUME Types, LogInv, ReadInv, OutputInv, [Next]_vars PROVE OutputInv'
    OBVIOUS
  <1>0. rows' = rows /\ OneToOne(rows) => OneToOne(rows)'
    BY DEF OneToOne
  <1> USE OutputCount DEF OutputInv
  <1>1. ASSUME NEW r \in Runners, RunnerStep(r) \/ MakeDirectory(r) \/ StopRunner(r)
        PROVE  OutputInv'
    <2>1. UNCHANGED scorer
      BY <1>1, RowsGrow
    <2>2. ASSUME NEW i \in 1..4, output[i] # None PROVE rows' = rows
      BY <1>1, <2>2, RowsGrow, WholeLogStays
    <2> QED
      BY <1>0, <2>1, <2>2 DEF scorer
  <1>2. ASSUME NEW s \in Scorers, ReadRows(s) \/ CheckUnscored(s) \/ StopScorer(s)
        PROVE  OutputInv'
    <2>1. rows' = rows /\ output' = output /\ at' = at
      BY <1>2 DEF ReadRows, CheckUnscored, StopScorer, directory, log
    <2>2. \A q \in Scorers :
            /\ spc'[q] \in {"idle", "checking"} => spc[q] \in {"idle", "checking"}
            /\ spc'[q] = "writing" => spc[q] = "writing"
            /\ spc'[q] = "publishing" => spc[q] = "publishing" \/ at[q] = 1
      <3>1. CASE ReadRows(s)
        BY <3>1 DEF ReadRows, Advance, Types, ScorerStates
      <3>2. CASE CheckUnscored(s)
        BY <3>2 DEF CheckUnscored, Advance, Types, ScorerStates
      <3>3. CASE StopScorer(s)
        BY <3>3 DEF StopScorer, Advance, Types, ScorerStates
      <3> QED
        BY <1>2, <3>1, <3>2, <3>3
    <2> QED
      BY <1>0, <2>1, <2>2 DEF Types
  <1>3. ASSUME NEW s \in Scorers, CreateOutput(s) PROVE OutputInv'
    <2>1. CASE output[at[s]] # None
      BY <1>0, <1>3, <2>1 DEF CreateOutput, Advance, Types, ScorerStates, directory, log
    <2>2. CASE output[at[s]] = None
      <3>1. Started(s) \in Files /\ Started(s) # None /\ Started(s).by = s
            /\ Started(s).of = read[s]
        <4>1. Started(s) \in Files
          BY DEF Started, Files, Types
        <4>2. None \notin Files
          BY RunAssumption DEF Files
        <4> QED
          BY <4>1, <4>2 DEF Started
      <3>2. output' = [output EXCEPT ![at[s]] = Started(s)] /\ rows' = rows /\ at' = at
            /\ spc' = [spc EXCEPT ![s] = "writing"] /\ at[s] \in 1..4
        BY <1>3, <2>2 DEF CreateOutput, Advance, directory, log, Types
      <3>3. OneToOne(read[s]) /\ read[s] = rows
        BY <1>3 DEF CreateOutput, ReadInv, Reading
      <3>4. at[s] = 1 => \A i \in 1..4 : output[i] = None
        BY <2>2
      <3>5. at[s] > 1 => output[1] # None /\ output[1].by = s
        BY <1>3 DEF CreateOutput
      <3>6. output'[1] # None /\ output'[1].by = s
        BY <3>1, <3>2, <3>4, <3>5 DEF Types
      <3>7. \A i \in 1..4 : output'[i] # None =>
              /\ output'[1].by = output'[i].by
              /\ output'[i].of = rows
        BY <3>1, <3>2, <3>3, <3>4, <3>5, <3>6 DEF Types
      <3>8. \A q \in Scorers : spc'[q] \in {"publishing", "writing"} /\ at[q] > 1 => q = s \/ output[1].by = q
        BY <3>2 DEF Types, ScorerStates
      <3>9. \A q \in Scorers : spc'[q] \in {"idle", "checking"} => at'[q] = 1
        BY <3>2 DEF Types, ScorerStates
      <3>10. \A q \in Scorers : spc'[q] \in {"publishing", "writing"} /\ at'[q] > 1 =>
               output'[1].by = q
        <4>1. at[s] # 1 => output'[1] = output[1]
          BY <3>2 DEF Types
        <4>2. at[s] = 1 => \A q \in Scorers : ~(spc[q] \in {"publishing", "writing"} /\ at[q] > 1)
          BY <3>4
        <4> QED
          BY <3>2, <3>6, <3>8, <4>1, <4>2 DEF Types, ScorerStates
      <3>11. \A q \in Scorers : spc'[q] = "writing" => output'[at'[q]] # None /\ output'[at'[q]].by = q
        BY <3>1, <3>2, <2>2 DEF Types, ScorerStates
      <3> QED
        BY <1>0, <3>2, <3>3, <3>6, <3>7, <3>9, <3>10, <3>11
    <2> QED
      BY <2>1, <2>2
  <1>4. ASSUME NEW s \in Scorers, CloseOutput(s) PROVE OutputInv'
    <2>1. output[at[s]] \in Files /\ at[s] \in 1..4
      BY <1>4 DEF CloseOutput, Types
    <2>2. /\ output' = [output EXCEPT ![at[s]] = [output[at[s]] EXCEPT !.whole = TRUE]]
          /\ rows' = rows
      BY <1>4 DEF CloseOutput, directory, log
    <2>3. \A i \in 1..4 : /\ output'[i] # None <=> output[i] # None
                          /\ output[i] # None => /\ output'[i].by = output[i].by
                                                 /\ output'[i].of = output[i].of
      <3>1. None \notin Files
        BY RunAssumption DEF Files
      <3>2. ASSUME NEW f \in Files
            PROVE  LET g == [f EXCEPT !.whole = TRUE] IN
                   g # None /\ g.by = f.by /\ g.of = f.of
        <4>1. [f EXCEPT !.whole = TRUE] \in Files
          BY DEF Files
        <4> QED
          BY <3>1, <4>1 DEF Files
      <3>3. output'[at[s]] = [output[at[s]] EXCEPT !.whole = TRUE]
            /\ \A i \in 1..4 : i # at[s] => output'[i] = output[i]
        BY <2>1, <2>2 DEF Types
      <3>4. ASSUME NEW i \in 1..4
            PROVE  /\ output'[i] # None <=> output[i] # None
                   /\ output[i] # None => /\ output'[i].by = output[i].by
                                          /\ output'[i].of = output[i].of
        <4>1. CASE i = at[s]
          <5>1. output[i] # None
            BY <2>1, <3>1, <4>1
          <5> QED
            BY <2>1, <3>2, <3>3, <4>1, <5>1
        <4>2. CASE i # at[s]
          BY <3>3, <4>2
        <4> QED
          BY <4>1, <4>2
      <3> QED
        BY <3>4
    <2>4. output[1] # None /\ output[1].by = s
      BY <1>4, <2>1 DEF CloseOutput
    <2> QED
      <3>1. \A q \in Scorers : q # s => spc'[q] = spc[q] /\ at'[q] = at[q]
        BY <1>4 DEF CloseOutput, Advance, Types
      <3>2. spc'[s] \in {"done", "publishing"} /\ output'[1].by = s /\ output'[1] # None
        BY <1>4, <2>3, <2>4 DEF CloseOutput, Advance, Types, ScorerStates
      <3>3. \A q \in Scorers : q # s => at[q] \in 1..4
        BY DEF Types
      <3> QED
        BY <1>0, <2>2, <2>3, <3>1, <3>2, <3>3
  <1>5. CASE UNCHANGED vars
    BY <1>0, <1>5 DEF vars, directory, log, scorer
  <1> QED
    BY <1>1, <1>2, <1>3, <1>4, <1>5 DEF Next, ScorerStep

-----------------------------------------------------------------------------
(* Results. *)

IInv == Types /\ LogInv /\ ReadInv /\ OutputInv

LEMMA Inductive == Spec => []IInv
  <1>1. Init => IInv
    BY InitTypes, InitLogInv, InitScorers DEF IInv
  <1>2. IInv /\ [Next]_vars => IInv'
    BY NextTypes, NextLogInv, NextReadInv, NextOutputInv DEF IInv
  <1> QED
    BY <1>1, <1>2, PTL DEF Spec

LEMMA SealedIsWhole == IInv => SealedRunIsWhole
  BY DEF IInv, LogInv, CountInv, SealInv, SealedRunIsWhole, Count

LEMMA RecordsBeforeRows == IInv => RowsHaveTheirRecord
  <1> SUFFICES ASSUME IInv PROVE RowsHaveTheirRecord
    OBVIOUS
  <1>1. /\ first \in Seq(Nat) /\ rows \in Seq(Nat)
        /\ first = Count(Len(first)) /\ rows = Count(Len(rows))
        /\ Len(rows) <= Len(first) /\ Len(first) <= Len(rows) + 1
    BY DEF IInv, Types, LogInv, CountInv
  <1>2. SubSeq(first, 1, Len(rows)) = Count(Len(rows))
    BY <1>1 DEF Count
  <1> QED
    BY <1>1, <1>2 DEF RowsHaveTheirRecord

LEMMA OneOfThem == IInv => OneScorerPublishes
  BY OutputCount DEF IInv, OutputInv, OneScorerPublishes

LEMMA OfTheWholeRun == IInv => ScoresAreOfTheWholeRun
  BY OutputCount DEF IInv, OutputInv, ScoresAreOfTheWholeRun

\* A sealed run directory is complete: the manifest has the hash of the log as
\* it is, and both logs hold every case once and in order.
THEOREM SealedRuns == Spec => []SealedRunIsWhole
  BY Inductive, SealedIsWhole, PTL

\* Wherever the runner died, each raw row has its trace or its fault result.
THEOREM RecordsFirst == Spec => []RowsHaveTheirRecord
  BY Inductive, RecordsBeforeRows, PTL

\* However many scorers race, one of them wrote every file that is there.
THEOREM OnePublishes == Spec => []OneScorerPublishes
  BY Inductive, OneOfThem, PTL

\* What is published is of every frozen case and of the rows as they stay.
THEOREM WholeScores == Spec => []ScoresAreOfTheWholeRun
  BY Inductive, OfTheWholeRun, PTL

-----------------------------------------------------------------------------
(* Nobody goes on for ever. *)

Stages == [idle |-> 14, creating |-> 13, describing |-> 12, running |-> 11, tracing |-> 10,
           noting |-> 10, noted |-> 9, appending |-> 8, appended |-> 7, sealing |-> 5,
           finishing |-> 4, naming |-> 3, named |-> 2, done |-> 0, stopped |-> 0, killed |-> 0]

ScorerStages == [idle |-> 12, checking |-> 11, publishing |-> 3, writing |-> 2,
                 done |-> 0, stopped |-> 0, killed |-> 0]

\* The steps an invocation of the runner has left at most: six for each case.
RunnerLeft(r) == 6 * (limit + 1 - case[r]) + Stages[pc[r]]

\* And an invocation of the scorer: two for each file.
ScorerLeft(s) ==
    ScorerStages[spc[s]] + (IF spc[s] \in {"publishing", "writing"} THEN 2 * (4 - at[s]) ELSE 0)

\* A step takes one invocation further and none back.
SomebodyAdvances ==
    /\ \A r \in Runners : RunnerLeft(r)' <= RunnerLeft(r)
    /\ \A s \in Scorers : ScorerLeft(s)' <= ScorerLeft(s)
    /\ \/ \E r \in Runners : RunnerLeft(r)' < RunnerLeft(r)
       \/ \E s \in Scorers : ScorerLeft(s)' < ScorerLeft(s)

BoundInv == \A r \in Runners : case[r] \in 1..(limit + 1)

LEMMA LeftIsNatural ==
    ASSUME Types, BoundInv
    PROVE  /\ \A r \in Runners : RunnerLeft(r) \in Nat
           /\ \A s \in Scorers : ScorerLeft(s) \in Nat
  <1>1. ASSUME NEW r \in Runners PROVE RunnerLeft(r) \in Nat
    <2>1. limit \in Nat /\ case[r] \in 1..(limit + 1) /\ pc[r] \in States
      BY RunAssumption DEF Types, BoundInv
    <2>2. Stages[pc[r]] \in Nat
      BY <2>1 DEF Stages, States
    <2> QED
      BY <2>1, <2>2 DEF RunnerLeft
  <1>2. ASSUME NEW s \in Scorers PROVE ScorerLeft(s) \in Nat
    <2>1. spc[s] \in ScorerStates /\ at[s] \in 1..4
      BY DEF Types
    <2>2. ScorerStages[spc[s]] \in Nat
      BY <2>1 DEF ScorerStages, ScorerStates
    <2> QED
      BY <2>1, <2>2 DEF ScorerLeft
  <1> QED
    BY <1>1, <1>2

\* A step of one runner moves its place and leaves all others where they are.
LEMMA RunnerAdvances ==
    ASSUME Types, LogInv, BoundInv, UNCHANGED command, NEW r \in Runners,
           MakeDirectory(r) \/ RunnerStep(r) \/ StopRunner(r)
    PROVE  SomebodyAdvances /\ BoundInv'
  <1>1. UNCHANGED scorer
    BY RowsGrow
  <1>2. \A s \in Scorers : ScorerLeft(s)' = ScorerLeft(s) /\ ScorerLeft(s) \in Nat
    BY <1>1, LeftIsNatural DEF scorer, ScorerLeft, ScorerStages
  <1>3. limit' = limit /\ limit \in Nat /\ pc[r] \in States
        /\ case \in [Runners -> Nat] /\ pc \in [Runners -> States]
    BY RunAssumption DEF command, Types
  <1>4. PICK t \in States : pc' = [pc EXCEPT ![r] = t]
    BY DEF MakeDirectory, RunnerStep, StopRunner, OpenManifest, DescribeRun, RunCase, SaveTrace,
           BeginAppend, EndNote, EndAppend, HashLog, SealManifest, NameDataset, Goto, States
  <1>5. \/ /\ EndAppend(r) /\ case' = [case EXCEPT ![r] = @ + 1] /\ case[r] <= limit
           /\ Stages[pc[r]] = 7 /\ Stages[pc'[r]] = 11
        \/ case' = case /\ Stages[pc'[r]] < Stages[pc[r]]
    <2>1. CASE EndAppend(r)
      <3>1. pc[r] = "appended" /\ pc'[r] = "running" /\ case' = [case EXCEPT ![r] = @ + 1]
        BY <1>3, <2>1 DEF EndAppend, Goto
      <3>2. case[r] <= limit
        BY <3>1 DEF LogInv, CaseInv, InACase
      <3> QED
        BY <2>1, <3>1, <3>2 DEF Stages
    <2>2. ASSUME MakeDirectory(r) \/ OpenManifest(r) \/ DescribeRun(r) \/ RunCase(r)
                 \/ SaveTrace(r) \/ BeginAppend(r) \/ EndNote(r) \/ HashLog(r)
                 \/ SealManifest(r) \/ NameDataset(r)
          PROVE  case' = case /\ Stages[pc'[r]] < Stages[pc[r]]
      BY <1>3, <2>2 DEF MakeDirectory, OpenManifest, DescribeRun, RunCase, SaveTrace, BeginAppend,
          EndNote, HashLog, SealManifest, NameDataset, Goto, Stages
    <2>3. CASE StopRunner(r)
      <3>1. case' = case /\ pc'[r] = "killed" /\ pc[r] \in States \ {"done", "stopped", "killed"}
        BY <1>3, <2>3 DEF StopRunner, Goto, Ended
      <3> QED
        BY <3>1 DEF Stages, States
    <2> QED
      BY <2>1, <2>2, <2>3 DEF RunnerStep
  <1>6. \A q \in Runners : q # r => case'[q] = case[q] /\ pc'[q] = pc[q]
    BY <1>3, <1>4, <1>5
  <1>7. \A q \in Runners : q # r => RunnerLeft(q)' = RunnerLeft(q) /\ RunnerLeft(q) \in Nat
    BY <1>3, <1>6, LeftIsNatural DEF RunnerLeft
  <1>8. Stages[pc[r]] \in Nat /\ Stages[pc'[r]] \in Nat
    BY <1>3, <1>4 DEF Stages, States
  <1>9. RunnerLeft(r)' < RunnerLeft(r)
    <2>1. RunnerLeft(r)' = 6 * (limit + 1 - case'[r]) + Stages[pc'[r]]
      BY <1>3 DEF RunnerLeft
    <2> QED
      BY <1>3, <1>5, <1>8, <2>1 DEF RunnerLeft
  <1>10. BoundInv'
    BY <1>3, <1>5, <1>6 DEF BoundInv
  <1>11. RunnerLeft(r) \in Nat /\ RunnerLeft(r)' \in Int
    BY <1>3, <1>5, <1>8, LeftIsNatural DEF RunnerLeft
  <1>12. \A q \in Runners : RunnerLeft(q)' <= RunnerLeft(q)
    BY <1>7, <1>9, <1>11
  <1>13. \A s \in Scorers : ScorerLeft(s)' <= ScorerLeft(s)
    BY <1>2
  <1> HIDE DEF Types, LogInv, BoundInv
  <1> QED
    BY <1>9, <1>10, <1>12, <1>13 DEF SomebodyAdvances

LEMMA ScorerAdvances ==
    ASSUME Types, BoundInv, UNCHANGED command, NEW s \in Scorers,
           ReadRows(s) \/ ScorerStep(s) \/ StopScorer(s)
    PROVE  SomebodyAdvances /\ BoundInv'
  <1>1. UNCHANGED <<runner, directory>> /\ limit' = limit
    BY DEF ReadRows, ScorerStep, CheckUnscored, CreateOutput, CloseOutput, StopScorer, command
  <1>2. \A r \in Runners : RunnerLeft(r)' = RunnerLeft(r) /\ RunnerLeft(r) \in Nat
    BY <1>1, LeftIsNatural DEF runner, RunnerLeft
  <1>3. \A q \in Scorers : q # s => ScorerLeft(q)' = ScorerLeft(q) /\ ScorerLeft(q) \in Nat
    <2>1. \A q \in Scorers : q # s => spc'[q] = spc[q] /\ at'[q] = at[q]
      BY DEF ReadRows, ScorerStep, CheckUnscored, CreateOutput, CloseOutput, StopScorer, Advance,
             Types
    <2> QED
      BY <2>1, LeftIsNatural DEF ScorerLeft
  <1>4. ScorerLeft(s)' < ScorerLeft(s)
    <2>0. at[s] \in 1..4
      BY DEF Types
    <2>1. CASE ReadRows(s)
      <3>1. spc[s] = "idle" /\ spc'[s] \in {"checking", "stopped"}
        BY <2>1 DEF ReadRows, Advance, Types
      <3> QED
        BY <3>1 DEF ScorerLeft, ScorerStages
    <2>2. CASE CheckUnscored(s)
      <3>1. spc[s] = "checking" /\ spc'[s] \in {"publishing", "stopped"} /\ at'[s] = at[s]
        BY <2>2 DEF CheckUnscored, Advance, Types
      <3> QED
        BY <2>0, <3>1 DEF ScorerLeft, ScorerStages
    <2>3. CASE CreateOutput(s)
      <3>1. spc[s] = "publishing" /\ spc'[s] \in {"writing", "stopped"} /\ at'[s] = at[s]
        BY <2>3 DEF CreateOutput, Advance, Types
      <3> QED
        BY <2>0, <3>1 DEF ScorerLeft, ScorerStages
    <2>4. CASE CloseOutput(s)
      <3>1. /\ spc[s] = "writing" /\ at[s] \in 1..4
            /\ \/ spc'[s] = "done"
               \/ spc'[s] = "publishing" /\ at[s] < 4 /\ at'[s] = at[s] + 1
        BY <2>4, OutputCount DEF CloseOutput, Advance, Types
      <3> QED
        BY <3>1 DEF ScorerLeft, ScorerStages
    <2>5. CASE StopScorer(s)
      <3>1. spc'[s] = "killed" /\ spc[s] \in {"checking", "publishing", "writing"} /\ at[s] \in 1..4
        BY <2>5 DEF StopScorer, Advance, Types, ScorerStates, Ended
      <3> QED
        BY <3>1 DEF ScorerLeft, ScorerStages
    <2> QED
      BY <2>1, <2>2, <2>3, <2>4, <2>5 DEF ScorerStep
  <1>5. BoundInv'
    BY <1>1 DEF BoundInv, runner
  <1>6. ScorerLeft(s) \in Nat /\ ScorerLeft(s)' \in Int
    <2>1. spc'[s] \in ScorerStates /\ at'[s] \in 1..4
      BY OutputCount DEF ReadRows, ScorerStep, CheckUnscored, CreateOutput, CloseOutput, StopScorer,
          Advance, Types, ScorerStates
    <2>2. ScorerLeft(s)' = ScorerStages[spc'[s]]
             + (IF spc'[s] \in {"publishing", "writing"} THEN 2 * (4 - at'[s]) ELSE 0)
      BY DEF ScorerLeft, ScorerStages
    <2>3. ScorerStages[spc'[s]] \in Nat
      BY <2>1 DEF ScorerStages, ScorerStates
    <2> QED
      BY <2>1, <2>2, <2>3, LeftIsNatural
  <1>7. \A q \in Scorers : ScorerLeft(q)' <= ScorerLeft(q)
    BY <1>3, <1>4, <1>6
  <1>8. \A r \in Runners : RunnerLeft(r)' <= RunnerLeft(r)
    BY <1>2
  <1> QED
    BY <1>4, <1>5, <1>7, <1>8 DEF SomebodyAdvances


\* Every step of Next is one of the above.
LEMMA NextAdvances == Types /\ LogInv /\ BoundInv /\ [Next]_vars => BoundInv' /\ [SomebodyAdvances]_vars
  <1>1. UNCHANGED vars /\ BoundInv => BoundInv'
    BY DEF vars, command, runner, BoundInv
  <1> QED
    BY <1>1, RunnerAdvances, ScorerAdvances DEF Next

LEMMA Bounded == Spec => [](Types /\ LogInv /\ BoundInv)
  <1>1. Init => BoundInv
    <2> SUFFICES ASSUME Init, NEW r \in Runners PROVE case[r] \in 1..(limit + 1)
      BY DEF BoundInv
    <2>1. case[r] = 1 /\ limit \in 0..FrozenCount /\ FrozenCount \in Nat
      BY RunAssumption DEF Init
    <2> QED
      BY <2>1
  <1>2. (Types /\ LogInv /\ BoundInv) /\ IInv /\ [Next]_vars => BoundInv'
    BY NextAdvances
  <1>3. IInv => Types /\ LogInv
    BY DEF IInv
  <1> QED
    BY <1>1, <1>2, <1>3, Inductive, PTL DEF Spec

\* No invocation of the runner or of the scorer goes on for ever, however they
\* are interleaved: each step of any of them takes one further and sets none back.
THEOREM InvocationsDescend ==
    Spec => /\ [](/\ \A r \in Runners : RunnerLeft(r) \in Nat
                  /\ \A s \in Scorers : ScorerLeft(s) \in Nat)
            /\ [][SomebodyAdvances]_vars
  <1>1. Types /\ BoundInv => /\ \A r \in Runners : RunnerLeft(r) \in Nat
                            /\ \A s \in Scorers : ScorerLeft(s) \in Nat
    BY LeftIsNatural
  <1> QED
    BY <1>1, Bounded, NextAdvances, PTL DEF Spec

-----------------------------------------------------------------------------
(* Scorers that race each other. *)

\* A scorer has made the files up to the one it is at, and no one made others.
PublishInv ==
    /\ \A s \in Scorers : spc[s] = "publishing" /\ at[s] > 1 =>
        \A i \in 1..4 : output[i] # None <=> i < at[s]
    /\ \A s \in Scorers : spc[s] = "writing" => \A i \in 1..4 : output[i] # None <=> i <= at[s]
    /\ output[1] # None =>
        \/ spc[output[1].by] = "publishing" /\ at[output[1].by] > 1
        \/ spc[output[1].by] \in {"writing", "killed"}
        \/ spc[output[1].by] = "done" /\ output[4] # None /\ output[4].whole

\* The scorer that made the first file is on its way to the last: no file that
\* it has still to make is there.
FirstWriterPublishes == output[1] # None =>
    \/ spc[output[1].by] = "publishing" /\ output[at[output[1].by]] = None
    \/ spc[output[1].by] \in {"writing", "killed"}
    \/ spc[output[1].by] = "done" /\ output[Len(Outputs)] # None /\ output[Len(Outputs)].whole

\* A scorer that has read a whole log gives up for one that was faster only.
GivesUpForAnother == \A s \in Scorers :
    spc[s] \in Reading /\ spc'[s] = "stopped" => output[1] # None /\ output[1].by # s


LEMMA NextPublishInv ==
    Types /\ ReadInv /\ OutputInv /\ PublishInv /\ [Next]_vars => PublishInv'
  <1> SUFFICES ASSUME Types, ReadInv, OutputInv, PublishInv, [Next]_vars PROVE PublishInv'
    OBVIOUS
  <1>0. /\ \A s \in Scorers : spc[s] \in ScorerStates /\ at[s] \in 1..4
        /\ spc \in [Scorers -> ScorerStates] /\ at \in [Scorers -> 1..4]
        /\ output \in [1..4 -> Files \cup {None}] /\ None \notin Files
        /\ \A i \in 1..4 : output[i] # None => output[i].by \in Scorers
    BY RunAssumption DEF Types, Files
  <1>1. CASE UNCHANGED scorer
    BY <1>1 DEF scorer, PublishInv
  <1>2. ASSUME NEW s \in Scorers, ReadRows(s) \/ CheckUnscored(s) \/ StopScorer(s)
        PROVE  PublishInv'
    <2>1. /\ UNCHANGED <<at, output>>
          /\ \A q \in Scorers : q # s => spc'[q] = spc[q]
      BY <1>2 DEF ReadRows, CheckUnscored, StopScorer, Advance, Types
    <2>2. \/ spc[s] \in {"idle", "checking"} /\ spc'[s] \in {"checking", "publishing", "stopped"} /\ at[s] = 1
          \/ spc[s] \notin Ended /\ spc'[s] = "killed"
      BY <1>2 DEF ReadRows, CheckUnscored, StopScorer, Advance, Types, OutputInv
    <2> QED
      BY <1>0, <2>1, <2>2 DEF PublishInv, Ended
  <1>3. ASSUME NEW s \in Scorers, CreateOutput(s) PROVE PublishInv'
    <2>1. /\ spc[s] = "publishing" /\ at' = at
          /\ \A q \in Scorers : q # s => spc'[q] = spc[q]
      BY <1>3 DEF CreateOutput, Advance, Types
    <2>2. CASE output[at[s]] # None
      <3>1. output' = output /\ spc'[s] = "stopped"
        BY <1>3, <2>2 DEF CreateOutput, Advance, Types
      <3>2. at[s] = 1
        BY <1>0, <2>1, <2>2 DEF PublishInv
      <3> QED
        BY <1>0, <2>1, <3>1, <3>2 DEF PublishInv
    <2>3. CASE output[at[s]] = None
      <3>1. Started(s) \in Files /\ Started(s).by = s
        BY DEF Started, Files, Types
      <3>2. /\ spc'[s] = "writing" /\ output'[at[s]] = Started(s) /\ Started(s) # None
            /\ \A i \in 1..4 : i # at[s] => output'[i] = output[i]
        BY <1>0, <1>3, <2>3, <3>1 DEF CreateOutput, Advance
      <3>3. \A i \in 1..4 : output[i] # None <=> i < at[s]
        BY <1>0, <2>1, <2>3 DEF PublishInv, OutputInv
      <3>4. \A i \in 1..4 : output'[i] # None <=> i <= at[s]
        BY <1>0, <3>2, <3>3
      <3>5. output'[1] # None /\ output'[1].by = s
        BY <1>0, <2>1, <3>1, <3>2, <3>3 DEF OutputInv
      <3>6. ASSUME NEW q \in Scorers, q # s
            PROVE  ~(spc'[q] = "writing" \/ (spc'[q] = "publishing" /\ at'[q] > 1))
        <4>1. spc[q] = "writing" => output[1] # None /\ output[1].by = q
          BY <1>0, <3>6 DEF OutputInv
        <4>2. spc[q] = "publishing" /\ at[q] > 1 => output[1] # None /\ output[1].by = q
          BY <3>6 DEF OutputInv
        <4>3. output[1] # None => output[1].by = s
          BY <1>0, <2>1, <3>3 DEF OutputInv
        <4> QED
          BY <2>1, <3>6, <4>1, <4>2, <4>3
      <3> QED
        BY <1>0, <2>1, <3>2, <3>4, <3>5, <3>6 DEF PublishInv
    <2> QED
      BY <2>2, <2>3
  <1>4. ASSUME NEW s \in Scorers, CloseOutput(s) PROVE PublishInv'
    <2>1. /\ spc[s] = "writing" /\ output[1] # None /\ output[1].by = s /\ output[at[s]] \in Files
      BY <1>0, <1>4 DEF CloseOutput, OutputInv
    <2>2. [output[at[s]] EXCEPT !.whole = TRUE] \in Files
          /\ [output[at[s]] EXCEPT !.whole = TRUE].whole = TRUE
          /\ [output[at[s]] EXCEPT !.whole = TRUE].by = output[at[s]].by
      BY <2>1 DEF Files
    <2>3. /\ output'[at[s]] = [output[at[s]] EXCEPT !.whole = TRUE]
          /\ \A i \in 1..4 : i # at[s] => output'[i] = output[i]
      BY <1>0, <1>4 DEF CloseOutput
    <2>4. \A i \in 1..4 : output'[i] # None <=> i <= at[s]
      <3>1. \A i \in 1..4 : output[i] # None <=> i <= at[s]
        BY <2>1 DEF PublishInv
      <3> QED
        BY <1>0, <2>2, <2>3, <3>1
    <2>5. output'[1] # None /\ output'[1].by = s
      <3>1. output'[1] # None
        BY <1>0, <2>4
      <3>2. CASE at[s] = 1
        BY <2>1, <2>2, <2>3, <3>1, <3>2
      <3>3. CASE at[s] # 1
        BY <2>1, <2>3, <3>1, <3>3
      <3> QED
        BY <3>2, <3>3
    <2>6. \A q \in Scorers : q # s => spc'[q] = spc[q] /\ at'[q] = at[q]
      BY <1>4 DEF CloseOutput, Advance, Types
    <2>7. ASSUME NEW q \in Scorers, q # s
          PROVE  ~(spc'[q] = "writing" \/ (spc'[q] = "publishing" /\ at'[q] > 1))
      <3>1. ~(spc[q] = "writing" \/ (spc[q] = "publishing" /\ at[q] > 1))
        BY <1>0, <2>1, <2>7 DEF OutputInv
      <3> QED
        BY <2>6, <2>7, <3>1
    <2>8. \/ spc'[s] = "done" /\ at[s] = 4
          \/ spc'[s] = "publishing" /\ at'[s] = at[s] + 1 /\ at[s] < 4
      BY <1>0, <1>4, OutputCount DEF CloseOutput, Advance
    <2>9. CASE spc'[s] = "done" /\ at[s] = 4
      <3>1. output'[4] # None /\ output'[4].whole
        <4>1. output'[4] = [output[at[s]] EXCEPT !.whole = TRUE] /\ output'[4] # None
          BY <1>0, <2>3, <2>4, <2>9
        <4>2. output'[4].whole = [output[at[s]] EXCEPT !.whole = TRUE].whole
          BY <4>1
        <4>3. output'[4].whole = TRUE
          BY <2>2, <4>2
        <4> QED
          BY <4>1, <4>3
      <3> QED
        BY <2>5, <2>7, <2>9, <3>1 DEF PublishInv
    <2>10. CASE spc'[s] = "publishing" /\ at'[s] = at[s] + 1 /\ at[s] < 4
      <3>1. \A i \in 1..4 : output'[i] # None <=> i < at'[s]
        BY <1>0, <2>4, <2>10
      <3>2. at'[s] > 1
        BY <1>0, <2>10
      <3> QED
        BY <2>5, <2>7, <2>10, <3>1, <3>2 DEF PublishInv
    <2> QED
      BY <2>8, <2>9, <2>10
  <1>5. ASSUME NEW r \in Runners, MakeDirectory(r) \/ RunnerStep(r) \/ StopRunner(r)
        PROVE  UNCHANGED scorer
    BY <1>5, RowsGrow
  <1>6. UNCHANGED vars => UNCHANGED scorer
    BY DEF vars
  <1> QED
    BY <1>1, <1>2, <1>3, <1>4, <1>5, <1>6 DEF Next, ScorerStep

LEMMA Published == Spec => [](IInv /\ PublishInv)
  <1>1. Init => PublishInv
    BY OutputCount DEF Init, PublishInv
  <1>2. PublishInv /\ IInv /\ [Next]_vars => PublishInv'
    BY NextPublishInv DEF IInv
  <1> QED
    BY <1>1, <1>2, Inductive, PTL DEF Spec

\* Of scorers that race, the one that makes the first file is never stopped by
\* the files of another: it goes on to the report unless it is killed.
THEOREM FirstPublishes == Spec => []FirstWriterPublishes
  <1>1. IInv /\ PublishInv => FirstWriterPublishes
    <2> SUFFICES ASSUME IInv, PublishInv, output[1] # None PROVE FirstWriterPublishes
      BY DEF FirstWriterPublishes
    <2>1. output[1].by \in Scorers /\ at[output[1].by] \in 1..4
      BY DEF IInv, Types, Files
    <2> QED
      BY <2>1, OutputCount DEF PublishInv, FirstWriterPublishes
  <1> QED
    BY <1>1, Published, PTL

\* A scorer of a whole run gives up only because another has begun to publish:
\* they never stop each other without a report under way.
THEOREM LosersYield == Spec => [][GivesUpForAnother]_vars
  <1>1. IInv /\ PublishInv /\ [Next]_vars => [GivesUpForAnother]_vars
    <2> SUFFICES ASSUME IInv, PublishInv, [Next]_vars, NEW s \in Scorers,
                        spc[s] \in Reading, spc'[s] = "stopped"
                 PROVE  output[1] # None /\ output[1].by # s
      BY DEF GivesUpForAnother
    <2>1. /\ spc \in [Scorers -> ScorerStates] /\ at \in [Scorers -> 1..4]
          /\ output[1] # None => output[1].by \in Scorers
      BY DEF IInv, Types, Files
    <2>2. ~(UNCHANGED scorer)
      BY DEF scorer, Reading
    <2>3. PICK q \in Scorers : ReadRows(q) \/ ScorerStep(q) \/ StopScorer(q)
      BY <2>2, RowsGrow DEF Next, vars
    <2>4. q = s
      BY <2>1, <2>3 DEF ReadRows, ScorerStep, CheckUnscored, CreateOutput, CloseOutput, StopScorer,
          Advance, Reading
    <2>5. \/ spc[s] = "checking" /\ output[1] # None
          \/ spc[s] = "publishing" /\ output[at[s]] # None
      BY <2>1, <2>3, <2>4 DEF ReadRows, ScorerStep, CheckUnscored, CreateOutput, CloseOutput,
          StopScorer, Advance, Reading
    <2>6. spc[s] = "publishing" /\ output[at[s]] # None => at[s] = 1
      BY <2>1 DEF PublishInv
    <2> QED
      BY <2>1, <2>5, <2>6 DEF PublishInv, IInv, OutputInv
  <1> QED
    BY <1>1, Published, PTL DEF Spec

=============================================================================
