------------------------- MODULE OrchestratorProofs -------------------------
(***************************************************************************)
(* Proofs about Orchestrator for every number of rounds and retries, every  *)
(* set of plans and demands, and every way the event sink may fail.         *)
(***************************************************************************)
EXTENDS Evidence, OrchestratorRefinement, FiniteSetTheorems, TLAPS

-----------------------------------------------------------------------------
(* Types of what the actions build. *)

\* A review carries a sequence of changes.
LEMMA ReviewShape ==
    ASSUME NEW r \in Reviews
    PROVE  /\ r.changes \in Seq(Changes)
           /\ r.decision \in {"approved", "revision_required"}
  <1>1. CASE r = Approval
    BY <1>1 DEF Approval
  <1>2. ASSUME NEW d \in Demands, r = [decision |-> "revision_required", changes |-> d]
        PROVE  r.changes \in Seq(Changes) /\ r.decision = "revision_required"
    BY <1>2, DataAssumption
  <1> QED
    BY <1>1, <1>2 DEF Reviews

\* resolve_review_changes gives one disposition per change.
LEMMA ResolutionsType ==
    ASSUME NEW r \in Reviews, NEW p
    PROVE  Resolutions(r, p) \in Seq({"implemented", "unresolved"})
  <1>1. Len(r.changes) \in Nat
    BY ReviewShape
  <1> QED
    BY <1>1 DEF Resolutions

\* A result built from typed variables is a Result.
LEMMA ResultType ==
    ASSUME TypeOK, NEW s \in Statuses, NEW c \in Reasons
    PROVE  BuildResult(s, c) \in Results
  <1>1. (IF plan = None \/ review = None THEN <<>> ELSE Resolutions(review, plan))
            \in Seq({"implemented", "unresolved"})
    BY ResolutionsType DEF TypeOK
  <1> QED
    BY <1>1 DEF BuildResult, Results, TypeOK

\* What a reply adds to the transcript.
LEMMA EntryType ==
    ASSUME TypeOK
    PROVE  /\ \A c \in Categories : Entry("invalid", None, c) \in Entries
           /\ \A x \in Plans \cup Reviews : Entry("valid", x, None) \in Entries
  BY DEF TypeOK, Entry, Entries

\* Appending one element: the earlier ones stay, the last is the new one.
LEMMA AppendFacts ==
    ASSUME NEW S, NEW s \in Seq(S), NEW e \in S
    PROVE  /\ Append(s, e) \in Seq(S)
           /\ Len(Append(s, e)) = Len(s) + 1
           /\ Len(s) \in Nat
           /\ \A i \in 1..Len(s) : Append(s, e)[i] = s[i]
           /\ Append(s, e)[Len(s) + 1] = e
  OBVIOUS

\* An accepted plan is allowed; a revision keeps the topology.
LEMMA ValidPlanFacts ==
    ASSUME NEW p, ValidPlan(p)
    PROVE  /\ p.topology \in AllowedTopologies
           /\ phase = "initial_plan" \/ phase = "revision"
           /\ phase = "revision" => p.topology = plan.topology
  BY DEF ValidPlan, ValidTransition

-----------------------------------------------------------------------------
(* Type correctness, by an invariant on what each phase knows. *)

IInv == TypeOK /\ PhaseInv

LEMMA InitIInv == Init => IInv
  <1> SUFFICES ASSUME Init PROVE TypeOK /\ PhaseInv
    BY DEF IInv
  <1>1. transcript \in Seq(Entries)
    BY DEF Init
  <1>2. events \in Seq([type : {"completed", "error"}, result : Results])
    BY DEF Init
  <1>3. PhaseInv
    BY DEF Init, PhaseInv
  <1>4. /\ planHashes \subseteq {Payload(p) : p \in Plans}
        /\ reviewHashes \subseteq {r.changes : r \in Reviews}
    BY DEF Init
  <1>5. round \in 0..MaxReviewRounds /\ attempt \in 0..MaxParseRetries
        /\ roundsCompleted \in 0..MaxReviewRounds
    BY BoundsAssumption DEF Init
  <1>6. pc \in Positions /\ phase \in Phases /\ context \in BOOLEAN \X BOOLEAN
    BY DEF Init, Positions, Phases, context
  <1>7. /\ plan \in Plans \cup {None} /\ review \in Reviews \cup {None}
        /\ outcome \in Outcomes \cup {None} /\ result \in Results \cup {None}
    BY DEF Init
  <1> QED
    BY <1>1, <1>2, <1>3, <1>4, <1>5, <1>6, <1>7 DEF TypeOK, context

LEMMA NextIInv == IInv /\ [Next]_vars => IInv'
  <1> SUFFICES ASSUME IInv, [Next]_vars PROVE IInv'
    OBVIOUS
  <1> USE DEF IInv
  <1>1. CASE ReceiveRequest \/ StartAttempt \/ WaitTimesOut \/ AgentTimesOut \/ AgentRaises
    BY <1>1 DEF ReceiveRequest, StartAttempt, WaitTimesOut, AgentTimesOut, AgentRaises,
        TypeOK, PhaseInv, Positions, position, artefacts, guards, report, context
  <1>2. CASE AnnouncePhase
    BY <1>2, BoundsAssumption DEF AnnouncePhase, SinkFault,
        TypeOK, PhaseInv, Positions, position, artefacts, guards, report, context
  <1>3. ASSUME NEW c \in Categories, RejectReply(c) PROVE IInv'
    <2>1. transcript' \in Seq(Entries)
      BY <1>3, EntryType, AppendFacts DEF RejectReply, TypeOK
    <2>2. attempt' \in 0..MaxParseRetries /\ pc' \in Positions
      BY <1>3, BoundsAssumption DEF RejectReply, MayRetry, SinkFault, TypeOK, Positions
    <2>3. UNCHANGED <<phase, round, artefacts, guards, outcome, context, report>>
      BY <1>3 DEF RejectReply
    <2> QED
      BY <1>3, <2>1, <2>2, <2>3
      DEF RejectReply, SinkFault, TypeOK, PhaseInv, artefacts, guards, report, context
  <1>4. ASSUME NEW p \in Plans, AcceptPlan(p) PROVE IInv'
    <2>1. transcript' \in Seq(Entries)
      BY <1>4, EntryType, AppendFacts DEF AcceptPlan, TypeOK
    <2>2. p.topology \in AllowedTopologies /\ phase \in {"initial_plan", "revision"}
      BY <1>4, ValidPlanFacts DEF AcceptPlan
    <2>3. p # None
      BY NoneAssumption
    <2>4. CASE KeepPlan(p)
      <3>1. round' \in 1..MaxReviewRounds /\ round' \in 0..MaxReviewRounds
        BY <2>2, <2>4, BoundsAssumption DEF KeepPlan, TypeOK, PhaseInv
      <3> QED
        BY <1>4, <2>1, <2>2, <2>3, <2>4, <3>1
        DEF AcceptPlan, KeepPlan, TypeOK, PhaseInv, Positions, Phases, report, context
    <2>5. CASE SinkFault("failing") /\ UNCHANGED <<plan, planHashes, phase, round>>
      BY <1>4, <2>1, <2>5 DEF AcceptPlan, SinkFault, TypeOK, PhaseInv, Positions, report, context
    <2> QED
      BY <1>4, <2>4, <2>5 DEF AcceptPlan
  <1>5. ASSUME NEW r \in Reviews, AcceptReview(r) PROVE IInv'
    <2>1. transcript' \in Seq(Entries)
      BY <1>5, EntryType, AppendFacts DEF AcceptReview, TypeOK
    <2>2. r # None
      BY NoneAssumption
    <2>3. CASE KeepReview(r)
      <3>1. /\ review' \in Reviews /\ roundsCompleted' \in 0..MaxReviewRounds
            /\ reviewHashes' \subseteq {x.changes : x \in Reviews}
        BY <2>3 DEF KeepReview, TypeOK
      <3>2. \/ /\ pc' = "finishing" /\ UNCHANGED phase
               /\ outcome' \in Outcomes
               /\ outcome' # None
            \/ /\ pc' = "announce" /\ phase' = "revision" /\ UNCHANGED outcome
               /\ round < MaxReviewRounds
        BY <2>3, NoneAssumption 
        DEF KeepReview, Conclude, RevisionLeft, Outcomes, Statuses, Reasons
      <3>3. /\ phase = "review" /\ round \in 1..MaxReviewRounds /\ plan # None
            /\ plan.topology \in AllowedTopologies /\ review' = r
            /\ UNCHANGED <<round, attempt, plan, planHashes, context, report>>
        BY <1>5, <2>3 DEF AcceptReview, KeepReview, PhaseInv
      <3>4. TypeOK'
        BY <2>1, <3>1, <3>2, <3>3 DEF TypeOK, Positions, Phases, report, context
      <3>5. PhaseInv'
        BY <2>2, <3>2, <3>3, BoundsAssumption DEF PhaseInv
      <3> QED
        BY <3>4, <3>5
    <2>4. CASE SinkFault("failing") /\ UNCHANGED <<review, roundsCompleted, reviewHashes, phase, outcome>>
      BY <1>5, <2>1, <2>4 DEF AcceptReview, SinkFault, TypeOK, PhaseInv, Positions, report, context
    <2> QED
      BY <1>5, <2>3, <2>4 DEF AcceptReview
  <1>6. ASSUME NEW t \in {"completed", "error"}, NEW s \in Statuses, NEW c \in Reasons,
               NEW h \in {"failing", "raised"}, Report(t, s, c, h), pc # "received",
               UNCHANGED <<position, artefacts, transcript, guards, outcome, context>>
        PROVE  IInv'
    <2>1. BuildResult(s, c) \in Results
      BY ResultType
    <2>2. events' \in Seq([type : {"completed", "error"}, result : Results])
      BY <1>6, <2>1 DEF Report, TypeOK
    <2>3. result' \in Results \cup {None}
          /\ pc' \in {"returned", "timing_out", "failing", "raised"}
      BY <1>6, <2>1 DEF Report, SinkFault, TypeOK
    <2> QED
      BY <1>6, <2>2, <2>3 DEF TypeOK, PhaseInv, Positions, position, artefacts, guards, context
  <1>7. CASE Finish
    <2>1. outcome.status \in Statuses /\ outcome.reason \in Reasons
      BY <1>7 DEF Finish, TypeOK, PhaseInv, Outcomes
    <2> QED
      BY <1>6, <1>7, <2>1 DEF Finish
  <1>8. CASE ReportTimeout
    BY <1>6, <1>8 DEF ReportTimeout, Statuses, Reasons
  <1>9. CASE ReportFailure
    BY <1>6, <1>9 DEF ReportFailure, Statuses, Reasons
  <1>10. CASE DeadlinePasses
    BY <1>10 DEF DeadlinePasses, TypeOK, PhaseInv, position, artefacts, guards, report, context
  <1>11. CASE Terminated \/ UNCHANGED vars
    BY <1>11 DEF Terminated, TypeOK, PhaseInv, vars, position, artefacts, guards, report, context
  <1> QED
    BY <1>1, <1>2, <1>3, <1>4, <1>5, <1>7, <1>8, <1>9, <1>10, <1>11
    DEF Next, OwnStep, AgentStep

\* In every run each variable keeps its type: rounds, attempts and results stay
\* within the configured and the schema's bounds.
THEOREM TypeCorrect == Spec => []TypeOK
  <1>1. Spec => []IInv
    BY InitIInv, NextIInv, PTL DEF Spec
  <1> QED
    BY <1>1, PTL DEF IInv

-----------------------------------------------------------------------------
(* What the transcript says of the dialogue. *)

\* The four statements on the transcript alone.
TranscriptProps == /\ TopologyNeverChanges
                   /\ RevisionsAnswerTheirReview
                   /\ RepeatedDemandEndsTheRun

\* The plan kept has the topology of those in the transcript.
PlanTopology == plan # None =>
    \A i \in Indices : PlanAt(i) => transcript[i].parsed.topology = plan.topology

\* A step that adds no message and keeps plan and review disturbs none of it.
LEMMA QuietStep ==
    ASSUME DialogueInv,
           UNCHANGED <<phase, plan, review, reviewHashes, transcript>>,
           Active' => Active \/ (pc = "received" /\ phase = "initial_plan"),
           pc' # "received" \/ pc = "received",
           pc' = "finishing" => pc = "finishing" /\ outcome' = outcome,
           result' # None => pc' = "returned",
           result' # None /\ result'.status = "completed" =>
               \/ result' = result
               \/ pc = "finishing" /\ outcome.status = "completed" /\ result'.plan = plan
    PROVE  DialogueInv'
  <1>1. TranscriptProps' /\ PlanTopology' /\ (ApprovedAtTheEnd(plan) => ApprovedAtTheEnd(plan)')
    BY DEF DialogueInv, TranscriptProps, PlanTopology, TopologyNeverChanges,
        RevisionsAnswerTheirReview, RepeatedDemandEndsTheRun, ApprovedAtTheEnd,
        Successive, Indices, PlanAt, ReviewAt
  <1>2. ActiveInv => ActiveInv'
    BY DEF ActiveInv, LastValid, Indices, PlanAt, ReviewAt
  <1>3. pc = "received" /\ phase = "initial_plan" => ActiveInv'
    BY DEF DialogueInv, ActiveInv, Indices
  <1>4. ApprovalIsOfTheFinalPlan'
    BY DEF DialogueInv, ApprovalIsOfTheFinalPlan, ApprovedAtTheEnd, Successive,
        Indices, PlanAt, ReviewAt
  <1> QED
    BY <1>1, <1>2, <1>3, <1>4 DEF DialogueInv, TranscriptProps, PlanTopology

\* Plan p carries out all changes of review r.
Answers(r, p) == \A k \in 1..Len(r.changes) : Implements(p, r.changes[k])

\* Two successive messages that an append did not touch were successive before.
LEMMA OldAnswers ==
    ASSUME DialogueInv, NEW n \in Nat, n = Len(transcript),
           \A k \in 1..n : transcript'[k] = transcript[k],
           NEW i \in 1..n, NEW j \in 1..n,
           Successive(i, j)', ReviewAt(i)', PlanAt(j)'
    PROVE  Answers(transcript'[i].parsed, transcript'[j].parsed)
  <1>1. Successive(i, j)
    <2>1. \A k \in (i + 1)..(j - 1) : transcript[k].status = "invalid"
      BY DEF Successive
    <2> QED
      BY <2>1 DEF Successive, PlanAt, ReviewAt
  <1>2. ReviewAt(i) /\ PlanAt(j)
    BY DEF PlanAt, ReviewAt
  <1>3. \A k \in 1..Len(transcript[i].parsed.changes) :
            Implements(transcript[j].parsed, transcript[i].parsed.changes[k])
    BY <1>1, <1>2 DEF DialogueInv, RevisionsAnswerTheirReview, Indices
  <1> QED
    BY <1>3 DEF Answers

\* An invalid reply changes nothing that is said of valid messages.
LEMMA RejectStep ==
    ASSUME IInv, DialogueInv, NEW c \in Categories, RejectReply(c)
    PROVE  DialogueInv'
  <1> PICK n : n = Len(transcript)
    OBVIOUS
  <1>1. /\ n \in Nat /\ Len(transcript') = n + 1
        /\ \A i \in 1..n : transcript'[i] = transcript[i]
        /\ transcript'[n + 1].status = "invalid"
    BY EntryType, AppendFacts DEF IInv, TypeOK, RejectReply, Entry
  <1>2. Active /\ result = None /\ result' = None
        /\ pc' \notin {"received", "finishing", "returned"}
    BY DEF RejectReply, Active, DialogueInv, report, SinkFault
  <1>3. UNCHANGED <<phase, plan, review, reviewHashes>>
    BY DEF RejectReply, artefacts, guards
  <1>4. ActiveInv'
    <2>1. ActiveInv
      BY <1>2 DEF DialogueInv
    <2> QED
      BY <1>1, <1>3, <2>1 DEF ActiveInv, LastValid, Indices, PlanAt, ReviewAt
  <1>5. TopologyNeverChanges' /\ PlanTopology'
    BY <1>1, <1>3 DEF DialogueInv, TopologyNeverChanges, PlanTopology, Indices, PlanAt
  <1>6. RevisionsAnswerTheirReview'
    <2> SUFFICES ASSUME NEW i \in 1..(n + 1), NEW j \in 1..(n + 1),
                        Successive(i, j)', ReviewAt(i)', PlanAt(j)'
                 PROVE  Answers(transcript'[i].parsed, transcript'[j].parsed)
      BY <1>1 DEF RevisionsAnswerTheirReview, Indices, Answers
    <2>1. i \in 1..n /\ j \in 1..n
      BY <1>1 DEF Successive, PlanAt, ReviewAt
    <2> QED
      BY <1>1, <2>1, OldAnswers
  <1>7. RepeatedDemandEndsTheRun'
    BY <1>4 DEF ActiveInv, RepeatedDemandEndsTheRun
  <1> QED
    BY <1>2, <1>4, <1>5, <1>6, <1>7 DEF DialogueInv, PlanTopology, ApprovalIsOfTheFinalPlan

\* A plan is appended: it is the first valid message, or a revision whose
\* review is the last valid message.
LEMMA PlanStep ==
    ASSUME IInv, DialogueInv, NEW p \in Plans, AcceptPlan(p)
    PROVE  DialogueInv'
  <1> PICK n : n = Len(transcript)
    OBVIOUS
  <1>1. /\ n \in Nat /\ Len(transcript') = n + 1
        /\ \A i \in 1..n : transcript'[i] = transcript[i]
        /\ transcript'[n + 1] = Entry("valid", p, None)
    BY EntryType, AppendFacts DEF IInv, TypeOK, AcceptPlan
  <1>2. /\ transcript'[n + 1].status = "valid" /\ transcript'[n + 1].parsed = p
        /\ transcript'[n + 1].phase # "review"
    BY <1>1 DEF Entry, AcceptPlan
  <1>3. /\ Active /\ ActiveInv /\ result = None /\ result' = None
        /\ pc' \notin {"received", "finishing", "returned"}
        /\ Active' => plan' = p /\ phase' = "review"
        /\ plan' \in {plan, p}
        /\ UNCHANGED <<review, reviewHashes>>
    BY DEF AcceptPlan, Active, DialogueInv, report, SinkFault, KeepPlan
  <1>4. /\ phase \in {"initial_plan", "revision"}
        /\ phase = "initial_plan" => plan = None
        /\ phase = "revision" => /\ ValidTransition(plan, p, review)
                                /\ plan # None /\ p.topology = plan.topology
        /\ p.topology \in AllowedTopologies
    BY ValidPlanFacts DEF AcceptPlan, IInv, PhaseInv, ValidPlan
  <1>5. TopologyNeverChanges' /\ PlanTopology'
    <2>1. \A i \in 1..n : PlanAt(i) => p.topology = transcript[i].parsed.topology
      BY <1>3, <1>4 DEF DialogueInv, ActiveInv, PlanAt, Indices
    <2>2. \A i \in 1..(n + 1) : PlanAt(i)' => transcript'[i].parsed.topology = p.topology
      BY <1>1, <1>2, <2>1 DEF PlanAt
    <2>3. plan' # None => plan'.topology = p.topology
      BY <1>3, <1>4
    <2> QED
      BY <1>1, <1>4, <2>2, <2>3 DEF TopologyNeverChanges, PlanTopology, Indices
  <1>6. RevisionsAnswerTheirReview'
    <2> SUFFICES ASSUME NEW i \in 1..(n + 1), NEW j \in 1..(n + 1),
                        Successive(i, j)', ReviewAt(i)', PlanAt(j)'
                 PROVE  Answers(transcript'[i].parsed, transcript'[j].parsed)
      BY <1>1 DEF RevisionsAnswerTheirReview, Indices, Answers
    <2>1. CASE j \in 1..n
      <3>1. i \in 1..n
        BY <1>1, <2>1 DEF Successive
      <3> QED
        BY <1>1, <2>1, <3>1, OldAnswers
    <2>2. CASE j = n + 1
      <3>1. i \in 1..n /\ ReviewAt(i)
            /\ \A m \in (i + 1)..n : transcript[m].status = "invalid"
        BY <1>1, <2>2 DEF Successive, ReviewAt
      <3>2. phase = "revision"
        BY <1>3, <1>4, <3>1 DEF ActiveInv, ReviewAt, Indices
      <3>3. PICK m \in 1..n : LastValid(m) /\ transcript[m].parsed = review
        BY <1>3, <3>2 DEF ActiveInv, Indices
      <3>4. m = i
        BY <1>1, <3>1, <3>3 DEF LastValid, ReviewAt
      <3>5. transcript'[i].parsed = review /\ transcript'[j].parsed = p
        BY <1>1, <1>2, <2>2, <3>1, <3>3, <3>4
      <3> QED
        BY <1>4, <3>2, <3>5 DEF ValidTransition, Answers
    <2> QED
      BY <1>1, <2>1, <2>2
  <1>7. Active' => ActiveInv'
    <2> SUFFICES ASSUME Active' PROVE ActiveInv'
      OBVIOUS
    <2>1. \A i \in 1..(n + 1) : ReviewAt(i)' =>
            i \in 1..n /\ ReviewAt(i) /\ transcript'[i] = transcript[i]
      BY <1>1, <1>2 DEF ReviewAt
    <2>2. LastValid(n + 1)' /\ PlanAt(n + 1)' /\ n + 1 \in 1..(n + 1)
      BY <1>1, <1>2 DEF LastValid, PlanAt
    <2> QED
      BY <1>1, <1>2, <1>3, <2>1, <2>2 DEF ActiveInv, Indices
  <1>8. RepeatedDemandEndsTheRun'
    BY <1>1, <1>2, <1>3 DEF ActiveInv, RepeatedDemandEndsTheRun, Indices, ReviewAt
  <1> QED
    BY <1>3, <1>5, <1>6, <1>7, <1>8 DEF DialogueInv, PlanTopology, ApprovalIsOfTheFinalPlan

\* A review is appended: the last valid message is the plan it judges.
LEMMA ReviewStep ==
    ASSUME IInv, DialogueInv, NEW r \in Reviews, AcceptReview(r)
    PROVE  DialogueInv'
  <1> PICK n : n = Len(transcript)
    OBVIOUS
  <1>1. /\ n \in Nat /\ Len(transcript') = n + 1
        /\ \A i \in 1..n : transcript'[i] = transcript[i]
        /\ transcript'[n + 1] = Entry("valid", r, None)
    BY EntryType, AppendFacts DEF IInv, TypeOK, AcceptReview
  <1>2. /\ transcript'[n + 1].status = "valid" /\ transcript'[n + 1].parsed = r
        /\ transcript'[n + 1].phase = "review"
    BY <1>1 DEF Entry, AcceptReview
  <1>3. /\ Active /\ ActiveInv /\ phase = "review" /\ result = None /\ result' = None
        /\ pc' \notin {"received", "returned"}
        /\ UNCHANGED plan
    BY DEF AcceptReview, Active, DialogueInv, report, SinkFault, KeepReview, Conclude
  <1>4. TopologyNeverChanges' /\ PlanTopology'
    BY <1>1, <1>2, <1>3 DEF DialogueInv, TopologyNeverChanges, PlanTopology, Indices, PlanAt
  <1>5. RevisionsAnswerTheirReview'
    <2> SUFFICES ASSUME NEW i \in 1..(n + 1), NEW j \in 1..(n + 1),
                        Successive(i, j)', ReviewAt(i)', PlanAt(j)'
                 PROVE  Answers(transcript'[i].parsed, transcript'[j].parsed)
      BY <1>1 DEF RevisionsAnswerTheirReview, Indices, Answers
    <2>1. i \in 1..n /\ j \in 1..n
      BY <1>1, <1>2 DEF Successive, PlanAt
    <2> QED
      BY <1>1, <2>1, OldAnswers
  <1>6. \A i \in 1..n : ReviewAt(i)' => ReviewAt(i) /\ transcript'[i] = transcript[i]
    BY <1>1 DEF ReviewAt
  <1>7. RepeatedDemandEndsTheRun'
    BY <1>1, <1>3, <1>6 DEF ActiveInv, RepeatedDemandEndsTheRun, Indices
  <1>8. PICK m \in 1..n : LastValid(m) /\ PlanAt(m) /\ transcript[m].parsed = plan
    BY <1>1, <1>3 DEF ActiveInv, Indices
  <1>9. r = Approval => ApprovedAtTheEnd(plan)'
    <2>1. Successive(m, n + 1)'
      BY <1>1, <1>2, <1>8 DEF LastValid, Successive, PlanAt, ReviewAt
    <2>2. PlanAt(m)' /\ transcript'[m].parsed = plan'
      BY <1>1, <1>3, <1>8 DEF PlanAt
    <2> QED
      BY <1>1, <1>2, <2>1, <2>2 DEF ApprovedAtTheEnd, Indices, ReviewAt
  <1>10. pc' = "finishing" /\ outcome'.status = "completed" => r = Approval
    BY DEF AcceptReview, KeepReview, Conclude, SinkFault, Reviews, Approval
  <1>11. Active' => ActiveInv'
    <2> SUFFICES ASSUME Active' PROVE ActiveInv'
      OBVIOUS
    <2>1. /\ phase' = "revision" /\ review' = r
          /\ reviewHashes' = reviewHashes \cup {r.changes}
          /\ r.changes \notin reviewHashes
      BY DEF Active, AcceptReview, KeepReview, Conclude, Repeats, SinkFault
    <2>2. LastValid(n + 1)' /\ ReviewAt(n + 1)' /\ n + 1 \in 1..(n + 1)
      BY <1>1, <1>2 DEF LastValid, ReviewAt
    <2>3. \A i \in 1..(n + 1) : ReviewAt(i)' =>
            transcript'[i].parsed.changes \in reviewHashes'
      BY <1>1, <1>2, <1>3, <1>6, <2>1 DEF ActiveInv, Indices
    <2>4. \A i, j \in 1..(n + 1) : i < j /\ ReviewAt(i)' /\ ReviewAt(j)' =>
            transcript'[i].parsed.changes # transcript'[j].parsed.changes
      BY <1>1, <1>2, <1>3, <1>6, <2>1 DEF ActiveInv, Indices
    <2> QED
      BY <1>1, <1>2, <2>1, <2>2, <2>3, <2>4 DEF ActiveInv, Indices
  <1> QED
    BY <1>3, <1>4, <1>5, <1>7, <1>9, <1>10, <1>11
    DEF DialogueInv, PlanTopology, ApprovalIsOfTheFinalPlan

\* All other steps are quiet.
LEMMA NextDialogue == IInv /\ DialogueInv /\ [Next]_vars => DialogueInv'
  <1> SUFFICES ASSUME IInv, DialogueInv, [Next]_vars PROVE DialogueInv'
    OBVIOUS
  <1>1. CASE ReceiveRequest
    BY <1>1, QuietStep DEF ReceiveRequest, Active, IInv, PhaseInv, DialogueInv,
        position, artefacts, guards, report, context
  <1>2. CASE AnnouncePhase \/ StartAttempt \/ WaitTimesOut \/ AgentTimesOut \/ AgentRaises
    BY <1>2, QuietStep DEF AnnouncePhase, StartAttempt, WaitTimesOut, AgentTimesOut,
        AgentRaises, SinkFault, Active, DialogueInv, position, artefacts, guards, report, context
  <1>3. ASSUME NEW c \in Categories, RejectReply(c) PROVE DialogueInv'
    BY <1>3, RejectStep
  <1>4. ASSUME NEW p \in Plans, AcceptPlan(p) PROVE DialogueInv'
    BY <1>4, PlanStep
  <1>5. ASSUME NEW r \in Reviews, AcceptReview(r) PROVE DialogueInv'
    BY <1>5, ReviewStep
  <1>6. CASE Finish \/ ReportTimeout \/ ReportFailure
    BY <1>6, QuietStep DEF Finish, ReportTimeout, ReportFailure, Report, BuildResult,
        SinkFault, Active, DialogueInv, position, artefacts, guards
  <1>7. CASE DeadlinePasses \/ Terminated \/ UNCHANGED vars
    BY <1>7, QuietStep DEF DeadlinePasses, Terminated, vars, Active, DialogueInv,
        position, artefacts, guards, report, context
  <1> QED
    BY <1>1, <1>2, <1>3, <1>4, <1>5, <1>6, <1>7 DEF Next, OwnStep, AgentStep

LEMMA InitDialogue == Init => DialogueInv
  BY DEF Init, DialogueInv, Active, Indices, ApprovalIsOfTheFinalPlan, TopologyNeverChanges,
      RevisionsAnswerTheirReview, RepeatedDemandEndsTheRun

LEMMA Dialogue == Spec => []DialogueInv
  <1>1. Init => IInv /\ DialogueInv
    BY InitIInv, InitDialogue
  <1>2. (IInv /\ DialogueInv) /\ [Next]_vars => (IInv /\ DialogueInv)'
    BY NextIInv, NextDialogue
  <1> QED
    BY <1>1, <1>2, PTL DEF Spec

\* Whatever the agents reply, an approved result returns the plan that the last
\* message of the run approved.
THEOREM ApprovedPlanIsTheFinalPlan == Spec => []ApprovalIsOfTheFinalPlan
  BY Dialogue, PTL DEF DialogueInv

\* Whatever the planner sends, the plans accepted in a run share one topology,
\* which the policy allows.
THEOREM OneTopology == Spec => []TopologyNeverChanges
  BY Dialogue, PTL DEF DialogueInv

\* Every accepted revision carries out all that the review before it demanded.
THEOREM RevisionsAnswer == Spec => []RevisionsAnswerTheirReview
  BY Dialogue, PTL DEF DialogueInv

\* A list of demands that is sent a second time is the last message of the run.
THEOREM NoDemandTwice == Spec => []RepeatedDemandEndsTheRun
  BY Dialogue, PTL DEF DialogueInv

-----------------------------------------------------------------------------
(* Demands on a resource that is not there. *)

\* A review of plan h, message i, demands a change of a resource it has not.
Hopeless(h, i) ==
    /\ Successive(h, i) /\ PlanAt(h) /\ ReviewAt(i)
    /\ \E k \in 1..Len(transcript[i].parsed.changes) :
        transcript[i].parsed.changes[k].target \notin TargetsOf[transcript[h].parsed.topology]

HopelessInv == \A h, i \in Indices : Hopeless(h, i) =>
    \A k \in Indices : k > i => transcript[k].status = "invalid"

\* Approval demands nothing.
LEMMA NoHopeInNone ==
    ASSUME DialogueInv, HopelessInv, IInv,
           result # None, result.status = "completed",
           NEW h \in Indices, NEW i \in Indices
    PROVE  ~Hopeless(h, i)
  <1> PICK n : n = Len(transcript)
    OBVIOUS
  <1>0. n \in Nat
    BY DEF IInv, TypeOK
  <1>1. n \in Indices /\ ReviewAt(n) /\ transcript[n].parsed = Approval
    <2>1. ApprovedAtTheEnd(result.plan)
      BY DEF DialogueInv, ApprovalIsOfTheFinalPlan
    <2> QED
      BY <1>0, <2>1 DEF ApprovedAtTheEnd, Indices
  <1>2. CASE i = n
    BY <1>1, <1>2 DEF Hopeless, Approval
  <1>3. CASE i # n
    BY <1>0, <1>1, <1>3 DEF HopelessInv, ReviewAt, Indices
  <1> QED
    BY <1>2, <1>3

LEMMA NextHopelessInv == IInv /\ DialogueInv /\ HopelessInv /\ [Next]_vars => HopelessInv'
  <1> SUFFICES ASSUME IInv, DialogueInv, HopelessInv, [Next]_vars PROVE HopelessInv'
    OBVIOUS
  <1>0. DialogueInv'
    BY NextDialogue
  <1>1. CASE transcript' = transcript
    <2>1. Indices' = Indices /\ \A h, i : Hopeless(h, i)' => Hopeless(h, i)
      BY <1>1 DEF Hopeless, Successive, PlanAt, ReviewAt, Indices
    <2> QED
      BY <1>1, <2>1 DEF HopelessInv
  <1>2. ASSUME NEW e \in Entries, transcript' = Append(transcript, e), pc = "waiting",
               \/ e.status = "invalid"
               \/ e.status = "valid" /\ e.phase = phase
        PROVE  HopelessInv'
    <2> PICK n : n = Len(transcript)
      OBVIOUS
    <2>1. /\ n \in Nat /\ Len(transcript') = n + 1
          /\ transcript'[n + 1] = e
          /\ \A k \in 1..n : transcript'[k] = transcript[k]
      BY <1>2, AppendFacts DEF IInv, TypeOK
    <2>2. SUFFICES ASSUME NEW h \in 1..n, NEW i \in 1..n, Hopeless(h, i)
                   PROVE  e.status = "invalid"
      <3>1. ASSUME NEW h \in 1..(n + 1), NEW i \in 1..(n + 1), Hopeless(h, i)',
                   NEW k \in 1..(n + 1), k > i
            PROVE  transcript'[k].status = "invalid"
        <4>1. h \in 1..n /\ i \in 1..n
          BY <2>1, <3>1 DEF Hopeless, Successive
        <4>2. Hopeless(h, i)
          <5>1. transcript'[h] = transcript[h] /\ transcript'[i] = transcript[i]
            BY <2>1, <4>1
          <5>2. \A m \in (h + 1)..(i - 1) : transcript'[m] = transcript[m]
            BY <2>1, <4>1
          <5> QED
            BY <3>1, <5>1, <5>2 DEF Hopeless, Successive, PlanAt, ReviewAt
        <4>3. CASE k = n + 1
          BY <2>1, <2>2, <4>1, <4>2, <4>3
        <4>4. CASE k \in 1..n
          BY <2>1, <3>1, <4>1, <4>2, <4>4 DEF HopelessInv, Indices
        <4> QED
          BY <2>1, <4>3, <4>4
      <3> QED
        BY <2>1, <3>1 DEF HopelessInv, Indices
    <2>3. SUFFICES ASSUME e.status = "valid", e.phase = phase PROVE FALSE
      BY <1>2
    <2>4. /\ ReviewAt(i) /\ LastValid(i)
          /\ \A k \in (i + 1)..n : transcript[k].status = "invalid"
      BY <2>1, <2>2 DEF Hopeless, HopelessInv, LastValid, ReviewAt, Indices
    <2>5. ActiveInv
      BY <1>2 DEF DialogueInv, Active
    <2>6. phase = "revision"
      <3>1. phase # "initial_plan"
        BY <2>4, <2>5 DEF ActiveInv, ReviewAt, Indices
      <3>2. phase # "review"
        <4> SUFFICES ASSUME phase = "review" PROVE FALSE
          OBVIOUS
        <4>1. PICK m \in 1..n : LastValid(m) /\ PlanAt(m)
          BY <2>5 DEF ActiveInv, Indices
        <4>2. m = i
          BY <2>1, <2>4, <4>1 DEF LastValid
        <4> QED
          BY <2>4, <4>1, <4>2 DEF PlanAt, ReviewAt
      <3> QED
        BY <3>1, <3>2 DEF IInv, TypeOK, Phases
    <2>7. PlanAt(n + 1)' /\ Successive(i, n + 1)' /\ ReviewAt(i)' /\ PlanAt(h)'
      <3>1. transcript'[h] = transcript[h] /\ transcript'[i] = transcript[i]
        BY <2>1
      <3>2. PlanAt(n + 1)' /\ ReviewAt(i)' /\ PlanAt(h)'
        BY <2>1, <2>2, <2>3, <2>4, <2>6, <3>1 DEF PlanAt, ReviewAt, Hopeless
      <3>3. \A k \in (i + 1)..((n + 1) - 1) : transcript'[k].status = "invalid"
        BY <2>1, <2>4
      <3> QED
        BY <2>1, <3>2, <3>3 DEF Successive
    <2>8. \A k \in 1..Len(transcript[i].parsed.changes) :
            transcript[i].parsed.changes[k].target \in TargetsOf[e.parsed.topology]
      <3>1. \A k \in 1..Len(transcript'[i].parsed.changes) :
              Implements(transcript'[n + 1].parsed, transcript'[i].parsed.changes[k])
        BY <1>0, <2>1, <2>7 DEF DialogueInv, RevisionsAnswerTheirReview, Indices
      <3> QED
        BY <2>1, <3>1 DEF Implements
    <2>9. e.parsed.topology = transcript[h].parsed.topology
      <3>1. transcript'[n + 1].parsed.topology = transcript'[h].parsed.topology
        BY <1>0, <2>1, <2>7 DEF DialogueInv, TopologyNeverChanges, Indices
      <3> QED
        BY <2>1, <3>1
    <2> QED
      BY <2>2, <2>8, <2>9 DEF Hopeless
  <1>3. ASSUME NEW c \in Categories, RejectReply(c) PROVE HopelessInv'
    <2>1. Entry("invalid", None, c) \in Entries /\ Entry("invalid", None, c).status = "invalid"
      BY EntryType DEF IInv, TypeOK, Entry
    <2> QED
      BY <1>2, <1>3, <2>1 DEF RejectReply
  <1>4. ASSUME NEW p \in Plans, AcceptPlan(p) PROVE HopelessInv'
    <2>1. Entry("valid", p, None) \in Entries /\ Entry("valid", p, None).status = "valid"
          /\ Entry("valid", p, None).phase = phase
      BY EntryType DEF IInv, TypeOK, Entry
    <2> QED
      BY <1>2, <1>4, <2>1 DEF AcceptPlan
  <1>5. ASSUME NEW r \in Reviews, AcceptReview(r) PROVE HopelessInv'
    <2>1. Entry("valid", r, None) \in Entries /\ Entry("valid", r, None).status = "valid"
          /\ Entry("valid", r, None).phase = phase
      BY EntryType DEF IInv, TypeOK, Entry
    <2> QED
      BY <1>2, <1>5, <2>1 DEF AcceptReview
  <1>6. CASE \/ ReceiveRequest \/ AnnouncePhase \/ StartAttempt \/ WaitTimesOut \/ AgentTimesOut
             \/ AgentRaises \/ Finish \/ ReportTimeout \/ ReportFailure \/ DeadlinePasses
             \/ Terminated \/ UNCHANGED vars
    BY <1>1, <1>6 DEF ReceiveRequest, AnnouncePhase, StartAttempt, WaitTimesOut, AgentTimesOut,
        AgentRaises, Finish, ReportTimeout, ReportFailure, DeadlinePasses, Terminated, vars
  <1> QED
    BY <1>3, <1>4, <1>5, <1>6 DEF Next, OwnStep, AgentStep

\* After a review that targets a resource its plan does not have nothing is
\* accepted any more, and the run is not approved: the safety half of
\* UnknownTargetLosesTheRun, with a sink that may fail.
THEOREM UnknownTargetIsFinal ==
    Spec => [](\A h, i \in Indices : Hopeless(h, i) =>
                 /\ \A k \in Indices : k > i => transcript[k].status = "invalid"
                 /\ result # None => result.status # "completed")
  <1>1. Init => HopelessInv
    BY DEF Init, HopelessInv, Indices
  <1>2. Spec => []IInv
    BY InitIInv, NextIInv, PTL DEF Spec
  <1>3. IInv /\ DialogueInv /\ HopelessInv => \A h, i \in Indices : Hopeless(h, i) =>
                 /\ \A k \in Indices : k > i => transcript[k].status = "invalid"
                 /\ result # None => result.status # "completed"
    BY NoHopeInNone DEF HopelessInv
  <1> QED
    BY <1>1, <1>2, <1>3, Dialogue, NextHopelessInv, PTL DEF Spec

-----------------------------------------------------------------------------
(* The events. *)

\* Only COMPLETED events precede the handlers, and none precedes the end.
EventInv ==
    /\ pc \in {"received", "announce", "attempt", "waiting", "finishing"} => events = <<>>
    /\ pc \in {"failing", "timing_out"} =>
        \A i \in 1..Len(events) : events[i].type = "completed"
    /\ LastEventCarriesTheResult

\* Reporting a result adds the event that carries it.
LEMMA ReportStep ==
    ASSUME IInv, EventInv, result = None,
           \A i \in 1..Len(events) : events[i].type = "completed",
           NEW type \in {"completed", "error"}, NEW status \in Statuses, NEW reason \in Reasons,
           NEW handler, Report(type, status, reason, handler),
           handler = "failing" => type = "completed" /\ events = <<>>,
           handler \in {"failing", "raised"}
    PROVE  EventInv'
  <1> DEFINE r == BuildResult(status, reason)
             e == [type |-> type, result |-> r]
  <1>1. e \in [type : {"completed", "error"}, result : Results]
    BY ResultType DEF IInv
  <1>2. events \in Seq([type : {"completed", "error"}, result : Results])
    BY DEF IInv, TypeOK
  <1>3. /\ events' = Append(events, e)
        /\ pc' \in {"returned", "raised", "timing_out", "failing"}
        /\ pc' \in {"timing_out", "failing"} => handler = "failing"
        /\ result' = r \/ result' = None
    BY DEF Report, SinkFault
  <1>4. e.type = type /\ e.result = r
    OBVIOUS
  <1> HIDE DEF r, e
  <1>5. /\ events' \in Seq([type : {"completed", "error"}, result : Results])
        /\ Len(events') = Len(events) + 1 /\ Len(events) \in Nat
        /\ events'[Len(events')] = e
        /\ \A i \in 1..Len(events) : events'[i] = events[i]
    BY <1>1, <1>2, <1>3, AppendFacts
  <1>6. LastEventCarriesTheResult'
    BY <1>3, <1>4, <1>5 DEF LastEventCarriesTheResult
  <1> QED
    BY <1>3, <1>4, <1>5, <1>6 DEF EventInv

LEMMA NextEventInv == IInv /\ DialogueInv /\ EventInv /\ [Next]_vars => EventInv'
  <1> SUFFICES ASSUME IInv, DialogueInv, EventInv, [Next]_vars PROVE EventInv'
    OBVIOUS
  <1>1. ASSUME UNCHANGED report, pc' \in {"received", "announce", "attempt", "waiting", "finishing"}
                    => pc \in {"received", "announce", "attempt", "waiting", "finishing"},
               pc' \in {"failing", "timing_out"} => pc # "returned" /\ pc # "raised"
        PROVE  EventInv'
    BY <1>1 DEF EventInv, LastEventCarriesTheResult, report, IInv, TypeOK, Positions
  <1>2. CASE \/ ReceiveRequest \/ AnnouncePhase \/ StartAttempt \/ WaitTimesOut
             \/ AgentTimesOut \/ AgentRaises
    BY <1>1, <1>2 DEF ReceiveRequest, AnnouncePhase, StartAttempt, WaitTimesOut,
        AgentTimesOut, AgentRaises, SinkFault
  <1>3. ASSUME NEW c \in Categories, RejectReply(c) PROVE EventInv'
    BY <1>1, <1>3 DEF RejectReply, SinkFault
  <1>4. ASSUME NEW p \in Plans, AcceptPlan(p) PROVE EventInv'
    BY <1>1, <1>4 DEF AcceptPlan, KeepPlan, SinkFault
  <1>5. ASSUME NEW r \in Reviews, AcceptReview(r) PROVE EventInv'
    BY <1>1, <1>5 DEF AcceptReview, KeepReview, Conclude, SinkFault
  <1>6. CASE Finish
    <2>1. events = <<>> /\ result = None /\ outcome.status \in Statuses /\ outcome.reason \in Reasons
      BY <1>6 DEF Finish, EventInv, DialogueInv, IInv, TypeOK, PhaseInv, Outcomes
    <2> QED
      BY <1>6, <2>1, ReportStep DEF Finish
  <1>7. CASE ReportTimeout \/ ReportFailure
    <2>1. result = None /\ \A i \in 1..Len(events) : events[i].type = "completed"
      BY <1>7 DEF ReportTimeout, ReportFailure, EventInv, DialogueInv
    <2>2. "timeout" \in Statuses \cap Reasons /\ "failed" \in Statuses /\ "error" \in Reasons
      BY DEF Statuses, Reasons
    <2> QED
      BY <1>7, <2>1, <2>2, ReportStep DEF ReportTimeout, ReportFailure
  <1>8. CASE DeadlinePasses \/ Terminated \/ UNCHANGED vars
    BY <1>1, <1>8 DEF DeadlinePasses, Terminated, Stopped, vars
  <1> QED
    BY <1>2, <1>3, <1>4, <1>5, <1>6, <1>7, <1>8 DEF Next, OwnStep, AgentStep

\* However the sink fails, what run() returns is what its last event carries.
THEOREM LastEvent == Spec => []LastEventCarriesTheResult
  <1>1. Init => IInv /\ DialogueInv /\ EventInv
    BY InitIInv, InitDialogue DEF Init, EventInv, LastEventCarriesTheResult
  <1>2. (IInv /\ DialogueInv /\ EventInv) /\ [Next]_vars => (IInv /\ DialogueInv /\ EventInv)'
    BY NextIInv, NextDialogue, NextEventInv
  <1>3. EventInv => LastEventCarriesTheResult
    BY DEF EventInv
  <1> QED
    BY <1>1, <1>2, <1>3, PTL DEF Spec

-----------------------------------------------------------------------------
(* The plan that is returned. *)

\* The plan at hand is the latest in the transcript, and the one in the result.
LatestInv ==
    /\ SinkFaults = {} => \A i \in Indices :
            PlanAt(i) /\ (\A k \in Indices : k > i => ~PlanAt(k))
                => plan = transcript[i].parsed
    /\ result # None => result.plan = plan

\* A message more, that is a plan only if it is the one now at hand.
LEMMA MessageStep ==
    ASSUME IInv, LatestInv, NEW e \in Entries, transcript' = Append(transcript, e),
           result' = None,
           SinkFaults = {} => \/ e.status = "valid" /\ e.phase # "review" /\ plan' = e.parsed
                              \/ (e.status = "invalid" \/ e.phase = "review") /\ plan' = plan
    PROVE  LatestInv'
  <1>1. /\ Len(transcript') = Len(transcript) + 1 /\ Len(transcript) \in Nat
        /\ transcript'[Len(transcript) + 1] = e
        /\ \A i \in 1..Len(transcript) : transcript'[i] = transcript[i]
    BY AppendFacts DEF IInv, TypeOK
  <1> QED
    BY <1>1 DEF LatestInv, Indices, PlanAt

LEMMA NextLatestInv == IInv /\ DialogueInv /\ LatestInv /\ [Next]_vars => LatestInv'
  <1> SUFFICES ASSUME IInv, DialogueInv, LatestInv, [Next]_vars PROVE LatestInv'
    OBVIOUS
  <1>1. ASSUME UNCHANGED <<transcript, plan, result>> PROVE LatestInv'
    BY <1>1 DEF LatestInv, Indices, PlanAt
  <1>2. CASE \/ ReceiveRequest \/ AnnouncePhase \/ StartAttempt \/ WaitTimesOut
             \/ AgentTimesOut \/ AgentRaises
    <2>1. UNCHANGED <<transcript, plan, result>>
      BY <1>2 DEF ReceiveRequest, AnnouncePhase, StartAttempt, WaitTimesOut,
          AgentTimesOut, AgentRaises, artefacts, report
    <2> QED
      BY <1>1, <2>1
  <1>3. ASSUME NEW c \in Categories, RejectReply(c) PROVE LatestInv'
    <2>1. result' = None /\ plan' = plan
      BY <1>3 DEF RejectReply, artefacts, report, DialogueInv
    <2> QED
      BY <1>3, <2>1, EntryType, MessageStep DEF RejectReply, Entry, IInv
  <1>4. ASSUME NEW p \in Plans, AcceptPlan(p) PROVE LatestInv'
    <2>1. result' = None /\ (SinkFaults = {} => plan' = p) /\ phase # "review"
      BY <1>4 DEF AcceptPlan, KeepPlan, SinkFault, report, DialogueInv
    <2> QED
      BY <1>4, <2>1, EntryType, MessageStep DEF AcceptPlan, Entry, IInv
  <1>5. ASSUME NEW r \in Reviews, AcceptReview(r) PROVE LatestInv'
    <2>1. result' = None /\ plan' = plan /\ phase = "review"
      BY <1>5 DEF AcceptReview, report, DialogueInv
    <2> QED
      BY <1>5, <2>1, EntryType, MessageStep DEF AcceptReview, Entry, IInv
  <1>6. CASE Finish \/ ReportTimeout \/ ReportFailure
    BY <1>6
    DEF Finish, ReportTimeout, ReportFailure, Report, BuildResult, artefacts, IInv, LatestInv, Indices, PlanAt
  <1>7. CASE DeadlinePasses \/ Terminated \/ UNCHANGED vars
    <2>1. UNCHANGED <<transcript, plan, result>>
      BY <1>7 DEF DeadlinePasses, Terminated, vars, artefacts, report
    <2> QED
      BY <1>1, <2>1
  <1> QED
    BY <1>2, <1>3, <1>4, <1>5, <1>6, <1>7 DEF Next, OwnStep, AgentStep

\* Unless the sink fails, a result has the latest plan that was accepted,
\* whatever ended the run.
THEOREM LatestPlan == Spec => [](SinkFaults = {} => FinalPlanIsTheLatest)
  <1>1. Init => IInv /\ DialogueInv /\ LatestInv
    BY InitIInv, InitDialogue DEF Init, LatestInv, Indices
  <1>2. (IInv /\ DialogueInv /\ LatestInv) /\ [Next]_vars => (IInv /\ DialogueInv /\ LatestInv)'
    BY NextIInv, NextDialogue, NextLatestInv
  <1>3. LatestInv => (SinkFaults = {} => FinalPlanIsTheLatest)
    BY DEF LatestInv, FinalPlanIsTheLatest
  <1> QED
    BY <1>1, <1>2, <1>3, PTL DEF Spec

-----------------------------------------------------------------------------
(* The revision that nobody reviewed. *)

\* While agents are asked, the plan's revision counts the rounds; a plan ahead
\* of the rounds answers the review at hand.
RevisionInv ==
    /\ phase = "initial_plan" => roundsCompleted = 0 /\ review = None
    /\ Active /\ phase = "review" => plan.revision = round /\ roundsCompleted = round - 1
    /\ Active /\ phase = "revision" => plan.revision = round /\ roundsCompleted = round
    /\ plan # None /\ review # None /\ plan.revision > roundsCompleted => Answers(review, plan)
    /\ RevisedPlanResolvesEverything

\* resolve_review_changes finds every change of an answered review implemented.
LEMMA AnsweredResolutions ==
    ASSUME NEW r \in Reviews, NEW p, Answers(r, p)
    PROVE  \A i \in 1..Len(Resolutions(r, p)) : Resolutions(r, p)[i] = "implemented"
  <1>1. Len(r.changes) \in Nat
    BY ReviewShape
  <1>2. Len(Resolutions(r, p)) = Len(r.changes)
    BY <1>1 DEF Resolutions
  <1> QED
    BY <1>2 DEF Resolutions, Answers

\* What _build_result returns has the property.
LEMMA BuiltResult ==
    ASSUME IInv, RevisionInv, NEW s, NEW c, result' = BuildResult(s, c)
    PROVE  RevisedPlanResolvesEverything'
  <1> SUFFICES ASSUME plan # None, review # None, plan.revision > roundsCompleted
               PROVE  \A i \in 1..Len(result'.resolutions) :
                          result'.resolutions[i] = "implemented"
    BY DEF RevisedPlanResolvesEverything, BuildResult
  <1>1. review \in Reviews /\ Answers(review, plan)
    BY DEF IInv, TypeOK, RevisionInv
  <1>2. result'.resolutions = Resolutions(review, plan)
    BY DEF BuildResult
  <1> QED
    BY <1>1, <1>2, AnsweredResolutions

LEMMA NextRevisionInv ==
    IInv /\ DialogueInv /\ RevisionInv /\ [Next]_vars => RevisionInv'
  <1> SUFFICES ASSUME IInv, DialogueInv, RevisionInv, [Next]_vars PROVE RevisionInv'
    OBVIOUS
  <1>1. ASSUME UNCHANGED <<phase, round, artefacts, result>>,
               Active' => Active \/ phase = "initial_plan"
        PROVE  RevisionInv'
    BY <1>1 DEF RevisionInv, artefacts, RevisedPlanResolvesEverything, Answers, Implements
  <1>2. CASE \/ ReceiveRequest \/ AnnouncePhase \/ StartAttempt \/ WaitTimesOut
             \/ AgentTimesOut \/ AgentRaises
    BY <1>1, <1>2 DEF ReceiveRequest, AnnouncePhase, StartAttempt, WaitTimesOut,
        AgentTimesOut, AgentRaises, SinkFault, Active, position, report, IInv, PhaseInv
  <1>3. ASSUME NEW c \in Categories, RejectReply(c) PROVE RevisionInv'
    BY <1>1, <1>3 DEF RejectReply, Active, report
  <1>4. ASSUME NEW p \in Plans, AcceptPlan(p) PROVE RevisionInv'
    <2>1. /\ result = None /\ UNCHANGED <<result, review, roundsCompleted>> /\ Active
      BY <1>4 DEF AcceptPlan, Active, DialogueInv, report
    <2>2. CASE SinkFault("failing") /\ UNCHANGED <<plan, planHashes, phase, round>>
      BY <1>1, <2>1, <2>2 DEF artefacts
    <2>3. CASE KeepPlan(p)
      <3>1. \/ /\ phase = "initial_plan" /\ round = 0 /\ p.revision = 1
               /\ roundsCompleted = 0 /\ review = None
            \/ /\ p.revision = plan.revision + 1 /\ Answers(review, p)
               /\ plan.revision = round /\ roundsCompleted = round
        BY <1>4, <2>1
        DEF AcceptPlan, ValidPlan, ValidTransition, Answers, RevisionInv, IInv, PhaseInv
      <3>2. plan' = p /\ phase' = "review" /\ round' = round + 1
        BY <2>3 DEF KeepPlan
      <3>3. round \in Nat
        BY DEF IInv, TypeOK
      <3>4. plan'.revision = round' /\ roundsCompleted' = round' - 1
        BY <2>1, <3>1, <3>2, <3>3
      <3>5. review' # None => Answers(review, plan)'
        BY <2>1, <3>1, <3>2 DEF Answers, Implements
      <3> QED
        BY <2>1, <3>2, <3>4, <3>5 DEF RevisionInv, RevisedPlanResolvesEverything
    <2> QED
      BY <1>4, <2>2, <2>3 DEF AcceptPlan
  <1>5. ASSUME NEW r \in Reviews, AcceptReview(r) PROVE RevisionInv'
    <2>1. /\ result = None /\ UNCHANGED <<result, plan, round>> /\ Active
          /\ phase = "review" /\ plan # None /\ plan.revision = round
      BY <1>5 DEF AcceptReview, Active, DialogueInv, report, RevisionInv, IInv, PhaseInv
    <2>2. CASE SinkFault("failing")
               /\ UNCHANGED <<review, roundsCompleted, reviewHashes, phase, outcome>>
      BY <1>1, <2>1, <2>2 DEF artefacts
    <2>3. CASE KeepReview(r)
      <3>1. roundsCompleted' = round /\ phase' \in {"review", "revision"}
            /\ (Active' => phase' = "revision")
        BY <2>1, <2>3 DEF KeepReview, Conclude, Active
      <3>2. round \in Nat
        BY DEF IInv, TypeOK
      <3> QED
        BY <2>1, <3>1, <3>2 DEF RevisionInv, RevisedPlanResolvesEverything
    <2> QED
      BY <1>5, <2>2, <2>3 DEF AcceptReview
  <1>6. CASE Finish \/ ReportTimeout \/ ReportFailure
    <2>1. /\ UNCHANGED <<phase, round, plan, review, roundsCompleted>> /\ ~Active'
          /\ result' = result \/ \E s, c : result' = BuildResult(s, c)
      BY <1>6 DEF Finish, ReportTimeout, ReportFailure, Report, SinkFault, Active,
          position, artefacts
    <2>2. RevisedPlanResolvesEverything'
      BY <2>1, BuiltResult DEF RevisionInv, RevisedPlanResolvesEverything
    <2> QED
      BY <2>1, <2>2 DEF RevisionInv, Answers, Implements
  <1>7. CASE DeadlinePasses \/ Terminated \/ UNCHANGED vars
    BY <1>1, <1>7 DEF DeadlinePasses, Terminated, vars, Active, position, report
  <1> QED
    BY <1>2, <1>3, <1>4, <1>5, <1>6, <1>7 DEF Next, OwnStep, AgentStep

\* A run that stops between a revision and its review reports every change of
\* the review before it as implemented.
THEOREM RevisionResolvesItsReview == Spec => []RevisedPlanResolvesEverything
  <1>1. Init => IInv /\ DialogueInv /\ RevisionInv
    BY InitIInv, InitDialogue DEF Init, RevisionInv, RevisedPlanResolvesEverything, Active
  <1>2. (IInv /\ DialogueInv /\ RevisionInv) /\ [Next]_vars
            => (IInv /\ DialogueInv /\ RevisionInv)'
    BY NextIInv, NextDialogue, NextRevisionInv
  <1>3. RevisionInv => RevisedPlanResolvesEverything
    BY DEF RevisionInv
  <1> QED
    BY <1>1, <1>2, <1>3, PTL DEF Spec

-----------------------------------------------------------------------------
(* The shared trace: attempts at one position. *)

\* Where the dialogue stands, and how positions follow each other in a run.
Here == <<phase, round>>
Rank(k) == 2 * k[2] + (IF k[1] = "review" THEN 0 ELSE 1)

\* Of the messages of one position only the last is valid, they lie in a row,
\* and after an invalid one the dialogue stays where it is.
RowInv ==
    /\ \A i \in Indices : Attempt(i) <= MaxParseRetries
    /\ \A i, j \in Indices : i < j /\ Key(i) = Key(j) =>
        /\ transcript[i].status = "invalid"
        /\ \A k \in i..j : Key(k) = Key(i)
    /\ \A i \in Indices : i < Len(transcript) /\ transcript[i].status = "invalid"
        => Key(i + 1) = Key(i)

\* The last messages, as many as the attempts counted, are of this position and
\* invalid; all others are of earlier positions.
AttemptInv ==
    /\ Active => \A i \in Indices : Rank(Key(i)) <= Rank(Here)
    /\ pc = "announce" => ~EndsInvalid /\ \A i \in Indices : Rank(Key(i)) < Rank(Here)
    /\ pc \in {"attempt", "waiting"} =>
        /\ attempt <= Len(transcript)
        /\ attempt = 0 => ~EndsInvalid
        /\ \A i \in Indices :
            /\ i > Len(transcript) - attempt => Key(i) = Here /\ transcript[i].status = "invalid"
            /\ i <= Len(transcript) - attempt => Key(i) # Here

\* Rounds are natural numbers, and so are ranks.
LEMMA RankType ==
    ASSUME IInv
    PROVE  Rank(Here) \in Nat /\ \A i \in Indices : Rank(Key(i)) \in Nat
  <1>1. \A i \in Indices : transcript[i].round \in Nat
    BY DEF IInv, TypeOK, Indices, Entries
  <1>2. round \in Nat
    BY DEF IInv, TypeOK
  <1> QED
    BY <1>1, <1>2 DEF Rank, Here, Key

\* A message more at this position: it is one attempt after those counted.
LEMMA RowStep ==
    ASSUME IInv, RowInv, AttemptInv, pc = "waiting",
           NEW e \in Entries, transcript' = Append(transcript, e),
           <<e.phase, e.round>> = Here
    PROVE  RowInv'
  <1> PICK n : n = Len(transcript)
    OBVIOUS
  <1>1. /\ n \in Nat /\ Len(transcript') = n + 1
        /\ transcript'[n + 1] = e
        /\ \A i \in 1..n : transcript'[i] = transcript[i]
    BY AppendFacts DEF IInv, TypeOK
  <1>2. Key(n + 1)' = Here /\ \A i \in 1..n : Key(i)' = Key(i)
    BY <1>1 DEF Key
  <1>3. attempt \in 0..n /\ attempt \in 0..MaxParseRetries /\ MaxParseRetries \in Nat
    BY BoundsAssumption DEF IInv, TypeOK, AttemptInv
  <1>4. /\ \A i \in (n - attempt + 1)..n : Key(i) = Here /\ transcript[i].status = "invalid"
        /\ \A i \in 1..n : Key(i) = Here => i \in (n - attempt + 1)..n
    BY <1>1, <1>3 DEF AttemptInv, Indices
  <1>5. Attempt(n + 1)' = attempt
    <2>1. {k \in 1..n : Key(k)' = Here} = (n - attempt + 1)..n
      BY <1>1, <1>2, <1>3, <1>4
    <2>2. Cardinality((n - attempt + 1)..n) = attempt
      BY <1>1, <1>3, FS_Interval
    <2>3. {k \in 1..((n + 1) - 1) : Key(k)' = Key(n + 1)'} = (n - attempt + 1)..n
      BY <1>1, <1>2, <2>1
    <2> QED
      BY <2>2, <2>3 DEF Attempt
  <1>6. \A i \in 1..n : Attempt(i)' = Attempt(i)
    <2> SUFFICES ASSUME NEW i \in 1..n PROVE Attempt(i)' = Attempt(i)
      OBVIOUS
    <2>1. {k \in 1..(i - 1) : Key(k)' = Key(i)'} = {k \in 1..(i - 1) : Key(k) = Key(i)}
      BY <1>1, <1>2
    <2> QED
      BY <2>1 DEF Attempt
  <1>7. \A i \in 1..(n + 1) : Attempt(i)' <= MaxParseRetries
    BY <1>1, <1>3, <1>5, <1>6 DEF RowInv, Indices
  <1>8. ASSUME NEW i \in 1..(n + 1), NEW j \in 1..(n + 1), i < j, Key(i)' = Key(j)'
        PROVE  transcript'[i].status = "invalid" /\ \A k \in i..j : Key(k)' = Key(i)'
    <2>1. CASE j = n + 1
      <3>1. i \in (n - attempt + 1)..n
        BY <1>1, <1>2, <1>4, <1>8, <2>1
      <3> QED
        BY <1>1, <1>2, <1>3, <1>4, <2>1, <3>1
    <2>2. CASE j \in 1..n
      BY <1>1, <1>2, <1>8, <2>2 DEF RowInv, Indices
    <2> QED
      BY <1>1, <2>1, <2>2
  <1>9. ASSUME NEW i \in 1..n, transcript'[i].status = "invalid"
        PROVE  Key(i + 1)' = Key(i)'
    <2>1. CASE i = n
      <3>1. EndsInvalid
        BY <1>1, <1>9, <2>1 DEF EndsInvalid
      <3> QED
        BY <1>1, <1>2, <1>3, <1>4, <2>1, <3>1 DEF AttemptInv
    <2>2. CASE i < n
      BY <1>1, <1>2, <1>9, <2>2 DEF RowInv, Indices
    <2> QED
      BY <1>1, <2>1, <2>2
  <1> QED
    BY <1>1, <1>7, <1>8, <1>9 DEF RowInv, Indices

\* And such a message leaves the attempts counted as they should be: it is
\* invalid and counted, or the dialogue moves on to a later position.
LEMMA PositionStep ==
    ASSUME IInv, AttemptInv, pc = "waiting",
           NEW e \in Entries, transcript' = Append(transcript, e),
           <<e.phase, e.round>> = Here,
           \/ ~Active'
           \/ /\ pc' = "attempt" /\ Here' = Here /\ attempt' = attempt + 1
              /\ e.status = "invalid"
           \/ /\ pc' = "announce" /\ Rank(Here)' = Rank(Here) + 1
              /\ e.status = "valid"
    PROVE  AttemptInv'
  <1> PICK n : n = Len(transcript)
    OBVIOUS
  <1>1. /\ n \in Nat /\ Len(transcript') = n + 1
        /\ transcript'[n + 1] = e
        /\ \A i \in 1..n : transcript'[i] = transcript[i]
    BY AppendFacts DEF IInv, TypeOK
  <1>2. Key(n + 1)' = Here /\ \A i \in 1..n : Key(i)' = Key(i)
    BY <1>1 DEF Key
  <1>3. \A i \in 1..(n + 1) : Rank(Key(i))' \in Nat /\ Rank(Key(i))' <= Rank(Here)
    <2>1. Rank(Key(n + 1))' = Rank(Here) /\ \A i \in 1..n : Rank(Key(i))' = Rank(Key(i))
      BY <1>2 DEF Rank
    <2>2. Rank(Here) \in Nat
      BY RankType
    <2>3. \A i \in 1..n : Rank(Key(i)) \in Nat /\ Rank(Key(i)) <= Rank(Here)
      BY <1>1, RankType DEF AttemptInv, Active, Indices
    <2> QED
      BY <1>1, <2>1, <2>2, <2>3
  <1>4. CASE ~Active'
    BY <1>4 DEF AttemptInv, Active
  <1>5. CASE pc' = "attempt" /\ Here' = Here /\ attempt' = attempt + 1 /\ e.status = "invalid"
    <2>1. attempt \in 0..n
      BY <1>1 DEF IInv, TypeOK, AttemptInv
    <2>2. Rank(Here)' = Rank(Here)
      BY <1>5 DEF Rank
    <2>3. \A i \in 1..(n + 1) :
            /\ i > (n + 1) - (attempt + 1) =>
                Key(i)' = Here /\ transcript'[i].status = "invalid"
            /\ i <= (n + 1) - (attempt + 1) => Key(i)' # Here
      BY <1>1, <1>2, <1>5, <2>1 DEF AttemptInv, Indices
    <2> QED
      BY <1>1, <1>3, <1>5, <2>1, <2>2, <2>3 DEF AttemptInv, Indices
  <1>6. CASE pc' = "announce" /\ Rank(Here)' = Rank(Here) + 1 /\ e.status = "valid"
    <2>1. ~EndsInvalid'
      BY <1>1, <1>6 DEF EndsInvalid
    <2>2. \A i \in 1..(n + 1) : Rank(Key(i))' < Rank(Here)'
      BY <1>1, <1>3, <1>6, RankType
    <2>3. \A i \in 1..(n + 1) : Rank(Key(i))' <= Rank(Here)'
      BY <1>1, <1>3, <1>6, RankType
    <2> QED
      BY <1>1, <1>6, <2>1, <2>2, <2>3 DEF AttemptInv, Indices
  <1> QED
    BY <1>4, <1>5, <1>6

LEMMA NextAttemptInv ==
    IInv /\ DialogueInv /\ RowInv /\ AttemptInv /\ [Next]_vars => (RowInv /\ AttemptInv)'
  <1> SUFFICES ASSUME IInv, DialogueInv, RowInv, AttemptInv, [Next]_vars
               PROVE  (RowInv /\ AttemptInv)'
    OBVIOUS
  <1>1. ASSUME UNCHANGED transcript PROVE RowInv'
    BY <1>1 DEF RowInv, Indices, Key, Attempt
  <1>2. ASSUME UNCHANGED <<transcript, phase, round>>,
               \/ ~Active'
               \/ UNCHANGED <<pc, attempt>>
               \/ pc = "attempt" /\ pc' = "waiting" /\ UNCHANGED attempt
               \/ pc = "received" /\ pc' = "announce"
        PROVE  AttemptInv'
    <2>1. CASE ~Active'
      BY <2>1 DEF AttemptInv, Active
    <2>2. CASE pc = "received" /\ pc' = "announce"
      BY <1>2, <2>2 DEF DialogueInv, AttemptInv, Indices, EndsInvalid
    <2>3. CASE UNCHANGED <<pc, attempt>> \/ (pc = "attempt" /\ pc' = "waiting" /\ UNCHANGED attempt)
      BY <1>2, <2>3 DEF AttemptInv, Active, Indices, EndsInvalid, Key, Here, Rank
    <2> QED
      BY <1>2, <2>1, <2>2, <2>3
  <1>3. CASE \/ ReceiveRequest \/ StartAttempt \/ WaitTimesOut
             \/ AgentTimesOut \/ AgentRaises
    BY <1>1, <1>2, <1>3 DEF ReceiveRequest, StartAttempt, WaitTimesOut,
        AgentTimesOut, AgentRaises, Active, position
  <1>4. CASE AnnouncePhase
    <2>1. UNCHANGED <<transcript, phase, round>> /\ attempt' = 0
      BY <1>4 DEF AnnouncePhase
    <2>2. CASE ~Active'
      BY <1>1, <1>2, <2>1, <2>2
    <2>3. CASE pc' = "attempt"
      <3>1. /\ ~EndsInvalid' /\ Len(transcript) \in Nat
            /\ \A i \in Indices : Rank(Key(i)) < Rank(Here)
        BY <1>4, <2>1 DEF AnnouncePhase, AttemptInv, EndsInvalid, IInv, TypeOK
      <3>2. \A i \in Indices : Key(i) # Here /\ Rank(Key(i)) <= Rank(Here)
        BY <3>1, RankType
      <3>3. /\ \A i \in Indices' : Key(i)' # Here' /\ Rank(Key(i))' <= Rank(Here)'
            /\ Len(transcript') \in Nat
        BY <2>1, <3>1, <3>2 DEF Indices, Key, Here, Rank
      <3> QED
        BY <1>1, <2>1, <2>3, <3>1, <3>3 DEF AttemptInv, Indices
    <2> QED
      BY <1>4, <2>2, <2>3 DEF AnnouncePhase, SinkFault, Active
  <1>5. ASSUME NEW c \in Categories, RejectReply(c) PROVE (RowInv /\ AttemptInv)'
    <2>1. /\ pc = "waiting" /\ UNCHANGED <<phase, round>>
          /\ ~Active' \/ (pc' = "attempt" /\ attempt' = attempt + 1)
      BY <1>5 DEF RejectReply, SinkFault, Active
    <2>2. <<Entry("invalid", None, c).phase, Entry("invalid", None, c).round>> = Here
      BY DEF Entry, Here
    <2>3. Here' = Here /\ Entry("invalid", None, c).status = "invalid"
      BY <2>1 DEF Here, Entry
    <2> QED
      BY <1>5, <2>1, <2>2, <2>3, EntryType, RowStep, PositionStep DEF RejectReply, IInv
  <1>6. ASSUME NEW p \in Plans, AcceptPlan(p) PROVE (RowInv /\ AttemptInv)'
    <2>1. ~Active' \/ (pc' = "announce" /\ Rank(Here)' = Rank(Here) + 1)
      BY <1>6 DEF AcceptPlan, KeepPlan, SinkFault, Active, Rank, Here, IInv, TypeOK
    <2>2. /\ <<Entry("valid", p, None).phase, Entry("valid", p, None).round>> = Here
          /\ Entry("valid", p, None).status = "valid" /\ pc = "waiting"
      BY <1>6 DEF AcceptPlan, Entry, Here
    <2> QED
      BY <1>6, <2>1, <2>2, EntryType, RowStep, PositionStep DEF AcceptPlan, IInv
  <1>7. ASSUME NEW r \in Reviews, AcceptReview(r) PROVE (RowInv /\ AttemptInv)'
    <2>1. ~Active' \/ (pc' = "announce" /\ Rank(Here)' = Rank(Here) + 1)
      BY <1>7 DEF AcceptReview, KeepReview, Conclude, SinkFault, Active, Rank, Here, IInv, TypeOK
    <2>2. /\ <<Entry("valid", r, None).phase, Entry("valid", r, None).round>> = Here
          /\ Entry("valid", r, None).status = "valid" /\ pc = "waiting"
      BY <1>7 DEF AcceptReview, Entry, Here
    <2> QED
      BY <1>7, <2>1, <2>2, EntryType, RowStep, PositionStep DEF AcceptReview, IInv
  <1>8. CASE Finish \/ ReportTimeout \/ ReportFailure
    BY <1>1, <1>2, <1>8 DEF Finish, ReportTimeout, ReportFailure, Report, SinkFault,
        Active, position
  <1>9. CASE DeadlinePasses \/ Terminated \/ UNCHANGED vars
    BY <1>1, <1>2, <1>9 DEF DeadlinePasses, Terminated, vars, position
  <1> QED
    BY <1>3, <1>4, <1>5, <1>6, <1>7, <1>8, <1>9 DEF Next, OwnStep, AgentStep

\* The trace of any run can be built: the attempts at a position follow each
\* other, are retries but for the last, and are numbered below the retry limit.
THEOREM AttemptsInARow == Spec => []AttemptsAreInARow
  <1>1. Init => IInv /\ DialogueInv /\ RowInv /\ AttemptInv
    BY InitIInv, InitDialogue DEF Init, RowInv, AttemptInv, Active, Indices
  <1>2. (IInv /\ DialogueInv /\ RowInv /\ AttemptInv) /\ [Next]_vars
            => (IInv /\ DialogueInv /\ RowInv /\ AttemptInv)'
    BY NextIInv, NextDialogue, NextAttemptInv
  <1>3. RowInv => AttemptsAreInARow
    <2> SUFFICES ASSUME RowInv, NEW i \in Indices
                 PROVE  /\ MessageEvent(i).attempt <= MaxParseRetries
                        /\ \A j \in Indices : i < j /\ Key(i) = Key(j) =>
                            /\ \A k \in i..j : Key(k) = Key(i)
                            /\ MessageEvent(i).decision = "retry"
      BY DEF AttemptsAreInARow
    <2>1. MessageEvent(i).attempt <= MaxParseRetries
      BY DEF MessageEvent, RowInv
    <2>2. ASSUME NEW j \in Indices, i < j, Key(i) = Key(j)
          PROVE  (\A k \in i..j : Key(k) = Key(i)) /\ MessageEvent(i).decision = "retry"
      <3>1. transcript[i].status = "invalid" /\ \A k \in i..j : Key(k) = Key(i)
        BY <2>2 DEF RowInv
      <3>2. HasLaterAttempt(i)
        BY <2>2 DEF HasLaterAttempt, Indices
      <3> QED
        BY <3>1, <3>2 DEF MessageEvent, RetryDecision
    <2> QED
      BY <2>1, <2>2
  <1> QED
    BY <1>1, <1>2, <1>3, PTL DEF Spec

-----------------------------------------------------------------------------
(* The shared trace: the end of the run. *)

\* A verdict rests on the last message, and nothing else is a verdict.
Explained(o) ==
    /\ o.reason = "approved" =>
        /\ transcript # <<>> /\ ReviewAt(Len(transcript))
        /\ transcript[Len(transcript)].parsed.decision = "approved"
    /\ o.reason \in {"max_review_rounds", "no_progress"} =>
        /\ transcript # <<>> /\ ReviewAt(Len(transcript))
        /\ transcript[Len(transcript)].parsed.decision = "revision_required"
    /\ o.status \in {"completed", "degraded"} =>
        o.reason \in {"approved", "max_review_rounds", "no_progress"}

\* No agent is asked without a request, and every result is explained.
EndInv ==
    /\ ~request => transcript = <<>>
    /\ pc = "received" => ~request
    /\ Active \/ pc \in {"finishing", "timing_out"} => request
    /\ pc = "finishing" => Explained(outcome)
    /\ result # None => Explained(result) /\ result.request = request

LEMMA NextEndInv == IInv /\ DialogueInv /\ EndInv /\ [Next]_vars => EndInv'
  <1> SUFFICES ASSUME IInv, DialogueInv, EndInv, [Next]_vars PROVE EndInv'
    OBVIOUS
  <1>1. ASSUME UNCHANGED <<transcript, request, outcome, result>>,
               Active' => Active, pc' = "finishing" => pc = "finishing",
               pc' = "timing_out" => Active \/ pc = "timing_out",
               pc' = "received" => pc = "received"
        PROVE  EndInv'
    BY <1>1 DEF EndInv, Explained, ReviewAt
  <1>2. CASE ReceiveRequest
    BY <1>2 DEF ReceiveRequest, EndInv, DialogueInv, Active, report
  <1>3. CASE \/ AnnouncePhase \/ StartAttempt \/ WaitTimesOut
             \/ AgentTimesOut \/ AgentRaises
    BY <1>1, <1>3 DEF AnnouncePhase, StartAttempt, WaitTimesOut,
        AgentTimesOut, AgentRaises, SinkFault, Active, context, report
  <1>4. ASSUME pc = "waiting", UNCHANGED <<request, result>>,
               pc' \notin {"received", "finishing"}
        PROVE  EndInv'
    BY <1>4 DEF EndInv, DialogueInv, Active
  <1>5. ASSUME NEW c \in Categories, RejectReply(c) PROVE EndInv'
    BY <1>4, <1>5 DEF RejectReply, SinkFault, context, report
  <1>6. ASSUME NEW p \in Plans, AcceptPlan(p) PROVE EndInv'
    BY <1>4, <1>6 DEF AcceptPlan, KeepPlan, SinkFault, context, report
  <1>7. ASSUME NEW r \in Reviews, AcceptReview(r) PROVE EndInv'
    <2>1. pc = "waiting" /\ UNCHANGED <<request, result>> /\ pc' # "received"
      BY <1>7 DEF AcceptReview, KeepReview, Conclude, SinkFault, context, report
    <2>2. CASE pc' = "finishing"
      <3>1. /\ Len(transcript') \in Nat \ {0} /\ transcript' # <<>>
            /\ transcript'[Len(transcript')] = Entry("valid", r, None)
        BY <1>7, EntryType, AppendFacts DEF AcceptReview, IInv, TypeOK
      <3>2. ReviewAt(Len(transcript))' /\ transcript'[Len(transcript')].parsed = r
        BY <1>7, <3>1 DEF AcceptReview, Entry, ReviewAt
      <3>3. \/ /\ r.decision = "revision_required" /\ outcome'.status = "degraded"
               /\ outcome'.reason \in {"no_progress", "max_review_rounds"}
            \/ /\ r.decision = "approved" /\ outcome'.status = "completed"
               /\ outcome'.reason = "approved"
        BY <1>7, <2>2 DEF AcceptReview, KeepReview, Conclude, Repeats, SinkFault
      <3>4. Explained(outcome)'
        BY <3>1, <3>2, <3>3 DEF Explained
      <3> QED
        BY <2>1, <2>2, <3>4 DEF EndInv, DialogueInv, Active
    <2> QED
      BY <1>4, <2>1, <2>2
  <1>8. ASSUME NEW s, NEW c, NEW t, NEW h \in {"failing", "raised"}, Report(t, s, c, h),
               UNCHANGED <<artefacts, transcript, outcome, context>>,
               Explained([status |-> s, reason |-> c]), h = "failing" => request
        PROVE  EndInv'
    <2>1. /\ pc' \in {"returned", "timing_out", "failing", "raised"}
          /\ pc' = "timing_out" => h = "failing"
          /\ result' = result \/ result' = BuildResult(s, c)
      BY <1>8 DEF Report, SinkFault
    <2>2. Explained(BuildResult(s, c))
      BY <1>8 DEF Explained, BuildResult
    <2>3. BuildResult(s, c).request = request
      BY DEF BuildResult
    <2> QED
      BY <1>8, <2>1, <2>2, <2>3 DEF EndInv, Active, Explained, ReviewAt, context
  <1>9. CASE Finish
    <2>1. Explained([status |-> outcome.status, reason |-> outcome.reason]) /\ request
      BY <1>9 DEF Finish, EndInv, Explained
    <2> QED
      BY <1>8, <1>9, <2>1 DEF Finish
  <1>10. CASE ReportTimeout \/ ReportFailure
    <2>1. /\ Explained([status |-> "timeout", reason |-> "timeout"])
          /\ Explained([status |-> "failed", reason |-> "error"])
      BY DEF Explained
    <2> QED
      BY <1>8, <1>10, <2>1 DEF ReportTimeout, ReportFailure
  <1>11. CASE DeadlinePasses \/ Terminated \/ UNCHANGED vars
    BY <1>1, <1>11 DEF DeadlinePasses, Terminated, vars, Active, context, report
  <1> QED
    BY <1>2, <1>3, <1>5, <1>6, <1>7, <1>9, <1>10, <1>11 DEF Next, OwnStep, AgentStep

LEMMA TraceInv == Spec => [](IInv /\ RowInv /\ EndInv)
  <1>1. Init => IInv /\ DialogueInv /\ RowInv /\ AttemptInv /\ EndInv
    BY InitIInv, InitDialogue DEF Init, RowInv, AttemptInv, EndInv, Active, Indices
  <1>2. (IInv /\ DialogueInv /\ RowInv /\ AttemptInv /\ EndInv) /\ [Next]_vars
            => (IInv /\ DialogueInv /\ RowInv /\ AttemptInv /\ EndInv)'
    BY NextIInv, NextDialogue, NextAttemptInv, NextEndInv
  <1> QED
    BY <1>1, <1>2, PTL DEF Spec

\* A message recorded as given up is the last one, of a run without a verdict.
THEOREM GivenUp == Spec => []GivenUpEndsTheRun
  <1>1. IInv /\ RowInv /\ EndInv => GivenUpEndsTheRun
    <2> SUFFICES ASSUME IInv, RowInv, EndInv, result # None, NEW i \in Indices,
                        MessageEvent(i).decision = "exhausted"
                 PROVE  i = Len(transcript) /\ result.status \in {"failed", "timeout"}
      BY DEF GivenUpEndsTheRun
    <2>1. transcript[i].status = "invalid" /\ ~HasLaterAttempt(i)
      BY DEF MessageEvent, RetryDecision, IInv, TypeOK, Indices, Entries
    <2>2. Len(transcript) \in Nat
      BY DEF IInv, TypeOK
    <2>3. i = Len(transcript)
      BY <2>1, <2>2 DEF RowInv, HasLaterAttempt, Indices
    <2>4. result.status \notin {"completed", "degraded"}
      BY <2>1, <2>3 DEF EndInv, Explained, ReviewAt
    <2>5. result.status \in Statuses
      BY DEF IInv, TypeOK, Results
    <2> QED
      BY <2>3, <2>4, <2>5 DEF Statuses
  <1> QED
    BY <1>1, TraceInv, PTL

\* The category of the termination event is explained by the last message.
THEOREM EndExplained == Spec => []LastMessageExplainsTheEnd
  <1>1. IInv /\ EndInv => LastMessageExplainsTheEnd
    <2> SUFFICES ASSUME IInv, EndInv, result # None PROVE LastMessageExplainsTheEnd
      BY DEF LastMessageExplainsTheEnd
    <2> DEFINE category == TerminationEvent(result).category
               last == transcript[Len(transcript)]
    <2>1. category = TerminalError(result)
      BY DEF TerminationEvent
    <2>2. Explained(result) /\ result.request = request /\ result.reason \in Reasons
      BY DEF EndInv, IInv, TypeOK, Results
    <2>3. CASE result.reason = "approved"
      <3>1. category = None /\ ReviewAt(Len(transcript)) /\ last.parsed.decision = "approved"
        BY <2>1, <2>2, <2>3 DEF TerminalError, TerminalErrors, Explained
      <3> QED
        BY <3>1, NoneIsNoCategory DEF LastMessageExplainsTheEnd
    <2>4. CASE result.reason \in {"max_review_rounds", "no_progress"}
      <3>1. /\ category = "state" /\ ReviewAt(Len(transcript))
            /\ last.parsed.decision = "revision_required"
        BY <2>1, <2>2, <2>4 DEF TerminalError, TerminalErrors, Explained
      <3> QED
        BY <3>1, NoneIsNoCategory DEF LastMessageExplainsTheEnd
    <2>5. CASE result.reason = "timeout"
      <3>1. category = "timeout"
        BY <2>1, <2>5 DEF TerminalError, TerminalErrors
      <3> QED
        BY <3>1, NoneIsNoCategory DEF LastMessageExplainsTheEnd
    <2>6. CASE result.reason = "error" /\ ~request
      <3>1. category = "input" /\ transcript = <<>>
        BY <2>1, <2>2, <2>6 DEF TerminalError, EndInv
      <3> QED
        BY <3>1, NoneIsNoCategory DEF LastMessageExplainsTheEnd
    <2>7. CASE result.reason = "error" /\ request /\ EndsInvalid
      <3>1. category = last.category
        BY <2>1, <2>2, <2>7 DEF TerminalError
      <3>2. last \in Entries /\ last.status = "invalid"
        BY <2>7 DEF EndsInvalid, IInv, TypeOK
      <3>3. category \in {"parse", "schema", "state"}
        BY <3>1, <3>2, CategoryAssumption DEF Entries
      <3> QED
        BY <2>7, <3>1, <3>3, NoneIsNoCategory DEF LastMessageExplainsTheEnd
    <2>8. CASE result.reason = "error" /\ request /\ ~EndsInvalid
      <3>1. category = "model"
        BY <2>1, <2>2, <2>8 DEF TerminalError, TerminalErrors
      <3> QED
        BY <2>8, <3>1, NoneIsNoCategory DEF LastMessageExplainsTheEnd
    <2> QED
      BY <2>2, <2>3, <2>4, <2>5, <2>6, <2>7, <2>8 DEF Reasons
  <1> QED
    BY <1>1, TraceInv, PTL

-----------------------------------------------------------------------------
(* The coroutine implements the collaboration. *)

\* Without sink faults the loop has chosen no outcome before it ends.
OpenInv == SinkFaults = {} /\ pc \notin {"finishing", "returned"} => outcome = None

LEMMA NextOpenInv == IInv /\ OpenInv /\ [Next]_vars => OpenInv'
  <1> SUFFICES ASSUME IInv, OpenInv, [Next]_vars, SinkFaults = {} PROVE OpenInv'
    BY DEF OpenInv
  <1>1. ASSUME UNCHANGED outcome, pc \in {"finishing", "returned"} => pc' \in {"finishing", "returned"}
        PROVE  OpenInv'
    BY <1>1 DEF OpenInv
  <1>2. CASE \/ ReceiveRequest \/ AnnouncePhase \/ StartAttempt \/ WaitTimesOut
             \/ AgentTimesOut \/ AgentRaises
    BY <1>1, <1>2 DEF ReceiveRequest, AnnouncePhase, StartAttempt, WaitTimesOut,
        AgentTimesOut, AgentRaises
  <1>3. ASSUME NEW c \in Categories, RejectReply(c) PROVE OpenInv'
    BY <1>1, <1>3 DEF RejectReply
  <1>4. ASSUME NEW p \in Plans, AcceptPlan(p) PROVE OpenInv'
    BY <1>1, <1>4 DEF AcceptPlan
  <1>5. ASSUME NEW r \in Reviews, AcceptReview(r) PROVE OpenInv'
    BY <1>1, <1>5 DEF AcceptReview, KeepReview, Conclude, SinkFault, OpenInv
  <1>6. CASE Finish \/ ReportTimeout \/ ReportFailure
    BY <1>1, <1>6 DEF Finish, ReportTimeout, ReportFailure, Report, SinkFault
  <1>7. CASE DeadlinePasses \/ Terminated \/ UNCHANGED vars
    BY <1>1, <1>7 DEF DeadlinePasses, Terminated, vars
  <1> QED
    BY <1>2, <1>3, <1>4, <1>5, <1>6, <1>7 DEF Next, OwnStep, AgentStep

\* Every step is one of the collaboration's, or none.
LEMMA StepRefines ==
    IInv /\ DialogueInv /\ RevisionInv /\ OpenInv /\ SinkFaults = {} /\ [Next]_vars
        => [Promise!Next]_(Promise!vars)
  <1> SUFFICES ASSUME IInv, DialogueInv, RevisionInv, OpenInv, SinkFaults = {}, [Next]_vars
               PROVE  [Promise!Next]_(Promise!vars)
    OBVIOUS
  <1>1. ASSUME UNCHANGED <<artefacts, reviewHashes, outcome, result>>
        PROVE  UNCHANGED Promise!vars
    BY <1>1 DEF Promise!vars, Standing, artefacts
  <1>2. CASE \/ ReceiveRequest \/ AnnouncePhase \/ StartAttempt \/ WaitTimesOut
             \/ AgentTimesOut \/ AgentRaises
    BY <1>1, <1>2 DEF ReceiveRequest, AnnouncePhase, StartAttempt, WaitTimesOut,
        AgentTimesOut, AgentRaises, guards, report
  <1>3. ASSUME NEW c \in Categories, RejectReply(c) PROVE UNCHANGED Promise!vars
    BY <1>1, <1>3 DEF RejectReply, guards, report
  <1>4. ASSUME NEW p \in Plans, AcceptPlan(p) PROVE Promise!Propose(p) \/ Promise!Revise(p)
    <2>1. /\ Active /\ outcome = None /\ outcome' = None /\ result = None /\ result' = None
          /\ plan' = p /\ UNCHANGED <<review, roundsCompleted, reviewHashes>>
      BY <1>4 DEF AcceptPlan, KeepPlan, SinkFault, Active, OpenInv, DialogueInv, report
    <2>2. Standing = "open" /\ Standing' = "open"
      BY <2>1 DEF Standing
    <2>3. p.topology \in AllowedTopologies
      BY <1>4 DEF AcceptPlan, ValidPlan
    <2>4. CASE phase = "initial_plan" /\ p.revision = 1
      BY <2>1, <2>2, <2>3, <2>4 DEF Promise!Propose, IInv, PhaseInv
    <2>5. CASE phase = "revision" /\ ValidTransition(plan, p, review)
      <3>1. plan # None /\ roundsCompleted = plan.revision
        BY <2>1, <2>5 DEF RevisionInv, IInv, PhaseInv
      <3> QED
        BY <2>1, <2>2, <2>5, <3>1 DEF Promise!Revise, ValidTransition
    <2> QED
      BY <1>4, <2>4, <2>5 DEF AcceptPlan, ValidPlan
  <1>5. ASSUME NEW r \in Reviews, AcceptReview(r) PROVE Promise!Assess(r)
    <2>1. /\ Active /\ outcome = None /\ result = None /\ result' = None /\ KeepReview(r)
          /\ UNCHANGED plan /\ phase = "review"
      BY <1>5 DEF AcceptReview, SinkFault, Active, OpenInv, DialogueInv, report
    <2>2. /\ plan # None /\ plan.revision = round /\ roundsCompleted = round - 1
          /\ round \in 1..MaxReviewRounds
      BY <2>1 DEF RevisionInv, IInv, PhaseInv
    <2>3. /\ review' = r /\ roundsCompleted' = round
          /\ reviewHashes' = reviewHashes \cup {r.changes}
      BY <2>1 DEF KeepReview
    <2>4. Standing = "open"
      BY <2>1 DEF Standing
    <2>5. outcome' # None => Standing' = outcome'.status
      BY <2>1 DEF Standing
    <2>6. ASSUME NEW s \in Statuses, NEW c \in Reasons, Conclude(s, c) PROVE Standing' = s
      <3>1. outcome' \in Outcomes /\ outcome'.status = s
        BY <2>6 DEF Conclude, Outcomes
      <3> QED
        BY <2>5, <3>1, NoneAssumption
    <2>7. roundsCompleted + 1 = plan.revision /\ roundsCompleted' = roundsCompleted + 1
      BY <2>2, <2>3
    <2>8. CASE Repeats(r) /\ Conclude("degraded", "no_progress")
      <3>1. Standing' = "degraded"
        BY <2>6, <2>8 DEF Statuses, Reasons
      <3> QED
        BY <2>1, <2>2, <2>3, <2>4, <2>7, <2>8, <3>1 DEF Promise!Assess, Repeats
    <2>9. CASE r.decision = "approved" /\ Conclude("completed", "approved")
      <3>1. Standing' = "completed"
        BY <2>6, <2>9 DEF Statuses, Reasons
      <3> QED
        BY <2>1, <2>2, <2>3, <2>4, <2>7, <2>9, <3>1 DEF Promise!Assess
    <2>10. CASE /\ r.decision = "revision_required" /\ ~Repeats(r)
                /\ RevisionLeft /\ UNCHANGED outcome
      <3>1. Standing' = "open" /\ roundsCompleted' < MaxReviewRounds
        BY <2>1, <2>3, <2>10 DEF Standing, RevisionLeft
      <3> QED
        BY <2>1, <2>2, <2>3, <2>4, <2>7, <2>10, <3>1 DEF Promise!Assess, Repeats
    <2>11. CASE /\ r.decision = "revision_required" /\ ~Repeats(r)
                /\ ~RevisionLeft /\ Conclude("degraded", "max_review_rounds")
      <3>1. Standing' = "degraded"
        BY <2>6, <2>11 DEF Statuses, Reasons
      <3>2. roundsCompleted' = MaxReviewRounds
        BY <2>2, <2>3, <2>11, BoundsAssumption DEF RevisionLeft
      <3> QED
        BY <2>1, <2>2, <2>3, <2>4, <2>7, <2>11, <3>1, <3>2 DEF Promise!Assess
    <2> QED
      BY <2>1, <2>8, <2>9, <2>10, <2>11 DEF KeepReview
  <1>6. CASE Finish
    <2>1. result = None /\ outcome # None /\ UNCHANGED <<artefacts, reviewHashes, outcome>>
      BY <1>6 DEF Finish, DialogueInv, IInv, PhaseInv, guards
    <2>2. result'.status = outcome.status
      BY <1>6 DEF Finish, Report, BuildResult, SinkFault
    <2> QED
      BY <2>1, <2>2 DEF Promise!vars, Standing, artefacts
  <1>7. CASE ReportTimeout \/ ReportFailure
    <2>1. /\ result = None /\ outcome = None
          /\ UNCHANGED <<artefacts, reviewHashes, outcome>>
      BY <1>7 DEF ReportTimeout, ReportFailure, DialogueInv, OpenInv, guards
    <2>2. result'.status \in {"timeout", "failed"}
      BY <1>7 DEF ReportTimeout, ReportFailure, Report, BuildResult, SinkFault
    <2>3. Standing = "open" /\ (Standing' = "open" \/ Standing' \in {"timeout", "failed"})
      BY <2>1, <2>2 DEF Standing
    <2>4. UNCHANGED <<plan, review, roundsCompleted, reviewHashes>>
      BY <2>1 DEF artefacts
    <2>5. CASE Standing' = "open"
      BY <2>3, <2>4, <2>5 DEF Promise!vars
    <2>6. CASE Standing' \in {"timeout", "failed"}
      BY <2>3, <2>4, <2>6 DEF Promise!Next, Promise!GiveUp
    <2> QED
      BY <2>3, <2>5, <2>6
  <1>8. CASE DeadlinePasses \/ Terminated \/ UNCHANGED vars
    BY <1>1, <1>8 DEF DeadlinePasses, Terminated, vars, guards, report
  <1> QED
    BY <1>2, <1>3, <1>4, <1>5, <1>6, <1>7, <1>8 DEF Next, OwnStep, AgentStep, Promise!Next

\* Unless the sink fails, every run is a collaboration: drafts and verdicts
\* alternate, and the last verdict settles how it ends.
THEOREM Refines ==
    SinkFaults = {} /\ Spec => Promise!Init /\ [][Promise!Next]_(Promise!vars)
  <1>1. Init => IInv /\ DialogueInv /\ RevisionInv /\ OpenInv /\ Promise!Init
    BY InitIInv, InitDialogue
    DEF Init, RevisionInv, RevisedPlanResolvesEverything, Active, OpenInv, Promise!Init, Standing
  <1>2. (IInv /\ DialogueInv /\ RevisionInv /\ OpenInv) /\ [Next]_vars
            => (IInv /\ DialogueInv /\ RevisionInv /\ OpenInv)'
    BY NextIInv, NextDialogue, NextRevisionInv, NextOpenInv
  <1>3. CASE SinkFaults = {}
    <2>1. IInv /\ DialogueInv /\ RevisionInv /\ OpenInv /\ [Next]_vars
            => [Promise!Next]_(Promise!vars)
      BY <1>3, StepRefines
    <2> QED
      BY <1>1, <1>2, <2>1, PTL DEF Spec
  <1> QED
    BY <1>3

-----------------------------------------------------------------------------
(* The catalogue of state transitions. *)

\* Why the loop ended with outcome o.
Settled(o) ==
    \/ o.status = "completed" /\ review = Approval
    \/ o.status = "degraded" /\ LimitIsReached
    \/ o.status = "degraded" /\ round > 1 /\ DemandIsRepeated

\* Every list of demands observed was sent by a review of the transcript, none
\* before the first review, and a verdict rests on review and transcript.
VerdictInv ==
    /\ \A d \in reviewHashes : \E i \in Indices :
            ReviewAt(i) /\ transcript[i].parsed.changes = d
    /\ phase = "initial_plan" => reviewHashes = {}
    /\ Active /\ phase = "review" /\ reviewHashes # {} => round > 1
    /\ pc = "finishing" => Settled(outcome)

\* A step that leaves dialogue and verdict alone keeps the invariant.
LEMMA QuietVerdict ==
    ASSUME VerdictInv, UNCHANGED <<phase, round, reviewHashes, transcript>>,
           Active' => Active \/ phase = "initial_plan",
           pc' = "finishing" => pc = "finishing" /\ UNCHANGED <<review, outcome>>
    PROVE  VerdictInv'
  BY DEF VerdictInv, Settled, LimitIsReached, DemandIsRepeated, Indices, ReviewAt

\* A message more, of which no demands and no verdict are kept.
LEMMA UnheardVerdict ==
    ASSUME IInv, VerdictInv, NEW e \in Entries, transcript' = Append(transcript, e),
           UNCHANGED <<phase, round, reviewHashes>>,
           Active' => Active, pc' # "finishing"
    PROVE  VerdictInv'
  <1>1. /\ Len(transcript') = Len(transcript) + 1 /\ Len(transcript) \in Nat
        /\ \A i \in 1..Len(transcript) : transcript'[i] = transcript[i]
    BY AppendFacts DEF IInv, TypeOK
  <1> QED
    BY <1>1 DEF VerdictInv, Indices, ReviewAt

\* A review that is kept: its demands are in the transcript, and if the loop
\* ends on it the reason is there too.
LEMMA KeepReviewVerdict ==
    ASSUME IInv, VerdictInv, NEW r \in Reviews, AcceptReview(r), KeepReview(r)
    PROVE  VerdictInv'
  <1> PICK n : n = Len(transcript)
    OBVIOUS
  <1>1. /\ n \in Nat /\ Len(transcript') = n + 1
        /\ \A i \in 1..n : transcript'[i] = transcript[i]
        /\ transcript'[n + 1] = Entry("valid", r, None)
    BY EntryType, AppendFacts DEF IInv, TypeOK, AcceptReview
  <1>2. ReviewAt(n + 1)' /\ transcript'[n + 1].parsed = r
    BY <1>1 DEF Entry, AcceptReview, ReviewAt
  <1>3. /\ Active /\ phase = "review" /\ phase' \in {"review", "revision"}
        /\ Active' => phase' = "revision"
        /\ review' = r /\ reviewHashes' = reviewHashes \cup {r.changes} /\ UNCHANGED round
    BY DEF AcceptReview, KeepReview, Conclude, Active
  <1>4. ASSUME NEW d \in reviewHashes
        PROVE  \E i \in 1..n : ReviewAt(i)' /\ transcript'[i].parsed.changes = d
    BY <1>1 DEF VerdictInv, Indices, ReviewAt
  <1>5. \A d \in reviewHashes' : \E i \in 1..(n + 1) :
            ReviewAt(i)' /\ transcript'[i].parsed.changes = d
    BY <1>1, <1>2, <1>3, <1>4
  <1>6. ASSUME pc' = "finishing" PROVE Settled(outcome)'
    <2>1. CASE Repeats(r) /\ outcome'.status = "degraded"
      <3>1. round' > 1
        BY <1>3, <2>1 DEF Repeats, VerdictInv
      <3>2. PICK i \in 1..n : ReviewAt(i)' /\ transcript'[i].parsed.changes = r.changes
        BY <1>4, <2>1 DEF Repeats
      <3>3. DemandIsRepeated'
        BY <1>1, <1>3, <3>2 DEF DemandIsRepeated, Indices
      <3> QED
        BY <2>1, <3>1, <3>3 DEF Settled
    <2>2. CASE r.decision = "approved" /\ outcome'.status = "completed"
      <3>1. r = Approval
        BY <2>2 DEF Reviews, Approval
      <3> QED
        BY <1>3, <2>2, <3>1 DEF Settled
    <2>3. CASE /\ r.decision = "revision_required" /\ ~RevisionLeft
               /\ outcome'.status = "degraded"
      <3>1. round = MaxReviewRounds
        BY <1>3, <2>3, BoundsAssumption DEF RevisionLeft, IInv, PhaseInv
      <3> QED
        BY <1>3, <2>3, <3>1 DEF Settled, LimitIsReached
    <2> QED
      BY <1>6, <2>1, <2>2, <2>3 DEF KeepReview, Conclude
  <1> QED
    BY <1>1, <1>3, <1>5, <1>6 DEF VerdictInv, Indices

LEMMA NextVerdictInv == IInv /\ VerdictInv /\ [Next]_vars => VerdictInv'
  <1> SUFFICES ASSUME IInv, VerdictInv, [Next]_vars PROVE VerdictInv'
    OBVIOUS
  <1>1. CASE \/ ReceiveRequest \/ AnnouncePhase \/ StartAttempt \/ WaitTimesOut
             \/ AgentTimesOut \/ AgentRaises
    BY <1>1, QuietVerdict DEF ReceiveRequest, AnnouncePhase, StartAttempt, WaitTimesOut,
        AgentTimesOut, AgentRaises, SinkFault, Active, position, guards, IInv, PhaseInv
  <1>2. ASSUME NEW c \in Categories, RejectReply(c) PROVE VerdictInv'
    <2>1. Active /\ pc' # "finishing" /\ UNCHANGED <<phase, round, reviewHashes>>
      BY <1>2 DEF RejectReply, SinkFault, Active, guards
    <2> QED
      BY <1>2, <2>1, EntryType, UnheardVerdict DEF RejectReply, IInv
  <1>3. ASSUME NEW p \in Plans, AcceptPlan(p) PROVE VerdictInv'
    <2>1. Active /\ pc' # "finishing" /\ UNCHANGED reviewHashes /\ phase # "review"
      BY <1>3 DEF AcceptPlan, KeepPlan, SinkFault, Active
    <2>2. CASE UNCHANGED <<phase, round>>
      BY <1>3, <2>1, <2>2, EntryType, UnheardVerdict DEF AcceptPlan, IInv
    <2>3. CASE KeepPlan(p)
      <3>1. /\ Len(transcript') = Len(transcript) + 1 /\ Len(transcript) \in Nat
            /\ \A i \in 1..Len(transcript) : transcript'[i] = transcript[i]
        BY <1>3, EntryType, AppendFacts DEF AcceptPlan, IInv, TypeOK
      <3>2. reviewHashes # {} => round \in 1..(MaxReviewRounds - 1)
        BY <2>1 DEF VerdictInv, IInv, TypeOK, PhaseInv, Phases
      <3>3. phase' = "review" /\ (reviewHashes # {} => round' > 1)
        BY <2>3, <3>2, BoundsAssumption DEF KeepPlan
      <3> QED
        BY <2>1, <3>1, <3>3 DEF VerdictInv, Indices, ReviewAt
    <2> QED
      BY <1>3, <2>2, <2>3 DEF AcceptPlan
  <1>4. ASSUME NEW r \in Reviews, AcceptReview(r) PROVE VerdictInv'
    <2>1. CASE SinkFault("failing")
               /\ UNCHANGED <<review, roundsCompleted, reviewHashes, phase, outcome>>
      <3>1. Active /\ pc' # "finishing" /\ ~Active' /\ UNCHANGED round
        BY <1>4, <2>1 DEF AcceptReview, SinkFault, Active
      <3> QED
        BY <1>4, <2>1, <3>1, EntryType, UnheardVerdict DEF AcceptReview, IInv
    <2> QED
      BY <1>4, <2>1, KeepReviewVerdict DEF AcceptReview
  <1>5. CASE Finish \/ ReportTimeout \/ ReportFailure
    BY <1>5, QuietVerdict DEF Finish, ReportTimeout, ReportFailure, Report, SinkFault,
        Active, position, guards
  <1>6. CASE DeadlinePasses \/ Terminated \/ UNCHANGED vars
    BY <1>6, QuietVerdict DEF DeadlinePasses, Terminated, vars, Active, position,
        artefacts, guards
  <1> QED
    BY <1>1, <1>2, <1>3, <1>4, <1>5, <1>6 DEF Next, OwnStep, AgentStep

\* The step is a rule's, with its preconditions, or gives up, or is omitted there.
Known == CatalogState' # CatalogState => CataloguedStep \/ GivingUp \/ UncataloguedStep

\* The invariants a step's preconditions follow from.
CatalogInv == IInv /\ DialogueInv /\ EndInv /\ VerdictInv

LEMMA StepIsKnown == CatalogInv /\ [Next]_vars => Known
  <1> SUFFICES ASSUME IInv, DialogueInv, EndInv, VerdictInv, [Next]_vars PROVE Known
    BY DEF CatalogInv
  <1>1. ASSUME UNCHANGED <<phase, round, request, result>> PROVE Known
    BY <1>1 DEF Known, CatalogState
  <1>2. CASE ReceiveRequest
    <2>1. /\ CatalogState = "input_validation"
          /\ CatalogState' = IF request' THEN "planning" ELSE "input_validation"
      BY <1>2 DEF ReceiveRequest, CatalogState, position, report, IInv, PhaseInv,
          DialogueInv, EndInv
    <2> QED
      BY <2>1 DEF Known, CataloguedStep, Moves
  <1>3. CASE \/ AnnouncePhase \/ StartAttempt \/ WaitTimesOut
             \/ AgentTimesOut \/ AgentRaises
    BY <1>1, <1>3 DEF AnnouncePhase, StartAttempt, WaitTimesOut,
        AgentTimesOut, AgentRaises, position, context, report
  <1>4. ASSUME NEW c \in Categories, RejectReply(c) PROVE Known
    BY <1>1, <1>4 DEF RejectReply, context, report
  <1>5. ASSUME NEW p \in Plans, AcceptPlan(p) PROVE Known
    <2>1. /\ result = None /\ result' = None /\ request /\ request' /\ phase # "review"
          /\ p.topology \in AllowedTopologies
      BY <1>5, ValidPlanFacts DEF AcceptPlan, DialogueInv, EndInv, Active, context, report
    <2>2. CASE UNCHANGED <<phase, round>>
      BY <1>1, <2>1, <2>2
    <2>3. CASE KeepPlan(p)
      <3>1. phase' = "review" /\ round' = round + 1 /\ plan' = p
        BY <2>3 DEF KeepPlan
      <3>2. CASE phase = "initial_plan" /\ p.revision = 1
        <4>1. CatalogState = "planning" /\ CatalogState' = "review"
          BY <2>1, <3>1, <3>2 DEF CatalogState, IInv, PhaseInv
        <4> QED
          BY <2>1, <3>1, <3>2, <4>1 DEF Known, CataloguedStep, Moves, PlanIsFirst
      <3>3. CASE phase = "revision" /\ ValidTransition(plan, p, review)
        <4>1. round \in Nat \ {0}
          BY <3>3, BoundsAssumption DEF IInv, PhaseInv
        <4>2. CatalogState = "revision" /\ CatalogState' = "rereview"
          BY <2>1, <3>1, <3>3, <4>1 DEF CatalogState
        <4>3. PlanIsRevised
          BY <2>1, <3>1, <3>3 DEF PlanIsRevised, ValidTransition
        <4> QED
          BY <4>2, <4>3 DEF Known, CataloguedStep, Moves
      <3> QED
        BY <1>5, <3>2, <3>3 DEF AcceptPlan, ValidPlan
    <2> QED
      BY <1>5, <2>2, <2>3 DEF AcceptPlan
  <1>6. ASSUME NEW r \in Reviews, AcceptReview(r) PROVE Known
    <2>1. /\ result = None /\ result' = None /\ request /\ request' /\ phase = "review"
          /\ UNCHANGED round
      BY <1>6 DEF AcceptReview, DialogueInv, EndInv, Active, context, report
    <2>2. CASE UNCHANGED phase
      BY <1>1, <2>1, <2>2
    <2>3. CASE /\ r.decision = "revision_required" /\ RevisionLeft
               /\ phase' = "revision" /\ review' = r
      <3>1. CatalogState \in {"review", "rereview"} /\ CatalogState' = "revision"
        BY <2>1, <2>3 DEF CatalogState
      <3>2. RevisionIsDue
        BY <2>3, DataAssumption DEF RevisionIsDue, RevisionLeft, Reviews, Approval
      <3> QED
        BY <3>1, <3>2 DEF Known, CataloguedStep, UncataloguedStep, Moves
    <2> QED
      BY <1>6, <2>2, <2>3 DEF AcceptReview, KeepReview, Conclude
  <1>7. ASSUME NEW s, NEW c, NEW t, NEW h, Report(t, s, c, h),
               UNCHANGED <<position, context>>, result = None
        PROVE  UNCHANGED <<phase, round, request, result>> \/ CatalogState' = s
    BY <1>7, NoneAssumption DEF Report, BuildResult, CatalogState, position, context
  <1>8. CASE Finish
    <2>1. request /\ result = None /\ phase = "review" /\ Settled(outcome)
      BY <1>8 DEF Finish, IInv, PhaseInv, DialogueInv, EndInv, VerdictInv
    <2>2. CASE CatalogState' = outcome.status
      <3>1. CatalogState = IF round = 1 THEN "review" ELSE "rereview"
        BY <2>1 DEF CatalogState
      <3> QED
        BY <2>1, <2>2, <3>1
        DEF Known, Settled, CataloguedStep, UncataloguedStep, Moves
    <2> QED
      BY <1>1, <1>7, <1>8, <2>1, <2>2 DEF Finish
  <1>9. CASE ReportTimeout
    <2>1. request /\ result = None
      BY <1>9 DEF ReportTimeout, DialogueInv, EndInv
    <2>2. CatalogState \in {"planning", "revision", "review", "rereview"}
      BY <2>1 DEF CatalogState
    <2>3. CASE CatalogState' = "timeout"
      BY <2>2, <2>3 DEF Known, GivingUp, Moves
    <2> QED
      BY <1>1, <1>7, <1>9, <2>1, <2>3 DEF ReportTimeout
  <1>10. CASE ReportFailure
    <2>1. result = None /\ UNCHANGED request
      BY <1>10 DEF ReportFailure, DialogueInv, context
    <2>2. \/ CatalogState = "input_validation" /\ ~request
          \/ CatalogState \in {"planning", "revision", "review", "rereview"}
      BY <2>1 DEF CatalogState
    <2>3. CASE CatalogState' = "failed"
      BY <2>1, <2>2, <2>3 DEF Known, CataloguedStep, GivingUp, Moves
    <2> QED
      BY <1>1, <1>7, <1>10, <2>1, <2>3 DEF ReportFailure
  <1>11. CASE DeadlinePasses \/ Terminated \/ UNCHANGED vars
    BY <1>1, <1>11 DEF DeadlinePasses, Terminated, vars, position, context, report
  <1> QED
    BY <1>2, <1>3, <1>4, <1>5, <1>6, <1>8, <1>9, <1>10, <1>11 DEF Next, OwnStep, AgentStep

\* Every change of state of a run is a rule of the catalogue whose preconditions
\* hold, a giving up, or one of the two steps it omits, also when the event sink
\* fails: a refused request only fails, an approval rests on the review at hand,
\* and a degraded run was at its limit or met a demand again.
THEOREM KnownTransitions == Spec => TransitionsAreKnown
  <1>1. Init => CatalogInv
    BY InitIInv, InitDialogue DEF CatalogInv, Init, EndInv, VerdictInv, Active
  <1>2. CatalogInv /\ [Next]_vars => CatalogInv'
    BY NextIInv, NextDialogue, NextEndInv, NextVerdictInv DEF CatalogInv
  <1>3. CatalogInv /\ [Next]_vars => [Known]_vars
    BY StepIsKnown
  <1>4. Spec => [][Known]_vars
    BY <1>1, <1>2, <1>3, PTL DEF Spec
  <1> QED
    BY <1>4 DEF TransitionsAreKnown, Known

-----------------------------------------------------------------------------
(* A run is finite: how many messages it has, and that it never goes back.   *)

\* A position takes at most as many messages as it is given attempts.
MessageInv ==
    LET before == (Rank(Here) - 1) * (MaxParseRetries + 1) IN
    /\ pc \in {"received", "announce"} => Len(transcript) <= before
    /\ pc \in {"attempt", "waiting"} => Len(transcript) <= before + attempt
    /\ Len(transcript) <= before + MaxParseRetries + 1

\* There are two positions for each round.
LEMMA RankBound == IInv => Rank(Here) \in 1..(2 * MaxReviewRounds)
  <1> SUFFICES ASSUME IInv PROVE Rank(Here) \in 1..(2 * MaxReviewRounds)
    OBVIOUS
  <1>1. /\ MaxReviewRounds \in Nat \ {0} /\ round \in Nat
        /\ \/ phase = "initial_plan" /\ round = 0
           \/ phase = "review" /\ round \in 1..MaxReviewRounds
           \/ phase = "revision" /\ round \in 1..(MaxReviewRounds - 1)
    BY BoundsAssumption DEF IInv, TypeOK, PhaseInv, Phases
  <1> QED
    BY <1>1 DEF Rank, Here

LEMMA NextMessageInv == IInv /\ MessageInv /\ [Next]_vars => MessageInv'
  <1> SUFFICES ASSUME IInv, MessageInv, [Next]_vars PROVE MessageInv'
    OBVIOUS
  <1> DEFINE before == (Rank(Here) - 1) * (MaxParseRetries + 1)
  <1>1. /\ Len(transcript) \in Nat /\ attempt \in 0..MaxParseRetries
        /\ MaxParseRetries \in 0..2 /\ Rank(Here) \in Nat
    BY BoundsAssumption, RankType DEF IInv, TypeOK
  <1>2. before \in Int
    BY <1>1
  <1>3. /\ pc \in {"received", "announce"} => Len(transcript) <= before
        /\ pc \in {"attempt", "waiting"} => Len(transcript) <= before + attempt
        /\ Len(transcript) <= before + MaxParseRetries + 1
    BY DEF MessageInv
  <1>4. ASSUME Rank(Here)' = Rank(Here) PROVE before' = before
    BY <1>4
  <1>5. ASSUME Rank(Here)' = Rank(Here) + 1 PROVE before' = before + MaxParseRetries + 1
    <2>1. before' = (Rank(Here)' - 1) * (MaxParseRetries + 1)
      OBVIOUS
    <2>2. ASSUME NEW k \in Int, NEW m \in 0..2
          PROVE  (k + 1 - 1) * (m + 1) = (k - 1) * (m + 1) + m + 1
      <3>1. m = 0 \/ m = 1 \/ m = 2
        OBVIOUS
      <3> QED
        BY <3>1
    <2> QED
      BY <1>1, <1>5, <2>1, <2>2
  <1> HIDE DEF before
  <1>6. MessageInv' <=>
            /\ pc' \in {"received", "announce"} => Len(transcript') <= before'
            /\ pc' \in {"attempt", "waiting"} => Len(transcript') <= before' + attempt'
            /\ Len(transcript') <= before' + MaxParseRetries + 1
    BY DEF MessageInv, before
  <1>7. ASSUME UNCHANGED <<transcript, phase, round>>,
               \/ pc' \notin {"received", "announce", "attempt", "waiting"}
               \/ pc \in {"received", "announce"} /\ pc' = "announce"
               \/ pc = "announce" /\ pc' = "attempt" /\ attempt' = 0
               \/ pc = "attempt" /\ pc' = "waiting" /\ UNCHANGED attempt
               \/ UNCHANGED <<pc, attempt>>
        PROVE  MessageInv'
    <2>1. before' = before
      BY <1>4, <1>7 DEF Rank, Here
    <2> QED
      BY <1>1, <1>2, <1>3, <1>6, <1>7, <2>1
  <1>8. ASSUME NEW e \in Entries, transcript' = Append(transcript, e), pc = "waiting",
               \/ /\ pc' \notin {"received", "announce", "attempt", "waiting"}
                  /\ Rank(Here)' \in {Rank(Here), Rank(Here) + 1}
               \/ pc' = "attempt" /\ attempt' = attempt + 1 /\ Rank(Here)' = Rank(Here)
               \/ pc' = "announce" /\ Rank(Here)' = Rank(Here) + 1
        PROVE  MessageInv'
    <2>1. Len(transcript') = Len(transcript) + 1
      BY <1>8, AppendFacts DEF IInv, TypeOK
    <2>2. Len(transcript) <= before + attempt
      BY <1>3, <1>8
    <2>3. CASE Rank(Here)' = Rank(Here)
      BY <1>1, <1>2, <1>4, <1>6, <1>8, <2>1, <2>2, <2>3
    <2>4. CASE Rank(Here)' = Rank(Here) + 1
      BY <1>1, <1>2, <1>5, <1>6, <1>8, <2>1, <2>2, <2>4
    <2> QED
      BY <1>8, <2>3, <2>4
  <1>9. CASE \/ ReceiveRequest \/ AnnouncePhase \/ StartAttempt \/ WaitTimesOut
             \/ AgentTimesOut \/ AgentRaises
    BY <1>7, <1>9 DEF ReceiveRequest, AnnouncePhase, StartAttempt, WaitTimesOut, AgentTimesOut,
        AgentRaises, SinkFault, position
  <1>10. ASSUME NEW c \in Categories, RejectReply(c) PROVE MessageInv'
    <2>1. Rank(Here)' = Rank(Here)
      BY <1>10 DEF RejectReply, Rank, Here
    <2> QED
      BY <1>8, <1>10, <2>1, EntryType DEF RejectReply, SinkFault, IInv
  <1>11. ASSUME NEW p \in Plans, AcceptPlan(p) PROVE MessageInv'
    <2>1. \/ pc' = "announce" /\ Rank(Here)' = Rank(Here) + 1
          \/ pc' \in {"timing_out", "failing", "raised"} /\ Rank(Here)' = Rank(Here)
      BY <1>11 DEF AcceptPlan, KeepPlan, SinkFault, Rank, Here, IInv, TypeOK
    <2> QED
      BY <1>8, <1>11, <2>1, EntryType DEF AcceptPlan, IInv
  <1>12. ASSUME NEW r \in Reviews, AcceptReview(r) PROVE MessageInv'
    <2>1. \/ pc' = "announce" /\ Rank(Here)' = Rank(Here) + 1
          \/ pc' \in {"finishing", "timing_out", "failing", "raised"} /\ Rank(Here)' = Rank(Here)
      BY <1>12 DEF AcceptReview, KeepReview, Conclude, SinkFault, Rank, Here, IInv, TypeOK
    <2> QED
      BY <1>8, <1>12, <2>1, EntryType DEF AcceptReview, IInv
  <1>13. CASE Finish \/ ReportTimeout \/ ReportFailure
    BY <1>7, <1>13 DEF Finish, ReportTimeout, ReportFailure, Report, SinkFault, position
  <1>14. CASE DeadlinePasses \/ Terminated \/ UNCHANGED vars
    BY <1>7, <1>14 DEF DeadlinePasses, Terminated, vars, position
  <1> QED
    BY <1>9, <1>10, <1>11, <1>12, <1>13, <1>14 DEF Next, OwnStep, AgentStep

\* A run asks its agents for no more replies than the retry limit allows for
\* each of its turns, and has two turns for each round, whatever they answer.
THEOREM MessagesAreBounded ==
    Spec => [](Len(transcript) <= 2 * MaxReviewRounds * (MaxParseRetries + 1))
  <1>1. Init => IInv /\ MessageInv
    <2>1. Init => MessageInv
      BY BoundsAssumption DEF Init, MessageInv, Rank, Here
    <2> QED
      BY <2>1, InitIInv
  <1>2. IInv /\ MessageInv => Len(transcript) <= 2 * MaxReviewRounds * (MaxParseRetries + 1)
    <2> SUFFICES ASSUME IInv, MessageInv
                 PROVE  Len(transcript) <= 2 * MaxReviewRounds * (MaxParseRetries + 1)
      OBVIOUS
    <2>1. /\ Len(transcript) \in Nat
          /\ Len(transcript) <= (Rank(Here) - 1) * (MaxParseRetries + 1) + MaxParseRetries + 1
      BY DEF IInv, TypeOK, MessageInv
    <2>2. ASSUME NEW k \in Nat, NEW n \in Nat, k <= 2 * n, NEW m \in 0..2
          PROVE  (k - 1) * (m + 1) + m + 1 <= 2 * n * (m + 1)
      <3>1. m = 0 \/ m = 1 \/ m = 2
        OBVIOUS
      <3> QED
        BY <2>2, <3>1
    <2>3. Rank(Here) \in Nat /\ Rank(Here) <= 2 * MaxReviewRounds
      BY RankBound, BoundsAssumption
    <2>4. (Rank(Here) - 1) * (MaxParseRetries + 1) + MaxParseRetries + 1
            <= 2 * MaxReviewRounds * (MaxParseRetries + 1)
      BY <2>2, <2>3, BoundsAssumption
    <2>5. (Rank(Here) - 1) * (MaxParseRetries + 1) + MaxParseRetries + 1 \in Int
          /\ 2 * MaxReviewRounds * (MaxParseRetries + 1) \in Int
      BY <2>3, BoundsAssumption
    <2> QED
      BY <2>1, <2>4, <2>5
  <1>3. IInv /\ MessageInv /\ [Next]_vars => (IInv /\ MessageInv)'
    BY NextIInv, NextMessageInv
  <1> QED
    BY <1>1, <1>2, <1>3, PTL DEF Spec

\* How far the coroutine is from its end.
Stage == CASE pc = "received" -> 5 [] Active -> 4 [] pc = "finishing" -> 3
           [] pc = "timing_out" -> 2 [] pc = "failing" -> 1 [] OTHER -> 0

\* The attempts a position has left, one more before it is announced.
AttemptsLeft == IF pc = "announce" THEN MaxParseRetries + 1 ELSE MaxParseRetries - attempt

\* What can still happen before the agent answers: the call, and the deadline.
CallsLeft == (IF pc = "attempt" THEN 2 ELSE 0) + (IF expired THEN 0 ELSE 1)

Measure == <<Stage, 2 * MaxReviewRounds - Rank(Here), AttemptsLeft, CallsLeft>>

\* The measures are compared from their first component on.
Falls(m, n) == \E i \in 1..4 : m[i] < n[i] /\ \A j \in 1..(i - 1) : m[j] = n[j]

LEMMA FallsAt ==
    ASSUME NEW a, NEW b, NEW c, NEW d, NEW a1, NEW b1, NEW c1, NEW d1,
           \/ a1 < a
           \/ a1 = a /\ b1 < b
           \/ a1 = a /\ b1 = b /\ c1 < c
           \/ a1 = a /\ b1 = b /\ c1 = c /\ d1 < d
    PROVE  Falls(<<a1, b1, c1, d1>>, <<a, b, c, d>>)
  <1> DEFINE m == <<a1, b1, c1, d1>>
             n == <<a, b, c, d>>
  <1>1. /\ m[1] = a1 /\ m[2] = b1 /\ m[3] = c1 /\ m[4] = d1
        /\ n[1] = a /\ n[2] = b /\ n[3] = c /\ n[4] = d
    OBVIOUS
  <1> HIDE DEF m, n
  <1>2. \E i \in 1..4 : m[i] < n[i] /\ \A j \in 1..(i - 1) : m[j] = n[j]
    <2>1. CASE a1 < a
      <3>1. m[1] < n[1] /\ \A j \in 1..(1 - 1) : m[j] = n[j]
        BY <1>1, <2>1
      <3> QED
        BY <3>1
    <2>2. CASE a1 = a /\ b1 < b
      <3>1. m[2] < n[2] /\ \A j \in 1..(2 - 1) : m[j] = n[j]
        BY <1>1, <2>2
      <3> QED
        BY <3>1
    <2>3. CASE a1 = a /\ b1 = b /\ c1 < c
      <3>1. m[3] < n[3] /\ \A j \in 1..(3 - 1) : m[j] = n[j]
        BY <1>1, <2>3
      <3> QED
        BY <3>1
    <2>4. CASE a1 = a /\ b1 = b /\ c1 = c /\ d1 < d
      <3>1. m[4] < n[4] /\ \A j \in 1..(4 - 1) : m[j] = n[j]
        BY <1>1, <2>4
      <3> QED
        BY <3>1
    <2> QED
      BY <2>1, <2>2, <2>3, <2>4
  <1> QED
    BY <1>2 DEF Falls, m, n

LEMMA MeasureIsNatural == IInv => Measure \in Nat \X Nat \X Nat \X Nat
  <1> SUFFICES ASSUME IInv PROVE Measure \in Nat \X Nat \X Nat \X Nat
    OBVIOUS
  <1>1. Stage \in Nat
    BY DEF Stage
  <1>2. 2 * MaxReviewRounds - Rank(Here) \in Nat
    BY RankBound, BoundsAssumption
  <1>3. AttemptsLeft \in Nat
    BY BoundsAssumption DEF AttemptsLeft, IInv, TypeOK
  <1>4. CallsLeft \in Nat
    BY DEF CallsLeft
  <1> QED
    BY <1>1, <1>2, <1>3, <1>4 DEF Measure

LEMMA StepDescends == IInv /\ [Next]_vars => Falls(Measure', Measure) \/ UNCHANGED vars
  <1> SUFFICES ASSUME IInv, Next, ~UNCHANGED vars PROVE Falls(Measure', Measure)
    OBVIOUS
  <1>1. ASSUME Stage' < Stage PROVE Falls(Measure', Measure)
    BY <1>1, FallsAt DEF Measure
  <1>2. ASSUME Stage' = Stage, Rank(Here)' = Rank(Here) + 1 PROVE Falls(Measure', Measure)
    <2>1. (2 * MaxReviewRounds - Rank(Here))' < 2 * MaxReviewRounds - Rank(Here)
      <3>1. (2 * MaxReviewRounds - Rank(Here))' = 2 * MaxReviewRounds - (Rank(Here)')
        OBVIOUS
      <3> QED
        BY <1>2, <3>1, RankBound, BoundsAssumption
    <2> QED
      BY <1>2, <2>1, FallsAt DEF Measure
  <1>3. ASSUME Stage' = Stage, UNCHANGED <<phase, round>>,
               AttemptsLeft' < AttemptsLeft \/ (AttemptsLeft' = AttemptsLeft /\ CallsLeft' < CallsLeft)
        PROVE  Falls(Measure', Measure)
    <2>1. (2 * MaxReviewRounds - Rank(Here))' = 2 * MaxReviewRounds - Rank(Here)
      BY <1>3 DEF Rank, Here
    <2> QED
      BY <1>3, <2>1, FallsAt DEF Measure
  <1>4. attempt \in 0..MaxParseRetries /\ MaxParseRetries \in 0..2
    BY BoundsAssumption DEF IInv, TypeOK
  <1>5. CASE ReceiveRequest \/ WaitTimesOut \/ AgentTimesOut \/ AgentRaises
    BY <1>1, <1>5 DEF ReceiveRequest, WaitTimesOut, AgentTimesOut, AgentRaises, Stage, Active
  <1>6. CASE AnnouncePhase
    <2>1. CASE pc' = "attempt"
      BY <1>3, <1>4, <1>6, <2>1 DEF AnnouncePhase, Stage, Active, AttemptsLeft
    <2>2. CASE SinkFault("failing")
      BY <1>1, <1>6, <2>2 DEF AnnouncePhase, SinkFault, Stage, Active
    <2> QED
      BY <1>6, <2>1, <2>2 DEF AnnouncePhase
  <1>7. CASE StartAttempt
    <2>1. CASE expired
      BY <1>1, <1>7, <2>1 DEF StartAttempt, Stage, Active
    <2>2. CASE ~expired
      <3>1. pc = "attempt" /\ pc' = "waiting" /\ UNCHANGED <<phase, round, attempt, expired>>
        BY <1>7, <2>2 DEF StartAttempt, position, context
      <3>2. Stage' = Stage /\ AttemptsLeft' = AttemptsLeft
        BY <3>1 DEF Stage, Active, AttemptsLeft
      <3>3. CallsLeft' < CallsLeft
        BY <2>2, <3>1 DEF CallsLeft
      <3> QED
        BY <1>3, <3>1, <3>2, <3>3
    <2> QED
      BY <2>1, <2>2
  <1>8. ASSUME NEW c \in Categories, RejectReply(c) PROVE Falls(Measure', Measure)
    <2>1. CASE pc' = "attempt" /\ attempt' = attempt + 1
      BY <1>3, <1>4, <1>8, <2>1 DEF RejectReply, Stage, Active, AttemptsLeft
    <2>2. CASE pc' \in {"timing_out", "failing", "raised"}
      BY <1>1, <1>8, <2>2 DEF RejectReply, Stage, Active
    <2> QED
      BY <1>8, <2>1, <2>2 DEF RejectReply, SinkFault
  <1>9. ASSUME NEW p \in Plans, AcceptPlan(p) PROVE Falls(Measure', Measure)
    <2>1. CASE KeepPlan(p)
      <3>1. Rank(Here)' = Rank(Here) + 1
        BY <1>9, <2>1 DEF AcceptPlan, KeepPlan, Rank, Here, IInv, TypeOK
      <3> QED
        BY <1>2, <1>9, <2>1, <3>1 DEF AcceptPlan, KeepPlan, Stage, Active
    <2>2. CASE pc' \in {"timing_out", "failing", "raised"}
      BY <1>1, <1>9, <2>2 DEF AcceptPlan, Stage, Active
    <2> QED
      BY <1>9, <2>1, <2>2 DEF AcceptPlan, SinkFault
  <1>10. ASSUME NEW r \in Reviews, AcceptReview(r) PROVE Falls(Measure', Measure)
    <2>1. CASE pc' = "announce" /\ phase' = "revision"
      <3>1. Rank(Here)' = Rank(Here) + 1
        BY <1>10, <2>1 DEF AcceptReview, Rank, Here, IInv, TypeOK
      <3> QED
        BY <1>2, <1>10, <2>1, <3>1 DEF AcceptReview, Stage, Active
    <2>2. CASE pc' \in {"finishing", "timing_out", "failing", "raised"}
      BY <1>1, <1>10, <2>2 DEF AcceptReview, Stage, Active
    <2> QED
      BY <1>10, <2>1, <2>2 DEF AcceptReview, KeepReview, Conclude, SinkFault
  <1>11. CASE Finish \/ ReportTimeout \/ ReportFailure
    BY <1>1, <1>11 DEF Finish, ReportTimeout, ReportFailure, Report, SinkFault, Stage, Active
  <1>12. CASE DeadlinePasses
    <2>1. ~expired /\ expired' /\ UNCHANGED <<pc, phase, round, attempt>>
      BY <1>12 DEF DeadlinePasses, position
    <2>2. Stage' = Stage /\ AttemptsLeft' = AttemptsLeft
      BY <2>1 DEF Stage, Active, AttemptsLeft
    <2>3. CallsLeft' < CallsLeft
      BY <2>1 DEF CallsLeft
    <2> QED
      BY <1>3, <2>1, <2>2, <2>3
  <1> QED
    BY <1>5, <1>6, <1>7, <1>8, <1>9, <1>10, <1>11, <1>12 DEF Next, OwnStep, AgentStep, Terminated

\* A run never goes back, so it has finitely many steps: what can keep it from
\* its end is an agent that does not answer, which the deadline ends.  This is
\* the safety half of RunEnds.
THEOREM RunDescends ==
    Spec => /\ [](Measure \in Nat \X Nat \X Nat \X Nat)
            /\ [][Falls(Measure', Measure)]_vars
  <1>1. Spec => []IInv
    BY InitIInv, NextIInv, PTL DEF Spec
  <1> QED
    BY <1>1, MeasureIsNatural, StepDescends, PTL DEF Spec
=============================================================================
