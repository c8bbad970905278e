-------------------------- MODULE FaultMatrixProofs --------------------------
(***************************************************************************)
(* Proofs about FaultMatrix: every step of a case is a step of the          *)
(* orchestrator, and a case that has ended has the outcome recorded for its *)
(* fault, for every injection round and every bound on rounds (from three   *)
(* on) and retries.                                                         *)
(*                                                                         *)
(* The argument: the position of the dialogue fixes how often each role was *)
(* asked, what the fixture's plan holds by then and what is demanded of it, *)
(* but for the planner's turns the fault has taken.  A planner's fault is   *)
(* never accepted and never gives the turn back; a sustained objection is   *)
(* demanded twice at most.                                                  *)
(***************************************************************************)
EXTENDS FaultMatrix, OrchestratorProofs

-----------------------------------------------------------------------------
(* The inductive invariant. *)

\* The fault has taken a planner's turn; a reviewer's turn.
Struck == fault \in PlannerFaults /\ injections > 0
Objected == fault = "sustained_objection" /\ injections > 0

\* The demands the fixture makes for a term, and the terms of its first n reviews.
Asks(t) == Requiring(t).changes
Given(n) == {ReviewTerms[i] : i \in 1..n}

CountInv ==
    /\ fault \in Faults /\ from \in InjectionRounds
    /\ calls \in [planner : Nat, reviewer : Nat]
    /\ delegated \in 0..3 /\ injections \in Nat
    /\ asleep \in BOOLEAN
    /\ lastPlan \in Plans

\* When the fault begins, and that it never gives a turn back.
FaultInv ==
    /\ injections > 0 => Struck \/ Objected
    /\ Struck => calls.planner > from
    /\ Objected => calls.reviewer > from
    /\ fault \in PlannerFaults /\ injections = 0 =>
        calls.planner <= from \/ calls.planner <= 1
    /\ fault = "sustained_objection" /\ injections = 0 => calls.reviewer <= from
    /\ expired => asleep
    /\ asleep => fault = "timeout" /\ Struck

\* Whose turn it is tells how often each role was asked.
TurnInv ==
    /\ ~Struck => calls.planner = round
    /\ Struck => phase # "review"
    /\ calls.reviewer = IF phase = "review" THEN round - 1 ELSE round
    /\ ~Objected => delegated = calls.reviewer
    /\ phase = "initial_plan" => lastPlan = InitialPlan
    /\ phase # "initial_plan" =>
        lastPlan = plan /\ plan.revision = round /\ plan.topology = "fixture"

\* What has been demanded, what the plan has of it, and what it lacks.
DemandInv ==
    /\ delegated <= 2
    /\ phase = "revision" =>
        /\ pendingTerm = IF Objected THEN SustainedTerm ELSE ReviewTerms[delegated]
        /\ review = Requiring(pendingTerm)
        /\ pendingTerm \notin plan.text["api"]
    /\ phase # "initial_plan" /\ ~Objected =>
        plan.text["api"] \subseteq Given(IF phase = "review" THEN delegated ELSE delegated - 1)
    /\ ~Objected => reviewHashes \subseteq {Asks(t) : t \in Given(delegated)}
    /\ Objected => Asks(SustainedTerm) \in reviewHashes

\* What CasesEndAsRecorded says of a result: the fixture needs three rounds to
\* have its two demands met and to approve.
AsRecorded(status) == MaxReviewRounds >= 3 =>
    /\ from <= 2 /\ fault # "prompt_injection" => injections > 0
    /\ status = IF injections > 0 \/ fault = "prompt_injection" THEN Recorded[fault] ELSE "completed"

OutcomeInv ==
    /\ Active => fault # "prompt_injection"
    /\ pc = "finishing" => AsRecorded(outcome.status)
    /\ pc = "timing_out" => fault = "timeout" /\ Struck
    /\ pc = "failing" => fault = "prompt_injection" \/ (Struck /\ fault # "timeout")
    /\ pc # "raised"
    /\ result # None => pc = "returned" /\ AsRecorded(result.status)

CaseInv ==
    /\ CountInv
    /\ FaultInv
    /\ Active \/ pc = "received" => TurnInv /\ DemandInv
    /\ OutcomeInv

-----------------------------------------------------------------------------
(* The fixture's words. *)

LEMMA Fixture ==
    /\ "api" \in Targets
    /\ InitialPlan \in Plans
    /\ \A t \in FixtureTerms : Requiring(t) \in Reviews
    /\ \A t, u \in FixtureTerms : Asks(t) = Asks(u) => t = u
    /\ None \notin FixtureTerms
  <1>1. "api" \in Targets /\ "fixture" \in Topologies
    BY FixtureAssumption, DataAssumption
  <1>2. InitialPlan \in Plans
    BY <1>1, FixtureAssumption, BoundsAssumption DEF InitialPlan, Plans
  <1>3. \A t \in FixtureTerms : Requiring(t) \in Reviews
    BY FixtureAssumption DEF Requiring, Reviews
  <1>4. ASSUME NEW t, NEW u, Asks(t) = Asks(u) PROVE t = u
    <2>1. Asks(t)[1].terms = {t} /\ Asks(u)[1].terms = {u}
      BY DEF Asks, Requiring
    <2> QED
      BY <1>4, <2>1
  <1> QED
    BY <1>1, <1>2, <1>3, <1>4, FixtureAssumption

\* The fixture's reviews: a demand for a term not demanded so far, or approval.
LEMMA FixtureReview ==
    ASSUME delegated \in 0..2
    PROVE  /\ NextReview \in Reviews
           /\ delegated = 2 => NextReview = Approval
           /\ delegated < 2 =>
                /\ ReviewTerms[delegated + 1] \in FixtureTerms
                /\ NextReview = Requiring(ReviewTerms[delegated + 1])
                /\ ReviewTerms[delegated + 1] \notin Given(delegated)
                /\ Given(delegated + 1) = Given(delegated) \cup {ReviewTerms[delegated + 1]}
           /\ Given(delegated) \subseteq FixtureTerms \ {SustainedTerm}
  <1>1. ReviewTerms[1] = "instances" /\ ReviewTerms[2] = "probe" /\ Len(ReviewTerms) = 2
    BY DEF ReviewTerms
  <1>2. ASSUME NEW n \in 0..2
        PROVE  Given(n) = IF n = 0 THEN {} ELSE IF n = 1 THEN {"instances"} ELSE {"instances", "probe"}
    <2>1. CASE n = 0
      BY <2>1 DEF Given
    <2>2. CASE n = 1
      BY <1>1, <2>2 DEF Given
    <2>3. CASE n = 2
      BY <1>1, <2>3 DEF Given
    <2> QED
      BY <2>1, <2>2, <2>3
  <1>3. CASE delegated = 2
    <2>1. Given(delegated) = {"instances", "probe"} /\ NextReview = Approval
      BY <1>1, <1>2, <1>3 DEF NextReview
    <2> QED
      BY <1>3, <2>1 DEF FixtureTerms, SustainedTerm, Reviews
  <1>4. CASE delegated < 2
    <2>1. NextReview = Requiring(ReviewTerms[delegated + 1])
      BY <1>1, <1>4 DEF NextReview
    <2>2. ReviewTerms[delegated + 1] = IF delegated = 0 THEN "instances" ELSE "probe"
      BY <1>1, <1>4
    <2>3. ReviewTerms[delegated + 1] \in FixtureTerms
      BY <2>2 DEF FixtureTerms
    <2>4. NextReview \in Reviews
      BY <2>1, <2>3, Fixture
    <2>5. /\ Given(delegated) = IF delegated = 0 THEN {} ELSE {"instances"}
          /\ Given(delegated + 1) = IF delegated = 0 THEN {"instances"} ELSE {"instances", "probe"}
      BY <1>2, <1>4
    <2> QED
      BY <1>4, <2>1, <2>2, <2>3, <2>4, <2>5 DEF FixtureTerms, SustainedTerm
  <1> QED
    BY <1>3, <1>4

\* Data of a case are typed in its first state.
LEMMA InitCaseInv == MatrixInit => CaseInv
  <1> SUFFICES ASSUME MatrixInit PROVE CaseInv
    OBVIOUS
  <1>1. CountInv
    <2>1. calls \in [planner : Nat, reviewer : Nat]
      BY DEF MatrixInit
    <2>2. asleep \in BOOLEAN
      BY DEF MatrixInit
    <2>3. lastPlan \in Plans
      BY Fixture DEF MatrixInit
    <2>4. delegated \in 0..3 /\ injections \in Nat
      BY DEF MatrixInit
    <2> QED
      BY <2>1, <2>2, <2>3, <2>4 DEF MatrixInit, CountInv
  <1>2. FaultInv
    BY CaseAssumption DEF MatrixInit, Init, FaultInv, Struck, Objected
  <1>3. TurnInv
    BY DEF MatrixInit, Init, TurnInv, Struck, Objected
  <1>4. DemandInv
    BY DEF MatrixInit, Init, DemandInv, Struck, Objected
  <1>5. OutcomeInv
    BY DEF MatrixInit, Init, OutcomeInv, Active
  <1> QED
    BY <1>1, <1>2, <1>3, <1>4, <1>5 DEF CaseInv

-----------------------------------------------------------------------------
(* The steps of a case are steps of the orchestrator. *)

LEMMA StepIsARunsStep ==
    CaseInv /\ [MatrixNext]_matrixVars => [Next]_vars
  <1> SUFFICES ASSUME CaseInv, [MatrixNext]_matrixVars PROVE [Next]_vars
    OBVIOUS
  <1> USE DEF Next
  <1>1. ASSUME NEW p, Answered(p) PROVE AgentStep
    BY <1>1 DEF Answered, AgentStep
  <1>2. CASE ReceiveCase
    BY <1>2 DEF ReceiveCase, OwnStep
  <1>3. CASE Machinery
    BY <1>3 DEF Machinery, OwnStep
  <1>4. CASE TimePasses
    BY <1>4 DEF TimePasses
  <1>5. CASE PlannerAnswers \/ PlannerFails
    BY <1>1, <1>5 DEF PlannerAnswers, PlannerFails
  <1>6. CASE PlannerSleeps \/ UNCHANGED matrixVars
    BY <1>6 DEF PlannerSleeps, matrixVars
  <1>7. CASE ReviewerAnswers
    <2>1. delegated \in 0..2
      BY <1>7 DEF CaseInv, CountInv, DemandInv, ReviewerAnswers, Active
    <2>2. NextReview \in Reviews
      BY <2>1, FixtureReview
    <2> QED
      BY <1>7, <2>2 DEF ReviewerAnswers, AgentStep
  <1>8. CASE ReviewerObjects
    <2>1. Requiring(SustainedTerm) \in Reviews
      BY Fixture DEF FixtureTerms, SustainedTerm
    <2> QED
      BY <1>8, <2>1 DEF ReviewerObjects, AgentStep
  <1> QED
    BY <1>2, <1>3, <1>4, <1>5, <1>6, <1>7, <1>8 DEF MatrixNext

-----------------------------------------------------------------------------
(* Every step keeps the invariant. *)

LEMMA ReceiveKeeps == CaseInv /\ ReceiveCase /\ UNCHANGED <<fault, from>> => CaseInv'
  <1> SUFFICES ASSUME CaseInv, ReceiveCase, UNCHANGED <<fault, from>> PROVE CaseInv'
    OBVIOUS
  <1>1. /\ pc = "received" /\ result = None
        /\ UNCHANGED <<position, artefacts, guards, outcome, expired, report, client>>
    BY DEF ReceiveCase, ReceiveRequest, CaseInv, OutcomeInv
  <1>2. pc' = IF fault = "prompt_injection" THEN "failing" ELSE "announce"
    BY DEF ReceiveCase
  <1> QED
    BY <1>1, <1>2 DEF CaseInv, CountInv, FaultInv, TurnInv, DemandInv, OutcomeInv, Active,
        Struck, Objected, position, artefacts, guards, report, client

\* The orchestrator's own steps do not touch what the invariant is about, and
\* only a sleep lets the deadline pass.
LEMMA MachineryKeeps ==
    CaseInv /\ (Machinery \/ TimePasses) /\ UNCHANGED <<fault, from>> => CaseInv'
  <1> SUFFICES ASSUME CaseInv, Machinery \/ TimePasses, UNCHANGED <<fault, from>>
               PROVE  CaseInv'
    OBVIOUS
  <1>1. UNCHANGED <<client, phase, round, plan, review, guards, outcome>>
    BY DEF Machinery, TimePasses, AnnouncePhase, StartAttempt, WaitTimesOut, Finish,
        ReportTimeout, ReportFailure, Terminated, DeadlinePasses, vars, position, artefacts
  <1>2. expired' => asleep
    BY DEF Machinery, TimePasses, AnnouncePhase, StartAttempt, WaitTimesOut, Finish,
        ReportTimeout, ReportFailure, Terminated, DeadlinePasses, vars, context, CaseInv, FaultInv
  <1>3. (Active \/ pc = "received")' => (Active \/ pc = "received")
    BY CaseAssumption DEF Machinery, TimePasses, AnnouncePhase, StartAttempt, WaitTimesOut, Finish,
        ReportTimeout, ReportFailure, Terminated, DeadlinePasses, vars, Report, SinkFault, Active
  <1>4. OutcomeInv'
    <2>1. CASE AnnouncePhase \/ StartAttempt \/ WaitTimesOut \/ TimePasses \/ Terminated
      <3>1. result' = result
        BY <2>1 DEF AnnouncePhase, StartAttempt, WaitTimesOut, TimePasses, DeadlinePasses,
            Terminated, report, vars
      <3>2. pc' = pc \/ (Active /\ (pc' \in {"attempt", "waiting"} \/ (pc' = "timing_out" /\ expired)))
        BY <2>1, CaseAssumption DEF AnnouncePhase, StartAttempt, WaitTimesOut, TimePasses, DeadlinePasses,
            Terminated, vars, SinkFault, Active
      <3> QED
        BY <1>1, <3>1, <3>2 DEF CaseInv, FaultInv, OutcomeInv, Active, Struck, Objected, AsRecorded, client
    <2>2. ASSUME NEW t, NEW s, NEW c, NEW h, Report(t, s, c, h), AsRecorded(s), result = None
          PROVE  OutcomeInv'
      <3>1. pc' = "returned" /\ result'.status = s
        BY <2>2, CaseAssumption DEF Report, SinkFault, BuildResult
      <3> QED
        BY <1>1, <2>2, <3>1 DEF OutcomeInv, Active, AsRecorded, client
    <2>3. pc # "returned" => result = None
      BY DEF CaseInv, OutcomeInv
    <2>4. CASE Finish
      BY <2>2, <2>3, <2>4 DEF Finish, CaseInv, OutcomeInv
    <2>5. CASE ReportTimeout
      <3>1. AsRecorded("timeout")
        BY <2>5 DEF ReportTimeout, CaseInv, CountInv, OutcomeInv, AsRecorded, Recorded, Struck
      <3> QED
        BY <2>2, <2>3, <2>5, <3>1 DEF ReportTimeout
    <2>6. CASE ReportFailure
      <3>1. AsRecorded("failed")
        BY <2>6 DEF ReportFailure, CaseInv, CountInv, OutcomeInv, AsRecorded, Recorded, Struck,
            PlannerFaults
      <3> QED
        BY <2>2, <2>3, <2>6, <3>1 DEF ReportFailure
    <2> QED
      BY <2>1, <2>4, <2>5, <2>6 DEF Machinery
  <1> QED
    BY <1>1, <1>2, <1>3, <1>4 DEF CaseInv, CountInv, FaultInv, TurnInv, DemandInv,
        Struck, Objected, client, guards

\* A turn the fault leaves to the planner: the fixture's plan is valid there,
\* and has what was demanded so far.
LEMMA AnswerKeeps ==
    IInv /\ CaseInv /\ PlannerAnswers /\ UNCHANGED <<fault, from>> => CaseInv'
  <1> SUFFICES ASSUME IInv, CaseInv, PlannerAnswers, UNCHANGED <<fault, from>> PROVE CaseInv'
    OBVIOUS
  <1>1. /\ TypeOK /\ PhaseInv /\ CountInv /\ FaultInv /\ OutcomeInv
        /\ pc = "waiting" /\ Active /\ TurnInv /\ DemandInv
        /\ phase \in {"initial_plan", "revision"}
    BY DEF IInv, CaseInv, PlannerAnswers, Active, TypeOK, Phases
  <1>2. from \in Nat /\ calls.planner \in Nat /\ round \in Nat
    BY <1>1, CaseAssumption DEF CountInv, TypeOK
  <1>3. ~Struck
    BY <1>1, <1>2 DEF PlannerAnswers, Injects, Struck, FaultInv
  <1>4. calls.planner = round
    BY <1>1, <1>3 DEF TurnInv
  <1>5. ASSUME NextPlan \in Plans, ValidPlan(NextPlan), NextPlan.revision = round + 1,
               NextPlan.topology = "fixture",
               ~Objected => NextPlan.text["api"] \subseteq Given(delegated)
        PROVE  CaseInv'
    <2>1. /\ pc' = "announce" /\ phase' = "review" /\ round' = round + 1
          /\ plan' = NextPlan /\ lastPlan' = NextPlan
          /\ calls' = [calls EXCEPT !["planner"] = @ + 1]
          /\ UNCHANGED <<review, reviewHashes, delegated, pendingTerm, injections, asleep,
                         expired, result>>
      BY <1>5, CaseAssumption DEF PlannerAnswers, Answered, AcceptPlan, KeepPlan, SinkFault, Count,
          context, report
    <2>2. calls'.planner = calls.planner + 1 /\ calls'.reviewer = calls.reviewer
          /\ calls' \in [planner : Nat, reviewer : Nat]
      BY <1>1, <2>1 DEF CountInv
    <2>3. CountInv'
      BY <1>1, <1>5, <2>1, <2>2 DEF CountInv
    <2>4. FaultInv'
      BY <1>1, <1>2, <1>3, <2>1, <2>2 DEF FaultInv, PlannerAnswers, Injects, Struck, Objected
    <2>5. TurnInv'
      BY <1>1, <1>2, <1>3, <1>4, <1>5, <2>1, <2>2 DEF TurnInv, Struck, Objected
    <2>6. DemandInv'
      BY <1>1, <1>5, <2>1 DEF DemandInv, Objected
    <2>7. OutcomeInv'
      BY <1>1, <2>1 DEF OutcomeInv, Active
    <2> QED
      BY <2>3, <2>4, <2>5, <2>6, <2>7 DEF CaseInv
  <1>6. CASE phase = "initial_plan"
    <2>1. calls.planner = 0 /\ round = 0
      BY <1>1, <1>4, <1>6 DEF PhaseInv
    <2>2. NextPlan = InitialPlan
      BY <2>1 DEF NextPlan
    <2>3. InitialPlan \in Plans /\ ValidPlan(InitialPlan)
      BY <1>6, Fixture, FixtureAssumption DEF ValidPlan, InitialPlan
    <2>4. InitialPlan.revision = 1 /\ InitialPlan.topology = "fixture" /\ InitialPlan.text["api"] = {}
      BY Fixture DEF InitialPlan
    <2> QED
      BY <1>5, <2>1, <2>2, <2>3, <2>4
  <1>7. CASE phase = "revision"
    <2>1. /\ plan \in Plans /\ lastPlan = plan /\ round \in 1..(MaxReviewRounds - 1)
          /\ plan.revision = round /\ plan.topology = "fixture"
      BY <1>1, <1>7 DEF TypeOK, TurnInv, PhaseInv
    <2>2. /\ pendingTerm = IF Objected THEN SustainedTerm ELSE ReviewTerms[delegated]
          /\ review = Requiring(pendingTerm) /\ pendingTerm \notin plan.text["api"]
      BY <1>1, <1>7 DEF DemandInv
    <2>3. ~Objected => /\ delegated \in 1..2
                       /\ plan.text["api"] \subseteq Given(delegated - 1)
      BY <1>1, <1>7, <2>1 DEF DemandInv, TurnInv, CountInv
    <2>4. pendingTerm \in FixtureTerms /\ pendingTerm # None
      BY <2>2, <2>3, Fixture DEF FixtureTerms, SustainedTerm, ReviewTerms
    <2> DEFINE text == [plan.text EXCEPT !["api"] = @ \cup {pendingTerm}]
    <2>5. NextPlan = [plan EXCEPT !.revision = @ + 1, !.text = text, !.wording = plan.wording]
      BY <1>2, <1>4, <2>1, <2>4 DEF NextPlan, Revised
    <2>6. /\ plan.text \in [Targets -> SUBSET Terms] /\ pendingTerm \in Terms
          /\ "api" \in Targets /\ "api" \in TargetsOf[plan.topology]
      BY <2>1, <2>4, Fixture, FixtureAssumption DEF Plans
    <2>7. /\ text \in [Targets -> SUBSET Terms]
          /\ text["api"] = plan.text["api"] \cup {pendingTerm}
          /\ \A t \in Targets : t # "api" => text[t] = plan.text[t]
      BY <2>6
    <2> HIDE DEF text
    <2>8. /\ NextPlan.revision = round + 1 /\ NextPlan.topology = plan.topology
          /\ NextPlan.text = text /\ NextPlan.wording = plan.wording
          /\ NextPlan = [revision |-> round + 1, topology |-> plan.topology,
                         text |-> text, wording |-> plan.wording]
      BY <2>1, <2>5 DEF Plans
    <2>9. NextPlan \in Plans
      <3>1. round + 1 \in 1..MaxRevision
        BY <1>1, <2>1, BoundsAssumption DEF TypeOK
      <3>2. \A t \in Targets \ TargetsOf[plan.topology] : text[t] = {}
        BY <2>1, <2>6, <2>7 DEF Plans
      <3>3. plan.topology \in Topologies /\ plan.wording \in Wordings
        BY <2>1 DEF Plans
      <3> QED
        BY <2>7, <2>8, <3>1, <3>2, <3>3 DEF Plans
    <2>10. ValidPlan(NextPlan)
      <3>1. Payload(NextPlan) # Payload(plan)
        BY <2>2, <2>7, <2>8 DEF Payload
      <3>2. \A i \in 1..Len(review.changes) : Implements(NextPlan, review.changes[i])
        BY <2>2, <2>6, <2>7, <2>8 DEF Requiring, Implements
      <3> QED
        BY <1>7, <2>1, <2>8, <3>1, <3>2, FixtureAssumption DEF ValidPlan, ValidTransition
    <2>11. ~Objected => NextPlan.text["api"] \subseteq Given(delegated)
      BY <2>2, <2>3, <2>7, <2>8 DEF Given
    <2> QED
      BY <1>5, <2>1, <2>8, <2>9, <2>10, <2>11
  <1> QED
    BY <1>1, <1>6, <1>7

\* A turn the fault takes from the planner is refused, or is never answered.
LEMMA FaultKeeps ==
    IInv /\ CaseInv /\ (PlannerFails \/ PlannerSleeps) /\ UNCHANGED <<fault, from>> => CaseInv'
  <1> SUFFICES ASSUME IInv, CaseInv, PlannerFails \/ PlannerSleeps, UNCHANGED <<fault, from>>
               PROVE  CaseInv'
    OBVIOUS
  <1>1. /\ TypeOK /\ PhaseInv /\ CountInv /\ FaultInv /\ OutcomeInv
        /\ pc = "waiting" /\ Active /\ TurnInv /\ DemandInv
        /\ phase \in {"initial_plan", "revision"} /\ Injects("planner")
    BY DEF IInv, CaseInv, PlannerFails, PlannerSleeps, Active, TypeOK, Phases
  <1>2. from \in Nat /\ calls.planner \in Nat /\ injections \in Nat
    BY <1>1, CaseAssumption DEF CountInv
  <1>3. fault \in PlannerFaults /\ calls.planner >= from /\ ~Objected
    BY <1>1 DEF Injects, Objected, PlannerFaults
  <1>4. ~(FaultyPlan \in Plans /\ ValidPlan(FaultyPlan))
    <2>1. CASE fault = "unknown_resource"
      <3>1. FaultyPlan.topology = "widgets"
        BY <2>1 DEF FaultyPlan, InitialPlan
      <3> QED
        BY <3>1, FixtureAssumption DEF ValidPlan
    <2>2. CASE fault \in {"repeated_plan", "unresolved_review"}
      <3>1. FaultyPlan = Revised(lastPlan, lastPlan.text,
                IF fault = "repeated_plan" THEN lastPlan.wording ELSE lastPlan.revision + 1)
        BY <2>2 DEF FaultyPlan
      <3>2. /\ FaultyPlan.revision = lastPlan.revision + 1 /\ FaultyPlan.text = lastPlan.text
            /\ FaultyPlan.topology = lastPlan.topology /\ lastPlan.revision \in Nat
        BY <1>1, <3>1 DEF Revised, CountInv, Plans
      <3>3. CASE phase = "initial_plan"
        <4>1. lastPlan.revision = 1
          BY <1>1, <3>3 DEF TurnInv, InitialPlan
        <4> QED
          BY <3>2, <3>3, <4>1 DEF ValidPlan
      <3>4. CASE phase = "revision"
        <4>1. /\ lastPlan = plan /\ review = Requiring(pendingTerm)
              /\ pendingTerm \notin plan.text["api"]
          BY <1>1, <3>4 DEF TurnInv, DemandInv
        <4>2. Len(review.changes) = 1 /\ ~Implements(FaultyPlan, review.changes[1])
          BY <3>2, <4>1 DEF Requiring, Implements
        <4> QED
          BY <3>4, <4>2 DEF ValidPlan, ValidTransition
      <3> QED
        BY <1>1, <3>3, <3>4
    <2>3. CASE fault \in {"invalid_json", "dependency_cycle", "timeout"}
      <3>1. FaultyPlan = None
        BY <2>3 DEF FaultyPlan
      <3> QED
        BY <3>1, NoneAssumption
    <2> QED
      BY <1>3, <2>1, <2>2, <2>3 DEF PlannerFaults
  <1>5. /\ UNCHANGED <<phase, round, plan, review, reviewHashes, expired, result,
                        delegated, lastPlan, pendingTerm>>
        /\ calls' = [calls EXCEPT !["planner"] = @ + 1] /\ injections' = injections + 1
    BY <1>4 DEF PlannerFails, PlannerSleeps, Answered, RejectReply, Count, Inject, vars, position,
        artefacts, guards, context, report
  <1>6. calls'.planner = calls.planner + 1 /\ calls'.reviewer = calls.reviewer
        /\ calls' \in [planner : Nat, reviewer : Nat]
    BY <1>1, <1>5 DEF CountInv
  <1>7. Struck' /\ ~Objected'
    BY <1>2, <1>3, <1>5 DEF Struck, Objected, PlannerFaults
  <1>8. \/ pc' \in {"attempt", "failing"} /\ asleep' = asleep /\ fault # "timeout"
        \/ pc' = "waiting" /\ asleep' /\ fault = "timeout"
    BY <1>1, <1>4, CaseAssumption DEF PlannerFails, PlannerSleeps, Answered, RejectReply, SinkFault, vars
  <1>9. CountInv'
    <2>1. asleep' \in BOOLEAN
      BY <1>1 DEF PlannerFails, PlannerSleeps, CountInv
    <2>2. delegated' \in 0..3 /\ lastPlan' \in Plans /\ injections' \in Nat
      BY <1>1, <1>2, <1>5 DEF CountInv
    <2> QED
      BY <1>1, <1>6, <2>1, <2>2 DEF CountInv
  <1>10. FaultInv'
    BY <1>1, <1>2, <1>3, <1>5, <1>6, <1>7, <1>8 DEF FaultInv
  <1>11. TurnInv'
    BY <1>1, <1>3, <1>5, <1>6, <1>7 DEF TurnInv
  <1>12. DemandInv'
    BY <1>1, <1>3, <1>5, <1>7 DEF DemandInv
  <1>13. OutcomeInv'
    BY <1>1, <1>5, <1>7, <1>8 DEF OutcomeInv, Active
  <1> QED
    BY <1>9, <1>10, <1>11, <1>12, <1>13 DEF CaseInv

\* The fixture's reviews are no repetitions; the third one approves.
LEMMA ReviewKeeps ==
    IInv /\ CaseInv /\ ReviewerAnswers /\ UNCHANGED <<fault, from>> => CaseInv'
  <1> SUFFICES ASSUME IInv, CaseInv, ReviewerAnswers, UNCHANGED <<fault, from>> PROVE CaseInv'
    OBVIOUS
  <1>1. /\ TypeOK /\ PhaseInv /\ CountInv /\ FaultInv /\ OutcomeInv
        /\ pc = "waiting" /\ Active /\ TurnInv /\ DemandInv /\ phase = "review"
    BY DEF IInv, CaseInv, ReviewerAnswers, Active
  <1>2. /\ from \in Nat /\ calls.planner \in Nat /\ calls.reviewer \in Nat /\ injections \in Nat
        /\ round \in 1..MaxReviewRounds
    BY <1>1, CaseAssumption DEF CountInv, PhaseInv
  <1>3. ~Struck /\ ~Objected /\ injections = 0
    BY <1>1, <1>2 DEF ReviewerAnswers, Injects, Struck, Objected, FaultInv, TurnInv
  <1>4. /\ delegated = round - 1 /\ calls.reviewer = round - 1 /\ calls.planner = round
        /\ delegated \in 0..2 /\ lastPlan = plan
        /\ plan.text["api"] \subseteq Given(delegated)
        /\ reviewHashes \subseteq {Asks(t) : t \in Given(delegated)}
    BY <1>1, <1>2, <1>3 DEF TurnInv, DemandInv, CountInv
  <1>5. /\ calls' = [calls EXCEPT !["reviewer"] = @ + 1] /\ delegated' = delegated + 1
        /\ pendingTerm' = IF NextReview = Approval THEN None ELSE ReviewTerms[delegated + 1]
        /\ KeepReview(NextReview)
        /\ UNCHANGED <<round, plan, lastPlan, injections, asleep, expired, result>>
    BY CaseAssumption DEF ReviewerAnswers, AcceptReview, SinkFault, Count, context, report
  <1>6. calls'.reviewer = round /\ calls'.planner = round
        /\ calls' \in [planner : Nat, reviewer : Nat]
    BY <1>1, <1>2, <1>4, <1>5 DEF CountInv
  <1>7. ~Struck' /\ ~Objected'
    BY <1>3, <1>5 DEF Struck, Objected
  <1>8. CountInv'
    <2>1. asleep' \in BOOLEAN
      BY <1>1, <1>5 DEF CountInv
    <2>2. delegated' \in 0..3 /\ lastPlan' \in Plans /\ injections' \in Nat
      BY <1>1, <1>4, <1>5 DEF CountInv
    <2> QED
      BY <1>1, <1>6, <2>1, <2>2 DEF CountInv
  <1>9. FaultInv'
    BY <1>1, <1>2, <1>3, <1>4, <1>5, <1>6, <1>7 DEF FaultInv, ReviewerAnswers, Injects
  <1>10. CASE delegated = 2
    <2>1. NextReview = Approval
      BY <1>4, <1>10, FixtureReview
    <2>2. pc' = "finishing" /\ outcome'.status = "completed"
      BY <1>5, <2>1 DEF KeepReview, Repeats, Approval, Conclude
    <2>3. AsRecorded("completed")'
      BY <1>1, <1>2, <1>4, <1>5, <1>6, <1>7, <1>9, <1>10 DEF AsRecorded, FaultInv, OutcomeInv, CountInv, Faults, PlannerFaults
    <2>4. OutcomeInv'
      BY <1>1, <1>5, <2>2, <2>3 DEF OutcomeInv, Active
    <2> QED
      BY <1>8, <1>9, <2>2, <2>4 DEF CaseInv, Active
  <1>11. CASE delegated < 2
    <2> DEFINE term == ReviewTerms[delegated + 1]
    <2>1. /\ NextReview = Requiring(term) /\ term \in FixtureTerms /\ term \notin Given(delegated)
          /\ Given(delegated + 1) = Given(delegated) \cup {term}
          /\ Given(delegated) \subseteq FixtureTerms
      BY <1>4, <1>11, FixtureReview
    <2> HIDE DEF term
    <2>2. NextReview.decision = "revision_required" /\ NextReview # Approval
      BY <2>1 DEF Requiring, Approval
    <2>3. ~Repeats(NextReview)
      BY <1>4, <2>1, Fixture DEF Repeats, Asks
    <2>4. /\ review' = Requiring(term) /\ pendingTerm' = term
          /\ reviewHashes' = reviewHashes \cup {Asks(term)}
      BY <1>5, <2>1, <2>2 DEF KeepReview, Asks, term
    <2>5. \/ RevisionLeft /\ pc' = "announce" /\ phase' = "revision"
          \/ ~RevisionLeft /\ pc' = "finishing"
      BY <1>5, <2>2, <2>3 DEF KeepReview, Conclude
    <2>6. pc' = "finishing" => MaxReviewRounds < 3
      BY <1>2, <1>4, <1>11, <2>5, BoundsAssumption DEF RevisionLeft
    <2>7. OutcomeInv'
      BY <1>1, <1>5, <2>5, <2>6, BoundsAssumption DEF OutcomeInv, Active, AsRecorded
    <2>8. ASSUME pc' = "announce" PROVE TurnInv' /\ DemandInv'
      <3>1. phase' = "revision"
        BY <2>5, <2>8
      <3>2. TurnInv'
        BY <1>1, <1>2, <1>4, <1>5, <1>6, <1>7, <3>1 DEF TurnInv
      <3>3. DemandInv'
        <4>1. Given(delegated') = Given(delegated) \cup {term} /\ delegated' - 1 = delegated
              /\ delegated' <= 2
          BY <1>4, <1>5, <1>11, <2>1
        <4>2. reviewHashes' \subseteq {Asks(t) : t \in Given(delegated')}
          BY <1>4, <2>4, <4>1
        <4>3. term \notin plan'.text["api"]
          BY <1>4, <1>5, <2>1
        <4>4. term = ReviewTerms[delegated']
          BY <1>5 DEF term
        <4> QED
          BY <1>4, <1>5, <1>7, <2>4, <3>1, <4>1, <4>2, <4>3, <4>4 DEF DemandInv
      <3> QED
        BY <3>2, <3>3
    <2> QED
      BY <1>8, <1>9, <2>5, <2>7, <2>8 DEF CaseInv, Active
  <1> QED
    BY <1>4, <1>10, <1>11

\* The first objection is one the plan lacks; the second one repeats it.
LEMMA ObjectionKeeps ==
    IInv /\ CaseInv /\ ReviewerObjects /\ UNCHANGED <<fault, from>> => CaseInv'
  <1> SUFFICES ASSUME IInv, CaseInv, ReviewerObjects, UNCHANGED <<fault, from>> PROVE CaseInv'
    OBVIOUS
  <1>1. /\ TypeOK /\ PhaseInv /\ CountInv /\ FaultInv /\ OutcomeInv
        /\ pc = "waiting" /\ Active /\ TurnInv /\ DemandInv /\ phase = "review"
        /\ fault = "sustained_objection" /\ calls.reviewer >= from
    BY DEF IInv, CaseInv, ReviewerObjects, Injects, Active
  <1>2. /\ from \in Nat /\ calls.planner \in Nat /\ calls.reviewer \in Nat /\ injections \in Nat
        /\ round \in 1..MaxReviewRounds /\ delegated \in 0..2
    BY <1>1, CaseAssumption DEF CountInv, PhaseInv, DemandInv
  <1>3. /\ calls' = [calls EXCEPT !["reviewer"] = @ + 1] /\ injections' = injections + 1
        /\ pendingTerm' = SustainedTerm
        /\ KeepReview(Requiring(SustainedTerm))
        /\ UNCHANGED <<round, plan, delegated, lastPlan, asleep, expired, result>>
    BY CaseAssumption DEF ReviewerObjects, AcceptReview, SinkFault, Count, Inject, context, report
  <1>4. calls'.reviewer = calls.reviewer + 1 /\ calls'.planner = calls.planner
        /\ calls' \in [planner : Nat, reviewer : Nat]
    BY <1>1, <1>3 DEF CountInv
  <1>5. ~Struck /\ ~Struck' /\ Objected'
    BY <1>1, <1>2, <1>3 DEF Struck, Objected, PlannerFaults
  <1>6. CountInv'
    <2>1. asleep' \in BOOLEAN
      BY <1>1, <1>3 DEF CountInv
    <2>2. delegated' \in 0..3 /\ lastPlan' \in Plans /\ injections' \in Nat
      BY <1>1, <1>2, <1>3 DEF CountInv
    <2> QED
      BY <1>1, <1>4, <2>1, <2>2 DEF CountInv
  <1>7. FaultInv'
    BY <1>1, <1>2, <1>3, <1>4, <1>5 DEF FaultInv, Objected, PlannerFaults
  <1>8. /\ review' = Requiring(SustainedTerm) /\ reviewHashes' = reviewHashes \cup {Asks(SustainedTerm)}
        /\ Requiring(SustainedTerm).decision = "revision_required"
    BY <1>3 DEF KeepReview, Asks, Requiring
  <1>9. \/ pc' = "announce" /\ phase' = "revision" /\ Asks(SustainedTerm) \notin reviewHashes
        \/ pc' = "finishing" /\ outcome'.status = "degraded"
    BY <1>3, <1>8 DEF KeepReview, Conclude, Repeats, Asks
  <1>10. OutcomeInv'
    BY <1>1, <1>2, <1>3, <1>9 DEF OutcomeInv, Active, AsRecorded, Recorded, Faults
  <1>11. ASSUME pc' = "announce" PROVE TurnInv' /\ DemandInv'
    <2>1. phase' = "revision" /\ ~Objected
      BY <1>1, <1>9, <1>11 DEF DemandInv
    <2>2. TurnInv'
      BY <1>1, <1>2, <1>3, <1>4, <1>5, <2>1 DEF TurnInv
    <2>3. SustainedTerm \notin plan.text["api"]
      BY <1>1, <1>2, <2>1, FixtureReview DEF DemandInv
    <2>4. DemandInv'
      BY <1>2, <1>3, <1>5, <1>8, <2>1, <2>3 DEF DemandInv
    <2> QED
      BY <2>2, <2>4
  <1> QED
    BY <1>6, <1>7, <1>9, <1>10, <1>11 DEF CaseInv, Active

LEMMA NextCaseInv == IInv /\ CaseInv /\ [MatrixNext]_matrixVars => CaseInv'
  <1> SUFFICES ASSUME IInv, CaseInv, [MatrixNext]_matrixVars PROVE CaseInv'
    OBVIOUS
  <1>1. CASE UNCHANGED matrixVars
    BY <1>1 DEF matrixVars, vars, position, artefacts, guards, context, report, client, CaseInv,
        CountInv, FaultInv, TurnInv, DemandInv, OutcomeInv, AsRecorded, Active, Struck, Objected
  <1> QED
    BY <1>1, ReceiveKeeps, MachineryKeeps, AnswerKeeps, FaultKeeps, ReviewKeeps, ObjectionKeeps
    DEF MatrixNext

LEMMA MatrixInductive == MatrixSpec => [](IInv /\ CaseInv)
  <1>1. MatrixInit => IInv /\ CaseInv
    BY InitIInv, InitCaseInv DEF MatrixInit
  <1>2. IInv /\ CaseInv /\ [MatrixNext]_matrixVars => (IInv /\ CaseInv)'
    BY StepIsARunsStep, NextIInv, NextCaseInv
  <1> QED
    BY <1>1, <1>2, PTL DEF MatrixSpec

-----------------------------------------------------------------------------
(* The results. *)

\* A case of the fault matrix is a run of the orchestrator, with this client
\* for its agents: what holds of every run holds of every case.
THEOREM MatrixRuns == MatrixSpec => Spec
  <1>1. MatrixInit => Init
    BY DEF MatrixInit
  <1> QED
    BY <1>1, StepIsARunsStep, MatrixInductive, PTL DEF MatrixSpec, Spec

\* Each case has the outcome recorded for its fault, whatever the injection
\* round, the retries allowed and the number of rounds, from three on.
THEOREM CasesRecorded == MatrixSpec => [](MaxReviewRounds >= 3 => CasesEndAsRecorded)
  <1>1. CaseInv => (MaxReviewRounds >= 3 => CasesEndAsRecorded)
    BY DEF CaseInv, OutcomeInv, AsRecorded, CasesEndAsRecorded
  <1> QED
    BY <1>1, MatrixInductive, PTL

\* No fault gets a plan approved that is not the plan returned, and no injected
\* plan brings in another topology.
THEOREM CasesKeepTheApproval == MatrixSpec => [](ApprovalIsOfTheFinalPlan /\ TopologyNeverChanges)
  BY MatrixRuns, ApprovedPlanIsTheFinalPlan, OneTopology, PTL
=============================================================================
