------------------------------ MODULE FaultMatrix ------------------------------
(***************************************************************************)
(* The fault matrix of src/src/frozen_runner.py: Orchestrator with the      *)
(* deterministic fixture client as planner and reviewer, and one fault that *)
(* FaultInjectingClient puts in the place of a role's turns from a given    *)
(* call on.  Every step is a step of Orchestrator; this module decides      *)
(* which replies the agents give, so a valid reply must be accepted.        *)
(*                                                                         *)
(* The fixture plan has one field that reviews target, the high             *)
(* availability of the resource "api"; its wording tells revisions apart    *)
(* that differ in their cost notes only.                                    *)
(***************************************************************************)
EXTENDS Orchestrator

CONSTANT InjectionRounds    \* injection_round of the cases; the schema allows 0..5

Faults == {"sustained_objection", "repeated_plan", "invalid_json", "timeout",
           "unknown_resource", "dependency_cycle", "unresolved_review",
           "prompt_injection"}

VARIABLES
    fault,          \* fault_type of the case
    from,           \* injection_round of the case
    calls,          \* FaultInjectingClient.calls_by_role
    delegated,      \* the reviewer's calls that reached the fixture
    lastPlan,       \* the fixture's last_plan
    pendingTerm,    \* the fixture's pending_term, or None
    injections,     \* how often the fault was injected
    asleep          \* the client sleeps beyond the run's deadline

client == <<calls, delegated, lastPlan, pendingTerm, injections, asleep>>
matrixVars == <<vars, fault, from, client>>

InitialPlan == [revision |-> 1, topology |-> "fixture",
                text |-> [t \in Targets |-> {}], wording |-> 0]

MatrixInit ==
    /\ Init
    /\ fault \in Faults /\ from \in InjectionRounds
    /\ calls = [planner |-> 0, reviewer |-> 0]
    /\ delegated = 0
    /\ lastPlan = InitialPlan /\ pendingTerm = None
    /\ injections = 0 /\ asleep = FALSE

\* The fixture answers in words of its own, which the constants must hold; the
\* resource type of the fault unknown_resource is one the policy does not know.
FixtureTerms == {"instances", "probe", "backup"}

ASSUME FixtureAssumption ==
    /\ "fixture" \in AllowedTopologies /\ "widgets" \notin AllowedTopologies
    /\ "api" \in TargetsOf["fixture"]
    /\ 0 \in Wordings
    /\ FixtureTerms \subseteq Terms /\ None \notin FixtureTerms
    /\ \A t \in FixtureTerms :
         <<[description |-> "add", target |-> "api", terms |-> {t}]>> \in Demands

\* The frozen runner makes its orchestrator without an event sink.
ASSUME CaseAssumption == InjectionRounds \subseteq Nat /\ SinkFaults = {}

-----------------------------------------------------------------------------
(* The fixture. *)

Revised(p, text, wording) ==
    [p EXCEPT !.revision = @ + 1, !.text = text, !.wording = wording]

NextPlan ==
    IF calls.planner = 0 THEN InitialPlan
    ELSE Revised(lastPlan,
                 IF pendingTerm = None THEN lastPlan.text
                 ELSE [lastPlan.text EXCEPT !["api"] = @ \cup {pendingTerm}],
                 lastPlan.wording)

Requiring(term) ==
    [decision |-> "revision_required",
     changes |-> <<[description |-> "add", target |-> "api", terms |-> {term}]>>]

ReviewTerms == <<"instances", "probe">>
SustainedTerm == "backup"

\* Demands one term after the other, then approves.
NextReview ==
    IF delegated < Len(ReviewTerms) THEN Requiring(ReviewTerms[delegated + 1]) ELSE Approval

-----------------------------------------------------------------------------
(* The fault injector. *)

PlannerFaults == {"repeated_plan", "invalid_json", "timeout", "unknown_resource",
                  "dependency_cycle", "unresolved_review"}

OnceOnlyMutant(role) ==
    /\ fault \in (IF role = "planner" THEN PlannerFaults ELSE {"sustained_objection"})
    /\ calls[role] = from

\* The fault takes the place of this call; the first plan cannot be repeated.
Injects(role) ==
    \/ /\ role = "planner" /\ fault \in PlannerFaults
       /\ calls.planner >= from
       /\ fault \in {"repeated_plan", "unresolved_review"} => calls.planner >= 1
    \/ role = "reviewer" /\ fault = "sustained_objection" /\ calls.reviewer >= from

\* The plan a fault sends; None for what is no plan at all (no JSON, or a
\* dependency cycle, which the schema refuses).
FaultyPlan ==
    CASE fault = "repeated_plan" -> Revised(lastPlan, lastPlan.text, lastPlan.wording)
      [] fault = "unresolved_review" -> Revised(lastPlan, lastPlan.text, lastPlan.revision + 1)
      [] fault = "unknown_resource" ->
            [InitialPlan EXCEPT !.topology = "widgets",
                !.revision = lastPlan.revision + (IF calls.planner = 0 THEN 0 ELSE 1)]
      [] OTHER -> None

Count(role) == calls' = [calls EXCEPT ![role] = @ + 1]
Inject == injections' = injections + 1

-----------------------------------------------------------------------------
(* The run. *)

\* The injected prompt has a zero-width character, which ArchitectureRequest
\* refuses; the fixture's requirement is valid.
ReceiveCase ==
    /\ ReceiveRequest
    /\ pc' = IF fault = "prompt_injection" THEN "failing" ELSE "announce"
    /\ UNCHANGED client

Answered(p) == IF p \in Plans /\ ValidPlan(p) THEN AcceptPlan(p)
               ELSE \E c \in Categories : RejectReply(c)

\* The planner's turn is the fixture's.
PlannerAnswers ==
    /\ pc = "waiting" /\ phase # "review" /\ ~Injects("planner")
    /\ Count("planner")
    /\ lastPlan' = NextPlan
    /\ Answered(NextPlan)
    /\ UNCHANGED <<delegated, pendingTerm, injections, asleep>>

\* The planner's turn is the fault.
PlannerFails ==
    /\ pc = "waiting" /\ phase # "review" /\ Injects("planner") /\ fault # "timeout"
    /\ Count("planner") /\ Inject
    /\ Answered(FaultyPlan)
    /\ UNCHANGED <<delegated, lastPlan, pendingTerm, asleep>>

\* asyncio.sleep for longer than the run may take.
PlannerSleeps ==
    /\ pc = "waiting" /\ phase # "review" /\ Injects("planner") /\ fault = "timeout" /\ ~asleep
    /\ Count("planner") /\ Inject
    /\ asleep' = TRUE
    /\ UNCHANGED <<vars, delegated, lastPlan, pendingTerm>>

\* The reviewer's turn is the fixture's.
ReviewerAnswers ==
    /\ pc = "waiting" /\ phase = "review" /\ ~Injects("reviewer")
    /\ Count("reviewer") /\ delegated' = delegated + 1
    /\ pendingTerm' = IF NextReview = Approval THEN None ELSE ReviewTerms[delegated + 1]
    /\ AcceptReview(NextReview)
    /\ UNCHANGED <<lastPlan, injections, asleep>>

\* The reviewer insists, and the fixture's planner will do what it asks.
ReviewerObjects ==
    /\ pc = "waiting" /\ phase = "review" /\ Injects("reviewer")
    /\ Count("reviewer") /\ Inject
    /\ pendingTerm' = SustainedTerm
    /\ AcceptReview(Requiring(SustainedTerm))
    /\ UNCHANGED <<delegated, lastPlan, asleep>>

\* Only a sleep is long enough for the deadline.
TimePasses == asleep /\ DeadlinePasses /\ UNCHANGED client

Machinery ==
    /\ AnnouncePhase \/ StartAttempt \/ WaitTimesOut \/ Finish \/ ReportTimeout
       \/ ReportFailure \/ Terminated
    /\ UNCHANGED client

MatrixNext ==
    /\ \/ ReceiveCase \/ Machinery \/ TimePasses
       \/ PlannerAnswers \/ PlannerFails \/ PlannerSleeps
       \/ ReviewerAnswers \/ ReviewerObjects
    /\ UNCHANGED <<fault, from>>

MatrixSpec == MatrixInit /\ [][MatrixNext]_matrixVars /\ WF_matrixVars(MatrixNext)

-----------------------------------------------------------------------------
(* Properties. *)

\* docs/phase5_evaluation.md on what the orchestrator really does with each
\* fault that is injected: a sustained objection ends degraded, a sleep in a
\* timeout, and every other fault in a failure.
Recorded == [f \in Faults |-> CASE f = "sustained_objection" -> "degraded"
                                [] f = "timeout" -> "timeout"
                                [] OTHER -> "failed"]

\* A case that has ended has the outcome recorded for its fault.  Each case of
\* the frozen set (injection rounds 0 to 2) has then injected its fault, so none
\* of them measures an undisturbed run; a later round that is never reached
\* leaves the run undisturbed, and that run completes.
CasesEndAsRecorded ==
    result # None =>
        /\ from <= 2 /\ fault # "prompt_injection" => injections > 0
        /\ result.status =
             IF injections > 0 \/ fault = "prompt_injection" THEN Recorded[fault] ELSE "completed"

\* Every case ends, also the one whose client sleeps beyond the deadline.
CasesEnd == <>(result # None)
=============================================================================
