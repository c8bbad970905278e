----------------------- MODULE OrchestratorRefinement -----------------------
(***************************************************************************)
(* The coroutine of Orchestrator implements Collaboration when the sink     *)
(* does not fail: attempts, messages and events are stutters, and the       *)
(* verdict settles the collaboration before the result is built.            *)
(***************************************************************************)
EXTENDS Orchestrator

Standing == IF result # None THEN result.status
            ELSE IF outcome # None THEN outcome.status ELSE "open"

Promise == INSTANCE Collaboration WITH
    MaxRounds <- MaxReviewRounds,
    Permitted <- AllowedTopologies,
    Meets <- Implements,
    draft <- plan,
    verdict <- review,
    rounds <- roundsCompleted,
    demanded <- reviewHashes,
    standing <- Standing

\* Every run, seen through its plan, review, rounds and result, is a
\* collaboration: it alternates, ends on the last verdict, and always ends.
ImplementsCollaboration == Promise!Spec

-----------------------------------------------------------------------------
(* The catalogue of state transitions (data/state_transition_rules.json).    *)

\* The catalogue's name for where the run stands: a request is under validation
\* until it is accepted, so a refused one fails from there.
CatalogState ==
    IF result # None THEN result.status
    ELSE IF ~request THEN "input_validation"
    ELSE IF phase = "initial_plan" THEN "planning"
    ELSE IF phase = "revision" THEN "revision"
    ELSE IF round = 1 THEN "review" ELSE "rereview"

\* The step takes the run from one of these states to that one.
Moves(from, to) == CatalogState \in from /\ CatalogState' = to

\* What the rules require of a step, besides its two states.
PlanIsFirst == plan'.revision = 1 /\ plan'.topology \in AllowedTopologies

PlanIsRevised ==
    /\ plan'.revision = plan.revision + 1
    /\ plan'.topology \in AllowedTopologies
    /\ \A i \in 1..Len(review.changes) : Implements(plan', review.changes[i])

RevisionIsDue == review'.changes # <<>> /\ round < MaxReviewRounds

LimitIsReached == round = MaxReviewRounds /\ review.decision = "revision_required"

DemandIsRepeated ==
    \E i \in Indices :
        /\ i < Len(transcript) /\ ReviewAt(i)
        /\ transcript[i].parsed.changes = review.changes

\* The rules of the dialogue with their preconditions: TR-002 to TR-004, TR-006
\* to TR-010, and TR-012, whose "no new disposition evidence" the code does not
\* look for.  TR-001 leads to input_validation; TR-011 is never taken.
CataloguedStep ==
    \/ Moves({"input_validation"}, "failed") /\ ~request'
    \/ Moves({"input_validation"}, "planning") /\ request'
    \/ Moves({"planning"}, "review") /\ PlanIsFirst
    \/ Moves({"review", "rereview"}, "completed") /\ review = Approval
    \/ Moves({"review"}, "revision") /\ RevisionIsDue
    \/ Moves({"revision"}, "rereview") /\ PlanIsRevised
    \/ Moves({"review"}, "degraded") /\ LimitIsReached
    \/ Moves({"rereview"}, "degraded") /\ DemandIsRepeated

\* TR-005 and TR-013 to TR-015 give up in one state for one cause (the planner's
\* deadline, exhausted corrections, a refused output).  The code gives up from
\* each state in which agents are asked: on their errors, any timeout or a sink.
GivingUp ==
    \/ Moves({"planning", "review", "revision", "rereview"}, "timeout")
    \/ Moves({"planning", "review", "revision", "rereview"}, "failed")

\* What the code does after a second review and the catalogue does not list.
UncataloguedStep ==
    \/ Moves({"rereview"}, "revision") /\ RevisionIsDue
    \/ Moves({"rereview"}, "degraded") /\ LimitIsReached

\* A run changes its state by a rule of the catalogue whose preconditions hold
\* of plan, review, rounds and transcript at that moment, by giving up, or by one
\* of two steps the catalogue omits, and in no other way, however attempts are
\* refused, time runs out or the sink fails.  In particular a refused request only
\* ever fails, and what ends "degraded" was at the limit or met a demand again.
TransitionsAreKnown ==
    [][CatalogState' # CatalogState => CataloguedStep \/ GivingUp \/ UncataloguedStep]_vars
=============================================================================
