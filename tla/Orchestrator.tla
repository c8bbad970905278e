---------------------------- MODULE Orchestrator ----------------------------
(***************************************************************************)
(* ArchitectureOrchestrator.run (src/src/orchestrator.py): a planner agent  *)
(* proposes an architecture, a reviewer agent approves it or demands        *)
(* changes, the planner revises, for a bounded number of rounds, bounded    *)
(* attempts per reply and a bounded wall-clock time.                        *)
(*                                                                         *)
(* The run is one coroutine: what happens between two of its awaits is one  *)
(* step.  Its environment is the agents (any reply at all, an exception, a  *)
(* timeout of their own, or silence), the clock, and the event sink, a      *)
(* callback of the caller that may raise.                                   *)
(*                                                                         *)
(* Data kept of a plan: its revision, its topology (resource names, types   *)
(* and dependencies), the terms found in each field a reviewer may target,  *)
(* and everything else as a wording.  A review is a decision and the list   *)
(* of changes it demands.                                                   *)
(***************************************************************************)
EXTENDS Naturals, Sequences, FiniteSets

CONSTANTS
    MaxReviewRounds,    \* max_review_rounds
    MaxParseRetries,    \* max_parse_retries
    MaxRevision,        \* schemas.py: ArchitecturePlan.revision <= 10
    Topologies,         \* the schema-valid resource graphs a planner may send
    AllowedTopologies,  \* those validate_topology_policy lets through
    Targets,            \* target fields, the resource included
    TargetsOf,          \* TargetsOf[t]: the targets that exist in topology t
    Terms,              \* required_terms
    Wordings,           \* the rest of a plan's text
    Demands,            \* the lists of required changes a reviewer may send
    Categories,         \* the validation_error_category a rejected reply may get
    SinkFaults,         \* how a call of the event sink may fail
    None                \* Python's None

Changes == [description : STRING, target : Targets, terms : SUBSET Terms \ {{}}]

ASSUME BoundsAssumption ==
    /\ MaxReviewRounds \in Nat \ {0}
    /\ MaxParseRetries \in 0..2
    /\ MaxRevision \in Nat
    /\ MaxReviewRounds <= MaxRevision

ASSUME DataAssumption ==
    /\ AllowedTopologies \subseteq Topologies
    /\ TargetsOf \in [Topologies -> SUBSET Targets]
    /\ \A d \in Demands : d \in Seq(Changes) /\ d # <<>>

ASSUME CategoryAssumption == Categories \subseteq {"parse", "schema", "state"}

ASSUME SinkAssumption == SinkFaults \subseteq {"raises", "times_out", "interrupts"}

\* Schema-valid plans; a resource the topology lacks has no text.
Plans == {p \in [revision : 1..MaxRevision, topology : Topologies,
                 text : [Targets -> SUBSET Terms], wording : Wordings] :
            \A t \in Targets \ TargetsOf[p.topology] : p.text[t] = {}}

Approval == [decision |-> "approved", changes |-> <<>>]
Reviews == {Approval} \cup
           {[decision |-> "revision_required", changes |-> d] : d \in Demands}

Phases == {"initial_plan", "review", "revision"}
Statuses == {"completed", "degraded", "timeout", "failed"}
Reasons == {"approved", "max_review_rounds", "no_progress", "timeout", "error"}
Outcomes == [status : Statuses, reason : Reasons]

ASSUME NoneAssumption == None \notin Plans \cup Reviews \cup Outcomes

VARIABLES
    pc,              \* where the coroutine stands
    phase,           \* MessagePhase of the agent call being prepared or made
    round,           \* review_round of that call
    attempt,         \* attempt counter of _run_structured_agent
    plan, review,    \* last validated plan and review, or None
    roundsCompleted, \* rounds_completed
    request,         \* request is not None: the requirements were accepted
    transcript,      \* transcript: one entry per agent reply that was parsed
    planHashes,      \* ProgressGuard._plan_hashes
    reviewHashes,    \* ProgressGuard._review_hashes
    outcome,         \* status and reason chosen by the loop, not yet reported
    expired,         \* run_deadline has passed
    events,          \* events that carry a result, in the order emitted
    result           \* what run() returned, or None

guards == <<planHashes, reviewHashes>>
position == <<phase, round, attempt>>
context == <<request, expired>>
artefacts == <<plan, review, roundsCompleted>>
report == <<events, result>>
vars == <<pc, position, artefacts, transcript, guards, outcome, context, report>>

-----------------------------------------------------------------------------
(* Validation of a reply. *)

SkipUnknownTargetMutant(p, c) == c.target \in TargetsOf[p.topology] => c.terms \subseteq p.text[c.target]

\* The change's terms are all found in the plan's target; the text of a
\* resource the plan does not have is empty for resolve_review_changes and an
\* error for validate_revision_transition: unsatisfied either way.
Implements(p, c) ==
    /\ c.target \in TargetsOf[p.topology]
    /\ c.terms \subseteq p.text[c.target]

\* What ProgressGuard and the substantive-change test see of a plan.
Payload(p) == [topology |-> p.topology, text |-> p.text, wording |-> p.wording]

DriftsLaterMutant(old, new, r) ==
    /\ new.revision = old.revision + 1
    /\ old.revision = 1 => new.topology = old.topology
    /\ Payload(new) # Payload(old)
    /\ \A i \in 1..Len(r.changes) : Implements(new, r.changes[i])

IgnoresDemandsMutant(old, new, r) ==
    /\ new.revision = old.revision + 1
    /\ new.topology = old.topology
    /\ Payload(new) # Payload(old)

\* validate_revision_transition.
ValidTransition(old, new, r) ==
    /\ new.revision = old.revision + 1
    /\ new.topology = old.topology
    /\ Payload(new) # Payload(old)
    /\ \A i \in 1..Len(r.changes) : Implements(new, r.changes[i])

\* A planner reply that passes the schema is accepted in this position.
ValidPlan(p) ==
    /\ p.topology \in AllowedTopologies
    /\ \/ phase = "initial_plan" /\ p.revision = 1
       \/ phase = "revision" /\ ValidTransition(plan, p, review)

SwappedResolutionsMutant(r, p) ==
    [i \in 1..Len(r.changes) |->
        IF Implements(p, r.changes[i]) THEN "unresolved" ELSE "implemented"]

\* resolve_review_changes.
Resolutions(r, p) ==
    [i \in 1..Len(r.changes) |->
        IF Implements(p, r.changes[i]) THEN "implemented" ELSE "unresolved"]

\* _build_result.
BuildResult(status, reason) ==
    [status |-> status, reason |-> reason, plan |-> plan, review |-> review,
     resolutions |-> IF plan = None \/ review = None
                     THEN <<>> ELSE Resolutions(review, plan),
     rounds |-> roundsCompleted, request |-> request]

\* TranscriptMessage: what was parsed, or why nothing was.
Entry(status, content, category) ==
    [phase |-> phase, round |-> round, status |-> status, parsed |-> content,
     category |-> category]

-----------------------------------------------------------------------------
(* The coroutine. *)

Init ==
    /\ pc = "received"
    /\ phase = "initial_plan" /\ round = 0 /\ attempt = 0
    /\ plan = None /\ review = None /\ roundsCompleted = 0
    /\ request = FALSE /\ transcript = <<>>
    /\ planHashes = {} /\ reviewHashes = {}
    /\ outcome = None
    /\ expired = FALSE
    /\ events = <<>> /\ result = None

\* The sink raised: an Exception goes to the handler at hand, a TimeoutError
\* inside the try block to the clause for timeouts, and a BaseException
\* (Streamlit stops or reruns the script that way) leaves run() without result.
SinkFault(handler) ==
    \/ "raises" \in SinkFaults /\ pc' = handler
    \/ "times_out" \in SinkFaults /\ pc' = IF handler = "failing" THEN "timing_out" ELSE handler
    \/ "interrupts" \in SinkFaults /\ pc' = "raised"

PlanAnywayMutant ==
    /\ pc = "received"
    /\ request' \in BOOLEAN
    /\ pc' = "announce"
    /\ UNCHANGED <<position, artefacts, transcript, guards, outcome, expired, report>>

\* ArchitectureRequest(requirements=...) accepts or raises ValidationError.
ReceiveRequest ==
    /\ pc = "received"
    /\ request' \in BOOLEAN
    /\ pc' = IF request' THEN "announce" ELSE "failing"
    /\ UNCHANGED <<position, artefacts, transcript, guards, outcome, expired, report>>

\* The STATUS event of a phase, then fresh agents for it.
AnnouncePhase ==
    /\ pc = "announce"
    /\ \/ pc' = "attempt"
       \/ SinkFault("failing")
    /\ attempt' = 0
    /\ UNCHANGED <<phase, round, artefacts, transcript, guards, outcome, context, report>>

\* Top of the attempt loop: the remaining time decides.
StartAttempt ==
    /\ pc = "attempt"
    /\ pc' = IF expired THEN "timing_out" ELSE "waiting"
    /\ UNCHANGED <<position, artefacts, transcript, guards, outcome, context, report>>

NeverTimesOutMutant ==
    /\ pc = "waiting" /\ expired /\ pc' = "waiting"
    /\ UNCHANGED <<position, artefacts, transcript, guards, outcome, context, report>>

\* asyncio.wait_for gives up at the deadline.
WaitTimesOut ==
    /\ pc = "waiting" /\ expired
    /\ pc' = "timing_out"
    /\ UNCHANGED <<position, artefacts, transcript, guards, outcome, context, report>>

\* The model client's own inference timeout, a TimeoutError too, lands in the
\* same handler whether or not the deadline has passed.
AgentTimesOut ==
    /\ pc = "waiting"
    /\ pc' = "timing_out"
    /\ UNCHANGED <<position, artefacts, transcript, guards, outcome, context, report>>

\* Any other exception of the agent, no message, or an empty message: no
\* retry and no transcript entry.
AgentRaises ==
    /\ pc = "waiting"
    /\ pc' = "failing"
    /\ UNCHANGED <<position, artefacts, transcript, guards, outcome, context, report>>

\* attempt < self._max_parse_retries: a further attempt is allowed.
MayRetry == attempt < MaxParseRetries

\* A reply that is no JSON object, breaks the schema or is not a ValidPlan:
\* its content is not kept but for the category of its error, so all of these
\* are one step, always possible.  Only a planner's reply is of a wrong state.
RejectReply(category) ==
    /\ pc = "waiting"
    /\ category = "state" => phase # "review"
    /\ transcript' = Append(transcript, Entry("invalid", None, category))
    /\ \/ MayRetry /\ pc' = "attempt" /\ attempt' = attempt + 1
       \/ ~MayRetry /\ pc' = "failing" /\ UNCHANGED attempt
       \/ SinkFault("failing") /\ UNCHANGED attempt
    /\ UNCHANGED <<phase, round, artefacts, guards, outcome, context, report>>

FirstPlanMutant(p) ==
    /\ plan' = IF plan = None THEN p ELSE plan
    /\ planHashes' = planHashes \cup {Payload(p)}
    /\ phase' = "review" /\ round' = round + 1
    /\ pc' = "announce"

\* The plan is kept and the next review round begins (the loop has a round
\* left: it starts at 1 <= MaxReviewRounds and revises below the limit only).
\* observe_plan's answer, whether the plan is new, is not used.
KeepPlan(p) ==
    /\ plan' = p
    /\ planHashes' = planHashes \cup {Payload(p)}
    /\ phase' = "review" /\ round' = round + 1
    /\ pc' = "announce"

\* A valid reply of the planner.
AcceptPlan(p) ==
    /\ pc = "waiting" /\ phase # "review" /\ ValidPlan(p)
    /\ transcript' = Append(transcript, Entry("valid", p, None))
    /\ \/ KeepPlan(p)
       \/ SinkFault("failing") /\ UNCHANGED <<plan, planHashes, phase, round>>
    /\ UNCHANGED <<attempt, review, roundsCompleted, reviewHashes, outcome, context, report>>

CompleteAnywayMutant(status, reason) ==
    /\ pc' = "finishing"
    /\ outcome' = [status |-> IF reason = "no_progress" THEN status ELSE "completed", reason |-> reason]
    /\ UNCHANGED phase

\* The loop ends: build_result, then the COMPLETED event.
Conclude(status, reason) ==
    /\ pc' = "finishing"
    /\ outcome' = [status |-> status, reason |-> reason]
    /\ UNCHANGED phase

NeverRepeatsMutant(r) == r.decision = "revision_required" /\ r.changes \in planHashes

\* revision_required with a list of changes demanded before in this run.
Repeats(r) == r.decision = "revision_required" /\ r.changes \in reviewHashes

ReviseBeyondLimitMutant == round <= MaxReviewRounds

\* review_round < self._max_review_rounds: a revision is asked for.
RevisionLeft == round < MaxReviewRounds

\* A validated review and what the loop makes of it.
KeepReview(r) ==
    /\ review' = r
    /\ roundsCompleted' = round
    /\ reviewHashes' = reviewHashes \cup {r.changes}
    /\ \/ Repeats(r) /\ Conclude("degraded", "no_progress")
       \/ r.decision = "approved" /\ Conclude("completed", "approved")
       \/ /\ r.decision = "revision_required" /\ ~Repeats(r)
          /\ \/ RevisionLeft /\ pc' = "announce" /\ phase' = "revision" /\ UNCHANGED outcome
             \/ ~RevisionLeft /\ Conclude("degraded", "max_review_rounds")

\* A valid reply of the reviewer.
AcceptReview(r) ==
    /\ pc = "waiting" /\ phase = "review"
    /\ transcript' = Append(transcript, Entry("valid", r, None))
    /\ \/ KeepReview(r)
       \/ SinkFault("failing") /\ UNCHANGED <<review, roundsCompleted, reviewHashes, phase, outcome>>
    /\ UNCHANGED <<round, attempt, plan, planHashes, context, report>>

\* Build a result, emit it, and return it unless the sink fails.
Report(type, status, reason, handler) ==
    LET r == BuildResult(status, reason) IN
    /\ events' = Append(events, [type |-> type, result |-> r])
    /\ \/ pc' = "returned" /\ result' = r
       \/ SinkFault(handler) /\ UNCHANGED result

\* The COMPLETED event is emitted inside the try block.
Finish ==
    /\ pc = "finishing"
    /\ Report("completed", outcome.status, outcome.reason, "failing")
    /\ UNCHANGED <<position, artefacts, transcript, guards, outcome, context>>

\* except TimeoutError.
ReportTimeout ==
    /\ pc = "timing_out"
    /\ Report("error", "timeout", "timeout", "raised")
    /\ UNCHANGED <<position, artefacts, transcript, guards, outcome, context>>

FailAgainMutant ==
    /\ pc = "failing"
    /\ Report("error", "failed", "error", "failing")
    /\ UNCHANGED <<position, artefacts, transcript, guards, outcome, context>>

\* except Exception.
ReportFailure ==
    /\ pc = "failing"
    /\ Report("error", "failed", "error", "raised")
    /\ UNCHANGED <<position, artefacts, transcript, guards, outcome, context>>

Stopped == pc \in {"returned", "raised"}

\* monotonic() reaches run_deadline.
DeadlinePasses ==
    /\ ~expired /\ ~Stopped
    /\ expired' = TRUE
    /\ UNCHANGED <<pc, position, artefacts, transcript, guards, outcome, request, report>>

\* run() is over.
Terminated == Stopped /\ UNCHANGED vars

\* What the coroutine does by itself, without an answer of an agent.
OwnStep == ReceiveRequest \/ AnnouncePhase \/ StartAttempt \/ WaitTimesOut
           \/ Finish \/ ReportTimeout \/ ReportFailure

AgentStep == \/ AgentTimesOut \/ AgentRaises
             \/ \E c \in Categories : RejectReply(c)
             \/ \E p \in Plans : AcceptPlan(p)
             \/ \E r \in Reviews : AcceptReview(r)

Next == OwnStep \/ AgentStep \/ DeadlinePasses \/ Terminated

\* The event loop keeps running the coroutine and time keeps passing; nothing
\* is assumed of the agents, which may never answer.
Fairness == WF_vars(OwnStep) /\ WF_vars(DeadlinePasses)

Spec == Init /\ [][Next]_vars
FairSpec == Spec /\ Fairness

-----------------------------------------------------------------------------
(* Properties. *)

Positions == {"received", "announce", "attempt", "waiting", "finishing",
              "timing_out", "failing", "returned", "raised"}

Entries == [phase : Phases, round : 0..MaxReviewRounds, status : {"valid"},
            parsed : Plans \cup Reviews, category : {None}]
           \cup [phase : Phases, round : 0..MaxReviewRounds, status : {"invalid"},
                 parsed : {None}, category : Categories]

Results == [status : Statuses, reason : Reasons, plan : Plans \cup {None},
            review : Reviews \cup {None},
            resolutions : Seq({"implemented", "unresolved"}),
            rounds : 0..MaxReviewRounds, request : BOOLEAN]

\* Every variable of run() stays within the types of schemas.py: in particular
\* no message, result or counter exceeds the configured rounds and retries.
TypeOK ==
    /\ pc \in Positions
    /\ phase \in Phases
    /\ round \in 0..MaxReviewRounds
    /\ attempt \in 0..MaxParseRetries
    /\ plan \in Plans \cup {None}
    /\ review \in Reviews \cup {None}
    /\ roundsCompleted \in 0..MaxReviewRounds
    /\ transcript \in Seq(Entries)
    /\ planHashes \subseteq {Payload(p) : p \in Plans}
    /\ reviewHashes \subseteq {r.changes : r \in Reviews}
    /\ outcome \in Outcomes \cup {None}
    /\ request \in BOOLEAN /\ expired \in BOOLEAN
    /\ events \in Seq([type : {"completed", "error"}, result : Results])
    /\ result \in Results \cup {None}

PlanAt(i) == transcript[i].status = "valid" /\ transcript[i].phase # "review"
ReviewAt(i) == transcript[i].status = "valid" /\ transcript[i].phase = "review"
Indices == 1..Len(transcript)

\* i and j are valid messages and the one after i that is valid too is j.
Successive(i, j) ==
    /\ i < j
    /\ PlanAt(i) \/ ReviewAt(i)
    /\ PlanAt(j) \/ ReviewAt(j)
    /\ \A k \in (i+1)..(j-1) : transcript[k].status = "invalid"

\* The transcript ends with the approval of plan p, its latest plan.
ApprovedAtTheEnd(p) ==
    \E i \in Indices :
        /\ Successive(i, Len(transcript))
        /\ PlanAt(i) /\ transcript[i].parsed = p
        /\ ReviewAt(Len(transcript))
        /\ transcript[Len(transcript)].parsed = Approval

\* A run that reports approval was approved by the last message of its
\* transcript, and what was approved is the plan it returns: no plan was
\* accepted, and no reply recorded, between that plan's review and the end.
ApprovalIsOfTheFinalPlan ==
    result # None /\ result.status = "completed" => ApprovedAtTheEnd(result.plan)

\* Whatever the planner sends and however often it is retried, every plan ever
\* accepted in a run has one and the same topology, and the policy allows it.
TopologyNeverChanges ==
    \A i, j \in Indices : PlanAt(i) /\ PlanAt(j) =>
        /\ transcript[i].parsed.topology = transcript[j].parsed.topology
        /\ transcript[i].parsed.topology \in AllowedTopologies

\* A revision that is accepted carries out every change its review demanded.
RevisionsAnswerTheirReview ==
    \A i, j \in Indices : Successive(i, j) /\ ReviewAt(i) /\ PlanAt(j) =>
        \A k \in 1..Len(transcript[i].parsed.changes) :
            Implements(transcript[j].parsed, transcript[i].parsed.changes[k])

\* A reviewer that repeats an earlier list of demands gets no further turn of
\* anyone: its message is the last of the run.
RepeatedDemandEndsTheRun ==
    \A i, j \in Indices :
        /\ i < j /\ ReviewAt(i) /\ ReviewAt(j)
        /\ transcript[i].parsed.changes = transcript[j].parsed.changes
        => j = Len(transcript)

\* The result returned is the one in the last event: a sink that fails on the
\* COMPLETED event has seen a result that run() then replaces by a failure, but
\* never the other way round and never a third one.
LastEventCarriesTheResult ==
    /\ result # None => events # <<>> /\ events[Len(events)].result = result
    /\ \A i \in 1..Len(events) : i < Len(events) => events[i].type = "completed"

\* A result is never behind the dialogue: its plan is the latest plan accepted,
\* whatever ended the run (sink failures aside).
FinalPlanIsTheLatest ==
    result # None =>
        \A i \in Indices :
            PlanAt(i) /\ (\A k \in Indices : k > i => ~PlanAt(k))
                => result.plan = transcript[i].parsed

\* When a run stops between a revision and its review, the review it reports
\* is the one that revision answers, and all its changes count as implemented.
RevisedPlanResolvesEverything ==
    /\ result # None /\ result.plan # None /\ result.review # None
    /\ result.plan.revision > result.rounds
    =>      \A i \in 1..Len(result.resolutions) : result.resolutions[i] = "implemented"

\* A run ends whatever the agents do, also when they never answer again.
RunEnds == <>Stopped

Unanswerable == /\ phase = "revision" /\ pc = "announce"
                /\ \E i \in 1..Len(review.changes) :
                      review.changes[i].target \notin TargetsOf[plan.topology]

\* A review that targets a resource the plan does not have is accepted, and no
\* revision can then be: the run is lost (sink failures aside).
UnknownTargetLosesTheRun ==
    Unanswerable ~> result # None /\ result.status \in {"failed", "timeout"}

-----------------------------------------------------------------------------
(* The inductive invariant: the phase fixes what is known and how far the    *)
(* dialogue has come.                                                       *)

Active == pc \in {"announce", "attempt", "waiting"}

PhaseInv ==
    /\ phase = "initial_plan" => round = 0 /\ plan = None
    /\ phase = "review" => round \in 1..MaxReviewRounds /\ plan # None
    /\ phase = "revision" => /\ round \in 1..(MaxReviewRounds - 1)
                            /\ plan # None /\ review # None
    /\ pc = "received" => phase = "initial_plan"
    /\ pc = "finishing" => outcome # None /\ phase = "review"
    /\ plan # None => plan.topology \in AllowedTopologies

LastValid(i) ==
    /\ transcript[i].status = "valid"
    /\ \A k \in (i+1)..Len(transcript) : transcript[k].status = "invalid"

\* What the transcript holds while the agents are still being asked.
ActiveInv ==
    /\ phase = "initial_plan" => \A i \in Indices : transcript[i].status = "invalid"
    /\ phase = "review" =>
        \E i \in Indices : LastValid(i) /\ PlanAt(i) /\ transcript[i].parsed = plan
    /\ phase = "revision" =>
        \E i \in Indices : LastValid(i) /\ ReviewAt(i) /\ transcript[i].parsed = review
    /\ \A i \in Indices : ReviewAt(i) => transcript[i].parsed.changes \in reviewHashes
    /\ \A i, j \in Indices : i < j /\ ReviewAt(i) /\ ReviewAt(j) =>
        transcript[i].parsed.changes # transcript[j].parsed.changes

DialogueInv ==
    /\ pc = "received" => transcript = <<>>
    /\ Active => ActiveInv
    /\ pc = "finishing" /\ outcome.status = "completed" => ApprovedAtTheEnd(plan)
    /\ result # None => pc = "returned"
    /\ plan # None => \A i \in Indices :
        PlanAt(i) => transcript[i].parsed.topology = plan.topology
    /\ ApprovalIsOfTheFinalPlan
    /\ TopologyNeverChanges
    /\ RevisionsAnswerTheirReview
    /\ RepeatedDemandEndsTheRun

-----------------------------------------------------------------------------
(* What the rule catalogue says of the run, and the code does otherwise.    *)

\* Rule TR-011: a plan already observed ends the run, so nobody reviews it.
RepeatedPlanIsNotReviewed ==
    \A i, j, k \in Indices :
        i < j /\ j < k /\ PlanAt(i) /\ PlanAt(j) /\ ReviewAt(k)
            => Payload(transcript[i].parsed) # Payload(transcript[j].parsed)
=============================================================================
