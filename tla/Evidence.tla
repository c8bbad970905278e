------------------------------- MODULE Evidence -------------------------------
(***************************************************************************)
(* The shared trace of src/src/phase7_evidence.py: what save_trace records  *)
(* of a run that has returned, one event per message and one for the end.   *)
(* It is computed from the result alone, so it has to guess from the        *)
(* messages how each attempt went on and what ended the run.                *)
(*                                                                         *)
(* Left out: hashes, times, token counts, the redaction of the texts and    *)
(* the external validator of the events' form.                              *)
(***************************************************************************)
EXTENDS Orchestrator

\* None is no string.
ASSUME NoneIsNoCategory ==
    None \notin {"input", "parse", "schema", "state", "timeout", "model"}

\* Messages are grouped by role, phase and round; the phase fixes the role.
PerMessageMutant(i) == i

PerPhaseMutant(i) == transcript[i].phase

Key(i) == <<transcript[i].phase, transcript[i].round>>

\* attempts_seen: the earlier messages of the group.
Attempt(i) == Cardinality({k \in 1..(i - 1) : Key(k) = Key(i)})

\* groups[key][-1] is another message.
HasLaterAttempt(i) == \E k \in (i + 1)..Len(transcript) : Key(k) = Key(i)

\* _retry_decision.
RetryDecision(valid, later) ==
    IF valid THEN "none" ELSE IF later THEN "retry" ELSE "exhausted"

\* The event of the i-th message; it needs Attempt(i) <= 2, or building the
\* trace raises.
MessageEvent(i) ==
    [step |-> transcript[i].phase,
     category |-> transcript[i].category,
     attempt |-> Attempt(i),
     decision |-> RetryDecision(transcript[i].status = "valid", HasLaterAttempt(i))]

\* _TERMINAL_ERRORS.
TerminalErrors == [approved |-> None, max_review_rounds |-> "state",
                   no_progress |-> "state", timeout |-> "timeout", error |-> "model"]

EndsInvalid == transcript # <<>> /\ transcript[Len(transcript)].status = "invalid"

NeverTheMessageMutant(r) ==
    IF r.reason = "error" /\ ~r.request THEN "input" ELSE TerminalErrors[r.reason]

\* An error is blamed on the input if that was refused, else on the last
\* message if that was invalid.
TerminalError(r) ==
    IF r.reason = "error" /\ ~r.request THEN "input"
    ELSE IF r.reason = "error" /\ EndsInvalid THEN transcript[Len(transcript)].category
    ELSE TerminalErrors[r.reason]

\* _terminal_retry_decision.
TerminalDecision(reason) ==
    CASE reason = "approved" -> "none"
      [] reason = "no_progress" -> "blocked"
      [] OTHER -> "exhausted"

\* The last event.
TerminationEvent(r) ==
    [step |-> "termination", state |-> r.status, category |-> TerminalError(r),
     attempt |-> 0, decision |-> TerminalDecision(r.reason)]

-----------------------------------------------------------------------------
(* Properties. *)

\* The trace of a run can be built, and its attempts make sense: the attempts
\* at one position follow each other without another message between them, only
\* the last of them is valid, and their numbers stay below the retries that the
\* run was given, which the contract limits to two.
AttemptsAreInARow ==
    result # None => \A i \in Indices :
        /\ MessageEvent(i).attempt <= MaxParseRetries
        /\ \A j \in Indices : i < j /\ Key(i) = Key(j) =>
            /\ \A k \in i..j : Key(k) = Key(i)
            /\ MessageEvent(i).decision = "retry"

\* A message recorded as given up ("exhausted") is the last message, of a run
\* without a verdict: the trace never shows an agent given up by a run that
\* then went on.
GivenUpEndsTheRun ==
    result # None => \A i \in Indices :
        MessageEvent(i).decision = "exhausted" =>
            i = Len(transcript) /\ result.status \in {"failed", "timeout"}

\* The category of the termination event is explained by the message before it:
\* the input is blamed only if no agent was asked, a parser category only if
\* the last reply had it, the state only for a last reply that was refused or
\* that demanded more, and the model only if the last reply was fine.
LastMessageExplainsTheEnd ==
    result # None =>
        LET category == TerminationEvent(result).category
            last == transcript[Len(transcript)] IN
        /\ category = "input" => transcript = <<>>
        /\ category \in {"parse", "schema"} => EndsInvalid /\ last.category = category
        /\ category = "state" =>
            \/ EndsInvalid /\ last.category = "state"
            \/ ReviewAt(Len(transcript)) /\ last.parsed.decision = "revision_required"
        /\ category = "model" => ~EndsInvalid
        /\ category = None =>
            ReviewAt(Len(transcript)) /\ last.parsed.decision = "approved"
=============================================================================
