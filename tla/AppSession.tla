----------------------------- MODULE AppSession -----------------------------
(***************************************************************************)
(* The browser sessions of app.py in one Streamlit process, and the model   *)
(* registry they share (SingleModelRuntimeRegistry.acquire in               *)
(* src/src/local_model_client.py).                                          *)
(*                                                                         *)
(* Each interaction runs the script from the top; one that comes while the  *)
(* script is still busy with a run stops it at its next Streamlit call.     *)
(* A run is seen through its events only: Orchestrator has the rest, and    *)
(* saving the record, which changes nothing here, is TraceWriter.           *)
(***************************************************************************)
EXTENDS Naturals

CONSTANTS
    Sessions,       \* browser sessions
    Models,         \* model identities: path, context size and backend
    MaxAttempts,    \* bound on the clicks on generate, per session
    None

ASSUME SessionAssumption ==
    /\ None \notin Models
    /\ MaxAttempts \in Nat

VARIABLES
    stage,          \* what the session's script is busy with
    attempt,        \* clicks on generate
    model,          \* the model chosen in the sidebar for that attempt
    outcome,        \* status of the run at hand
    box,            \* status_box of the page shown
    failure,        \* the failure main renders on the page shown
    stored,         \* st.session_state.architecture_result
    identity,       \* registry: identity of the loaded runtime, or None
    leases          \* registry: _leases

page == <<box, failure, stored>>
registry == <<identity, leases>>
vars == <<stage, attempt, model, outcome, page, registry>>

Statuses == {"completed", "degraded", "timeout", "failed"}

Init ==
    /\ stage = [s \in Sessions |-> "idle"]
    /\ attempt = [s \in Sessions |-> 0]
    /\ model \in [Sessions -> Models]
    /\ outcome = [s \in Sessions |-> None]
    /\ box = [s \in Sessions |-> None]
    /\ failure = [s \in Sessions |-> None]
    /\ stored = [s \in Sessions |-> None]
    /\ identity = None /\ leases = 0

\* A new pass of the script draws a new page.
NewPage(s) ==
    /\ box' = [box EXCEPT ![s] = None]
    /\ failure' = [failure EXCEPT ![s] = None]
    /\ outcome' = [outcome EXCEPT ![s] = None]

\* Any widget but the two buttons.
Interact(s) ==
    /\ stage' = [stage EXCEPT ![s] = "idle"]
    /\ NewPage(s)
    /\ UNCHANGED <<attempt, model, stored, registry>>

Clear(s) ==
    /\ stage' = [stage EXCEPT ![s] = "idle"]
    /\ NewPage(s)
    /\ stored' = [stored EXCEPT ![s] = None]
    /\ UNCHANGED <<attempt, model, registry>>

KeepResultMutant(s) ==
    /\ attempt[s] < MaxAttempts
    /\ stage' = [stage EXCEPT ![s] = "setup"]
    /\ attempt' = [attempt EXCEPT ![s] = @ + 1]
    /\ \E m \in Models : model' = [model EXCEPT ![s] = m]
    /\ NewPage(s)
    /\ UNCHANGED <<stored, registry>>

\* The old result goes before anything of the new attempt can fail.
Generate(s) ==
    /\ attempt[s] < MaxAttempts
    /\ stage' = [stage EXCEPT ![s] = "setup"]
    /\ attempt' = [attempt EXCEPT ![s] = @ + 1]
    /\ \E m \in Models : model' = [model EXCEPT ![s] = m]
    /\ NewPage(s)
    /\ stored' = [stored EXCEPT ![s] = None]
    /\ UNCHANGED registry

\* main renders an exception of run_architecture.
RenderFailure(s, why) ==
    /\ stage' = [stage EXCEPT ![s] = "idle"]
    /\ failure' = [failure EXCEPT ![s] = why]
    /\ UNCHANGED <<attempt, model, outcome, box, stored>>

\* ArchitectureRequest or AppConfig.validate refuses.
SetupFails(s) ==
    /\ stage[s] = "setup"
    /\ RenderFailure(s, "setup")
    /\ UNCHANGED registry

\* The client has its lease and the status box appears.
Begin(s) ==
    /\ stage' = [stage EXCEPT ![s] = "running"]
    /\ box' = [box EXCEPT ![s] = "running"]
    /\ UNCHANGED <<attempt, model, outcome, failure, stored>>

Share(s) ==
    /\ stage[s] = "setup" /\ identity = model[s]
    /\ leases' = leases + 1
    /\ Begin(s)
    /\ UNCHANGED identity

\* Another model is loaded and a client holds a lease on it.
InUse == identity # None /\ leases > 0

Conflict(s) ==
    /\ stage[s] = "setup" /\ identity # model[s] /\ InUse
    /\ RenderFailure(s, "conflict")
    /\ UNCHANGED registry

\* Close what is loaded, then load; loading may fail and leaves nothing.
Load(s) ==
    /\ stage[s] = "setup" /\ identity # model[s] /\ ~InUse
    /\ \/ identity' = model[s] /\ leases' = 1 /\ Begin(s)
       \/ identity' = None /\ UNCHANGED leases /\ RenderFailure(s, "setup")

\* The COMPLETED event; the run still has to return.
Completed(s) ==
    /\ stage[s] = "running"
    /\ \E status \in {"completed", "degraded"} : outcome' = [outcome EXCEPT ![s] = status]
    /\ stage' = [stage EXCEPT ![s] = "completed"]
    /\ box' = [box EXCEPT ![s] = "running"]
    /\ UNCHANGED <<attempt, model, failure, stored, registry>>

\* The ERROR event, also when the sink failed on COMPLETED.
Failed(s) ==
    /\ stage[s] \in {"running", "completed"}
    /\ \E status \in {"timeout", "failed"} : outcome' = [outcome EXCEPT ![s] = status]
    /\ stage' = [stage EXCEPT ![s] = "returned"]
    /\ box' = [box EXCEPT ![s] = "error"]
    /\ UNCHANGED <<attempt, model, failure, stored, registry>>

Return(s) ==
    /\ stage[s] = "completed"
    /\ stage' = [stage EXCEPT ![s] = "returned"]
    /\ UNCHANGED <<attempt, model, outcome, page, registry>>

\* The sink failed on the ERROR event: run raises.
Escapes(s) ==
    /\ stage[s] \in {"running", "completed"}
    /\ RenderFailure(s, "run")
    /\ UNCHANGED registry

\* The box is closed for a status of COMPLETED only.
CloseBox(s) == box' = [box EXCEPT ![s] = IF outcome[s] = "completed" THEN "complete" ELSE @]

\* run_architecture returns, main stores its result and renders it.  The client
\* is dropped: nobody closes it, so its lease stays counted.
Present(s) ==
    /\ stage[s] = "returned"
    /\ CloseBox(s)
    /\ stored' = [stored EXCEPT ![s] = [attempt |-> attempt[s], status |-> outcome[s]]]
    /\ stage' = [stage EXCEPT ![s] = "idle"]
    /\ UNCHANGED <<attempt, model, outcome, failure, registry>>

User(s) == Interact(s) \/ Clear(s) \/ Generate(s)
Script(s) == \/ SetupFails(s) \/ Share(s) \/ Conflict(s) \/ Load(s)
             \/ Completed(s) \/ Failed(s) \/ Return(s) \/ Escapes(s) \/ Present(s)

Next == \E s \in Sessions : User(s) \/ Script(s)

\* The server keeps running every script; nothing is assumed of the users.
Spec == Init /\ [][Next]_vars

-----------------------------------------------------------------------------
(* Properties. *)

Busy(s) == stage[s] \in {"running", "completed", "returned"}

\* A page never shows the result of an earlier attempt: not next to the failure
\* of a later one, not while a later one runs, and not after one was stopped
\* half-way by another interaction.
NoOldResult ==
    \A s \in Sessions : stored[s] # None =>
        /\ stored[s].attempt = attempt[s]
        /\ failure[s] = None
        /\ ~Busy(s)

-----------------------------------------------------------------------------
(* What texts of the repository say, and the code does otherwise. *)

\* A conflict is with a run in progress ("wait for the current run to end").
ConflictMeansBusy ==
    [][\A s \in Sessions : Conflict(s) => \E t \in Sessions : Busy(t)]_vars

\* A result that is shown has settled its status box: it is complete, with a
\* label of its own for the round limit, or an error.
BoxSettles ==
    \A s \in Sessions : stored[s] # None => box[s] # "running"
=============================================================================
