# A verification of the Azure architecture designer

TLA+ modules, TLC runs and TLAPS proofs about the program in this repository: a
planner and a reviewer agent (AutoGen agents over a local llama.cpp model)
negotiate an Azure architecture, a Streamlit page runs them, a batch runner
evaluates them. Paths below are relative to the repository's root.

## 1. The system

| Part | Code | State it keeps | Operations |
|---|---|---|---|
| Orchestrator | `src/orchestrator.py`, `src/progress_guard.py` | plan, review, rounds, transcript, hashes of plans and demands, deadline | `run`, `_run_structured_agent`, validation of a revision, building of results, events |
| Plan validation | `src/schemas.py`, `src/topology_contract.py` | the sets of the depth-first search | graph validator, topology policy |
| Local model | `src/local_model_client.py` | process-wide registry (runtime, identity, leases), one lock per runtime, one abort event per call | `acquire`, `release`, exit handler, `create`, worker threads |
| Trace writer | `src/trace_writer.py` | temporary file, published name, process-wide lock | `save_trace` |
| Evidence events | `src/phase7_evidence.py` | none: computed from a returned run | one event per message and one for the end |
| Case freeze | `src/architecture_evaluation_dataset.py` | two files of cases and a manifest with their digests | `freeze_architecture_datasets` |
| Batch runner | `src/frozen_runner.py` | run directory: manifest, two logs, `dataset.json`, the scorer's four files | `requirements`, `faults`, `score` |
| Fault client | `src/frozen_runner.py` | calls per role, last plan, pending term, injections | one fault in place of one role's answers |
| Browser sessions | `app.py` | session result, status box, a lease per run | generate, clear, any other interaction |
| State catalogue | `data/state_transition_rules.json`, `src/state_rules.py` | none | 15 transitions between named states |
| Output parser, prompts, agents, diagnostics, run log, configuration, metrics, UI, scripts | `src/*.py`, `scripts/` | none across calls | pure functions and I/O |

How they interact. `app.py` and the batch runner create a client (which leases
the runtime from the registry) and call `run`, one coroutine in an event loop of
its own. `run` awaits one agent at a time; the agent calls `create` of the client,
which polls a worker thread that works inside the runtime's lock. `run` reports by
a synchronous callback, the event sink, which may raise. `asyncio.run` closes the
event loop and joins its threads before the result goes to `save_trace` (which
derives the evidence events), to the page, or to the rows of a batch. Sessions of
the page are threads of one process and share nothing but the registry and the
writer's lock; freezes, batch invocations and scorers are processes and share files.

What is hard, and the properties it calls for:

- **Orchestrator.** Replies may be rejected and asked for again in every position
  while plan, review, round and revision must advance together; the deadline of the
  run, the deadline of the client and the failing sink can each cut in. Correct
  means: an approval is of the plan returned; a revision keeps its topology and does
  what was asked; every run ends and answers.
- **Evidence events.** How an attempt went on and what ended the run is guessed from
  the messages. Correct means: attempts are numbered as they were made, nobody is
  shown as given up in a run that went on, and the cause given is one that the last
  message supports.
- **Local model.** Threads are abandoned, not stopped; two locks are nested; a
  native call can hang. Correct means: nothing runs on a closed model, one model in
  memory, leases count clients.
- **Runs on the local model.** Two deadlines watch a call, and the join at the end
  of `asyncio.run` waits for what they left behind. Correct means: one thread per
  client, no run waits for a native call, and no result waits for a call of another
  run.
- **Trace writer.** Kill and power loss at every step, writers in several
  processes. Correct means: complete, durable once returned, never replaced.
- **Case freeze and batch runner.** Three files without a transaction; a digest
  verified on one reading and cases taken from the next; two records per case, a
  manifest with a hash; invocations that race or die. Correct means: a manifest
  describes what is there, a run is of the verified cases, sealed means whole, scores
  are of the whole run.
- **Plan validation.** A search over any graph. Correct means: accepted is acyclic,
  cycle errors are cycles, the search ends.
- **Sessions.** A script restarted at any moment. Correct means: no old result next
  to a new attempt.

`PROJECT.json` lists each hazard at its line with the properties that cover it.

## 2. The modules

| Module | Models | Notes |
|---|---|---|
| `Orchestrator` | the coroutine `run` | environment: agents, clock, sink |
| `Collaboration` | what `run` promises | abstract: proposals, verdicts, an end |
| `OrchestratorRefinement` | the mapping from one to the other; the catalogue | `INSTANCE Collaboration WITH` |
| `OrchestratorProofs` | proofs about the three and `Evidence` | |
| `Evidence` | the events of a returned run | extends `Orchestrator`, no state of its own |
| `FaultMatrix`, `FaultMatrixProofs` | the fixture and the fault injector | extends `Orchestrator`; each step is one of its steps |
| `PlanGraph`, `PlanGraphProofs` | graph validator and topology policy | the recursion as a machine with a stack |
| `ModelRuntime`, `ModelRuntimeProofs` | registry, clients, worker threads | |
| `CollaborationRuntime` | runs of the orchestrator over them, under `asyncio.run` | extends `ModelRuntime`; its proofs are in `ModelRuntimeProofs` |
| `TraceWriter`, `TraceWriterProofs` | `save_trace` against a disk that can lose power | |
| `Archive` | what `save_trace` promises of the records | abstract: records, who has returned |
| `TraceRefinement` | the mapping from one to the other | `INSTANCE Archive WITH` |
| `FrozenRunner`, `FrozenRunnerProofs` | batch invocations and scorers on one directory | |
| `DatasetFreeze` | freezes of the cases on one set of paths | |
| `FrozenPipeline`, `FrozenPipelineProofs` | `main`: commands on cases that are being frozen | extends `FrozenRunner`, `INSTANCE DatasetFreeze` |
| `AppSession`, `AppSessionProofs` | sessions of the page on one registry | |
| `MC...` | values of the constants for TLC | |

Definitions whose name ends in `Mutant` stand before the definition they are a
faulty variant of (a dropped guard, a missing reset); no module uses them. Each
property of a passing run has one with which TLC finds it violated, so no property
holds by the shape of its model.

### Orchestrator

`pc` is the await or handler the coroutine stands at: `received`, `announce` (the
STATUS event), `attempt` (top of the retry loop), `waiting` (`wait_for`),
`finishing` (result built, COMPLETED event), `timing_out` and `failing` (the two
`except` clauses), `returned` and `raised`. What runs between two awaits without a
callback is one action. A plan keeps its revision, its topology, the terms found in
each field a reviewer can target, and a wording for all the rest; a review its
decision and demands. Any schema-valid plan and review may arrive at any time, and
so may a reply that is rejected, an exception, a timeout, or nothing. A sink may
raise an `Exception`, which the handler at hand takes (a `TimeoutError` inside the
`try` block that of the timeouts), or a `BaseException`, which is how Streamlit stops
a script.

`OrchestratorRefinement` also names where a run stands in the catalogue of states.
`CataloguedStep` has the rules of the dialogue, each with its preconditions as they
read on plan, review, rounds, transcript and request at that step; `GivingUp` the
failures and timeouts, for which the catalogue names fewer states and causes than
the code has; `UncataloguedStep` what it omits.

### Evidence

Operators over the transcript and the result of a run that has returned:
`MessageEvent(i)` and `TerminationEvent` keep step, category, attempt number and
decision of the events. Building the trace raises if an attempt number exceeds two,
hence the bound in `AttemptsAreInARow`.

### ModelRuntime

`cpc` is where a client stands: `out`, `refused`, `replacing` and `loading` (both
hold the registry's lock), `leased`, `awaiting` (inside `create`), `closed`. Each
call has one worker (the two threads of a call, counting and generating, are never
alive together) that goes from `checking` to `acquiring` to `native`; `abort` is
what `should_abort()` answers. A runtime carries the name of the client that loaded
it. `identity` assigns each client its configured model once and for all, so that one
run covers several assignments. The exit handler closes whatever is loaded. A client
makes one call at a time, as the program does. `close` of a client, a second one too,
may come while threads of its abandoned calls still work: it does not wait for them.
Counting a prompt has no abort callback, so only a generation is stopped inside.

### CollaborationRuntime

`run` is where a client's `asyncio.run` stands: `idle`, `running` (the coroutine),
`closing` (it has its result, the executor's threads are being joined). `due` is the
deadline of the run, `abort` that of the client's call. A `Session` makes a client
for one run and never closes it; the other clients are a batch runner's, which runs
case after case on one client and closes it. The orchestrator is reduced to its
turns: after an answer the run goes on or ends, after an error or a deadline it ends,
as none of these is retried. The exit handler is not part of it: the interpreter
joins all threads before it calls that handler.

### TraceWriter

One action per system call, in the order of the code, each of which may fail.
`final` and `tmp` are the directory as the processes see it, `diskFinal` and
`diskTmp` as the disk has it: `LosePower` keeps any entry that was synced and either
version of one that was not, and loses the contents of a file not synced. `save_trace`
makes the missing part of its directory's path and syncs none of it into its parent,
so a directory made since the last power loss may go, with all in it (`lost`): the
one way in which a returned record disappears.

`Archive` says the same without files: a record is published whole, only where its
run has none, and stays once its call has returned. `TraceRefinement` maps the two:
the record of a run is the file its final name refers to, and a file that is not
complete would be the record of nobody. It also shows what the archive does not
promise: a call may fail after its record is seen.

### FrozenRunner

`mode` is the command of the runners and `limit` the cases it runs, both fixed at the
start. Runner: directory (exclusive `mkdir`), manifest opened and written, and per case the
first record (trace or fault result), then the raw row, each row with a moment in
which its line is torn; at the end the hash, and the manifest opened again and
written. Scorer: rows read at once, existence check, four exclusive files. An
invocation that gives up by the code's own checks is `stopped`; one that is `killed`,
anywhere, or fails with an `OSError`, undoes nothing. `save_trace` is one step here, as `TraceWriter` justifies.
After the seal, `main` adds `dataset.json` to a fault run, in two steps (`NameDataset`).

### DatasetFreeze and FrozenPipeline

A freeze checks that none of its three targets exists, builds its cases, and creates
and writes each file in turn; the bytes of a file are named by the invocation that
wrote them. `FrozenPipeline` puts `verify_sha256` and the reading of the cases, two
readings of one file, in front of `FrozenRunner`: `Wanted` is the freeze whose digest
the commands were given. Everything else is `FrozenRunner`'s, step by step, which
`PipelineRuns` proves.

### PlanGraph

`pc` names the check; the calls of the nested function `visit` are frames with the
position of their loop, so depth and order are the code's.

### AppSession

One action per stretch of script between events. An interaction stops the script at
its next Streamlit call, so `Interact`, `Clear` and `Generate` are possible at every
stage. The registry appears with identity and leases only.

## 3. The runs

State counts are TLC's distinct states.

| Run | States | Shows |
|---|---|---|
| `orchestrator_safety` | 290256 | Two rounds, one correction, agents that may stay silent and an event sink that may raise anywhere: what a run returns is what the agents agreed on, the events derived from its messages tell what happened, and a run always ends. Checks `TypeOK`, `ApprovalIsOfTheFinalPlan`, `RevisionsAnswerTheirReview`, `AttemptsAreInARow`, `GivenUpEndsTheRun`, `LastMessageExplainsTheEnd`, `LastEventCarriesTheResult`, `RunEnds`. |
| `orchestrator_rounds` | 284612 | Three rounds and one correction without a sink that fails: the run implements the abstract collaboration, no revision drifts from the first plan's topology, repeated demands end it, the result is never behind the dialogue, and it changes state by the rules of the catalogue with their preconditions, by giving up, or by the two steps named. Checks `TopologyNeverChanges`, `RepeatedDemandEndsTheRun`, `FinalPlanIsTheLatest`, `RevisedPlanResolvesEverything`, `UnknownTargetLosesTheRun`, `ImplementsCollaboration`, `TransitionsAreKnown`. |
| `model_runtime_shared` | 884860 | Three clients of two models, abandoned and closed while their threads still work: no native call on a closed model, one model in memory, leases that count the clients, and who waits for the model's lock with the registry's in hand gives the registry back. Checks `NativeUseIsSafe`, `OneModelInMemory`, `LeasesAreCounted`, `LiveClientsKeepTheirModel`, `RegistryIsReleased`. |
| `collaboration_runtime` | 63948 | A browser session and a batch runner with two turns each, on one model or on two: a client never has two threads, runs end although native calls may hang for ever, and a result is delayed by the native calls of its own run only. Checks `OneThreadPerClient`, `RunsEnd`, `ResultsAreDelivered`. |
| `trace_writer_crash` | 106470 | Three writers in two processes, two of one run, a directory that may have to be made, failing system calls, kills and power loss: a published record is whole and durable once returned if its directory is, nothing but a power loss takes a published name, and the records behave like an archive in which none is replaced. Checks `PublishedIsComplete`, `ReturnedIsDurable`, `ImplementsArchive`, `PublishedStays`. |
| `frozen_runner` | 927718 | Two freezes of the cases, two invocations of a batch command with one run id over none, some or all of the cases, and two scorers, interleaved freely and killed anywhere. Checks `DescribedSetIsWhole`, `CommandsUseTheFrozenCases`, `SealedRunIsWhole`, `RowsHaveTheirRecord`, `OneScorerPublishes`, `ScoresAreOfTheWholeRun`, `ScoringCompletes`. |
| `fault_matrix_cases` | 786 | All eight faults at injection rounds 0 to 5 against the orchestrator with five review rounds: each case ends, and with the result the evaluation recorded. Checks `CasesEndAsRecorded`, `CasesEnd`. |
| `plan_graph` | 58840 | Every dependency graph on four resources, every order of the dependencies of three, and every defect the validator names: accepted graphs are acyclic, cycle errors are cycles, and the search ends. Checks `AcceptedPlansAreAcyclic`, `CycleErrorsAreCycles`, `SearchEnds`. |
| `app_session_pages` | 2729 | Two sessions, two models, interruptions at every step: no page shows an old result. Checks `NoOldResult`. |
| `orchestrator_repeated_plan` | violation | Rule TR-011 ends a run whose revision repeats an earlier plan; the code has it reviewed again. Checks `RepeatedPlanIsNotReviewed`. |
| `app_session_conflict` | violation | The diagnosis of a conflict says to wait for the current run; it also comes when nothing runs. Checks `ConflictMeansBusy`. |
| `app_session_box` | violation | The status box of a degraded run stays at running. Checks `BoxSettles`. |

Bounds. *Orchestrator*: two rounds with one correction (the default of the code) and
a sink that may fail anywhere, and three rounds with one correction: three is the
least in which a demand, or a plan, can come back after another one in between, and
in which a second revision can drift from a first. Every transition of the catalogue
module occurs there but `review` to `degraded`, which needs a limit of one round and
is left to `KnownTransitions`.
Topologies are two allowed and one refused; targets are two that exist and one
that does not; demands include the same one in two wordings. *ModelRuntime*: two
clients of one model and one of another, one call each, is the least in which
sharing, refusal and replacement all happen. Two clients that
were closed leave a thread each; these take turns with the lock of the first model
while the third client replaces that model or the exit handler closes it: the
contention that `RegistryIsReleased` is about. *CollaborationRuntime*: a session and a
batch runner, of one model (they queue for its lock) or of two (one replaces the
other's), two turns each: in one run, or for the batch runner in two, so that a
thread left behind could meet a later one. *TraceWriter*: three writers cover one
process with two calls, two processes, and two records of one run. *FrozenRunner*: none, one or both of two cases, so that
a run may lack a case, two invocations, two scorers, each killed anywhere, and two
freezes, of which one has the digest that was given; the run stops when all have
(`CHECK_DEADLOCK FALSE`: nobody starts an invocation again).
*FaultMatrix*: the eight faults at rounds 0 to 5 with five review rounds, the
default of the faults command. *PlanGraph*: all graphs of four resources hold every shape of
cycle with a tail and the diamond; three resources in every order of dependencies
hold the orders of visiting. *AppSession*: two sessions, two models, two attempts
each: an old result and a new attempt, on either side of a conflict. Sessions and
models are interchangeable there, hence the symmetry; no run with a liveness
property uses it.

Fairness. `Orchestrator!Fairness`: the event loop runs the coroutine's own steps and
time passes; nothing of the agents, since `wait_for` is what ends a silent one.
`ModelRuntime!RuntimeFairness` and `CollaborationRuntime!CFairness`: event loops and
threads are scheduled, the exit handler too, deadlines pass, loads end; *not* that a
run is started or a client closed, nor that native calls end: `RunsEnd` holds although
every one may hang. Whoever closes a model gets its lock only if it stays free (weak
fairness): threads may overtake, but there are no more of them than calls were begun,
and each takes the lock once for each of its two operations.
`ResultsAreDelivered` assumes of each client that its own native calls end, not those
of others; `RegistryIsReleased` that all do. Both say so in the formula: `max_tokens`
bounds a generation and the abort callback cuts it short. `FrozenPipeline!PSpec`: a
scorer once begun goes on or is killed; nobody has to begin one. `FaultMatrix` and
`PlanGraph` are sequential: some step is taken while one is possible. `Collaboration` asks only that an open
collaboration may not stay open, which the orchestrator's deadline provides.

### Where code and documents differ

Three runs end in a violation and state what a text of the repository says:

- Rule TR-011 ends a run at a repeated plan; `observe_plan`'s answer is not used, so
  A, B, A is reviewed to the end (`orchestrator_repeated_plan`).
- `app.py` never closes its client: a second model is refused for good, with the
  advice to wait for a run that is not there (`app_session_conflict`).
- The status box of a degraded run keeps running; the label meant for it is
  unreachable (`app_session_box`).

The models follow the code, not the text, in these places too:

- `docs/architecture.md` ends the round limit in `completed`; the code in `degraded`
  (`KeepReview`).
- The catalogue calls itself the only one. The code also revises again, and stops at
  the round limit, after a second review (`UncataloguedStep`); it fails and times out
  in every state in which agents are asked, for more causes than the rules name
  (`GivingUp`); and TR-012's "no new disposition evidence" is not looked for.
  `TransitionsAreKnown` shows there is nothing else.
- The last event of a failed run can name a cause that did not end it: if a
  reply is refused and the agent then raises in its retry, `build_task3_trace_events`
  records the refusal as `exhausted`, although an attempt was left, and gives its
  category to the end. `GivenUpEndsTheRun` and `LastMessageExplainsTheEnd` state what
  remains true.
- A freeze that died between its files can never be completed by another one: its
  first file is in the way (`CheckTargets`). `DescribedSetIsWhole` holds all the same.
- `score` verifies the digest it is given and does not compare it with the one in the
  run's manifest; `CommandsUseTheFrozenCases` is about one digest given to all.
- A timeout of the model client is reported as the run's wall-clock timeout: both
  reach the handler of `asyncio.TimeoutError` (`timing_out`).
- `save_trace` can raise after the record is published (the last `fsync` of the
  directory fails); the page then says it was not saved.
- The data set expects `degraded` for the faults repeated_plan and
  unresolved_review; both fail, as `docs/phase5_evaluation.md` also records and
  `CasesEndAsRecorded` shows.

## 4. The proofs

The theorems hold for every value of the constants that satisfies the named
`ASSUME`s of the module; TLC evaluates those on every run.

- `OrchestratorProofs`. `IInv` is `TypeOK` and `PhaseInv` (the phase fixes what is known: a review
  has a plan, a revision has a round left), needed because the bounds of `round` and
  of a revision follow from the phase only. `DialogueInv` relates the variables to
  the transcript while agents are asked: the last valid entry is the current plan
  or review, and the hashes cover every demand recorded. Most steps leave the
  transcript alone (`QuietStep`); one lemma each covers the three that append. From
  it: `ApprovedPlanIsTheFinalPlan`, `OneTopology`, `RevisionsAnswer`, `NoDemandTwice`.
  `HopelessInv`: after a review that demands something of a resource the plan has not,
  no message is valid. A valid one would be a revision, which keeps the topology and
  does what was asked; both cannot be. Hence `UnknownTargetIsFinal`, which, unlike
  `UnknownTargetLosesTheRun`, holds with a failing sink too.
  `EventInv`: no event of the end precedes the end, and only COMPLETED events precede
  the handlers, hence `LastEvent`. `LatestInv`: the plan at hand is the last one in the
  transcript where no event is refused, hence `LatestPlan`. With a sink that raises, a
  plan can be in the transcript and not be kept, so that theorem has `SinkFaults = {}`
  for a premise. `RevisionInv`: while agents are asked the plan's revision counts the
  rounds, and a plan ahead of the rounds answers the review at hand, hence
  `RevisionResolvesItsReview`.
  The events of `Evidence`: positions of the dialogue are ordered by `Rank`, and a run
  only moves to later ones. `AttemptInv` says that the last messages, as many as
  `attempt` counts, are of the current position and invalid and all others of earlier
  ones; `RowInv` is what follows for a transcript that has ended, hence
  `AttemptsInARow`. `EndInv`: a verdict rests on the last message, and no agent is
  asked without a request; with `RowInv` it gives `GivenUp` and `EndExplained`.
  The refinement: with `RevisionInv`, and `OpenInv` (no outcome is chosen before the
  loop ends), each step maps to one of `Collaboration` or a stutter (`StepRefines`),
  hence `Refines`, the safety part of `ImplementsCollaboration`. It has
  `SinkFaults = {}` for a premise, because a sink that fails on the COMPLETED event
  takes a verdict back. `KnownTransitions` needs no such premise. The preconditions it
  gives the rules come from `DialogueInv`, `EndInv` and `VerdictInv`: each list of
  demands observed is that of a review in the transcript, none before the first review,
  and a verdict rests on the review at hand, the round and the transcript.
  Of `RunEnds`, the part that needs no fairness: `RunDescends` gives a measure of four
  natural numbers (the stage, the positions of the dialogue that are left, the attempts
  left at this one, the call and the deadline) that falls at every step. A run can
  therefore stop but not go round; that it does not stop is what TLC checks. By
  `MessageInv`, which counts the messages by position and attempt, the transcript is
  bounded too (`MessagesAreBounded`).
- `FaultMatrixProofs`. Each step of a case is a step of the orchestrator
  (`MatrixRuns`), so its theorems carry over (`CasesKeepTheApproval`). `CaseInv` is the
  invariant for `CasesRecorded`: the position of the dialogue fixes how often each role
  was asked (`TurnInv`), what the plan holds by then and what is demanded of it
  (`DemandInv`), but for the turns the fault has taken (`FaultInv`). A planner's fault
  never gives its turn back, and a sustained objection is demanded twice at most; both
  lead to the recorded end. The premise is a limit of three rounds or more: the fixture
  makes two demands and then approves, so with fewer no case is approved. That the
  fixture's terms are among the terms and that the runner passes no event sink are
  assumptions named in `FaultMatrix`.
- `ModelRuntimeProofs`. `RegistryInv`: the loaded runtime is the registry's, and who replaces or
  loads holds the registry. `ThreadInv`: a native thread holds the lock of a loaded
  runtime. Closing waits for that lock, hence `NativeUse`; loading starts from an
  empty registry, hence `OneModel`. `LeaseInv` adds that the count is the cardinality
  of the holders of the current runtime, and that holders of it are all there are
  until the exit: a replacement needs a count of zero, hence `LeaseCount` and
  `LiveClients`. `LocksAreOrdered`, with `FreshInv` (a call not begun has no thread):
  a runtime's lock is held inside native code only, where no other is waited for, so
  the nested locks cannot wait in a circle (`OrderedLocks`, the part of
  `RegistryIsReleased` that needs no fairness).
  For `CollaborationRuntime`, `ThreadsInv`: a thread alive is the one of the call under
  way, or was left behind by a run that is closing; a run starts and a call begins only
  when none is alive. Hence `OneThread`. Every step of it is one of `ModelRuntime`
  except `CutShort`, which leaves runtime, leases and locks alone, and the exit handler
  never starts, so the invariants of the registry hold there too: `RunsKeepTheRuntime`,
  and `RunsHaveTheirModel`, that a run not yet joined leases the loaded runtime.
  `ToldInv`: a thread that a run leaves behind has its abort set, so its way through
  `_acquire_lock` is at most one operation long (`LeftThreadsEnd`): of the join, only the
  end of the run's own native operation is left to fairness.
- `FrozenRunnerProofs`. `LogInv`: only the owner of the directory writes, and its
  position fixes the logs, the torn line and the manifest. `ReadInv`: what a scorer
  past its check has read is the whole log, which can then not grow. `OutputInv`:
  the files exist in order and are of one scorer, the one that made the first, since
  each is created exclusively and the next only by who wrote the last. Hence
  `SealedRuns`, `RecordsFirst`, `WholeScores` and `OnePublishes`. `PublishInv` adds that
  the files there are those the scorer at work has made, hence `FirstPublishes` and
  `LosersYield`: of scorers that race, one is never stopped by the others.
  `InvocationsDescend` counts the steps each invocation has left. Both together are what
  `ScoringCompletes` needs besides fairness.
- `FrozenPipelineProofs`. Every step of the pipeline is a step of `FrozenRunner` or
  stutters (`PipelineRuns`: `PSpec => Spec`), so its theorems carry over.
  `FreezeInv`: the files exist in order and each is its invocation's; a whole file
  stays (`WholeStays`). `CommandInv`: who has verified faces the whole file of `Wanted`.
  Hence `DescribedSets` and `FrozenCases`.
- `AppSessionProofs`. `PageInv` relates the stage of a script to what its page
  shows. Hence `PagesAreCurrent`. That no session's run loses its model is
  `LiveClients` of `ModelRuntimeProofs`.
- `TraceWriterProofs`. `Inv` says for each position of a writer which of its
  file, temporary name and final name exist, here and on disk, and that a final name
  on disk or in memory refers to a full and synced file. The case of `LosePower`
  (`SurvivingNames`) is the reason for both halves. From it `PublishedComplete`,
  `ReturnedDurable` and the action property `PublishedStays` (`PublishedRecordsStay`). The refinement: `Link` is
  the abstract `Publish`, the last sync `Return`, a power loss `Forget` or `LoseAll`, and
  every other step a stutter, those of failure and of a kill included (`StepImplements`,
  `Archives`). `DurableInv`, that the record of a returned call is on disk while it is
  seen, is what keeps a power loss from taking it.
- `PlanGraphProofs`. The frames of the stack are the resources in `visiting`, each
  but the last stands at the dependency that the next one is; `visited` is closed
  under dependencies and holds no circular set. A resource met again while visiting
  closes a cycle with the frames above it (`CyclesAreReal`); when the search is
  over everything is visited (`AcceptedAcyclic`). `VerdictInv` adds the checks before and
  after the search: a plan is accepted if it is `Sound` and refused if it is not
  (`VerdictIsRight`). `SearchDescends` gives a measure (the check, the resources not
  entered, those being visited, what the innermost loop has left, the index) that falls
  at every step, the part of `SearchEnds` that needs no fairness.

Only model-checked: what needs fairness or `ENABLED`, both outside the prover's
reach: `RunEnds`, `SearchEnds`, `RegistryIsReleased`, `RunsEnd`, `ResultsAreDelivered`,
`ScoringCompletes`, `CasesEnd`, `UnknownTargetLosesTheRun`, and the fairness part of
`ImplementsCollaboration`. The part that needs neither is proved for all but one:
`RunDescends` (for `RunEnds` and, a case being a run, `CasesEnd`), `SearchDescends`,
`OrderedLocks`, `LeftThreadsEnd`, `FirstPublishes` with `InvocationsDescend`,
`UnknownTargetIsFinal` and `Refines`. For `RunsEnd` it would be the bound on the calls
of a client, which is one of the model. That a natural number, or a sequence of them,
cannot fall for ever is an induction over data and is not proved.

## 5. Not modelled

Wording, rendering, logging and prompts: no state depends on them. The parser, the
configuration checks and the schemas' field bounds are the choice between accepted
and rejected input. The agents are AutoGen objects and may answer anything.
The evidence events are modelled without their hashes, the redaction and the validator of another repository; the cases of the
freeze without their content; the numbers of the metrics not at all. The page and the
batch runner do not take up an unfinished run, so there is no recovery to model; the
rows and the manifest of a batch are synced by the code, but `FrozenRunner` has kills
only and no power loss. `create_stream` calls `create` and yields its result.

The release builder (`scripts/build_release.py`) is a sequential script whose guards
are data (deny lists, patterns over file contents, zip entries); its only peer is git,
which resolves `HEAD` once for the tree, once for the name and once for the archive.
The diagnostics, the page's components and the topology drawing turn a result into
text, and the output parser turns text into one accepted object or a refusal: a model
of them would go over characters, which no property here tells apart.

## 6. The plan

Order of the modules, most important first: `Orchestrator` with `Collaboration` and
`Evidence`, `ModelRuntime` with `CollaborationRuntime`, `TraceWriter`, `FrozenRunner`
with `DatasetFreeze` and `FrozenPipeline`, `FaultMatrix`, `PlanGraph`, `AppSession`.
All are on disk. Of the properties that the passing runs check, every one that is not
of the liveness kind is also proved; see the end of section 4 for the rest. Left to do:
an abstract specification of a sealed run that `FrozenRunner` implements, and one of
the registry as a counted lease that `ModelRuntime` implements.
