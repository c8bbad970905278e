------------------------ MODULE CollaborationRuntime ------------------------
(***************************************************************************)
(* Runs of the orchestrator on the local model: run() of                    *)
(* src/src/orchestrator.py, called through asyncio.run by a session or by   *)
(* the batch runner, over the client and the worker threads of ModelRuntime. *)
(*                                                                         *)
(* Two deadlines watch a call: the client's own, which sets abort, and that *)
(* of the run, which cancels the call.  Either way the call's thread stays   *)
(* behind, and asyncio.run joins it before it returns the result: Python     *)
(* 3.11, which the repository pins, sets no limit to that.                   *)
(*                                                                         *)
(* The exit handler is left to ModelRuntime: the interpreter joins all these *)
(* threads before it calls it.                                              *)
(*                                                                         *)
(* What the agents say is Orchestrator's subject and left open here: after a *)
(* reply the run goes on or ends.                                           *)
(***************************************************************************)
EXTENDS ModelRuntime

CONSTANT
    Sessions        \* clients of a browser session; the others are a batch runner's

ASSUME SessionsAssumption == Sessions \subseteq Clients

VARIABLES
    run,            \* where each client's asyncio.run stands
    due             \* the deadline of the run has passed

collaboration == <<run, due>>
allVars == <<vars, collaboration>>

CInit ==
    /\ Init
    /\ run = [c \in Clients |-> "idle"]
    /\ due = [c \in Clients |-> FALSE]

\* Threads of the client's event loop that have not finished.
Alive(c) == {w \in Calls : w[1] = c /\ worker[w] \in {"checking", "acquiring", "native"}}

-----------------------------------------------------------------------------

\* The one run a session makes a client for, or the batch runner's next case.
StartRun(c) ==
    /\ cpc[c] = "leased" /\ run[c] = "idle" /\ made[c] < MaxCalls
    /\ c \in Sessions => made[c] = 0
    /\ run' = [run EXCEPT ![c] = "running"]
    /\ UNCHANGED <<vars, due>>

PassDeadline(c) ==
    /\ run[c] = "running" /\ ~due[c]
    /\ due' = [due EXCEPT ![c] = TRUE]
    /\ UNCHANGED <<vars, run>>

\* run() has its result; its event loop is still to be closed.
End(c) ==
    /\ run' = [run EXCEPT ![c] = "closing"]
    /\ due' = [due EXCEPT ![c] = FALSE]

\* One turn or retry: create() with what is left of the run's time.
Turn(c) ==
    /\ run[c] = "running" /\ ~due[c]
    /\ BeginCall(c)
    /\ UNCHANGED collaboration

\* Between two turns the run ends by a verdict, a limit or an error.
Finish(c) ==
    /\ run[c] = "running" /\ cpc[c] = "leased"
    /\ End(c)
    /\ UNCHANGED vars

\* No time is left for another turn.
OutOfTime(c) ==
    /\ run[c] = "running" /\ cpc[c] = "leased" /\ due[c]
    /\ End(c)
    /\ UNCHANGED vars

\* create() returns a completion in time: the run goes on.
Answered(c) ==
    /\ run[c] = "running"
    /\ EndCall(c)
    /\ worker[ThisCall(c)] = "done" /\ stage[c] = "generate" /\ ~abort[ThisCall(c)]
    /\ UNCHANGED collaboration

\* create() raises by itself: the prompt or the completion is too long, the
\* runtime fails, or it is past the client's deadline, whose error run()
\* takes for its own.  None of these is retried.
Raised(c) ==
    /\ run[c] = "running"
    /\ EndCall(c)
    /\ End(c)

JoinTheCallMutant(c) ==
    /\ run[c] = "running" /\ cpc[c] = "awaiting" /\ Alive(c) = {}
    /\ due[c] \/ abort[ThisCall(c)]
    /\ abort' = [abort EXCEPT ![ThisCall(c)] = TRUE]
    /\ cpc' = [cpc EXCEPT ![c] = "leased"]
    /\ End(c)
    /\ UNCHANGED <<registry, stage, made, lease, runtimeLock, worker, process>>

\* wait_for cancels create(), or create() sees its own deadline: it tells its
\* thread to abort and leaves it behind.
CutShort(c) ==
    /\ run[c] = "running" /\ cpc[c] = "awaiting"
    /\ due[c] \/ abort[ThisCall(c)]
    /\ abort' = [abort EXCEPT ![ThisCall(c)] = TRUE]
    /\ cpc' = [cpc EXCEPT ![c] = "leased"]
    /\ End(c)
    /\ UNCHANGED <<registry, stage, made, lease, runtimeLock, worker, process>>

JoinNothingMutant(c) ==
    /\ run[c] = "closing"
    /\ run' = [run EXCEPT ![c] = "idle"]
    /\ UNCHANGED <<vars, due>>

\* asyncio.run joins the threads of the default executor and returns.
JoinThreads(c) ==
    /\ run[c] = "closing" /\ Alive(c) = {}
    /\ run' = [run EXCEPT ![c] = "idle"]
    /\ UNCHANGED <<vars, due>>

\* client.close() is the batch runner's; a session never calls it.
Close(c) == c \notin Sessions /\ run[c] = "idle" /\ Release(c)

RunStep(c) == Turn(c) \/ Finish(c) \/ OutOfTime(c) \/ Answered(c) \/ Raised(c)
              \/ CutShort(c)

RuntimeStep ==
    \/ \E c \in Clients : RegistryStep(c) \/ Proceed(c) \/ Expire(c) \/ Close(c)
    \/ \E w \in Calls : WorkerStep(w)

AllDone == \A c \in Clients : run[c] = "idle" /\ cpc[c] \in {"leased", "closed"}

CNext ==
    \/ \E c \in Clients : StartRun(c) \/ PassDeadline(c) \/ RunStep(c) \/ JoinThreads(c)
    \/ RuntimeStep /\ UNCHANGED collaboration
    \/ AllDone /\ UNCHANGED allVars

CSpec == CInit /\ [][CNext]_allVars

\* Event loops are scheduled and deadlines pass.  Nobody is obliged to start a
\* run, and a native operation may hang.
CFairness ==
    /\ RuntimeFairness
    /\ \A c \in Clients : /\ WF_allVars(RunStep(c)) /\ WF_allVars(PassDeadline(c))
                          /\ WF_allVars(JoinThreads(c))
                          /\ WF_vars(Proceed(c)) /\ WF_vars(Expire(c))

CFairSpec == CSpec /\ CFairness

-----------------------------------------------------------------------------
(* Properties. *)

\* A client has one thread at a time: no retry, later turn or later run begins
\* while a call that was given up is still counting or generating, although
\* create() itself would allow it.
OneThreadPerClient ==
    \A c \in Clients : \A v, w \in Alive(c) : v = w

\* run() comes to an end whatever the native operations do, also when its own
\* or that of another session never returns.
RunsEnd == \A c \in Clients : run[c] = "running" ~> run[c] = "closing"

\* The result of a run that has ended reaches its caller if the native
\* operations of this run end; those of other sessions may hang, also one that
\* holds the lock this run's thread waits for.
ResultsAreDelivered == \A c \in Clients :
    (\A w \in Calls : w[1] = c => WF_vars(LeaveNative(w)))
        => (run[c] = "closing" ~> run[c] = "idle")
=============================================================================
