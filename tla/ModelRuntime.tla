----------------------------- MODULE ModelRuntime ----------------------------
(***************************************************************************)
(* The local model of src/src/local_model_client.py: clients lease the one  *)
(* loaded llama.cpp runtime from a process-wide registry and run each call   *)
(* of create() in worker threads that the client may abandon.               *)
(*                                                                         *)
(* Actors are the clients (each an event loop of its own), one worker       *)
(* thread per call, and the exit handler.  The registry's lock is held      *)
(* across the closing of the old runtime and the loading of the new one;    *)
(* a runtime's lock across each native operation and across its closing.    *)
(***************************************************************************)
EXTENDS Naturals, FiniteSets

CONSTANTS
    Clients,        \* client objects; a runtime is named by the client that loaded it
    Identities,     \* the ModelRuntimeIdentity each client may be configured for
    MaxCalls,       \* bound: calls of create() per client
    ExitHandler,    \* the actor that runs SingleModelRuntimeRegistry.close
    None

Calls == Clients \X (1..MaxCalls)

ASSUME ClientsAssumption ==
    /\ IsFiniteSet(Clients)
    /\ MaxCalls \in Nat
    /\ ExitHandler \notin Clients
    /\ None \notin Clients \cup Calls \cup {ExitHandler}

VARIABLES
    cpc,            \* where each client stands
    stage,          \* what its call is doing: count_tokens, then generate
    made,           \* calls of create() begun by each client
    lease,          \* the client's _runtime, kept after release, or None
    current,        \* the registry's _runtime, or None
    leases,         \* the registry's _leases
    registryLock,   \* holder of the registry's lock, or None
    runtime,        \* what became of the runtime each client loaded
    runtimeLock,    \* the call holding each runtime's lock, or None
    worker,         \* where the worker thread of each call stands
    abort,          \* should_abort() of each call answers TRUE
    identity,       \* identity[c]: the ModelRuntimeIdentity of c's configuration
    exited          \* the exit handler has run

registry == <<current, leases, registryLock, runtime>>
client == <<cpc, stage, made, lease>>
threads == <<runtimeLock, worker, abort>>
process == <<identity, exited>>
vars == <<registry, client, threads, process>>

HoldsLease(c) == cpc[c] \in {"leased", "awaiting"}

Init ==
    /\ cpc = [c \in Clients |-> "out"]
    /\ stage = [c \in Clients |-> "count"]
    /\ made = [c \in Clients |-> 0]
    /\ lease = [c \in Clients |-> None]
    /\ current = None /\ leases = 0 /\ registryLock = None
    /\ runtime = [c \in Clients |-> "none"]
    /\ runtimeLock = [c \in Clients |-> None]
    /\ worker = [w \in Calls |-> "none"]
    /\ abort = [w \in Calls |-> FALSE]
    /\ identity \in Identities /\ exited = FALSE

-----------------------------------------------------------------------------
(* The registry. *)

Acquiring(c) == cpc[c] = "out" /\ registryLock = None

\* The loaded runtime is the one wanted: one lease more.
Share(c) ==
    /\ Acquiring(c)
    /\ current # None /\ identity[current] = identity[c]
    /\ leases' = leases + 1
    /\ lease' = [lease EXCEPT ![c] = current]
    /\ cpc' = [cpc EXCEPT ![c] = "leased"]
    /\ UNCHANGED <<current, registryLock, runtime, stage, made, threads, process>>

\* LocalModelRuntimeConflictError: another model is in use.
Refuse(c) ==
    /\ Acquiring(c)
    /\ current # None /\ identity[current] # identity[c] /\ leases > 0
    /\ cpc' = [cpc EXCEPT ![c] = "refused"]
    /\ UNCHANGED <<registry, stage, made, lease, threads, process>>

ReplaceLeasedMutant(c) ==
    /\ Acquiring(c)
    /\ current # None /\ identity[current] # identity[c]
    /\ registryLock' = c
    /\ cpc' = [cpc EXCEPT ![c] = "replacing"]
    /\ UNCHANGED <<current, leases, runtime, stage, made, lease, threads, process>>

\* Another model is loaded and nobody leases it: close it first.
StartReplacing(c) ==
    /\ Acquiring(c)
    /\ current # None /\ identity[current] # identity[c] /\ leases = 0
    /\ registryLock' = c
    /\ cpc' = [cpc EXCEPT ![c] = "replacing"]
    /\ UNCHANGED <<current, leases, runtime, stage, made, lease, threads, process>>

ForgetToCloseMutant(r) ==
    /\ runtimeLock[r] = None
    /\ UNCHANGED runtime

\* LlamaCppModelRuntime.close waits for the runtime's lock.
CloseRuntime(r) ==
    /\ runtimeLock[r] = None
    /\ runtime' = [runtime EXCEPT ![r] = "closed"]

\* The old runtime is closed and forgotten; the registry stays locked.
CloseOld(c) ==
    /\ cpc[c] = "replacing"
    /\ CloseRuntime(current)
    /\ current' = None
    /\ cpc' = [cpc EXCEPT ![c] = "loading"]
    /\ UNCHANGED <<leases, registryLock, stage, made, lease, threads, process>>

\* Nothing is loaded.
StartLoading(c) ==
    /\ Acquiring(c) /\ current = None
    /\ registryLock' = c
    /\ cpc' = [cpc EXCEPT ![c] = "loading"]
    /\ UNCHANGED <<current, leases, runtime, stage, made, lease, threads, process>>

\* The factory returns a runtime: its loader holds the first lease.
Load(c) ==
    /\ cpc[c] = "loading"
    /\ runtime' = [runtime EXCEPT ![c] = "loaded"]
    /\ current' = c /\ leases' = 1 /\ registryLock' = None
    /\ lease' = [lease EXCEPT ![c] = c]
    /\ cpc' = [cpc EXCEPT ![c] = "leased"]
    /\ UNCHANGED <<stage, made, threads, process>>

\* The factory raises: the registry is left empty.
FailToLoad(c) ==
    /\ cpc[c] = "loading"
    /\ registryLock' = None
    /\ cpc' = [cpc EXCEPT ![c] = "refused"]
    /\ UNCHANGED <<current, leases, runtime, stage, made, lease, threads, process>>

\* The application asks again after an error.
Retry(c) ==
    /\ cpc[c] = "refused"
    /\ cpc' = [cpc EXCEPT ![c] = "out"]
    /\ UNCHANGED <<registry, stage, made, lease, threads, process>>

ReleaseAgainMutant(c) ==
    /\ cpc[c] \in {"leased", "closed"} /\ registryLock = None
    /\ leases' = IF lease[c] = current /\ leases > 0 THEN leases - 1 ELSE leases
    /\ cpc' = [cpc EXCEPT ![c] = "closed"]
    /\ UNCHANGED <<current, registryLock, runtime, stage, made, lease, threads, process>>

\* client.close(), between two calls or once more: release gives back the lease,
\* the first time only (_released), if the registry still has that runtime.
Release(c) ==
    /\ cpc[c] \in {"leased", "closed"} /\ registryLock = None
    /\ leases' = IF cpc[c] = "leased" /\ lease[c] = current /\ leases > 0
                 THEN leases - 1 ELSE leases
    /\ cpc' = [cpc EXCEPT ![c] = "closed"]
    /\ UNCHANGED <<current, registryLock, runtime, stage, made, lease, threads, process>>

\* The exit handler takes the registry's lock ...
StartExit ==
    /\ ~exited /\ registryLock = None
    /\ registryLock' = ExitHandler /\ exited' = TRUE
    /\ UNCHANGED <<current, leases, runtime, client, threads, identity>>

\* ... and closes the runtime whoever leases it.
FinishExit ==
    /\ registryLock = ExitHandler
    /\ IF current = None THEN UNCHANGED runtime ELSE CloseRuntime(current)
    /\ current' = None /\ leases' = 0 /\ registryLock' = None
    /\ UNCHANGED <<client, threads, process>>

-----------------------------------------------------------------------------
(* create() and its worker threads. *)

ThisCall(c) == <<c, made[c]>>

\* create(): the prompt is counted in a thread of its own.
BeginCall(c) ==
    /\ cpc[c] = "leased" /\ made[c] < MaxCalls
    /\ made' = [made EXCEPT ![c] = @ + 1]
    /\ stage' = [stage EXCEPT ![c] = "count"]
    /\ worker' = [worker EXCEPT ![<<c, made[c] + 1>>] = "checking"]
    /\ cpc' = [cpc EXCEPT ![c] = "awaiting"]
    /\ UNCHANGED <<registry, lease, runtimeLock, abort, process>>

\* The call's deadline passes, or its cancellation token is cancelled.
Expire(c) ==
    /\ cpc[c] = "awaiting" /\ ~abort[ThisCall(c)]
    /\ abort' = [abort EXCEPT ![ThisCall(c)] = TRUE]
    /\ UNCHANGED <<registry, client, runtimeLock, worker, process>>

\* The prompt fits: generate, in another thread.
Proceed(c) ==
    /\ cpc[c] = "awaiting" /\ stage[c] = "count" /\ worker[ThisCall(c)] = "done"
    /\ stage' = [stage EXCEPT ![c] = "generate"]
    /\ worker' = [worker EXCEPT ![ThisCall(c)] = "checking"]
    /\ UNCHANGED <<registry, cpc, made, lease, runtimeLock, abort, process>>

\* create() returns a completion, or raises what the thread raised or that the
\* prompt is too long.
EndCall(c) ==
    /\ cpc[c] = "awaiting" /\ worker[ThisCall(c)] \in {"done", "aborted", "failed"}
    /\ cpc' = [cpc EXCEPT ![c] = "leased"]
    /\ UNCHANGED <<registry, stage, made, lease, threads, process>>

\* The polling loop sees the deadline or the cancellation: create() raises and
\* leaves the thread to itself, with should_abort() TRUE from now on.
Abandon(c) ==
    /\ cpc[c] = "awaiting" /\ abort[ThisCall(c)]
    /\ cpc' = [cpc EXCEPT ![c] = "leased"]
    /\ UNCHANGED <<registry, stage, made, lease, threads, process>>

IgnoreAbortMutant(w) ==
    /\ worker[w] = "checking"
    /\ worker' = [worker EXCEPT ![w] = "acquiring"]
    /\ UNCHANGED <<registry, client, runtimeLock, abort, process>>

\* _acquire_lock, first half: should_abort() decides.
CheckAbort(w) ==
    /\ worker[w] = "checking"
    /\ worker' = [worker EXCEPT ![w] = IF abort[w] THEN "aborted" ELSE "acquiring"]
    /\ UNCHANGED <<registry, client, runtimeLock, abort, process>>

SkipEnsureOpenMutant(w) ==
    LET r == lease[w[1]] IN
    /\ worker[w] = "acquiring"
    /\ IF runtimeLock[r] # None
       THEN worker' = [worker EXCEPT ![w] = "checking"] /\ UNCHANGED runtimeLock
       ELSE /\ worker' = [worker EXCEPT ![w] = "native"]
            /\ runtimeLock' = [runtimeLock EXCEPT ![r] = w]
    /\ UNCHANGED <<registry, client, abort, process>>

\* Second half: the lock within 5 ms, or check again; with the lock,
\* _ensure_open, and the native operation begins.
TakeLock(w) ==
    LET r == lease[w[1]] IN
    /\ worker[w] = "acquiring"
    /\ \/ /\ runtimeLock[r] # None
          /\ worker' = [worker EXCEPT ![w] = "checking"]
          /\ UNCHANGED runtimeLock
       \/ /\ runtimeLock[r] = None /\ runtime[r] = "closed"
          /\ worker' = [worker EXCEPT ![w] = "failed"]
          /\ UNCHANGED runtimeLock
       \/ /\ runtimeLock[r] = None /\ runtime[r] # "closed"
          /\ worker' = [worker EXCEPT ![w] = "native"]
          /\ runtimeLock' = [runtimeLock EXCEPT ![r] = w]
    /\ UNCHANGED <<registry, client, abort, process>>

LockBothMutant(w) ==
    /\ worker[w] = "native"
    /\ \/ registryLock # None /\ UNCHANGED <<worker, runtimeLock>>
       \/ /\ registryLock = None
          /\ worker' = [worker EXCEPT ![w] = "done"]
          /\ runtimeLock' = [runtimeLock EXCEPT ![lease[w[1]]] = None]
    /\ UNCHANGED <<registry, client, abort, process>>

\* The native operation ends by itself, or a generation (counting has no abort
\* callback) is stopped.
LeaveNative(w) ==
    /\ worker[w] = "native"
    /\ \/ worker' = [worker EXCEPT ![w] = "done"]
       \/ /\ abort[w] /\ stage[w[1]] = "generate"
          /\ worker' = [worker EXCEPT ![w] = "aborted"]
    /\ runtimeLock' = [runtimeLock EXCEPT ![lease[w[1]]] = None]
    /\ UNCHANGED <<registry, client, abort, process>>

-----------------------------------------------------------------------------

RegistryStep(c) == \/ Share(c) \/ Refuse(c) \/ StartReplacing(c) \/ CloseOld(c)
                   \/ StartLoading(c) \/ Load(c) \/ FailToLoad(c) \/ Retry(c)
CallStep(c) == Proceed(c) \/ EndCall(c) \/ Abandon(c)
WorkerStep(w) == CheckAbort(w) \/ TakeLock(w) \/ LeaveNative(w)

Finished == exited /\ registryLock = None /\ \A c \in Clients : cpc[c] = "closed"

Next ==
    \/ \E c \in Clients : RegistryStep(c) \/ CallStep(c) \/ BeginCall(c) \/ Expire(c) \/ Release(c)
    \/ \E w \in Calls : WorkerStep(w)
    \/ StartExit \/ FinishExit
    \/ Finished /\ UNCHANGED vars

Spec == Init /\ [][Next]_vars

\* Threads are scheduled and loads end.  Nobody is obliged to acquire, to
\* release, and a native operation may hang.
RuntimeFairness ==
    /\ \A c \in Clients : WF_vars(CloseOld(c)) /\ WF_vars(Load(c) \/ FailToLoad(c))
    /\ WF_vars(FinishExit)
    /\ \A w \in Calls : WF_vars(CheckAbort(w) \/ TakeLock(w))

FairSpec == Spec /\ RuntimeFairness

-----------------------------------------------------------------------------
(* Properties. *)

\* Every variable stays within the states named above; a lock is held by an
\* actor that exists.
TypeOK ==
    /\ cpc \in [Clients -> {"out", "refused", "replacing", "loading", "leased",
                            "awaiting", "closed"}]
    /\ stage \in [Clients -> {"count", "generate"}]
    /\ made \in [Clients -> 0..MaxCalls]
    /\ lease \in [Clients -> Clients \cup {None}]
    /\ current \in Clients \cup {None}
    /\ leases \in Nat
    /\ registryLock \in Clients \cup {ExitHandler, None}
    /\ runtime \in [Clients -> {"none", "loaded", "closed"}]
    /\ runtimeLock \in [Clients -> Calls \cup {None}]
    /\ worker \in [Calls -> {"none", "checking", "acquiring", "native", "done",
                             "aborted", "failed"}]
    /\ abort \in [Calls -> BOOLEAN]
    /\ identity \in Identities /\ exited \in BOOLEAN

\* A native operation only ever runs on a runtime that is loaded, one at a time,
\* abandoned threads of clients long closed included.
NativeUseIsSafe ==
    \A w \in Calls : worker[w] = "native" =>
        /\ runtime[lease[w[1]]] = "loaded"
        /\ \A v \in Calls : worker[v] = "native" => v = w

\* The process never holds two loaded models, and starts loading one only when
\* it holds none.
OneModelInMemory ==
    /\ \A r, s \in Clients : runtime[r] = "loaded" /\ runtime[s] = "loaded" => r = s
    /\ \A c \in Clients : cpc[c] = "loading" =>
        \A r \in Clients : runtime[r] # "loaded"

\* The registry counts as leases exactly the clients that were given its
\* runtime and have not closed.
LeasesAreCounted ==
    current # None => leases = Cardinality({c \in Clients : HoldsLease(c) /\ lease[c] = current})

\* Until the process exits, a client that has not closed still has a loaded
\* runtime: nobody else's switch of model takes it away.
LiveClientsKeepTheirModel ==
    ~exited => \A c \in Clients : HoldsLease(c) =>
        lease[c] = current /\ runtime[lease[c]] = "loaded"

\* max_tokens bounds a generation and the abort callback cuts it short.
NativeUseEnds == \A w \in Calls : WF_vars(LeaveNative(w))

\* If native operations end, whoever holds the registry's lock, a client that
\* replaces or loads a model or the exit handler, gives it back: also when it
\* waits there for the lock of a runtime that an abandoned thread of a client
\* long closed is using, while others take that lock before it.
RegistryIsReleased == NativeUseEnds => (registryLock # None ~> registryLock = None)

-----------------------------------------------------------------------------
(* The inductive invariant behind NativeUseIsSafe and OneModelInMemory.      *)

\* The registry's runtime is the loaded one, and the only one; who replaces or
\* loads holds the registry.
RegistryInv ==
    /\ \A r \in Clients : runtime[r] = "loaded" <=> current = r
    /\ \A c \in Clients : cpc[c] = "replacing" => registryLock = c /\ current # None
    /\ \A c \in Clients : cpc[c] = "loading" => registryLock = c /\ current = None

\* A client with threads has a runtime, which was loaded once, and a thread
\* inside native code holds that runtime's lock.
ThreadInv ==
    /\ \A c \in Clients : cpc[c] \in {"leased", "awaiting", "closed"} =>
        lease[c] # None /\ runtime[lease[c]] # "none"
    /\ \A w \in Calls : worker[w] # "none" =>
        cpc[w[1]] \in {"leased", "awaiting", "closed"}
    /\ \A w \in Calls : worker[w] = "native" =>
        runtime[lease[w[1]]] = "loaded" /\ runtimeLock[lease[w[1]]] = w
=============================================================================
