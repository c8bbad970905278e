------------------------- MODULE ModelRuntimeProofs -------------------------
(***************************************************************************)
(* Proofs about ModelRuntime for any set of clients, any assignment of      *)
(* models to them and any number of calls, and about CollaborationRuntime,  *)
(* whose runs keep what holds of the clients by themselves.                 *)
(***************************************************************************)
EXTENDS CollaborationRuntime, FiniteSetTheorems, TLAPS

IInv == TypeOK /\ RegistryInv /\ ThreadInv

\* The steps of the registry that involve client c.
ClientStep(c) == RegistryStep(c) \/ CallStep(c) \/ BeginCall(c) \/ Expire(c) \/ Release(c)

LEMMA CallParts ==
    ASSUME NEW w \in Calls
    PROVE  w[1] \in Clients
  BY DEF Calls

LEMMA InitIInv == Init => IInv
  <1> SUFFICES ASSUME Init PROVE IInv
    OBVIOUS
  <1>1. TypeOK
    <2>1. current \in Clients \cup {None} /\ leases \in Nat /\ exited \in BOOLEAN /\ identity \in Identities
          /\ registryLock \in Clients \cup {ExitHandler, None}
      BY DEF Init
    <2>2. abort \in [Calls -> BOOLEAN] /\ made \in [Clients -> 0..MaxCalls]
      BY ClientsAssumption DEF Init
    <2>3. lease \in [Clients -> Clients \cup {None}] /\ runtimeLock \in [Clients -> Calls \cup {None}]
      BY DEF Init
    <2> QED
      BY <2>1, <2>2, <2>3 DEF Init, TypeOK
  <1>2. RegistryInv /\ ThreadInv
    BY ClientsAssumption DEF Init, RegistryInv, ThreadInv
  <1> QED
    BY <1>1, <1>2 DEF IInv

\* The type invariant, step by step.
LEMMA NextTypeOK == TypeOK /\ RegistryInv /\ [Next]_vars => TypeOK'
  <1> SUFFICES ASSUME TypeOK, RegistryInv, [Next]_vars PROVE TypeOK'
    OBVIOUS
  <1> USE ClientsAssumption
  <1>1. ASSUME NEW c \in Clients, Share(c) PROVE TypeOK'
    BY <1>1 DEF Share, Acquiring, TypeOK, threads, process
  <1>2. ASSUME NEW c \in Clients, Refuse(c) \/ Retry(c) \/ EndCall(c) \/ Abandon(c) PROVE TypeOK'
    BY <1>2 DEF Refuse, Retry, EndCall, Abandon, TypeOK, threads, registry, process
  <1>3. ASSUME NEW c \in Clients, StartReplacing(c) \/ StartLoading(c) \/ FailToLoad(c) PROVE TypeOK'
    BY <1>3 DEF StartReplacing, StartLoading, FailToLoad, TypeOK, threads, process
  <1>4. ASSUME NEW c \in Clients, CloseOld(c) PROVE TypeOK'
    BY <1>4 DEF CloseOld, CloseRuntime, TypeOK, threads, process
  <1>5. ASSUME NEW c \in Clients, Load(c) PROVE TypeOK'
    BY <1>5 DEF Load, TypeOK, threads, process
  <1>6. ASSUME NEW c \in Clients, Release(c) PROVE TypeOK'
    BY <1>6 DEF Release, TypeOK, threads, process
  <1>7. ASSUME NEW c \in Clients, BeginCall(c) PROVE TypeOK'
    <2>1. made' \in [Clients -> 0..MaxCalls]
      BY <1>7 DEF BeginCall, TypeOK, process
    <2> QED
      BY <1>7, <2>1 DEF BeginCall, TypeOK, registry, process
  <1>8. ASSUME NEW c \in Clients, Expire(c) PROVE TypeOK'
    BY <1>8 DEF Expire, TypeOK, registry, client, process
  <1>9. ASSUME NEW c \in Clients, Proceed(c) PROVE TypeOK'
    BY <1>9 DEF Proceed, TypeOK, registry, process
  <1>10. ASSUME NEW w \in Calls, WorkerStep(w) PROVE TypeOK'
    BY <1>10 DEF WorkerStep, CheckAbort, TakeLock, LeaveNative, TypeOK, registry, client, process
  <1>11. CASE StartExit
    BY <1>11 DEF StartExit, TypeOK, client, threads, process
  <1>12. CASE FinishExit
    BY <1>12 DEF FinishExit, CloseRuntime, TypeOK, client, threads, process
  <1>13. CASE UNCHANGED vars
    BY <1>13 DEF vars, TypeOK, registry, client, threads, process
  <1> QED
    BY <1>1, <1>2, <1>3, <1>4, <1>5, <1>6, <1>7, <1>8, <1>9, <1>10, <1>11, <1>12, <1>13
    DEF Next, RegistryStep, CallStep

\* Which runtime is loaded and who holds the registry.
LEMMA NextRegistryInv == TypeOK /\ RegistryInv /\ [Next]_vars => RegistryInv'
  <1> SUFFICES ASSUME TypeOK, RegistryInv, [Next]_vars PROVE RegistryInv'
    OBVIOUS
  <1> USE ClientsAssumption
  <1>1. ASSUME NEW c \in Clients, Share(c) PROVE RegistryInv'
    BY <1>1 DEF Share, Acquiring, TypeOK, RegistryInv
  <1>2. ASSUME NEW c \in Clients, Refuse(c) \/ Retry(c) \/ EndCall(c) \/ Abandon(c) PROVE RegistryInv'
    BY <1>2 DEF Refuse, Retry, EndCall, Abandon, TypeOK, RegistryInv, registry
  <1>3. ASSUME NEW c \in Clients, StartReplacing(c) \/ StartLoading(c) \/ FailToLoad(c) PROVE RegistryInv'
    BY <1>3 DEF StartReplacing, StartLoading, FailToLoad, Acquiring, TypeOK, RegistryInv
  <1>4. ASSUME NEW c \in Clients, CloseOld(c) PROVE RegistryInv'
    BY <1>4 DEF CloseOld, CloseRuntime, TypeOK, RegistryInv
  <1>5. ASSUME NEW c \in Clients, Load(c) PROVE RegistryInv'
    BY <1>5 DEF Load, TypeOK, RegistryInv
  <1>6. ASSUME NEW c \in Clients, Release(c) \/ BeginCall(c) \/ Expire(c) \/ Proceed(c) PROVE RegistryInv'
    BY <1>6 DEF Release, BeginCall, Expire, Proceed, TypeOK, RegistryInv, registry, client
  <1>7. ASSUME NEW w \in Calls, WorkerStep(w) PROVE RegistryInv'
    BY <1>7 DEF WorkerStep, CheckAbort, TakeLock, LeaveNative, RegistryInv, registry, client
  <1>8. CASE StartExit
    BY <1>8 DEF StartExit, TypeOK, RegistryInv, client
  <1>9. CASE FinishExit
    BY <1>9 DEF FinishExit, CloseRuntime, TypeOK, RegistryInv, client
  <1>10. CASE UNCHANGED vars
    BY <1>10 DEF vars, RegistryInv, registry, client
  <1> QED
    BY <1>1, <1>2, <1>3, <1>4, <1>5, <1>6, <1>7, <1>8, <1>9, <1>10
    DEF Next, RegistryStep, CallStep

\* Who runs native code holds the lock of a runtime that is still loaded.
LEMMA NextThreadInv == IInv /\ [Next]_vars => ThreadInv'
  <1> SUFFICES ASSUME TypeOK, RegistryInv, ThreadInv, [Next]_vars PROVE ThreadInv'
    BY DEF IInv
  <1> USE ClientsAssumption, CallParts
  <1>1. ASSUME NEW c \in Clients, Share(c) PROVE ThreadInv'
    BY <1>1 DEF Share, Acquiring, TypeOK, RegistryInv, ThreadInv, threads
  <1>2. ASSUME NEW c \in Clients, Refuse(c) \/ Retry(c) \/ EndCall(c) \/ Abandon(c) PROVE ThreadInv'
    BY <1>2 DEF Refuse, Acquiring, Retry, EndCall, Abandon, TypeOK, ThreadInv, registry, threads
  <1>3. ASSUME NEW c \in Clients, StartReplacing(c) \/ StartLoading(c) \/ FailToLoad(c) PROVE ThreadInv'
    BY <1>3 DEF StartReplacing, StartLoading, FailToLoad, Acquiring, TypeOK, ThreadInv, threads
  <1>4. ASSUME NEW r \in Clients, CloseRuntime(r), UNCHANGED <<lease, threads>>,
               \A c \in Clients : cpc'[c] \in {"leased", "awaiting", "closed"}
                                  <=> cpc[c] \in {"leased", "awaiting", "closed"}
        PROVE  ThreadInv'
    BY <1>4 DEF CloseRuntime, TypeOK, ThreadInv, threads
  <1>5. ASSUME NEW c \in Clients, CloseOld(c) PROVE ThreadInv'
    BY <1>4, <1>5 DEF CloseOld, TypeOK, RegistryInv
  <1>6. ASSUME NEW c \in Clients, Load(c) PROVE ThreadInv'
    BY <1>6 DEF Load, TypeOK, RegistryInv, ThreadInv, threads
  <1>7. ASSUME NEW c \in Clients, Release(c) PROVE ThreadInv'
    BY <1>7 DEF Release, TypeOK, ThreadInv, threads
  <1>8. ASSUME NEW c \in Clients, BeginCall(c) PROVE ThreadInv'
    BY <1>8 DEF BeginCall, TypeOK, ThreadInv, registry, Calls
  <1>9. ASSUME NEW c \in Clients, Expire(c) PROVE ThreadInv'
    BY <1>9 DEF Expire, ThreadInv, registry, client
  <1>10. ASSUME NEW c \in Clients, Proceed(c) PROVE ThreadInv'
    BY <1>10 DEF Proceed, ThisCall, TypeOK, ThreadInv, registry
  <1>11. ASSUME NEW w \in Calls, CheckAbort(w) PROVE ThreadInv'
    BY <1>11 DEF CheckAbort, TypeOK, ThreadInv, registry, client
  <1>12. ASSUME NEW w \in Calls, TakeLock(w) PROVE ThreadInv'
    BY <1>12 DEF TakeLock, TypeOK, ThreadInv, registry, client
  <1>13. ASSUME NEW w \in Calls, LeaveNative(w) PROVE ThreadInv'
    BY <1>13 DEF LeaveNative, TypeOK, ThreadInv, registry, client
  <1>14. CASE StartExit
    BY <1>14 DEF StartExit, ThreadInv, client, threads
  <1>15. CASE FinishExit
    <2>1. CASE current = None
      BY <1>15, <2>1 DEF FinishExit, ThreadInv, client, threads
    <2>2. CASE current \in Clients
      BY <1>4, <1>15, <2>2 DEF FinishExit, client
    <2> QED
      BY <2>1, <2>2 DEF TypeOK
  <1>16. CASE UNCHANGED vars
    BY <1>16 DEF vars, ThreadInv, registry, client, threads
  <1> QED
    BY <1>1, <1>2, <1>3, <1>5, <1>6, <1>7, <1>8, <1>9, <1>10, <1>11, <1>12, <1>13,
       <1>14, <1>15, <1>16
    DEF Next, RegistryStep, CallStep, WorkerStep

LEMMA Inductive == Spec => []IInv
  <1>1. IInv /\ [Next]_vars => IInv'
    BY NextTypeOK, NextRegistryInv, NextThreadInv DEF IInv
  <1> QED
    BY InitIInv, <1>1, PTL DEF Spec

LEMMA SafeNativeUse == IInv => NativeUseIsSafe
  <1> SUFFICES ASSUME IInv, NEW w \in Calls, worker[w] = "native"
               PROVE  /\ runtime[lease[w[1]]] = "loaded"
                      /\ \A v \in Calls : worker[v] = "native" => v = w
    BY DEF NativeUseIsSafe
  <1>1. \A v \in Calls : worker[v] = "native" =>
          current = lease[v[1]] /\ runtimeLock[current] = v
    BY CallParts, ClientsAssumption DEF IInv, TypeOK, RegistryInv, ThreadInv
  <1> QED
    BY <1>1 DEF IInv, ThreadInv

LEMMA SingleModel == IInv => OneModelInMemory
  BY ClientsAssumption DEF IInv, TypeOK, RegistryInv, OneModelInMemory

\* Native code only ever runs on a loaded runtime, one thread at a time, for any
\* number of clients, models, calls, timeouts and abandoned threads.
THEOREM NativeUse == Spec => []NativeUseIsSafe
  BY SafeNativeUse, Inductive, PTL

\* There is never more than one loaded model, and none while another loads.
THEOREM OneModel == Spec => []OneModelInMemory
  BY SingleModel, Inductive, PTL

\* The types of the registry, the clients and the threads.
THEOREM RuntimeTypes == Spec => []TypeOK
  BY Inductive, PTL DEF IInv

-----------------------------------------------------------------------------
(* Leases. *)

\* The clients that hold a lease on the registry's runtime.
Holders == {c \in Clients : HoldsLease(c) /\ lease[c] = current}

\* The registry counts the holders.  Before the exit handler, every lease is on
\* its runtime; it is replaced only without a lease, and by a client whose
\* runtime nobody ever had.
LeaseInv ==
    /\ current # None => leases = Cardinality(Holders)
    /\ ~exited => \A c \in Clients : HoldsLease(c) => lease[c] = current
    /\ \A c \in Clients : cpc[c] = "replacing" => leases = 0
    /\ \A c \in Clients : cpc[c] \in {"out", "refused", "replacing", "loading"} =>
        runtime[c] = "none"
    /\ registryLock = ExitHandler => exited

LEMMA HoldersFinite == IsFiniteSet(Holders) /\ Cardinality(Holders) \in Nat
  BY ClientsAssumption, FS_Subset, FS_CardinalityType DEF Holders

LEMMA InitLeaseInv == Init => LeaseInv
  BY ClientsAssumption DEF Init, LeaseInv, HoldsLease

\* Steps that give or take no lease.
LEMMA SameHolders ==
    ASSUME LeaseInv, UNCHANGED <<current, leases, lease>>,
           \A c \in Clients : HoldsLease(c)' <=> HoldsLease(c),
           exited => exited',
           \A c \in Clients : cpc'[c] = "replacing" => leases = 0,
           \A c \in Clients : cpc'[c] \in {"out", "refused", "replacing", "loading"} =>
               runtime'[c] = "none",
           registryLock' = ExitHandler => exited'
    PROVE  LeaseInv'
  <1>1. Holders' = Holders
    BY DEF Holders
  <1> QED
    BY <1>1 DEF LeaseInv

LEMMA NextLeaseInv == IInv /\ LeaseInv /\ [Next]_vars => LeaseInv'
  <1> SUFFICES ASSUME TypeOK, RegistryInv, ThreadInv, LeaseInv, [Next]_vars PROVE LeaseInv'
    BY DEF IInv
  <1> USE ClientsAssumption
  <1>1. ASSUME NEW c \in Clients, Share(c) PROVE LeaseInv'
    <2>1. /\ Holders' = Holders \cup {c} /\ c \notin Holders
          /\ current' = current /\ leases' = leases + 1
      BY <1>1 DEF Share, Acquiring, Holders, HoldsLease, TypeOK
    <2>2. Cardinality(Holders') = Cardinality(Holders) + 1
      BY <2>1, HoldersFinite, FS_AddElement
    <2>3. exited' = exited /\ lease'[c] = current' /\ cpc'[c] = "leased"
          /\ registryLock' = registryLock /\ runtime' = runtime
          /\ \A d \in Clients : d # c => lease'[d] = lease[d] /\ cpc'[d] = cpc[d]
      BY <1>1 DEF Share, process, TypeOK
    <2>4. \A d \in Clients : cpc[d] # "replacing"
      BY <1>1 DEF Share, Acquiring, RegistryInv
    <2> QED
      BY <1>1, <2>1, <2>2, <2>3, <2>4 DEF LeaseInv, HoldsLease, Share
  <1>2. ASSUME NEW c \in Clients, Refuse(c) \/ Retry(c) \/ EndCall(c) \/ Abandon(c) PROVE LeaseInv'
    BY <1>2, SameHolders DEF Refuse, Acquiring, Retry, EndCall, Abandon, TypeOK, LeaseInv,
        HoldsLease, registry, process
  <1>3. ASSUME NEW c \in Clients, StartReplacing(c) \/ StartLoading(c) \/ FailToLoad(c) PROVE LeaseInv'
    BY <1>3, SameHolders DEF StartReplacing, StartLoading, FailToLoad, Acquiring, TypeOK,
        LeaseInv, HoldsLease, process
  <1>4. ASSUME NEW c \in Clients, CloseOld(c) PROVE LeaseInv'
    <2>1. leases = 0 /\ current # None /\ current' = None /\ leases' = leases
      BY <1>4 DEF CloseOld, LeaseInv, RegistryInv
    <2>2. Holders = {}
      BY <2>1, HoldersFinite, FS_EmptySet DEF LeaseInv
    <2>3. ~exited => \A d \in Clients : ~HoldsLease(d)
      BY <2>2 DEF LeaseInv, Holders
    <2>4. \A d \in Clients : d # current => runtime'[d] = runtime[d]
      BY <1>4 DEF CloseOld, CloseRuntime, TypeOK
    <2>5. runtime[current] = "loaded" /\ current \in Clients
      BY <2>1 DEF RegistryInv, TypeOK
    <2>6. current # c /\ cpc[current] \notin {"out", "refused", "replacing", "loading"}
      BY <1>4, <2>5 DEF CloseOld, LeaseInv
    <2> QED
      BY <1>4, <2>1, <2>3, <2>4, <2>6 DEF CloseOld, LeaseInv, HoldsLease, TypeOK, process
  <1>5. ASSUME NEW c \in Clients, Load(c) PROVE LeaseInv'
    <2>1. \A d \in Clients : HoldsLease(d) => d # c /\ lease[d] # c /\ lease[d] # None
      BY <1>5 DEF Load, LeaseInv, HoldsLease, ThreadInv
    <2>2. current = None /\ registryLock = c
      BY <1>5 DEF Load, RegistryInv
    <2>3. Holders' = {c}
      BY <1>5, <2>1 DEF Load, Holders, HoldsLease, TypeOK
    <2>4. Cardinality(Holders') = 1
      BY <2>3, FS_Singleton
    <2>5. ~exited => \A d \in Clients : ~HoldsLease(d)
      BY <2>1, <2>2 DEF LeaseInv
    <2>6. \A d \in Clients : cpc[d] # "replacing"
      BY <1>5, <2>2 DEF RegistryInv
    <2> QED
      BY <1>5, <2>4, <2>5, <2>6 DEF Load, LeaseInv, HoldsLease, TypeOK, process
  <1>12. ASSUME NEW c \in Clients, Release(c), cpc[c] = "closed" PROVE LeaseInv'
    <2>1. UNCHANGED <<current, leases, registryLock, runtime, cpc, lease, exited>>
      BY <1>12 DEF Release, process, TypeOK
    <2> QED
      BY <2>1, SameHolders DEF LeaseInv, HoldsLease
  <1>6. ASSUME NEW c \in Clients, Release(c), cpc[c] = "leased" PROVE LeaseInv'
    <2>1. /\ cpc[c] = "leased" /\ cpc' = [cpc EXCEPT ![c] = "closed"] /\ registryLock = None
          /\ UNCHANGED <<current, registryLock, runtime, lease, exited>>
      BY <1>6 DEF Release, process
    <2>2. \A d \in Clients : d # c => (HoldsLease(d)' <=> HoldsLease(d))
      BY <2>1 DEF HoldsLease, TypeOK
    <2>3. ~HoldsLease(c)' /\ HoldsLease(c)
      BY <2>1 DEF HoldsLease, TypeOK
    <2>4. current # None => leases' = Cardinality(Holders')
      <3>1. CASE lease[c] = current /\ current # None
        <4>1. Holders' = Holders \ {c} /\ c \in Holders
          BY <2>1, <2>2, <2>3, <3>1 DEF Holders
        <4>2. Cardinality(Holders') = Cardinality(Holders) - 1 /\ Cardinality(Holders) > 0
          <5>1. Cardinality(Holders') = Cardinality(Holders) - 1
            BY <4>1, HoldersFinite, FS_RemoveElement
          <5>2. Cardinality(Holders) # 0
            BY <4>1, HoldersFinite, FS_EmptySet
          <5> QED
            BY <5>1, <5>2, HoldersFinite
        <4> QED
          BY <1>6, <3>1, <4>2 DEF Release, LeaseInv
      <3>2. CASE lease[c] # current
        <4>1. Holders' = Holders
          BY <2>1, <2>2, <2>3, <3>2 DEF Holders
        <4> QED
          BY <1>6, <3>2, <4>1 DEF Release, LeaseInv
      <3> QED
        BY <3>1, <3>2
    <2>5. \A d \in Clients : cpc[d] # "replacing"
      BY <2>1 DEF RegistryInv
    <2> QED
      BY <2>1, <2>2, <2>3, <2>4, <2>5 DEF LeaseInv, TypeOK
  <1>7. ASSUME NEW c \in Clients, BeginCall(c) \/ Expire(c) \/ Proceed(c) PROVE LeaseInv'
    BY <1>7, SameHolders DEF BeginCall, Expire, Proceed, TypeOK, LeaseInv, HoldsLease,
        registry, client, process
  <1>8. ASSUME NEW w \in Calls, WorkerStep(w) PROVE LeaseInv'
    BY <1>8, SameHolders DEF WorkerStep, CheckAbort, TakeLock, LeaveNative, LeaseInv,
        HoldsLease, registry, client, process
  <1>9. CASE StartExit
    BY <1>9, SameHolders DEF StartExit, LeaseInv, HoldsLease, client
  <1>10. CASE FinishExit
    <2>1. exited /\ exited' /\ current' = None /\ registryLock' = None /\ cpc' = cpc /\ leases' = 0
      BY <1>10 DEF FinishExit, LeaseInv, client, process
    <2>2. \A d \in Clients : runtime[d] = "none" => runtime'[d] = "none"
      BY <1>10 DEF FinishExit, CloseRuntime, TypeOK, RegistryInv
    <2> QED
      BY <2>1, <2>2 DEF LeaseInv
  <1>11. CASE UNCHANGED vars
    BY <1>11, SameHolders DEF vars, LeaseInv, HoldsLease, registry, client, process
  <1>13. ASSUME NEW c \in Clients, Release(c) PROVE LeaseInv'
    BY <1>6, <1>12, <1>13 DEF Release
  <1> QED
    BY <1>1, <1>2, <1>3, <1>4, <1>5, <1>7, <1>8, <1>9, <1>10, <1>11, <1>13
    DEF Next, RegistryStep, CallStep

LEMMA LeaseInductive == Spec => [](IInv /\ LeaseInv)
  <1>1. (IInv /\ LeaseInv) /\ [Next]_vars => (IInv /\ LeaseInv)'
    BY NextTypeOK, NextRegistryInv, NextThreadInv, NextLeaseInv DEF IInv
  <1> QED
    BY InitIInv, InitLeaseInv, <1>1, PTL DEF Spec

\* The registry's count is the number of clients that have its runtime and have
\* not closed.
THEOREM LeaseCount == Spec => []LeasesAreCounted
  <1>1. IInv /\ LeaseInv => LeasesAreCounted
    BY DEF LeaseInv, LeasesAreCounted, Holders
  <1> QED
    BY <1>1, LeaseInductive, PTL

\* Until the process exits, nobody takes the model of a live client away.
THEOREM LiveClients == Spec => []LiveClientsKeepTheirModel
  <1>1. IInv /\ LeaseInv => LiveClientsKeepTheirModel
    BY ClientsAssumption
    DEF IInv, LeaseInv, LiveClientsKeepTheirModel, HoldsLease, ThreadInv, RegistryInv, TypeOK
  <1> QED
    BY <1>1, LeaseInductive, PTL

-----------------------------------------------------------------------------
(* Locks. *)

\* A runtime's lock is held from inside native code only, where a thread waits
\* for no other lock, and the registry's by a client that replaces or loads or by
\* the exit handler, which wait for the lock of the loaded runtime at most: no
\* two holders ever wait for each other.
LocksAreOrdered ==
    /\ \A r \in Clients : runtimeLock[r] # None =>
        /\ worker[runtimeLock[r]] = "native"
        /\ lease[runtimeLock[r][1]] = r
    /\ registryLock \in Clients => cpc[registryLock] \in {"replacing", "loading"}
    /\ registryLock = ExitHandler => exited

\* A call that create() has not begun has no thread.
FreshInv == \A w \in Calls : worker[w] # "none" => w[2] <= made[w[1]]

LEMMA NextFreshInv == TypeOK /\ FreshInv /\ [Next]_vars => FreshInv'
  <1> SUFFICES ASSUME TypeOK, FreshInv, [Next]_vars PROVE FreshInv'
    OBVIOUS
  <1> USE CallParts DEF TypeOK, FreshInv
  <1>1. ASSUME NEW c \in Clients, RegistryStep(c) \/ EndCall(c) \/ Abandon(c)
                                  \/ Release(c) \/ Expire(c)
        PROVE  FreshInv'
    <2>1. UNCHANGED <<worker, made>>
      BY <1>1 DEF RegistryStep, Share, Refuse, StartReplacing, CloseOld, StartLoading, Load,
          FailToLoad, Retry, EndCall, Abandon, Release, Expire, client, threads
    <2> QED
      BY <2>1
  <1>2. ASSUME NEW c \in Clients, BeginCall(c) PROVE FreshInv'
    <2>1. \A w \in Calls : w = <<w[1], w[2]>> /\ w[2] \in Nat
      BY DEF Calls
    <2>2. /\ \A d \in Clients : made'[d] \in Nat /\ made[d] \in Nat /\ made'[d] >= made[d]
          /\ made'[c] = made[c] + 1
      BY <1>2 DEF BeginCall
    <2>3. \A w \in Calls : w # <<c, made[c] + 1>> => worker'[w] = worker[w]
      BY <1>2 DEF BeginCall
    <2>4. ASSUME NEW w \in Calls, worker'[w] # "none" PROVE w[2] <= made'[w[1]]
      <3>1. CASE w = <<c, made[c] + 1>>
        BY <2>2, <3>1
      <3>2. CASE w # <<c, made[c] + 1>>
        BY <2>1, <2>2, <2>3, <2>4, <3>2
      <3> QED
        BY <3>1, <3>2
    <2> QED
      BY <2>4
  <1>3. ASSUME NEW c \in Clients, Proceed(c) PROVE FreshInv'
    BY <1>3 DEF Proceed, ThisCall
  <1>4. ASSUME NEW w \in Calls, WorkerStep(w) PROVE FreshInv'
    BY <1>4 DEF WorkerStep, CheckAbort, TakeLock, LeaveNative, client
  <1>5. CASE StartExit \/ FinishExit \/ UNCHANGED vars
    BY <1>5 DEF StartExit, FinishExit, vars, client, threads
  <1> QED
    BY <1>1, <1>2, <1>3, <1>4, <1>5 DEF Next, CallStep

LEMMA NextLocksAreOrdered ==
    IInv /\ FreshInv /\ LocksAreOrdered /\ [Next]_vars => LocksAreOrdered'
  <1> SUFFICES ASSUME TypeOK, RegistryInv, ThreadInv, FreshInv, LocksAreOrdered, [Next]_vars
               PROVE  LocksAreOrdered'
    BY DEF IInv
  <1> USE ClientsAssumption, CallParts DEF TypeOK, LocksAreOrdered
  <1>1. ASSUME NEW c \in Clients, Share(c) PROVE LocksAreOrdered'
    BY <1>1 DEF Share, Acquiring, ThreadInv, threads, process
  <1>2. ASSUME NEW c \in Clients, Refuse(c) \/ Retry(c) \/ EndCall(c) \/ Abandon(c)
        PROVE  LocksAreOrdered'
    BY <1>2 DEF Refuse, Acquiring, Retry, EndCall, Abandon, registry, threads, process
  <1>3. ASSUME NEW c \in Clients, StartReplacing(c) \/ StartLoading(c) \/ FailToLoad(c)
        PROVE  LocksAreOrdered'
    BY <1>3 DEF StartReplacing, StartLoading, FailToLoad, Acquiring, RegistryInv, threads, process
  <1>4. ASSUME NEW c \in Clients, CloseOld(c) PROVE LocksAreOrdered'
    BY <1>4 DEF CloseOld, RegistryInv, threads, process
  <1>5. ASSUME NEW c \in Clients, Load(c) PROVE LocksAreOrdered'
    BY <1>5 DEF Load, RegistryInv, ThreadInv, threads, process
  <1>6. ASSUME NEW c \in Clients, Release(c) \/ Expire(c) PROVE LocksAreOrdered'
    BY <1>6 DEF Release, Expire, registry, client, threads, process
  <1>7. ASSUME NEW c \in Clients, BeginCall(c) PROVE LocksAreOrdered'
    <2>1. <<c, made[c] + 1>> \in Calls => worker[<<c, made[c] + 1>>] = "none"
      BY DEF FreshInv
    <2> QED
      BY <1>7, <2>1 DEF BeginCall, registry, process
  <1>8. ASSUME NEW c \in Clients, Proceed(c) PROVE LocksAreOrdered'
    BY <1>8 DEF Proceed, ThisCall, registry, process
  <1>9. ASSUME NEW w \in Calls, CheckAbort(w) PROVE LocksAreOrdered'
    BY <1>9 DEF CheckAbort, registry, client, process
  <1>10. ASSUME NEW w \in Calls, TakeLock(w) PROVE LocksAreOrdered'
    BY <1>10 DEF TakeLock, ThreadInv, registry, client, process
  <1>11. ASSUME NEW w \in Calls, LeaveNative(w) PROVE LocksAreOrdered'
    BY <1>11 DEF LeaveNative, ThreadInv, registry, client, process
  <1>12. CASE StartExit \/ FinishExit
    BY <1>12 DEF StartExit, FinishExit, RegistryInv, client, threads, process
  <1>13. CASE UNCHANGED vars
    BY <1>13 DEF vars, registry, client, threads, process
  <1> QED
    BY <1>1, <1>2, <1>3, <1>4, <1>5, <1>6, <1>7, <1>8, <1>9, <1>10, <1>11, <1>12, <1>13
    DEF Next, RegistryStep, CallStep, WorkerStep

\* The two kinds of lock are never waited for in a circle, for any number of
\* clients and threads.
THEOREM OrderedLocks == Spec => []LocksAreOrdered
  <1>1. Init => FreshInv /\ LocksAreOrdered
    BY ClientsAssumption DEF Init, FreshInv, LocksAreOrdered
  <1>2. (IInv /\ FreshInv /\ LocksAreOrdered) /\ [Next]_vars
            => (IInv /\ FreshInv /\ LocksAreOrdered)'
    BY NextTypeOK, NextRegistryInv, NextThreadInv, NextFreshInv, NextLocksAreOrdered DEF IInv
  <1> QED
    BY InitIInv, <1>1, <1>2, PTL DEF Spec

-----------------------------------------------------------------------------
(* Runs of the orchestrator never give a client two threads.  create() by    *)
(* itself would leave one behind with every call it gives up; the run ends    *)
(* then, and its event loop is joined before the client starts another.      *)

Living == {"checking", "acquiring", "native"}
Outside == {"out", "refused", "replacing", "loading", "closed"}

Types ==
    /\ run \in [Clients -> {"idle", "running", "closing"}]
    /\ cpc \in [Clients -> {"leased", "awaiting"} \cup Outside]
    /\ made \in [Clients -> 0..MaxCalls]
    /\ worker \in [Calls -> Living \cup {"none", "done", "aborted", "failed"}]

\* A living thread is that of the call at hand, and a client whose loop is
\* neither waiting nor closing has none.
ThreadsInv ==
    /\ \A c \in Clients : run[c] # "idle" => cpc[c] \in {"leased", "awaiting"}
    /\ \A c \in Clients : run[c] # "running" => cpc[c] # "awaiting"
    /\ \A w \in Calls : worker[w] \in Living =>
        /\ w = ThisCall(w[1])
        /\ cpc[w[1]] = "awaiting" \/ run[w[1]] = "closing"

CInv == Types /\ ThreadsInv

LEMMA CallOf ==
    /\ \A w \in Calls : w[1] \in Clients /\ w[2] \in 1..MaxCalls /\ w = <<w[1], w[2]>>
    /\ \A c \in Clients, n \in 1..MaxCalls : <<c, n>> \in Calls
  BY DEF Calls

LEMMA InitCInv == CInit => CInv
  BY ClientsAssumption DEF CInit, Init, CInv, Types, ThreadsInv, Living, Outside

LEMMA NextCInv == CInv /\ [CNext]_allVars => CInv'
  <1> SUFFICES ASSUME Types, ThreadsInv, [CNext]_allVars PROVE CInv'
    BY DEF CInv
  <1> USE ClientsAssumption, CallOf DEF CInv, Types, ThreadsInv, Living, Outside, ThisCall
  <1>1. ASSUME NEW c \in Clients, StartRun(c) PROVE CInv'
    BY <1>1 DEF StartRun, vars, client, threads
  <1>2. ASSUME NEW c \in Clients, PassDeadline(c) PROVE CInv'
    BY <1>2 DEF PassDeadline, vars, client, threads
  <1>3. ASSUME NEW c \in Clients, Turn(c) PROVE CInv'
    <2>1. <<c, made[c] + 1>> \in Calls /\ made' \in [Clients -> 0..MaxCalls]
      BY <1>3 DEF Turn, BeginCall
    <2>2. \A w \in Calls : w[1] = c => worker[w] \notin {"checking", "acquiring", "native"}
      BY <1>3 DEF Turn, BeginCall
    <2> QED
      BY <1>3, <2>1, <2>2 DEF Turn, BeginCall, collaboration
  <1>4. ASSUME NEW c \in Clients, Finish(c) \/ OutOfTime(c) PROVE CInv'
    BY <1>4 DEF Finish, OutOfTime, End, vars, client, threads
  <1>5. ASSUME NEW c \in Clients, EndCall(c), run' = run \/ End(c), run[c] = "running" PROVE CInv'
    <2>1. \A w \in Calls : w[1] = c => worker[w] \notin {"checking", "acquiring", "native"}
      BY <1>5 DEF EndCall
    <2> QED
      BY <1>5, <2>1 DEF EndCall, End, threads
  <1>6. ASSUME NEW c \in Clients, CutShort(c) PROVE CInv'
    BY <1>6 DEF CutShort, End
  <1>7. ASSUME NEW c \in Clients, JoinThreads(c) PROVE CInv'
    BY <1>7 DEF JoinThreads, Alive, vars, client, threads
  <1>8. ASSUME NEW c \in Clients, RegistryStep(c), UNCHANGED collaboration PROVE CInv'
    BY <1>8 DEF RegistryStep, Share, Refuse, StartReplacing, CloseOld, StartLoading, Load,
        FailToLoad, Retry, Acquiring, collaboration, threads
  <1>9. ASSUME NEW c \in Clients, Proceed(c), UNCHANGED collaboration PROVE CInv'
    <2>1. UNCHANGED <<cpc, made, run>> /\ cpc[c] = "awaiting"
      BY <1>9 DEF Proceed, collaboration
    <2>2. /\ worker' \in [Calls -> Living \cup {"none", "done", "aborted", "failed"}]
          /\ \A w \in Calls : w # <<c, made[c]>> => worker'[w] = worker[w]
      <3>1. worker' = [worker EXCEPT ![<<c, made[c]>>] = "checking"]
        BY <1>9 DEF Proceed
      <3> HIDE DEF ThreadsInv
      <3> QED
        BY <3>1
    <2>3. \A w \in Calls : w = <<c, made[c]>> => w[1] = c
      BY CallOf
    <2> QED
      BY <2>1, <2>2, <2>3
  <1>10. ASSUME NEW c \in Clients, Expire(c) \/ Close(c), UNCHANGED collaboration PROVE CInv'
    BY <1>10 DEF Expire, Close, Release, client, threads, collaboration
  <1>11. ASSUME NEW w \in Calls, WorkerStep(w), UNCHANGED collaboration PROVE CInv'
    BY <1>11 DEF WorkerStep, CheckAbort, TakeLock, LeaveNative, client, collaboration
  <1>12. CASE UNCHANGED allVars
    BY <1>12 DEF allVars, vars, client, threads, collaboration
  <1> QED
    BY <1>1, <1>2, <1>3, <1>4, <1>5, <1>6, <1>7, <1>8, <1>9, <1>10, <1>11, <1>12
    DEF CNext, RunStep, Answered, Raised, RuntimeStep, collaboration

\* However often calls are given up, retried or cancelled by the deadline of a
\* run, no client ever has two threads on the model.
THEOREM OneThread == CSpec => []OneThreadPerClient
  <1>1. CInv => OneThreadPerClient
    BY CallOf DEF CInv, ThreadsInv, OneThreadPerClient, Alive, Living
  <1> QED
    BY InitCInv, NextCInv, <1>1, PTL DEF CSpec

-----------------------------------------------------------------------------
(* What holds of the clients holds under runs too. *)

\* Cutting a call short is the expiry and the abandoning of it in one step.
LEMMA CutShortKeeps ==
    ASSUME IInv, LeaseInv, ~exited, NEW c \in Clients, CutShort(c)
    PROVE  (IInv /\ LeaseInv)' /\ ~exited'
  <1>1. /\ cpc[c] = "awaiting" /\ cpc' = [cpc EXCEPT ![c] = "leased"]
        /\ UNCHANGED <<registry, stage, made, lease, runtimeLock, worker, process>>
        /\ abort' = [abort EXCEPT ![ThisCall(c)] = TRUE]
    BY DEF CutShort
  <1>2. TypeOK'
    BY <1>1 DEF IInv, TypeOK, registry, process
  <1>3. RegistryInv'
    BY <1>1 DEF IInv, TypeOK, RegistryInv, registry
  <1>4. ThreadInv'
    BY <1>1, CallParts DEF IInv, TypeOK, ThreadInv, registry
  <1>5. LeaseInv'
    BY <1>1, SameHolders DEF IInv, TypeOK, LeaseInv, HoldsLease, registry, process
  <1> QED
    BY <1>1, <1>2, <1>3, <1>4, <1>5 DEF IInv, process

\* Every other step of a run is one of the clients', or none.
LEMMA RunsUseClients ==
    [CNext]_allVars => \/ (UNCHANGED exited /\ [Next]_vars)
                       \/ \E c \in Clients : CutShort(c)
  <1> SUFFICES ASSUME [CNext]_allVars, \A c \in Clients : ~CutShort(c)
               PROVE  UNCHANGED exited /\ [Next]_vars
    OBVIOUS
  <1>1. ASSUME NEW c \in Clients, StartRun(c) \/ PassDeadline(c) \/ JoinThreads(c)
                                  \/ Finish(c) \/ OutOfTime(c)
        PROVE  UNCHANGED vars
    BY <1>1 DEF StartRun, PassDeadline, JoinThreads, Finish, OutOfTime
  <1>2. ASSUME NEW c \in Clients, Turn(c) \/ Answered(c) \/ Raised(c)
        PROVE  UNCHANGED exited /\ Next
    BY <1>2 DEF Turn, Answered, Raised, Next, CallStep, BeginCall, EndCall, process
  <1>3. ASSUME RuntimeStep PROVE UNCHANGED exited /\ Next
    <2>1. ASSUME NEW c \in Clients, RegistryStep(c) \/ Proceed(c) \/ Expire(c) \/ Close(c)
          PROVE  UNCHANGED exited /\ Next
      BY <2>1 DEF Close, Next, CallStep, RegistryStep, Share, Refuse, StartReplacing, CloseOld,
          StartLoading, Load, FailToLoad, Retry, Proceed, Expire, Release, process
    <2>2. ASSUME NEW w \in Calls, WorkerStep(w) PROVE UNCHANGED exited /\ Next
      BY <2>2 DEF Next, WorkerStep, CheckAbort, TakeLock, LeaveNative, process
    <2> QED
      BY <1>3, <2>1, <2>2 DEF RuntimeStep
  <1> QED
    BY <1>1, <1>2, <1>3 DEF CNext, RunStep, allVars, vars, process

LEMMA CollaborationInductive ==
    CSpec => [](CInv /\ IInv /\ LeaseInv /\ ~exited)
  <1>1. CInit => CInv /\ IInv /\ LeaseInv /\ ~exited
    BY InitCInv, InitIInv, InitLeaseInv DEF CInit, Init
  <1>2. IInv /\ LeaseInv /\ ~exited /\ [CNext]_allVars => (IInv /\ LeaseInv)' /\ ~exited'
    BY RunsUseClients, CutShortKeeps, NextTypeOK, NextRegistryInv, NextThreadInv, NextLeaseInv
    DEF IInv
  <1>3. (CInv /\ IInv /\ LeaseInv /\ ~exited) /\ [CNext]_allVars
            => (CInv /\ IInv /\ LeaseInv /\ ~exited)'
    BY <1>2, NextCInv
  <1> QED
    BY <1>1, <1>3, PTL DEF CSpec

\* Runs that are timed out, cancelled or abandoned disturb none of what the
\* registry promises: native code runs on loaded models only, one model is in
\* memory, and the leases are counted.
THEOREM RunsKeepTheRuntime ==
    CSpec => [](NativeUseIsSafe /\ OneModelInMemory /\ LeasesAreCounted)
  <1>1. IInv /\ LeaseInv => NativeUseIsSafe /\ OneModelInMemory /\ LeasesAreCounted
    BY SafeNativeUse, SingleModel DEF LeaseInv, LeasesAreCounted, Holders
  <1> QED
    BY <1>1, CollaborationInductive, PTL

\* From its start until its threads are joined a run has its model loaded, and
\* no other session or case replaces it.
THEOREM RunsHaveTheirModel ==
    CSpec => [](\A c \in Clients : run[c] # "idle" =>
                    lease[c] = current /\ runtime[lease[c]] = "loaded")
  <1>1. CInv /\ IInv /\ LeaseInv /\ ~exited =>
            \A c \in Clients : run[c] # "idle" =>
                lease[c] = current /\ runtime[lease[c]] = "loaded"
    <2> SUFFICES ASSUME CInv, IInv, LeaseInv, ~exited, NEW c \in Clients, run[c] # "idle"
                 PROVE  lease[c] = current /\ runtime[lease[c]] = "loaded"
      OBVIOUS
    <2>1. cpc[c] \in {"leased", "awaiting"}
      BY DEF CInv, ThreadsInv
    <2>2. lease[c] = current /\ lease[c] \in Clients
      BY <2>1 DEF LeaseInv, HoldsLease, IInv, ThreadInv, TypeOK
    <2> QED
      BY <2>2 DEF IInv, RegistryInv
  <1> QED
    BY <1>1, CollaborationInductive, PTL

-----------------------------------------------------------------------------
(* Threads left behind. *)

\* A thread that outlives its run has been told to abort.
ToldInv == \A c \in Clients : run[c] = "closing" => \A w \in Alive(c) : abort[w]

\* The steps such a thread has left at most: it may get the lock once more.
StepsLeft == [none |-> 0, checking |-> 1, native |-> 1, acquiring |-> 2,
              done |-> 0, aborted |-> 0, failed |-> 0]

ThreadsWindUp == \A c \in Clients : run[c] = "closing" =>
    \A w \in Calls : w[1] = c /\ worker'[w] # worker[w] => StepsLeft[worker'[w]] < StepsLeft[worker[w]]

LEMMA NextToldInv == CInv /\ TypeOK /\ ToldInv /\ [CNext]_allVars => ToldInv'
  <1> SUFFICES ASSUME CInv, TypeOK, ToldInv, [CNext]_allVars,
                      NEW c \in Clients, run'[c] = "closing",
                      NEW w \in Calls, w[1] = c, worker'[w] \in Living
               PROVE  abort'[w]
    BY DEF ToldInv, Alive, Living
  <1>0. run[c] = "closing" /\ worker[w] \in Living => abort[w]
    BY DEF ToldInv, Alive, Living
  <1>1. ASSUME NEW d \in Clients, StartRun(d) \/ PassDeadline(d) \/ JoinThreads(d) PROVE abort'[w]
    <2>1. UNCHANGED vars /\ run[c] = "closing"
      BY <1>1 DEF StartRun, PassDeadline, JoinThreads, CInv, Types
    <2> QED
      BY <1>0, <2>1 DEF vars, threads
  <1>2. ASSUME NEW d \in Clients, Turn(d) PROVE abort'[w]
    <2>1. abort' = abort /\ run[c] = "closing" /\ c # d
      BY <1>2 DEF Turn, BeginCall, collaboration
    <2>2. w # <<d, made[d] + 1>>
      BY <2>1
    <2>3. worker'[w] = worker[w]
      BY <1>2, <2>2 DEF Turn, BeginCall, CInv, Types
    <2> QED
      BY <1>0, <2>1, <2>3
  <1>3. ASSUME NEW d \in Clients, Finish(d) \/ OutOfTime(d) PROVE abort'[w]
    <2>1. abort' = abort /\ worker' = worker
      BY <1>3 DEF Finish, OutOfTime, vars, threads
    <2>2. c # d => run[c] = "closing"
      BY <1>3 DEF Finish, OutOfTime, End, CInv, Types
    <2>3. c = d => worker[w] \notin Living
      BY <1>3 DEF Finish, OutOfTime, CInv, ThreadsInv
    <2> QED
      BY <1>0, <2>1, <2>2, <2>3
  <1>4. ASSUME NEW d \in Clients, Answered(d) \/ Raised(d) PROVE abort'[w]
    <2>1. abort' = abort /\ worker' = worker
      BY <1>4 DEF Answered, Raised, EndCall, threads
    <2>2. c # d => run[c] = "closing"
      BY <1>4 DEF Answered, Raised, End, CInv, Types, collaboration
    <2>3. c = d => worker[w] \notin Living
      BY <1>4 DEF Answered, Raised, EndCall, CInv, ThreadsInv, Living
    <2> QED
      BY <1>0, <2>1, <2>2, <2>3
  <1>5. ASSUME NEW d \in Clients, CutShort(d) PROVE abort'[w]
    <2>1. worker' = worker /\ abort' = [abort EXCEPT ![ThisCall(d)] = TRUE]
      BY <1>5 DEF CutShort
    <2>2. CASE c = d
      <3>1. w = ThisCall(d)
        BY <2>1, <2>2 DEF CInv, ThreadsInv
      <3> QED
        BY <2>1, <3>1 DEF TypeOK
    <2>3. CASE c # d
      <3>1. run[c] = "closing"
        BY <1>5, <2>3 DEF CutShort, End, CInv, Types
      <3> QED
        BY <1>0, <2>1, <3>1 DEF TypeOK
    <2> QED
      BY <2>2, <2>3
  <1>6. ASSUME NEW d \in Clients, RegistryStep(d) \/ Close(d), UNCHANGED collaboration PROVE abort'[w]
    <2>1. abort' = abort /\ worker' = worker /\ run' = run
      BY <1>6 DEF RegistryStep, Share, Refuse, StartReplacing, CloseOld, StartLoading, Load,
          FailToLoad, Retry, Close, Release, threads, collaboration
    <2> QED
      BY <1>0, <2>1
  <1>7. ASSUME NEW d \in Clients, Expire(d), UNCHANGED collaboration PROVE abort'[w]
    BY <1>0, <1>7 DEF Expire, TypeOK, collaboration
  <1>8. ASSUME NEW d \in Clients, Proceed(d), UNCHANGED collaboration PROVE abort'[w]
    <2>1. abort' = abort /\ run[c] = "closing" /\ cpc[d] = "awaiting"
      BY <1>8 DEF Proceed, collaboration
    <2>2. w # ThisCall(d)
      BY <2>1 DEF CInv, ThreadsInv, ThisCall
    <2>3. worker'[w] = worker[w]
      BY <1>8, <2>2 DEF Proceed, CInv, Types
    <2> QED
      BY <1>0, <2>1, <2>3
  <1>9. ASSUME NEW v \in Calls, WorkerStep(v), UNCHANGED collaboration PROVE abort'[w]
    <2>1. abort' = abort /\ run[c] = "closing"
      BY <1>9 DEF WorkerStep, CheckAbort, TakeLock, LeaveNative, collaboration
    <2>2. worker'[w] = worker[w] \/ worker[w] \in Living
      BY <1>9 DEF WorkerStep, CheckAbort, TakeLock, LeaveNative, CInv, Types, Living
    <2> QED
      BY <1>0, <2>1, <2>2
  <1>10. CASE UNCHANGED allVars
    BY <1>0, <1>10 DEF allVars, vars, threads, collaboration
  <1> QED
    BY <1>1, <1>2, <1>3, <1>4, <1>5, <1>6, <1>7, <1>8, <1>9, <1>10 DEF CNext, RunStep, RuntimeStep

\* The one way on for a thread that has been told leads out.
LEMMA ToldThreadsWindUp == CInv /\ ToldInv /\ [CNext]_allVars => [ThreadsWindUp]_allVars
  <1> SUFFICES ASSUME CInv, ToldInv, CNext, NEW c \in Clients, run[c] = "closing",
                      NEW w \in Calls, w[1] = c, worker'[w] # worker[w]
               PROVE  StepsLeft[worker'[w]] < StepsLeft[worker[w]]
    BY DEF ThreadsWindUp
  <1>1. ASSUME NEW d \in Clients, StartRun(d) \/ PassDeadline(d) \/ JoinThreads(d) \/ Finish(d)
                                  \/ OutOfTime(d) \/ Answered(d) \/ Raised(d) \/ CutShort(d)
                                  \/ RegistryStep(d) \/ Expire(d) \/ Close(d)
        PROVE  worker' = worker
    BY <1>1 DEF StartRun, PassDeadline, JoinThreads, Finish, OutOfTime, Answered, Raised, CutShort,
        EndCall, RegistryStep, Share, Refuse, StartReplacing, CloseOld, StartLoading, Load,
        FailToLoad, Retry, Expire, Close, Release, vars, threads
  <1>2. ASSUME NEW d \in Clients, Turn(d) PROVE worker'[w] = worker[w]
    <2>1. w # <<d, made[d] + 1>>
      BY <1>2 DEF Turn
    <2> QED
      BY <1>2, <2>1 DEF Turn, BeginCall, CInv, Types
  <1>3. ASSUME NEW d \in Clients, Proceed(d) PROVE worker'[w] = worker[w]
    <2>1. w # ThisCall(d)
      BY <1>3 DEF Proceed, CInv, ThreadsInv, ThisCall
    <2> QED
      BY <1>3, <2>1 DEF Proceed, CInv, Types
  <1>4. ASSUME NEW v \in Calls, WorkerStep(v)
        PROVE  StepsLeft[worker'[w]] < StepsLeft[worker[w]]
    <2>1. v = w
      BY <1>4 DEF WorkerStep, CheckAbort, TakeLock, LeaveNative, CInv, Types
    <2>2. worker[w] \in Living /\ abort[w]
      BY <1>4, <2>1 DEF WorkerStep, CheckAbort, TakeLock, LeaveNative, Living, ToldInv, Alive
    <2>3. \/ worker[w] = "checking" /\ worker'[w] = "aborted"
          \/ worker[w] = "acquiring" /\ worker'[w] \in {"checking", "failed", "native"}
          \/ worker[w] = "native" /\ worker'[w] \in {"done", "aborted"}
      BY <1>4, <2>1, <2>2 DEF WorkerStep, CheckAbort, TakeLock, LeaveNative, CInv, Types
    <2> QED
      BY <2>3 DEF StepsLeft
  <1> QED
    BY <1>1, <1>2, <1>3, <1>4 DEF CNext, RunStep, RuntimeStep, allVars, vars, threads

\* A thread left behind by a run that ended has been told to abort and takes two
\* steps more at most, the second of which ends a native operation if the first
\* begins one: nothing else keeps asyncio.run from its join.  This is the safety
\* half of ResultsAreDelivered.
THEOREM LeftThreadsEnd == CSpec => []ToldInv /\ [][ThreadsWindUp]_allVars
  <1>1. CInit => ToldInv
    BY DEF CInit, ToldInv
  <1>2. IInv => TypeOK
    BY DEF IInv
  <1> QED
    BY <1>1, <1>2, CollaborationInductive, NextToldInv, ToldThreadsWindUp, PTL DEF CSpec
=============================================================================
