--------------------------- MODULE AppSessionProofs ---------------------------
(***************************************************************************)
(* Proofs about AppSession, for any number of sessions, models and clicks.   *)
(***************************************************************************)
EXTENDS AppSession, TLAPS

Stages == {"idle", "setup", "running", "completed", "returned"}

Types ==
    /\ stage \in [Sessions -> Stages]
    /\ attempt \in [Sessions -> Nat]
    /\ model \in [Sessions -> Models]
    /\ stored \in [Sessions -> [attempt : Nat, status : Statuses \cup {None}] \cup {None}]
    /\ outcome \in [Sessions -> Statuses \cup {None}]
    /\ DOMAIN failure = Sessions /\ failure = [s \in Sessions |-> failure[s]]
    /\ leases \in Nat

\* A result is on the page only while the script rests, and is of the latest
\* attempt; a page that shows a failure belongs to a script that rests too.
PageInv ==
    \A s \in Sessions :
        /\ stored[s] # None => stage[s] = "idle" /\ stored[s].attempt = attempt[s]
                               /\ failure[s] = None
        /\ stage[s] # "idle" => failure[s] = None

IInv == Types /\ PageInv

LEMMA InitIInv == Init => IInv
  BY SessionAssumption DEF Init, IInv, Types, Stages, PageInv

LEMMA NextTypes == Types /\ [Next]_vars => Types'
  <1> SUFFICES ASSUME Types, [Next]_vars PROVE Types'
    OBVIOUS
  <1> USE SessionAssumption DEF Types, Stages
  <1>1. ASSUME NEW s \in Sessions, User(s) PROVE Types'
    BY <1>1 DEF User, Interact, Clear, Generate, NewPage, registry
  <1>2. ASSUME NEW s \in Sessions, SetupFails(s) \/ Conflict(s) \/ Escapes(s) PROVE Types'
    BY <1>2 DEF SetupFails, Conflict, Escapes, RenderFailure, registry
  <1>3. ASSUME NEW s \in Sessions, Share(s) \/ Load(s) PROVE Types'
    BY <1>3 DEF Share, Load, Begin, RenderFailure
  <1>4. ASSUME NEW s \in Sessions, Completed(s) \/ Failed(s) \/ Return(s) PROVE Types'
    BY <1>4 DEF Completed, Failed, Return, page, registry, Statuses
  <1>5. ASSUME NEW s \in Sessions, Present(s) PROVE Types'
    BY <1>5 DEF Present, registry
  <1>6. CASE UNCHANGED vars
    BY <1>6 DEF vars, page, registry
  <1> QED
    BY <1>1, <1>2, <1>3, <1>4, <1>5, <1>6 DEF Next, Script

LEMMA NextPageInv == Types /\ PageInv /\ [Next]_vars => PageInv'
  <1> SUFFICES ASSUME Types, PageInv, [Next]_vars PROVE PageInv'
    OBVIOUS
  <1> USE DEF Types, Stages, PageInv
  <1>1. ASSUME NEW s \in Sessions, User(s) PROVE PageInv'
    BY <1>1 DEF User, Interact, Clear, Generate, NewPage, registry
  <1>2. ASSUME NEW s \in Sessions, SetupFails(s) \/ Conflict(s) \/ Escapes(s) PROVE PageInv'
    BY <1>2 DEF SetupFails, Conflict, Escapes, RenderFailure, registry
  <1>3. ASSUME NEW s \in Sessions, Share(s) \/ Load(s) PROVE PageInv'
    BY <1>3 DEF Share, Load, Begin, RenderFailure
  <1>4. ASSUME NEW s \in Sessions, Completed(s) \/ Failed(s) \/ Return(s) PROVE PageInv'
    BY <1>4 DEF Completed, Failed, Return, page, registry
  <1>5. ASSUME NEW s \in Sessions, Present(s) PROVE PageInv'
    BY <1>5 DEF Present, registry
  <1>6. CASE UNCHANGED vars
    BY <1>6 DEF vars, page, registry
  <1> QED
    BY <1>1, <1>2, <1>3, <1>4, <1>5, <1>6 DEF Next, Script

LEMMA Inductive == Spec => []IInv
  <1>1. IInv /\ [Next]_vars => IInv'
    BY NextTypes, NextPageInv DEF IInv
  <1> QED
    BY InitIInv, <1>1, PTL DEF Spec

\* A page never shows a result of an attempt that is not its latest, or next to
\* a failure, or during a run.
THEOREM PagesAreCurrent == Spec => []NoOldResult
  <1>1. IInv => NoOldResult
    BY DEF IInv, PageInv, NoOldResult, Busy
  <1> QED
    BY <1>1, Inductive, PTL
=============================================================================
