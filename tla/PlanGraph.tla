------------------------------ MODULE PlanGraph ------------------------------
(***************************************************************************)
(* What a planner's reply must pass to become a plan: the validator         *)
(* ArchitecturePlan.dependency_graph_is_valid (src/src/schemas.py), then    *)
(* validate_topology_policy (src/src/topology_contract.py).                 *)
(*                                                                         *)
(* The depth-first search is kept as a machine with its call stack: a frame *)
(* is a call of visit(name) and the dependency its loop stands at.          *)
(***************************************************************************)
EXTENDS Naturals, Sequences

CONSTANTS
    Names,          \* resource names
    Types,          \* resource types
    AllowedTypes,   \* ALLOWED_RESOURCE_TYPES
    Required,       \* REQUIRED_DEPENDENCY_TYPES; the empty set where it has no entry
    Inputs          \* the resource lists a planner may send

Resources == [name : Names, type : Types, deps : Seq(Names)]

ASSUME InputAssumption ==
    /\ Inputs \subseteq Seq(Resources)
    /\ AllowedTypes \subseteq Types
    /\ Required \in [Types -> SUBSET Types]

VARIABLES
    resources,      \* self.resources
    pc,             \* the check being made
    index,          \* where its loop over the resources stands
    graph,          \* graph
    visiting,       \* visiting
    visited,        \* visited
    stack,          \* the calls of visit, outermost first
    error           \* why the plan is refused

vars == <<resources, pc, index, graph, visiting, visited, stack, error>>
search == <<graph, visiting, visited, stack>>

ElementsOf(s) == {s[i] : i \in 1..Len(s)}
Distinct(s) == \A i, j \in 1..Len(s) : i # j => s[i] # s[j]
KnownNames == {resources[i].name : i \in 1..Len(resources)}

Init ==
    /\ resources \in Inputs
    /\ pc = "names" /\ index = 1
    /\ graph = << >>
    /\ visiting = {} /\ visited = {} /\ stack = <<>>
    /\ error = "none"

Refuse(why) == pc' = "refused" /\ error' = why

CheckNames ==
    /\ pc = "names"
    /\ \/ Distinct([i \in 1..Len(resources) |-> resources[i].name])
          /\ pc' = "dependencies" /\ UNCHANGED error
       \/ ~Distinct([i \in 1..Len(resources) |-> resources[i].name])
          /\ Refuse("names")
    /\ UNCHANGED <<resources, index, search>>

\* No duplicate, no self-reference, no unknown name.
ValidDependencies(r) ==
    /\ Distinct(r.deps)
    /\ r.name \notin ElementsOf(r.deps)
    /\ ElementsOf(r.deps) \subseteq KnownNames

CheckDependencies ==
    /\ pc = "dependencies" /\ index <= Len(resources)
    /\ LET r == resources[index] IN
        \/ /\ ValidDependencies(r)
           /\ graph' = [n \in DOMAIN graph \cup {r.name} |->
                            IF n = r.name THEN r.deps ELSE graph[n]]
           /\ index' = index + 1
           /\ UNCHANGED <<pc, error>>
        \/ ~ValidDependencies(r) /\ Refuse("dependencies") /\ UNCHANGED <<graph, index>>
    /\ UNCHANGED <<resources, visiting, visited, stack>>

StartSearch ==
    /\ pc = "dependencies" /\ index > Len(resources)
    /\ pc' = "visit" /\ index' = 1
    /\ UNCHANGED <<resources, search, error>>

StayMutant(calls) ==
    /\ stack' = calls
    /\ index' = IF calls = <<>> THEN index + 1 ELSE index

\* visit returns to the loop of its caller.
Return(calls) ==
    \/ /\ calls = <<>>
       /\ stack' = <<>> /\ index' = index + 1
    \/ /\ calls # <<>>
       /\ stack' = [calls EXCEPT ![Len(calls)].next = @ + 1]
       /\ UNCHANGED index

MarkEarlyMutant(name) ==
    /\ visiting' = visiting
    /\ visited' = visited \cup {name}
    /\ stack' = Append(stack, [name |-> name, next |-> 1])

Enter(name) ==
    /\ visiting' = visiting \cup {name}
    /\ stack' = Append(stack, [name |-> name, next |-> 1])
    /\ UNCHANGED visited

\* A call of visit(name).
Visit(name) ==
    \/ name \in visiting /\ Refuse("cycle") /\ UNCHANGED <<index, visiting, visited, stack>>
    \/ /\ name \notin visiting /\ name \in visited
       /\ Return(stack) /\ UNCHANGED <<pc, error, visiting, visited>>
    \/ /\ name \notin visiting /\ name \notin visited
       /\ Enter(name) /\ UNCHANGED <<pc, error, index>>

VisitRoot ==
    /\ pc = "visit" /\ stack = <<>> /\ index <= Len(resources)
    /\ Visit(resources[index].name)
    /\ UNCHANGED <<resources, graph>>

Top == stack[Len(stack)]

VisitDependency ==
    /\ pc = "visit" /\ stack # <<>> /\ Top.next <= Len(graph[Top.name])
    /\ Visit(graph[Top.name][Top.next])
    /\ UNCHANGED <<resources, graph>>

KeepVisitingMutant ==
    /\ pc = "visit" /\ stack # <<>> /\ Top.next > Len(graph[Top.name])
    /\ visited' = visited \cup {Top.name}
    /\ Return(SubSeq(stack, 1, Len(stack) - 1))
    /\ UNCHANGED <<resources, pc, graph, visiting, error>>

\* visit has seen all dependencies of its resource.
Leave ==
    /\ pc = "visit" /\ stack # <<>> /\ Top.next > Len(graph[Top.name])
    /\ visiting' = visiting \ {Top.name}
    /\ visited' = visited \cup {Top.name}
    /\ Return(SubSeq(stack, 1, Len(stack) - 1))
    /\ UNCHANGED <<resources, pc, graph, error>>

\* The schema is satisfied; the orchestrator applies its policy next.
EndSearch ==
    /\ pc = "visit" /\ stack = <<>> /\ index > Len(resources)
    /\ pc' = "policy" /\ index' = 1
    /\ UNCHANGED <<resources, search, error>>

DependencyTypes(r) ==
    {resources[i].type : i \in {j \in 1..Len(resources) : resources[j].name \in ElementsOf(r.deps)}}

AllowedByPolicy(r) ==
    /\ r.type \in AllowedTypes
    /\ Required[r.type] \subseteq DependencyTypes(r)

CheckPolicy ==
    /\ pc = "policy" /\ index <= Len(resources)
    /\ \/ AllowedByPolicy(resources[index])
          /\ index' = index + 1 /\ UNCHANGED <<pc, error>>
       \/ ~AllowedByPolicy(resources[index]) /\ Refuse("policy") /\ UNCHANGED index
    /\ UNCHANGED <<resources, search>>

Accept ==
    /\ pc = "policy" /\ index > Len(resources)
    /\ pc' = "accepted"
    /\ UNCHANGED <<resources, index, search, error>>

Decided == pc \in {"accepted", "refused"}
Done == Decided /\ UNCHANGED vars

Next == \/ CheckNames \/ CheckDependencies \/ StartSearch
        \/ VisitRoot \/ VisitDependency \/ Leave \/ EndSearch
        \/ CheckPolicy \/ Accept \/ Done

\* One call of one thread runs to its end.
Spec == Init /\ [][Next]_vars
FairSpec == Spec /\ WF_vars(Next)

-----------------------------------------------------------------------------
(* Properties. *)

Frames == [name : Names, next : Nat \ {0}]

TypeOK ==
    /\ pc \in {"names", "dependencies", "visit", "policy", "accepted", "refused"}
    /\ index \in 1..(Len(resources) + 1)
    /\ DOMAIN graph \subseteq KnownNames
    /\ \A n \in DOMAIN graph : graph[n] \in Seq(Names)
    /\ visiting \subseteq KnownNames /\ visited \subseteq KnownNames
    /\ stack \in Seq(Frames)
    /\ error \in {"none", "names", "dependencies", "cycle", "policy"}

DependenciesOf(n) ==
    UNION {ElementsOf(resources[i].deps) : i \in {j \in 1..Len(resources) : resources[j].name = n}}

\* Some resources keep each other waiting: each depends on one of them.
Circular(S) == S # {} /\ \A n \in S : DependenciesOf(n) \cap S # {}

\* A plan that passes the search can be built one resource after the other:
\* in every set of its resources one depends on no other of the set.  The
\* topology diagram and the reviewers take that for granted.
AcceptedPlansAreAcyclic ==
    pc \in {"policy", "accepted"} => \A S \in SUBSET KnownNames : ~Circular(S)

\* A plan refused for a cycle has one: shared dependencies (two paths to one
\* resource) are never taken for a cycle, in whatever order they are visited.
CycleErrorsAreCycles ==
    error = "cycle" => \E S \in SUBSET KnownNames : Circular(S)

\* The search ends on every input, cyclic ones included.
SearchEnds == <>Decided
=============================================================================
