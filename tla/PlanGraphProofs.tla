--------------------------- MODULE PlanGraphProofs ---------------------------
(* For every list of resources, of any length: the search of PlanGraph        *)
(* accepts acyclic graphs only and refuses for a cycle only where one is.      *)
EXTENDS PlanGraph, FiniteSetTheorems, TLAPS

Edges(n) == ElementsOf(graph[n])

\* The loop over the dependencies has read what graph holds.
GraphInv ==
    /\ pc \in {"dependencies", "visit", "policy", "accepted"} =>
        \A i, j \in 1..Len(resources) : i # j => resources[i].name # resources[j].name
    /\ pc = "names" => graph = << >> /\ index = 1
    /\ pc = "dependencies" => DOMAIN graph = {resources[i].name : i \in 1..(index - 1)}
    /\ pc = "visit" => DOMAIN graph = KnownNames
    /\ \A i \in 1..Len(resources) : resources[i].name \in DOMAIN graph =>
        /\ graph[resources[i].name] = resources[i].deps
        /\ ElementsOf(resources[i].deps) \subseteq KnownNames

\* The frames are a path of the graph, and what lies behind each is visited.
StackInv ==
    /\ visiting = {stack[i].name : i \in 1..Len(stack)}
    /\ \A i \in 1..Len(stack) :
        /\ stack[i].name \in KnownNames
        /\ stack[i].next <= Len(graph[stack[i].name]) + 1
        /\ \A k \in 1..(stack[i].next - 1) : graph[stack[i].name][k] \in visited
    /\ \A i \in 1..(Len(stack) - 1) :
        /\ stack[i].next <= Len(graph[stack[i].name])
        /\ graph[stack[i].name][stack[i].next] = stack[i + 1].name
    /\ \A i, j \in 1..Len(stack) : i # j => stack[i].name # stack[j].name
    /\ stack # <<>> => index <= Len(resources) /\ stack[1].name = resources[index].name

\* What has been visited is closed under dependencies and free of cycles.
VisitedInv ==
    /\ visited \cap visiting = {}
    /\ \A n \in visited : Edges(n) \subseteq visited
    /\ \A S \in SUBSET visited : S # {} => \E n \in S : Edges(n) \cap S = {}
    /\ \A i \in 1..(index - 1) : resources[i].name \in visited

Inv ==
    /\ resources \in Seq(Resources)
    /\ TypeOK
    /\ GraphInv
    /\ pc \in {"names", "dependencies"} => stack = <<>> /\ visiting = {} /\ visited = {}
    /\ pc = "visit" => StackInv /\ VisitedInv
    /\ pc # "refused" => error = "none"
    /\ AcceptedPlansAreAcyclic
    /\ CycleErrorsAreCycles
Calling(name) ==
    \/ /\ stack = <<>> /\ index <= Len(resources)
       /\ name = resources[index].name
    \/ /\ stack # <<>> /\ Top.next <= Len(graph[Top.name])
       /\ name = graph[Top.name][Top.next]

LEMMA InitInv == Init => Inv
<1> SUFFICES ASSUME Init PROVE Inv
  OBVIOUS
<1>1. resources \in Seq(Resources) /\ DOMAIN graph = {}
  BY InputAssumption DEF Init
<1>2. TypeOK
  BY <1>1 DEF Init, TypeOK, Frames
<1>3. GraphInv
  BY <1>1 DEF Init, GraphInv
<1> QED BY <1>1, <1>2, <1>3 DEF Init, Inv, AcceptedPlansAreAcyclic, CycleErrorsAreCycles

\* What the search calls a resource's dependencies are those of the plan.
LEMMA EdgesAreDependencies ==
    ASSUME Inv, pc = "visit", NEW n \in KnownNames
    PROVE  DependenciesOf(n) = Edges(n)
<1>1. PICK i \in 1..Len(resources) : resources[i].name = n
  BY DEF KnownNames
<1>2. {j \in 1..Len(resources) : resources[j].name = n} = {i}
  BY <1>1 DEF Inv, GraphInv
<1>3. graph[n] = resources[i].deps
  BY <1>1 DEF Inv, GraphInv
<1>4. DependenciesOf(n) = UNION {ElementsOf(resources[k].deps) : k \in {i}}
  BY <1>2 DEF DependenciesOf
<1> QED BY <1>3, <1>4 DEF Edges

\* Verdicts that have been given stay true: the plan does not change.
LEMMA VerdictsStand ==
    ASSUME Inv, resources' = resources,
           pc' \in {"policy", "accepted"} => pc \in {"policy", "accepted"},
           error' = "cycle" => error = "cycle"
    PROVE  AcceptedPlansAreAcyclic' /\ CycleErrorsAreCycles'
<1>1. KnownNames' = KnownNames
  BY DEF KnownNames
<1>2. \A n : DependenciesOf(n)' = DependenciesOf(n)
  BY DEF DependenciesOf
<1>3. \A S : Circular(S)' = Circular(S)
  BY <1>2 DEF Circular
<1> QED BY <1>1, <1>3 DEF Inv, AcceptedPlansAreAcyclic, CycleErrorsAreCycles

LEMMA CheckNamesKeepsInv == Inv /\ CheckNames => Inv'
<1> SUFFICES ASSUME Inv, CheckNames PROVE Inv'
  OBVIOUS
<1>1. AcceptedPlansAreAcyclic' /\ CycleErrorsAreCycles'
  BY VerdictsStand DEF CheckNames, Refuse
<1>2. TypeOK'
  BY DEF Inv, TypeOK, CheckNames, Refuse, search, KnownNames, Frames
<1>3. GraphInv'
  <2> DEFINE names == [i \in 1..Len(resources) |-> resources[i].name]
  <2>1. Len(resources) \in Nat
    BY DEF Inv
  <2>2. Len(names) = Len(resources)
    BY <2>1
  <2>3. Distinct(names) => \A i, j \in 1..Len(resources) :
                              i # j => resources[i].name # resources[j].name
    BY <2>2 DEF Distinct
  <2> QED BY <2>3 DEF Inv, GraphInv, CheckNames, Refuse, search, KnownNames
<1> QED BY <1>1, <1>2, <1>3 DEF Inv, CheckNames, Refuse, search

LEMMA CheckDependenciesKeepsInv == Inv /\ CheckDependencies => Inv'
<1> SUFFICES ASSUME Inv, CheckDependencies PROVE Inv'
  OBVIOUS
<1>1. AcceptedPlansAreAcyclic' /\ CycleErrorsAreCycles'
  BY VerdictsStand DEF CheckDependencies, Refuse
<1> DEFINE r == resources[index]
<1>2. index \in 1..Len(resources) /\ r \in Resources /\ r.name \in KnownNames
  BY DEF Inv, TypeOK, CheckDependencies, KnownNames
<1>3. CASE /\ ValidDependencies(r)
           /\ graph' = [n \in DOMAIN graph \cup {r.name} |->
                            IF n = r.name THEN r.deps ELSE graph[n]]
           /\ index' = index + 1
           /\ UNCHANGED <<pc, error>>
  <2>1. TypeOK'
    BY <1>2, <1>3 DEF Inv, TypeOK, CheckDependencies, KnownNames, Frames, Resources
  <2>2. DOMAIN graph' = {resources[i].name : i \in 1..(index' - 1)}
    <3>1. 1..(index' - 1) = 1..(index - 1) \cup {index}
      BY <1>2, <1>3
    <3> QED BY <3>1, <1>3 DEF Inv, GraphInv, CheckDependencies
  <2>3. ASSUME NEW i \in 1..Len(resources), resources[i].name \in DOMAIN graph'
        PROVE  /\ graph'[resources[i].name] = resources[i].deps
               /\ ElementsOf(resources[i].deps) \subseteq KnownNames
    <3>1. CASE resources[i].name = r.name
      <4>1. i = index
        BY <3>1, <1>2 DEF Inv, GraphInv, CheckDependencies
      <4> QED BY <4>1, <1>3 DEF ValidDependencies
    <3>2. CASE resources[i].name # r.name
      BY <3>2, <2>3, <1>3 DEF Inv, GraphInv
    <3> QED BY <3>1, <3>2
  <2>4. GraphInv'
    <3>1. resources' = resources /\ KnownNames' = KnownNames /\ pc' = "dependencies"
      BY <1>3 DEF CheckDependencies, KnownNames
    <3> QED BY <2>2, <2>3, <3>1 DEF Inv, GraphInv, CheckDependencies
  <2> QED BY <2>1, <2>4, <1>1, <1>3 DEF Inv, CheckDependencies
<1>4. CASE ~ValidDependencies(r) /\ Refuse("dependencies") /\ UNCHANGED <<graph, index>>
  <2>1. TypeOK'
    BY <1>4 DEF Inv, TypeOK, CheckDependencies, KnownNames, Frames, Refuse
  <2>2. GraphInv'
    <3>1. resources' = resources /\ KnownNames' = KnownNames /\ graph' = graph /\ pc' = "refused"
      BY <1>4 DEF CheckDependencies, KnownNames, Refuse
    <3> QED BY <3>1 DEF Inv, GraphInv
  <2> QED BY <2>1, <2>2, <1>1, <1>4 DEF Inv, CheckDependencies, Refuse
<1> QED BY <1>3, <1>4 DEF CheckDependencies

LEMMA StartSearchKeepsInv == Inv /\ StartSearch => Inv'
<1> SUFFICES ASSUME Inv, StartSearch PROVE Inv'
  OBVIOUS
<1>1. AcceptedPlansAreAcyclic' /\ CycleErrorsAreCycles'
  BY VerdictsStand DEF StartSearch
<1>2. TypeOK'
  BY DEF Inv, TypeOK, StartSearch, KnownNames, Frames, search
<1>3. GraphInv'
  <2>1. index - 1 = Len(resources)
    BY DEF Inv, TypeOK, StartSearch
  <2>2. resources' = resources /\ graph' = graph /\ pc' = "visit" /\ KnownNames' = KnownNames
    BY DEF StartSearch, KnownNames, search
  <2>3. DOMAIN graph = KnownNames
    BY <2>1 DEF Inv, GraphInv, StartSearch, KnownNames
  <2> QED BY <2>2, <2>3 DEF Inv, GraphInv, StartSearch
<1>4. StackInv' /\ VisitedInv'
  BY DEF Inv, StackInv, VisitedInv, StartSearch, search
<1> QED BY <1>1, <1>2, <1>3, <1>4 DEF Inv, StartSearch, search

LEMMA GraphOfKnown ==
    ASSUME Inv, pc = "visit", NEW n \in KnownNames
    PROVE  graph[n] \in Seq(Names) /\ Edges(n) \subseteq KnownNames
<1>1. PICK i \in 1..Len(resources) : resources[i].name = n
  BY DEF KnownNames
<1>2. n \in DOMAIN graph
  BY DEF Inv, GraphInv
<1>3. graph[n] \in Seq(Names)
  BY <1>2 DEF Inv, TypeOK
<1>4. graph[n] = resources[i].deps /\ ElementsOf(resources[i].deps) \subseteq KnownNames
  BY <1>1, <1>2 DEF Inv, GraphInv
<1> QED BY <1>3, <1>4 DEF Edges

\* A visit that meets a resource being visited has found a cycle: the frames
\* from that resource's on.
LEMMA RefusalKeepsInv ==
    ASSUME Inv, pc = "visit", NEW name \in KnownNames, Calling(name), name \in visiting,
           Refuse("cycle"), UNCHANGED <<resources, graph, index, visiting, visited, stack>>
    PROVE  Inv'
<1>1. PICK j \in 1..Len(stack) : stack[j].name = name
  BY DEF Inv, StackInv
<1> DEFINE S == {stack[k].name : k \in j..Len(stack)}
<1>2. stack \in Seq(Frames) /\ Len(stack) \in Nat /\ stack # <<>>
  BY <1>1 DEF Inv, TypeOK
<1>3. S # {} /\ S \subseteq KnownNames
  BY <1>1, <1>2 DEF Inv, StackInv
<1>4. ASSUME NEW k \in j..Len(stack) PROVE Edges(stack[k].name) \cap S # {}
  <2>0. k \in 1..Len(stack) /\ stack[k] \in Frames /\ stack[k].next \in Nat \ {0}
        /\ graph[stack[k].name] \in Seq(Names)
    <3>1. k \in 1..Len(stack)
      BY <1>1, <1>2
    <3>2. stack[k].name \in KnownNames
      BY <3>1 DEF Inv, StackInv
    <3>3. stack[k] \in Frames
      BY <3>1, <1>2
    <3> QED BY <3>1, <3>2, <3>3, GraphOfKnown DEF Frames
  <2>1. CASE k = Len(stack)
    <3>1. name = graph[stack[k].name][stack[k].next] /\ stack[k].next <= Len(graph[stack[k].name])
      BY <2>1, <1>2 DEF Calling, Top
    <3>2. name \in Edges(stack[k].name)
      BY <3>1, <2>0 DEF Edges, ElementsOf
    <3>3. name \in S
      BY <1>1, <1>2
    <3> QED BY <3>2, <3>3
  <2>2. CASE k # Len(stack)
    <3>1. k \in 1..(Len(stack) - 1) /\ k + 1 \in j..Len(stack)
      BY <2>0, <2>2, <1>1, <1>2
    <3>2. stack[k].next <= Len(graph[stack[k].name])
          /\ graph[stack[k].name][stack[k].next] = stack[k + 1].name
      BY <3>1 DEF Inv, StackInv
    <3>3. stack[k + 1].name \in Edges(stack[k].name)
      BY <3>2, <2>0 DEF Edges, ElementsOf
    <3> QED BY <3>1, <3>3
  <2> QED BY <2>1, <2>2
<1>5. \A n \in S : DependenciesOf(n) \cap S # {}
  BY <1>3, <1>4, EdgesAreDependencies
<1>6. Circular(S)
  BY <1>3, <1>5 DEF Circular
<1>7. KnownNames' = KnownNames /\ Circular(S)'
  <2>1. \A n : DependenciesOf(n)' = DependenciesOf(n)
    BY DEF DependenciesOf
  <2> QED BY <1>6, <2>1, <1>3 DEF Circular, KnownNames
<1>8. CycleErrorsAreCycles'
  BY <1>3, <1>7 DEF CycleErrorsAreCycles
<1>9. TypeOK' /\ GraphInv' /\ AcceptedPlansAreAcyclic'
  BY <1>7 DEF Inv, TypeOK, GraphInv, AcceptedPlansAreAcyclic, Refuse, Frames
<1> QED BY <1>8, <1>9 DEF Inv, Refuse

\* A visit of a new resource makes the path one longer.
LEMMA EnterKeepsInv ==
    ASSUME Inv, pc = "visit", NEW name \in KnownNames, Calling(name),
           name \notin visiting, name \notin visited,
           Enter(name), UNCHANGED <<resources, graph, index, pc, error>>
    PROVE  Inv'
<1>1. AcceptedPlansAreAcyclic' /\ CycleErrorsAreCycles'
  BY VerdictsStand
<1>2. name \in Names /\ graph[name] \in Seq(Names) /\ KnownNames' = KnownNames
  <2>1. PICK i \in 1..Len(resources) : resources[i].name = name
    BY DEF KnownNames
  <2>2. resources[i] \in Resources
    BY DEF Inv
  <2> QED BY <2>1, <2>2, GraphOfKnown DEF KnownNames, Resources
<1>3. stack \in Seq(Frames) /\ Len(stack) \in Nat
  BY DEF Inv, TypeOK
<1> DEFINE frame == [name |-> name, next |-> 1]
<1>4. /\ stack' = Append(stack, frame)
      /\ Len(stack') = Len(stack) + 1
      /\ stack'[Len(stack) + 1] = frame
      /\ \A i \in 1..Len(stack) : stack'[i] = stack[i]
  BY <1>3 DEF Enter
<1>5. frame \in Frames
  BY <1>2 DEF Frames
<1>6. TypeOK'
  BY <1>2, <1>3, <1>4, <1>5 DEF Inv, TypeOK, Enter
<1>7. GraphInv'
  BY <1>2 DEF Inv, GraphInv
<1>8. StackInv'
  <2>1. visiting' = {stack'[i].name : i \in 1..Len(stack')}
    <3>1. 1..Len(stack') = 1..Len(stack) \cup {Len(stack) + 1}
      BY <1>3, <1>4
    <3> QED BY <3>1, <1>4 DEF Inv, StackInv, Enter
  <2>2. ASSUME NEW i \in 1..Len(stack')
        PROVE  /\ stack'[i].name \in KnownNames
               /\ stack'[i].next <= Len(graph[stack'[i].name]) + 1
               /\ \A k \in 1..(stack'[i].next - 1) : graph[stack'[i].name][k] \in visited'
    <3>1. CASE i = Len(stack) + 1
      BY <3>1, <1>2, <1>4
    <3>2. CASE i \in 1..Len(stack)
      BY <3>2, <1>4 DEF Inv, StackInv, Enter
    <3> QED BY <3>1, <3>2, <1>3, <1>4
  <2>3. ASSUME NEW i \in 1..(Len(stack') - 1)
        PROVE  /\ stack'[i].next <= Len(graph[stack'[i].name])
               /\ graph[stack'[i].name][stack'[i].next] = stack'[i + 1].name
    <3>1. CASE i = Len(stack)
      BY <3>1, <1>3, <1>4 DEF Calling, Top
    <3>2. CASE i \in 1..(Len(stack) - 1)
      <4>1. i \in 1..Len(stack) /\ i + 1 \in 1..Len(stack)
        BY <3>2, <1>3
      <4> QED BY <3>2, <4>1, <1>4 DEF Inv, StackInv
    <3> QED BY <3>1, <3>2, <1>3, <1>4
  <2>4. ASSUME NEW i \in 1..Len(stack'), NEW j \in 1..Len(stack'), i # j
        PROVE  stack'[i].name # stack'[j].name
    <3>1. \A k \in 1..Len(stack) : stack[k].name # name
      BY DEF Inv, StackInv
    <3>2. i \in 1..Len(stack) \/ i = Len(stack) + 1
      BY <1>3, <1>4
    <3>3. j \in 1..Len(stack) \/ j = Len(stack) + 1
      BY <1>3, <1>4
    <3> QED BY <2>4, <3>1, <3>2, <3>3, <1>4 DEF Inv, StackInv
  <2>5. stack' # <<>> => index' <= Len(resources') /\ stack'[1].name = resources'[index'].name
    <3>1. CASE stack = <<>>
      BY <3>1, <1>4 DEF Calling
    <3>2. CASE stack # <<>>
      <4>1. 1 \in 1..Len(stack)
        BY <3>2, <1>3
      <4> QED BY <3>2, <4>1, <1>4 DEF Inv, StackInv
    <3> QED BY <3>1, <3>2
  <2> QED BY <2>1, <2>2, <2>3, <2>4, <2>5, <1>2 DEF StackInv
<1>9. VisitedInv'
  BY DEF Inv, VisitedInv, Enter, Edges
<1> QED BY <1>1, <1>6, <1>7, <1>8, <1>9 DEF Inv

LEMMA FrontOfFrames ==
    ASSUME NEW s \in Seq(Frames), s # <<>>
    PROVE  LET front == SubSeq(s, 1, Len(s) - 1) IN
           /\ front \in Seq(Frames)
           /\ Len(front) = Len(s) - 1
           /\ \A i \in 1..(Len(s) - 1) : front[i] = s[i]
OBVIOUS

LEMMA AdvanceLast ==
    ASSUME NEW s \in Seq(Frames), s # <<>>
    PROVE  LET t == [s EXCEPT ![Len(s)].next = @ + 1] IN
           /\ t \in Seq(Frames) /\ Len(t) = Len(s)
           /\ t[Len(s)].next = s[Len(s)].next + 1
           /\ \A i \in 1..(Len(s) - 1) : t[i] = s[i]
           /\ \A i \in 1..Len(s) : t[i].name = s[i].name
<1> DEFINE n == Len(s)
           last == [s[n] EXCEPT !.next = @ + 1]
           t == [s EXCEPT ![n].next = @ + 1]
<1>1. n \in Nat \ {0} /\ n \in 1..n /\ s[n] \in Frames
  OBVIOUS
<1>2. last \in Frames /\ last.name = s[n].name /\ last.next = s[n].next + 1
  BY <1>1 DEF Frames
<1>3. t = [s EXCEPT ![n] = last]
  BY <1>1
<1>4. t \in Seq(Frames) /\ Len(t) = n
  BY <1>1, <1>2, <1>3
<1>5. t[n] = last /\ \A i \in 1..n : i # n => t[i] = s[i]
  BY <1>1, <1>3
<1>6. \A i \in 1..(n - 1) : i \in 1..n /\ i # n
  BY <1>1
<1> QED BY <1>1, <1>2, <1>4, <1>5, <1>6

\* A visit of a resource that has been visited moves its caller on.
LEMMA ReturnKeepsInv ==
    ASSUME Inv, pc = "visit", NEW name \in KnownNames, Calling(name), name \in visited,
           Return(stack), UNCHANGED <<resources, graph, visiting, visited, pc, error>>
    PROVE  Inv'
<1>1. AcceptedPlansAreAcyclic' /\ CycleErrorsAreCycles'
  BY VerdictsStand
<1>2. KnownNames' = KnownNames /\ stack \in Seq(Frames) /\ Len(stack) \in Nat
      /\ index \in Nat /\ Len(resources) \in Nat
  BY DEF KnownNames, Inv, TypeOK
<1>3. GraphInv'
  BY <1>2 DEF Inv, GraphInv
<1>4. CASE stack = <<>>
  <2>1. index <= Len(resources) /\ name = resources[index].name
        /\ index' = index + 1 /\ stack' = <<>>
    BY <1>4 DEF Calling, Return
  <2>2. TypeOK'
    BY <2>1, <1>2 DEF Inv, TypeOK
  <2>3. StackInv'
    BY <2>1, <1>4 DEF Inv, StackInv
  <2>4. \A i \in 1..(index' - 1) : resources[i].name \in visited
    <3>1. ASSUME NEW i \in 1..(index' - 1) PROVE i \in 1..(index - 1) \/ i = index
      BY <2>1, <1>2
    <3> QED BY <3>1, <2>1 DEF Inv, VisitedInv
  <2>5. VisitedInv'
    BY <2>4 DEF Inv, VisitedInv, Edges
  <2> QED BY <1>1, <1>3, <2>2, <2>3, <2>5 DEF Inv
<1>5. CASE stack # <<>>
  <2> DEFINE n == Len(stack)
  <2>1. n \in 1..n /\ stack[n] \in Frames
    BY <1>2, <1>5
  <2>2. Top.next <= Len(graph[Top.name]) /\ name = graph[Top.name][Top.next]
    BY <1>5 DEF Calling
  <2>3. stack' = [stack EXCEPT ![n].next = @ + 1] /\ index' = index
    BY <1>5 DEF Return
  <2>4. /\ Len(stack') = n
        /\ stack'[n].name = stack[n].name /\ stack'[n].next = stack[n].next + 1
        /\ stack'[n] \in Frames
        /\ \A i \in 1..(n - 1) : stack'[i] = stack[i]
        /\ \A i \in 1..n : stack'[i].name = stack[i].name
        /\ stack' \in Seq(Frames)
    <3>1. /\ stack' \in Seq(Frames) /\ Len(stack') = n
          /\ stack'[n].next = stack[n].next + 1
          /\ \A i \in 1..(n - 1) : stack'[i] = stack[i]
          /\ \A i \in 1..n : stack'[i].name = stack[i].name
      BY <2>3, <1>2, <1>5, AdvanceLast
    <3> QED BY <3>1, <2>1
  <2>5. TypeOK'
    BY <2>3, <2>4, <1>2 DEF Inv, TypeOK
  <2>6. stack[n].name \in KnownNames /\ graph[stack[n].name] \in Seq(Names)
    BY <2>1, GraphOfKnown DEF Inv, StackInv
  <2>7. ASSUME NEW i \in 1..n
        PROVE  /\ stack'[i].name \in KnownNames
               /\ stack'[i].next <= Len(graph[stack'[i].name]) + 1
               /\ \A k \in 1..(stack'[i].next - 1) : graph[stack'[i].name][k] \in visited
    <3>1. CASE i = n
      <4>1. ASSUME NEW k \in 1..(stack'[n].next - 1)
            PROVE  k \in 1..(stack[n].next - 1) \/ k = stack[n].next
        BY <2>1, <2>4 DEF Frames
      <4>2. stack'[n].next <= Len(graph[stack[n].name]) + 1
        BY <2>1, <2>2, <2>4, <2>6 DEF Top, Frames
      <4> QED BY <3>1, <4>1, <4>2, <2>1, <2>2, <2>4, <2>6 DEF Inv, StackInv, Top
    <3>2. CASE i \in 1..(n - 1)
      BY <3>2, <2>4 DEF Inv, StackInv
    <3> QED BY <3>1, <3>2, <2>1
  <2>8. \A i \in 1..(n - 1) :
          /\ stack'[i].next <= Len(graph[stack'[i].name])
          /\ graph[stack'[i].name][stack'[i].next] = stack'[i + 1].name
    <3> SUFFICES ASSUME NEW i \in 1..(n - 1)
                 PROVE  /\ stack'[i].next <= Len(graph[stack'[i].name])
                        /\ graph[stack'[i].name][stack'[i].next] = stack'[i + 1].name
      OBVIOUS
    <3>1. i + 1 \in 1..n
      BY <2>1
    <3>2. stack'[i] = stack[i] /\ stack'[i + 1].name = stack[i + 1].name
      BY <3>1, <2>4
    <3>3. /\ stack[i].next <= Len(graph[stack[i].name])
          /\ graph[stack[i].name][stack[i].next] = stack[i + 1].name
      BY DEF Inv, StackInv
    <3> QED BY <3>2, <3>3
  <2>9. StackInv'
    <3>1. visiting' = {stack'[i].name : i \in 1..Len(stack')}
      <4>1. visiting' = {stack[i].name : i \in 1..n}
        BY DEF Inv, StackInv
      <4> QED BY <4>1, <2>4
    <3>2. \A i, j \in 1..Len(stack') : i # j => stack'[i].name # stack'[j].name
      BY <2>4 DEF Inv, StackInv
    <3>3. index' <= Len(resources') /\ stack'[1].name = resources'[index'].name
      BY <2>1, <2>3, <2>4, <1>5 DEF Inv, StackInv
    <3> QED BY <3>1, <3>2, <3>3, <2>4, <2>7, <2>8, <1>2 DEF StackInv
  <2>10. VisitedInv'
    BY <2>3 DEF Inv, VisitedInv, Edges
  <2> QED BY <1>1, <1>3, <2>5, <2>9, <2>10 DEF Inv
<1> QED BY <1>4, <1>5

LEMMA VisitKeepsInv ==
    ASSUME Inv, pc = "visit", NEW name \in KnownNames, Calling(name), Visit(name),
           UNCHANGED <<resources, graph>>
    PROVE  Inv'
BY RefusalKeepsInv, ReturnKeepsInv, EnterKeepsInv DEF Visit

LEMMA VisitRootKeepsInv == Inv /\ VisitRoot => Inv'
<1> SUFFICES ASSUME Inv, VisitRoot PROVE Inv'
  OBVIOUS
<1>1. index \in 1..Len(resources)
  BY DEF Inv, TypeOK, VisitRoot
<1>2. resources[index].name \in KnownNames
  BY <1>1 DEF KnownNames
<1> QED BY <1>2, VisitKeepsInv DEF VisitRoot, Calling

LEMMA VisitDependencyKeepsInv == Inv /\ VisitDependency => Inv'
<1> SUFFICES ASSUME Inv, VisitDependency PROVE Inv'
  OBVIOUS
<1>1. Len(stack) \in 1..Len(stack) /\ Top \in Frames
  BY DEF Inv, TypeOK, VisitDependency, Top
<1>2. Top.name \in KnownNames
  BY <1>1 DEF Inv, StackInv, VisitDependency, Top
<1>3. graph[Top.name] \in Seq(Names) /\ Edges(Top.name) \subseteq KnownNames
  BY <1>2, GraphOfKnown DEF VisitDependency
<1>4. Top.next \in 1..Len(graph[Top.name])
  BY <1>1, <1>3 DEF VisitDependency, Frames
<1>5. graph[Top.name][Top.next] \in KnownNames
  BY <1>3, <1>4 DEF Edges, ElementsOf
<1> QED BY <1>5, VisitKeepsInv DEF VisitDependency, Calling

\* Adding to a closed set without cycles a resource whose dependencies it holds
\* leaves it closed and without cycles.
LEMMA OneMore ==
    ASSUME NEW V, NEW n, n \notin V, Edges(n) \subseteq V,
           \A m \in V : Edges(m) \subseteq V,
           \A S \in SUBSET V : S # {} => \E m \in S : Edges(m) \cap S = {},
           NEW S \in SUBSET (V \cup {n}), S # {}
    PROVE  \E m \in S : Edges(m) \cap S = {}
<1>1. CASE S \ {n} = {}
  BY <1>1
<1>2. CASE S \ {n} # {}
  <2>1. S \ {n} \in SUBSET V
    OBVIOUS
  <2>2. PICK m \in S \ {n} : Edges(m) \cap (S \ {n}) = {}
    BY <1>2, <2>1
  <2> QED BY <2>1, <2>2
<1> QED BY <1>1, <1>2

\* The innermost call ends: its resource is visited, its caller moves on.
LEMMA LeaveKeepsInv == Inv /\ Leave => Inv'
<1> SUFFICES ASSUME Inv, Leave PROVE Inv'
  OBVIOUS
<1> DEFINE n == Len(stack)
           calls == SubSeq(stack, 1, n - 1)
<1>0. AcceptedPlansAreAcyclic' /\ CycleErrorsAreCycles'
  BY VerdictsStand DEF Leave
<1>1. /\ stack \in Seq(Frames) /\ n \in Nat \ {0} /\ n \in 1..n /\ stack[n] \in Frames
      /\ index \in Nat \ {0} /\ Len(resources) \in Nat /\ KnownNames' = KnownNames
  BY DEF Inv, TypeOK, Leave, KnownNames
<1>2. /\ calls \in Seq(Frames) /\ Len(calls) = n - 1
      /\ \A i \in 1..(n - 1) : calls[i] = stack[i]
  BY FrontOfFrames DEF Inv, TypeOK, Leave
<1>a. Return(calls)
  BY DEF Leave
<1> HIDE DEF calls
<1>3. /\ Top = stack[n] /\ Top.name \in KnownNames /\ Top.name \in visiting
      /\ graph[Top.name] \in Seq(Names)
  BY <1>1, GraphOfKnown DEF Inv, StackInv, Leave, Top
<1>4. Edges(Top.name) \subseteq visited
  <2>1. ASSUME NEW k \in 1..Len(graph[Top.name]) PROVE graph[Top.name][k] \in visited
    <3>1. k \in 1..(Top.next - 1)
      BY <1>1, <1>3 DEF Leave, Frames
    <3> QED BY <3>1, <1>1, <1>3 DEF Inv, StackInv, Leave
  <2> QED BY <2>1 DEF Edges, ElementsOf
<1>5. /\ visiting' = visiting \ {Top.name} /\ visited' = visited \cup {Top.name}
      /\ resources' = resources /\ graph' = graph /\ pc' = pc /\ error' = error /\ pc = "visit"
      /\ Top.name \notin visited
  BY <1>3 DEF Leave, Inv, VisitedInv
<1>6. visiting' = {stack[i].name : i \in 1..(n - 1)}
  <2>1. \A i \in 1..n : i \in 1..(n - 1) \/ i = n
    BY <1>1
  <2>2. \A i \in 1..(n - 1) : i \in 1..n /\ i # n
    BY <1>1
  <2>3. \A i \in 1..(n - 1) : stack[i].name # stack[n].name
    BY <2>2, <1>1 DEF Inv, StackInv, Leave
  <2> QED BY <2>1, <2>2, <2>3, <1>3, <1>5 DEF Inv, StackInv
<1>7. \A i \in 1..(index - 1) : resources[i].name \in visited'
  BY <1>5 DEF Inv, VisitedInv
<1>8. /\ visited' \cap visiting' = {}
      /\ \A m \in visited' : Edges(m)' \subseteq visited'
      /\ \A S \in SUBSET visited' : S # {} => \E m \in S : Edges(m)' \cap S = {}
  <2>1. \A m : Edges(m)' = Edges(m)
    BY <1>5 DEF Edges
  <2>2. \A S \in SUBSET (visited \cup {Top.name}) : S # {} => \E m \in S : Edges(m) \cap S = {}
    BY <1>4, <1>5, OneMore DEF Inv, VisitedInv
  <2> QED BY <2>1, <2>2, <1>4, <1>5 DEF Inv, VisitedInv
<1>9. GraphInv'
  BY <1>1, <1>5 DEF Inv, GraphInv
<1>10. CASE calls = <<>>
  <2>1. n = 1 /\ stack' = <<>> /\ index' = index + 1
    BY <1>1, <1>2, <1>10, <1>a DEF Return
  <2>2. index <= Len(resources) /\ resources[index].name = Top.name
    BY <2>1, <1>1, <1>3, <1>5 DEF Inv, StackInv
  <2>3. \A i \in 1..(index' - 1) : resources[i].name \in visited'
    <3>1. \A i \in 1..(index' - 1) : i \in 1..(index - 1) \/ i = index
      BY <2>1, <1>1
    <3> QED BY <3>1, <2>2, <1>5, <1>7
  <2>4. TypeOK'
    BY <2>1, <2>2, <1>1, <1>3, <1>5 DEF Inv, TypeOK
  <2>5. StackInv'
    BY <2>1, <1>6 DEF StackInv
  <2>6. VisitedInv'
    BY <2>3, <1>5, <1>8 DEF VisitedInv
  <2> QED BY <2>4, <2>5, <2>6, <1>0, <1>5, <1>9, <1>1 DEF Inv
<1>11. CASE calls # <<>>
  <2>1. n - 1 \in 1..(n - 1) /\ n - 1 \in 1..n /\ stack[n - 1] \in Frames
    BY <1>1, <1>2, <1>11
  <2>2. stack' = [calls EXCEPT ![n - 1].next = @ + 1] /\ index' = index
    BY <1>2, <1>11, <1>a DEF Return
  <2>3. /\ Len(stack') = n - 1
        /\ stack'[n - 1].name = stack[n - 1].name
        /\ stack'[n - 1].next = stack[n - 1].next + 1
        /\ \A i \in 1..(n - 2) : stack'[i] = stack[i]
        /\ \A i \in 1..(n - 1) : stack'[i].name = stack[i].name
        /\ stack' \in Seq(Frames)
    <3>1. \A i \in 1..(n - 1) : calls[i] = stack[i]
      BY <1>2
    <3>2. /\ stack' \in Seq(Frames) /\ Len(stack') = n - 1
          /\ stack'[n - 1].next = calls[n - 1].next + 1
          /\ \A i \in 1..(n - 2) : stack'[i] = calls[i]
          /\ \A i \in 1..(n - 1) : stack'[i].name = calls[i].name
      BY <2>2, <1>1, <1>2, <1>11, AdvanceLast
    <3>3. n - 1 \in 1..(n - 1) /\ \A i \in 1..(n - 2) : i \in 1..(n - 1)
      BY <2>1, <1>1
    <3> QED BY <3>1, <3>2, <3>3
  <2>4. /\ stack[n - 1].next <= Len(graph[stack[n - 1].name])
        /\ graph[stack[n - 1].name][stack[n - 1].next] = Top.name
        /\ stack[n - 1].name \in KnownNames
        /\ graph[stack[n - 1].name] \in Seq(Names)
    <3>1. (n - 1) + 1 = n
      BY <1>1
    <3> QED BY <2>1, <3>1, <1>3, <1>5, GraphOfKnown DEF Inv, StackInv
  <2>5. TypeOK'
    BY <2>2, <2>3, <1>1, <1>3, <1>5 DEF Inv, TypeOK
  <2>6. ASSUME NEW i \in 1..(n - 1)
        PROVE  /\ stack'[i].name \in KnownNames
               /\ stack'[i].next <= Len(graph[stack'[i].name]) + 1
               /\ \A k \in 1..(stack'[i].next - 1) : graph[stack'[i].name][k] \in visited'
    <3>1. CASE i = n - 1
      <4>1. \A k \in 1..(stack'[n - 1].next - 1) :
               k \in 1..(stack[n - 1].next - 1) \/ k = stack[n - 1].next
        BY <2>1, <2>3 DEF Frames
      <4>2. \A k \in 1..(stack[n - 1].next - 1) : graph[stack[n - 1].name][k] \in visited
        BY <2>1, <1>5 DEF Inv, StackInv
      <4>3. stack'[n - 1].next <= Len(graph[stack[n - 1].name]) + 1
        BY <2>1, <2>3, <2>4 DEF Frames
      <4> QED BY <3>1, <4>1, <4>2, <4>3, <2>3, <2>4, <1>5
    <3>2. CASE i \in 1..(n - 2)
      <4>1. i \in 1..n /\ stack'[i] = stack[i]
        BY <3>2, <2>3, <1>1
      <4> QED BY <4>1, <1>5 DEF Inv, StackInv
    <3> QED BY <3>1, <3>2, <1>1
  <2>7. \A i \in 1..(n - 2) :
          /\ stack'[i].next <= Len(graph[stack'[i].name])
          /\ graph[stack'[i].name][stack'[i].next] = stack'[i + 1].name
    <3>1. \A i \in 1..(n - 2) : i \in 1..(n - 1) /\ i + 1 \in 1..(n - 1)
      BY <1>1
    <3> QED BY <3>1, <2>3, <1>5 DEF Inv, StackInv
  <2>8. StackInv'
    <3>1. visiting' = {stack'[i].name : i \in 1..(n - 1)}
      BY <2>3, <1>6
    <3>2. \A i, j \in 1..(n - 1) : i # j => stack'[i].name # stack'[j].name
      <4>1. \A i \in 1..(n - 1) : i \in 1..n
        BY <1>1
      <4> QED BY <4>1, <2>3, <1>5 DEF Inv, StackInv
    <3>3. index <= Len(resources) /\ stack'[1].name = resources[index].name
      <4>1. 1 \in 1..(n - 1)
        BY <2>1, <1>1
      <4> QED BY <4>1, <2>3, <1>1, <1>5 DEF Inv, StackInv
    <3>4. Len(stack') - 1 = n - 2
      BY <2>3, <1>1
    <3> QED BY <3>1, <3>2, <3>3, <3>4, <2>2, <2>3, <2>6, <2>7, <1>1, <1>5 DEF StackInv
  <2>9. VisitedInv'
    BY <2>2, <1>5, <1>7, <1>8 DEF VisitedInv
  <2> QED BY <2>5, <2>8, <2>9, <1>0, <1>1, <1>5, <1>9 DEF Inv
<1> QED BY <1>10, <1>11

\* When the search ends everything is visited, so nothing is circular.
LEMMA EndSearchKeepsInv == Inv /\ EndSearch => Inv'
<1> SUFFICES ASSUME Inv, EndSearch PROVE Inv'
  OBVIOUS
<1>1. pc = "visit" /\ index - 1 = Len(resources)
  BY DEF Inv, TypeOK, EndSearch
<1>2. KnownNames \subseteq visited
  BY <1>1 DEF Inv, VisitedInv, KnownNames
<1>3. \A S \in SUBSET KnownNames : ~Circular(S)
  <2>1. \A S \in SUBSET KnownNames : S # {} => \E m \in S : Edges(m) \cap S = {}
    BY <1>1, <1>2 DEF Inv, VisitedInv
  <2> QED BY <2>1, <1>1, EdgesAreDependencies DEF Circular
<1>4. \A n : DependenciesOf(n)' = DependenciesOf(n)
  BY DEF DependenciesOf, EndSearch
<1>5. KnownNames' = KnownNames /\ \A S : Circular(S)' = Circular(S)
  BY <1>4 DEF Circular, KnownNames, EndSearch
<1>6. AcceptedPlansAreAcyclic' /\ CycleErrorsAreCycles'
  BY <1>3, <1>5 DEF AcceptedPlansAreAcyclic, CycleErrorsAreCycles, EndSearch, Inv
<1>7. TypeOK' /\ GraphInv'
  BY <1>1, <1>5 DEF Inv, TypeOK, GraphInv, EndSearch, search, Frames
<1> QED BY <1>6, <1>7 DEF Inv, EndSearch

LEMMA PolicyKeepsInv == Inv /\ (CheckPolicy \/ Accept \/ UNCHANGED vars) => Inv'
<1> SUFFICES ASSUME Inv, CheckPolicy \/ Accept \/ UNCHANGED vars PROVE Inv'
  OBVIOUS
<1>1. KnownNames' = KnownNames /\ resources' = resources /\ graph' = graph
      /\ visiting' = visiting /\ visited' = visited /\ stack' = stack
  BY DEF KnownNames, CheckPolicy, Accept, vars, search
<1>2. AcceptedPlansAreAcyclic' /\ CycleErrorsAreCycles'
  BY <1>1, VerdictsStand DEF CheckPolicy, Accept, vars, Refuse
<1>3. TypeOK'
  BY <1>1 DEF Inv, TypeOK, CheckPolicy, Accept, vars, Refuse, Frames
<1>4. GraphInv'
  BY <1>1 DEF Inv, GraphInv, CheckPolicy, Accept, vars, Refuse
<1>5. (StackInv' /\ VisitedInv') \/ pc' # "visit"
  BY <1>1 DEF Inv, StackInv, VisitedInv, CheckPolicy, Accept, vars, Refuse, Edges
<1> QED BY <1>1, <1>2, <1>3, <1>4, <1>5 DEF Inv, CheckPolicy, Accept, vars, Refuse

\* The invariant of the search holds of every run on every list of resources.
THEOREM SearchInvariant == Spec => []Inv
<1>1. Init => Inv
  BY InitInv
<1>2. Inv /\ [Next]_vars => Inv'
  <2> SUFFICES ASSUME Inv, [Next]_vars PROVE Inv'
    OBVIOUS
  <2> QED BY CheckNamesKeepsInv, CheckDependenciesKeepsInv, StartSearchKeepsInv,
             VisitRootKeepsInv, VisitDependencyKeepsInv, LeaveKeepsInv,
             EndSearchKeepsInv, PolicyKeepsInv DEF Next, Done
<1> QED BY <1>1, <1>2, PTL DEF Spec

\* The variables of the validator stay within their types.
THEOREM SearchTypes == Spec => []TypeOK
BY SearchInvariant, PTL DEF Inv

\* A plan of any size that passes the validator has no circular dependency.
THEOREM AcceptedAcyclic == Spec => []AcceptedPlansAreAcyclic
BY SearchInvariant, PTL DEF Inv

\* A plan of any size that is refused for a cycle has one.
THEOREM CyclesAreReal == Spec => []CycleErrorsAreCycles
BY SearchInvariant, PTL DEF Inv

-----------------------------------------------------------------------------
(* The verdict. *)

\* What the validator and the policy ask of a plan, without the search.
Sound ==
    /\ \A i, j \in 1..Len(resources) : i # j => resources[i].name # resources[j].name
    /\ \A i \in 1..Len(resources) : ValidDependencies(resources[i])
    /\ \A S \in SUBSET KnownNames : ~Circular(S)
    /\ \A i \in 1..Len(resources) : AllowedByPolicy(resources[i])

\* The checks made so far have passed, and a check that failed had a reason.
VerdictInv ==
    /\ pc = "dependencies" => \A i \in 1..(index - 1) : ValidDependencies(resources[i])
    /\ pc \in {"visit", "policy", "accepted"} =>
        \A i \in 1..Len(resources) : ValidDependencies(resources[i])
    /\ pc = "policy" => \A i \in 1..(index - 1) : AllowedByPolicy(resources[i])
    /\ pc = "accepted" => Sound
    /\ pc = "refused" => ~Sound

LEMMA NextVerdictInv == Inv /\ VerdictInv /\ [Next]_vars => VerdictInv'
<1> SUFFICES ASSUME Inv, VerdictInv, [Next]_vars PROVE VerdictInv'
  OBVIOUS
<1>1. /\ resources' = resources /\ KnownNames' = KnownNames
      /\ \A r : ValidDependencies(r)' = ValidDependencies(r)
      /\ \A r : AllowedByPolicy(r)' = AllowedByPolicy(r)
      /\ \A S : Circular(S)' = Circular(S)
  <2>1. resources' = resources
    BY DEF Next, CheckNames, CheckDependencies, StartSearch, VisitRoot, VisitDependency, Leave,
        EndSearch, CheckPolicy, Accept, Done, vars
  <2> QED BY <2>1 DEF KnownNames, ValidDependencies, AllowedByPolicy, DependencyTypes,
             Circular, DependenciesOf
<1>2. Sound' = Sound
  BY <1>1 DEF Sound
<1>3. Len(resources) \in Nat /\ index \in 1..(Len(resources) + 1)
  BY DEF Inv, TypeOK
<1>4. CASE CheckNames
  <2> DEFINE names == [i \in 1..Len(resources) |-> resources[i].name]
  <2>1. Distinct(names) \/ ~Sound
    <3>1. Len(names) = Len(resources)
      BY <1>3
    <3> QED BY <3>1 DEF Distinct, Sound
  <2> QED BY <1>2, <1>4, <2>1 DEF CheckNames, Refuse, VerdictInv, Inv, GraphInv
<1>5. CASE CheckDependencies
  <2>1. pc = "dependencies" /\ index \in 1..Len(resources)
    BY <1>3, <1>5 DEF CheckDependencies
  <2>2. CASE ValidDependencies(resources[index]) /\ index' = index + 1 /\ UNCHANGED pc
    BY <1>1, <1>3, <2>1, <2>2 DEF VerdictInv
  <2>3. CASE ~ValidDependencies(resources[index]) /\ pc' = "refused"
    BY <1>2, <2>1, <2>3 DEF VerdictInv, Sound
  <2> QED BY <1>5, <2>2, <2>3 DEF CheckDependencies, Refuse
<1>6. CASE StartSearch
  BY <1>1, <1>3, <1>6 DEF StartSearch, VerdictInv
<1>7. CASE VisitRoot \/ VisitDependency
  <2>1. pc' = "visit" \/ (pc' = "refused" /\ error' = "cycle")
    BY <1>7 DEF VisitRoot, VisitDependency, Visit, Refuse
  <2>2. CycleErrorsAreCycles'
    BY <1>7, VisitRootKeepsInv, VisitDependencyKeepsInv DEF Inv
  <2>3. pc' = "refused" => ~Sound
    BY <1>1, <2>1, <2>2 DEF CycleErrorsAreCycles, Sound
  <2> QED BY <1>1, <1>2, <1>7, <2>1, <2>3 DEF VisitRoot, VisitDependency, VerdictInv
<1>8. CASE Leave
  BY <1>1, <1>8 DEF Leave, VerdictInv
<1>9. CASE EndSearch
  BY <1>1, <1>9 DEF EndSearch, VerdictInv
<1>10. CASE CheckPolicy
  <2>1. pc = "policy" /\ index \in 1..Len(resources)
    BY <1>3, <1>10 DEF CheckPolicy
  <2>2. CASE AllowedByPolicy(resources[index]) /\ index' = index + 1 /\ UNCHANGED pc
    BY <1>1, <1>3, <2>1, <2>2 DEF VerdictInv
  <2>3. CASE ~AllowedByPolicy(resources[index]) /\ pc' = "refused"
    BY <1>2, <2>1, <2>3 DEF VerdictInv, Sound
  <2> QED BY <1>10, <2>2, <2>3 DEF CheckPolicy, Refuse
<1>11. CASE Accept
  <2>1. \A i \in 1..Len(resources) : AllowedByPolicy(resources[i])
    BY <1>3, <1>11 DEF Accept, VerdictInv
  <2>2. Sound
    BY <1>11, <2>1 DEF Accept, VerdictInv, Sound, Inv, GraphInv, AcceptedPlansAreAcyclic
  <2> QED BY <1>1, <1>2, <1>11, <2>2 DEF Accept, VerdictInv
<1>12. CASE UNCHANGED vars
  BY <1>1, <1>2, <1>12 DEF vars, VerdictInv
<1> QED BY <1>4, <1>5, <1>6, <1>7, <1>8, <1>9, <1>10, <1>11, <1>12 DEF Next, Done

\* For every list of resources, of any length and in any order: the validator
\* and the policy accept it only if its names are distinct, its dependencies
\* valid, its types allowed with their companions, and no set of its resources
\* circular; and they refuse it only if one of these fails.
THEOREM VerdictIsRight ==
    Spec => []((pc = "accepted" => Sound) /\ (pc = "refused" => ~Sound))
<1>1. Init => VerdictInv
  BY DEF Init, VerdictInv
<1>2. VerdictInv => (pc = "accepted" => Sound) /\ (pc = "refused" => ~Sound)
  BY DEF VerdictInv
<1> QED BY <1>1, <1>2, NextVerdictInv, SearchInvariant, PTL DEF Spec

-----------------------------------------------------------------------------
(* The search goes one way: a measure of natural numbers, compared from the   *)
(* first component on, falls at every step.                                   *)

Stage == CASE pc = "names" -> 4 [] pc = "dependencies" -> 3 [] pc = "visit" -> 2
           [] pc = "policy" -> 1 [] OTHER -> 0

\* The resources visit has not entered yet.
Unseen == KnownNames \ (visiting \cup visited)

\* What the innermost call has left of its loop.
Remaining == IF pc # "visit" \/ stack = <<>> THEN 0 ELSE Len(graph[Top.name]) + 1 - Top.next

Measure == <<Stage, Cardinality(Unseen), Cardinality(visiting), Remaining,
             Len(resources) + 1 - index>>

Falls(m, n) == \E i \in 1..5 : m[i] < n[i] /\ \A j \in 1..(i - 1) : m[j] = n[j]

LEMMA FallsAt ==
    ASSUME NEW a, NEW b, NEW c, NEW d, NEW e, NEW a1, NEW b1, NEW c1, NEW d1, NEW e1,
           \/ a1 < a
           \/ a1 = a /\ b1 < b
           \/ a1 = a /\ b1 = b /\ c1 < c
           \/ a1 = a /\ b1 = b /\ c1 = c /\ d1 < d
           \/ a1 = a /\ b1 = b /\ c1 = c /\ d1 = d /\ e1 < e
    PROVE  Falls(<<a1, b1, c1, d1, e1>>, <<a, b, c, d, e>>)
<1> DEFINE m == <<a1, b1, c1, d1, e1>>
           n == <<a, b, c, d, e>>
<1>1. /\ m[1] = a1 /\ m[2] = b1 /\ m[3] = c1 /\ m[4] = d1 /\ m[5] = e1
      /\ n[1] = a /\ n[2] = b /\ n[3] = c /\ n[4] = d /\ n[5] = e
  OBVIOUS
<1> HIDE DEF m, n
<1>2. \E i \in 1..5 : m[i] < n[i] /\ \A j \in 1..(i - 1) : m[j] = n[j]
  <2>1. CASE a1 < a
    <3>1. m[1] < n[1] /\ \A j \in 1..(1 - 1) : m[j] = n[j]
      BY <1>1, <2>1
    <3> QED BY <3>1
  <2>2. CASE a1 = a /\ b1 < b
    <3>1. m[2] < n[2] /\ \A j \in 1..(2 - 1) : m[j] = n[j]
      BY <1>1, <2>2
    <3> QED BY <3>1
  <2>3. CASE a1 = a /\ b1 = b /\ c1 < c
    <3>1. m[3] < n[3] /\ \A j \in 1..(3 - 1) : m[j] = n[j]
      BY <1>1, <2>3
    <3> QED BY <3>1
  <2>4. CASE a1 = a /\ b1 = b /\ c1 = c /\ d1 < d
    <3>1. m[4] < n[4] /\ \A j \in 1..(4 - 1) : m[j] = n[j]
      BY <1>1, <2>4
    <3> QED BY <3>1
  <2>5. CASE a1 = a /\ b1 = b /\ c1 = c /\ d1 = d /\ e1 < e
    <3>1. m[5] < n[5] /\ \A j \in 1..(5 - 1) : m[j] = n[j]
      BY <1>1, <2>5
    <3> QED BY <3>1
  <2> QED BY <2>1, <2>2, <2>3, <2>4, <2>5
<1> QED BY <1>2 DEF Falls, m, n

LEMMA OneFewer ==
    ASSUME NEW S, NEW x \in S, IsFiniteSet(S)
    PROVE  Cardinality(S \ {x}) < Cardinality(S)
<1>1. Cardinality(S) \in Nat
  BY FS_CardinalityType
<1>2. Cardinality(S \ {x}) = Cardinality(S) - 1
  BY FS_RemoveElement
<1> QED BY <1>1, <1>2

\* A plan has finitely many resources, so the sets of the search are finite.
LEMMA FiniteSearch ==
    ASSUME Inv
    PROVE  /\ IsFiniteSet(Unseen) /\ Cardinality(Unseen) \in Nat
           /\ IsFiniteSet(visiting) /\ Cardinality(visiting) \in Nat
<1> DEFINE names == [i \in 1..Len(resources) |-> resources[i].name]
<1>1. Len(resources) \in Nat
  BY DEF Inv
<1>2. names \in Surjection(1..Len(resources), KnownNames)
  BY DEF Surjection, KnownNames
<1>3. IsFiniteSet(1..Len(resources))
  BY <1>1, FS_Interval
<1>4. IsFiniteSet(KnownNames)
  BY <1>2, <1>3, FS_Surjection
<1>5. visiting \subseteq KnownNames /\ Unseen \subseteq KnownNames
  BY DEF Inv, TypeOK, Unseen
<1> QED BY <1>4, <1>5, FS_Subset, FS_CardinalityType

\* The innermost call stands in its loop, or behind its end.
LEMMA TopOfStack ==
    ASSUME Inv, pc = "visit", stack # <<>>
    PROVE  /\ Top \in Frames /\ Top.name \in KnownNames /\ Top.name \in visiting
           /\ Len(graph[Top.name]) \in Nat /\ Top.next <= Len(graph[Top.name]) + 1
<1>1. Len(stack) \in 1..Len(stack) /\ Top \in Frames
  BY DEF Inv, TypeOK, Top
<1>2. Top.name \in KnownNames /\ Top.name \in visiting /\ Top.next <= Len(graph[Top.name]) + 1
  BY <1>1 DEF Inv, StackInv, Top
<1> QED BY <1>1, <1>2, GraphOfKnown

LEMMA MeasureIsNatural == Inv => Measure \in Nat \X Nat \X Nat \X Nat \X Nat
<1> SUFFICES ASSUME Inv PROVE Measure \in Nat \X Nat \X Nat \X Nat \X Nat
  OBVIOUS
<1>1. Stage \in Nat
  BY DEF Stage
<1>2. Cardinality(Unseen) \in Nat /\ Cardinality(visiting) \in Nat
  BY FiniteSearch
<1>3. Remaining \in Nat
  BY TopOfStack DEF Remaining, Frames
<1>4. Len(resources) + 1 - index \in Nat
  BY DEF Inv, TypeOK
<1> QED BY <1>1, <1>2, <1>3, <1>4 DEF Measure

\* A call of visit ends the search, enters a new resource, or goes on in a loop.
LEMMA VisitDescends ==
    ASSUME Inv, pc = "visit", NEW name \in KnownNames, Calling(name), Visit(name),
           UNCHANGED <<resources, graph>>
    PROVE  Falls(Measure', Measure)
<1>1. Stage = 2 /\ KnownNames' = KnownNames
  BY DEF Stage, KnownNames
<1>2. CASE Refuse("cycle")
  <2>1. Stage' < Stage
    BY <1>1, <1>2 DEF Refuse, Stage
  <2> QED BY <2>1, FallsAt DEF Measure
<1>3. CASE /\ name \notin visiting /\ name \in visited
           /\ Return(stack) /\ UNCHANGED <<pc, error, visiting, visited>>
  <2>1. Stage' = Stage /\ Cardinality(Unseen)' = Cardinality(Unseen)
        /\ Cardinality(visiting)' = Cardinality(visiting)
    BY <1>1, <1>3 DEF Stage, Unseen
  <2>2. CASE stack = <<>>
    <3>1. Remaining' = Remaining
      BY <1>3, <2>2 DEF Remaining, Return
    <3>2. (Len(resources) + 1 - index)' < Len(resources) + 1 - index
      BY <1>3, <2>2 DEF Return, Inv, TypeOK
    <3> QED BY <2>1, <3>1, <3>2, FallsAt DEF Measure
  <2>3. CASE stack # <<>>
    <3>1. stack \in Seq(Frames) /\ Len(stack) \in 1..Len(stack)
      BY <2>3 DEF Inv, TypeOK
    <3>2. stack' = [stack EXCEPT ![Len(stack)].next = @ + 1]
      BY <1>3, <2>3 DEF Return
    <3>3. Len(stack') = Len(stack) /\ stack' # <<>>
          /\ stack'[Len(stack)].name = Top.name /\ stack'[Len(stack)].next = Top.next + 1
      BY <3>1, <3>2 DEF Top, Frames
    <3>4. Remaining' < Remaining
      BY <1>3, <2>3, <3>3, TopOfStack DEF Remaining, Top, Frames
    <3> QED BY <2>1, <3>4, FallsAt DEF Measure
  <2> QED BY <2>2, <2>3
<1>4. CASE name \notin visiting /\ name \notin visited /\ Enter(name) /\ UNCHANGED <<pc, error, index>>
  <2>1. name \in Unseen /\ Unseen' = Unseen \ {name} /\ Stage' = Stage
    BY <1>1, <1>4 DEF Unseen, Enter, Stage
  <2>2. Cardinality(Unseen') < Cardinality(Unseen)
    BY <2>1, FiniteSearch, OneFewer
  <2>3. Cardinality(Unseen)' < Cardinality(Unseen)
    BY <2>2
  <2> QED BY <2>1, <2>3, FallsAt DEF Measure
<1> QED BY <1>2, <1>3, <1>4 DEF Visit

LEMMA StepDescends == Inv /\ [Next]_vars => Falls(Measure', Measure) \/ UNCHANGED vars
<1> SUFFICES ASSUME Inv, Next, ~UNCHANGED vars PROVE Falls(Measure', Measure)
  OBVIOUS
<1>1. CASE CheckNames \/ StartSearch \/ EndSearch \/ Accept
  <2>1. Stage' < Stage
    BY <1>1 DEF CheckNames, StartSearch, EndSearch, Accept, Refuse, Stage
  <2> QED BY <2>1, FallsAt DEF Measure
<1>2. CASE CheckDependencies \/ CheckPolicy
  <2>1. pc # "visit" /\ pc' # "visit" /\ UNCHANGED <<resources, visiting, visited>>
    BY <1>2 DEF CheckDependencies, CheckPolicy, Refuse, search
  <2>2. CASE pc' = "refused"
    <3>1. Stage' < Stage
      BY <1>2, <2>2 DEF CheckDependencies, CheckPolicy, Stage
    <3> QED BY <3>1, FallsAt DEF Measure
  <2>3. CASE pc' = pc /\ index' = index + 1
    <3>1. Stage' = Stage /\ Cardinality(Unseen)' = Cardinality(Unseen)
          /\ Cardinality(visiting)' = Cardinality(visiting) /\ Remaining' = Remaining
      BY <2>1, <2>3 DEF Stage, Unseen, Remaining, KnownNames
    <3>2. (Len(resources) + 1 - index)' < Len(resources) + 1 - index
      BY <2>1, <2>3 DEF Inv, TypeOK
    <3> QED BY <3>1, <3>2, FallsAt DEF Measure
  <2> QED BY <1>2, <2>2, <2>3 DEF CheckDependencies, CheckPolicy, Refuse
<1>3. CASE VisitRoot
  <2>1. index \in 1..Len(resources)
    BY <1>3 DEF Inv, TypeOK, VisitRoot
  <2> QED BY <1>3, <2>1, VisitDescends DEF VisitRoot, Calling, KnownNames
<1>4. CASE VisitDependency
  <2>1. Top \in Frames /\ Top.name \in KnownNames
    BY <1>4, TopOfStack DEF VisitDependency
  <2>2. graph[Top.name] \in Seq(Names) /\ Edges(Top.name) \subseteq KnownNames
    BY <1>4, <2>1, GraphOfKnown DEF VisitDependency
  <2>3. graph[Top.name][Top.next] \in KnownNames
    BY <1>4, <2>1, <2>2 DEF VisitDependency, Frames, Edges, ElementsOf
  <2> QED BY <1>4, <2>3, VisitDescends DEF VisitDependency, Calling
<1>5. CASE Leave
  <2>1. Top.name \in visiting /\ visiting' = visiting \ {Top.name} /\ Stage' = Stage
    BY <1>5, TopOfStack DEF Leave, Stage
  <2>2. Unseen' = Unseen
    BY <1>5, <2>1 DEF Leave, Unseen, KnownNames
  <2>3. Cardinality(visiting') < Cardinality(visiting)
    BY <2>1, FiniteSearch, OneFewer
  <2>4. Cardinality(visiting)' < Cardinality(visiting) /\ Cardinality(Unseen)' = Cardinality(Unseen)
    BY <2>2, <2>3
  <2> QED BY <2>1, <2>4, FallsAt DEF Measure
<1> QED BY <1>1, <1>2, <1>3, <1>4, <1>5 DEF Next, Done

\* Whatever the graph, cyclic ones included, no run of the validator is longer
\* than its measure allows: the safety half of SearchEnds, for plans of any size.
THEOREM SearchDescends ==
    Spec => /\ [](Measure \in Nat \X Nat \X Nat \X Nat \X Nat)
            /\ [][Falls(Measure', Measure)]_vars
BY MeasureIsNatural, StepDescends, SearchInvariant, PTL DEF Spec
=============================================================================
