---------------------------- MODULE MCPlanGraph ----------------------------
(* All graphs of four resources with their dependencies in one order, all of  *)
(* three resources in every order, types on some of them, and malformed lists.*)
EXTENDS PlanGraph, FiniteSets, SequencesExt

MCNames == {"a", "b", "c", "d", "unknown"}
MCTypes == {"front", "site", "rogue"}
MCAllowed == {"front", "site"}
MCRequired == [t \in MCTypes |-> IF t = "front" THEN {"site"} ELSE {}]

Resource(n, t, d) == [name |-> n, type |-> t, deps |-> d]
Sorted(S) == SetToSeq(S)
Orders(S) == UNION {SetToSeqs(T) : T \in SUBSET S}

FourResources ==
    {[i \in 1..4 |-> Resource(<<"a", "b", "c", "d">>[i], "site", <<w, x, y, z>>[i])] :
        w \in {Sorted(S) : S \in SUBSET {"b", "c", "d"}},
        x \in {Sorted(S) : S \in SUBSET {"a", "c", "d"}},
        y \in {Sorted(S) : S \in SUBSET {"a", "b", "d"}},
        z \in {Sorted(S) : S \in SUBSET {"a", "b", "c"}}}

Three(types, x, y, z) ==
    [i \in 1..3 |-> Resource(<<"a", "b", "c">>[i], types[i], <<x, y, z>>[i])]

ThreeResources ==
    {Three([i \in 1..3 |-> "site"], x, y, z) :
        x \in Orders({"b", "c"}), y \in Orders({"a", "c"}), z \in Orders({"a", "b"})}
    \cup {Three(t, x, <<>>, z) :
            t \in [1..3 -> MCTypes], x \in Orders({"b", "c"}), z \in Orders({"b"})}

Malformed ==
    {<<Resource(n, "site", <<>>), Resource("b", "site", d)>> :
        n \in {"a", "b"},
        d \in {<<"a">>, <<"b">>, <<"a", "a">>, <<"unknown">>, <<"a", "unknown">>}}

MCInputs == FourResources \cup ThreeResources \cup Malformed
=============================================================================
