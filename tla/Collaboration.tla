--------------------------- MODULE Collaboration ----------------------------
(***************************************************************************)
(* What ArchitectureOrchestrator.run promises, without attempts, retries,   *)
(* messages, clocks or events: a draft is proposed, assessed and revised in *)
(* strict alternation for at most MaxRounds rounds; it ends approved or     *)
(* degraded on the strength of the last assessment, or is given up.         *)
(***************************************************************************)
EXTENDS Naturals, Sequences

CONSTANTS
    MaxRounds,      \* assessments a collaboration may make
    Plans,          \* drafts: records with a revision, a topology, a text, ...
    Reviews,        \* verdicts: records with a decision and a list of changes
    Permitted,      \* topologies the policy allows
    Meets(_, _),    \* Meets(p, c): draft p carries out change c
    None

VARIABLES
    draft,          \* the latest draft, or None
    verdict,        \* the latest verdict, or None
    rounds,         \* assessments made
    demanded,       \* lists of changes demanded so far
    standing        \* "open", or how the collaboration ended

vars == <<draft, verdict, rounds, demanded, standing>>

Init ==
    /\ draft = None /\ verdict = None
    /\ rounds = 0 /\ demanded = {}
    /\ standing = "open"

\* The planner's first draft.
Propose(p) ==
    /\ standing = "open" /\ draft = None
    /\ p.revision = 1 /\ p.topology \in Permitted
    /\ draft' = p
    /\ UNCHANGED <<verdict, rounds, demanded, standing>>

\* A draft not yet assessed gets a verdict, which settles the collaboration
\* unless it demands something new and another round is left.
Assess(r) ==
    /\ standing = "open" /\ draft # None /\ rounds + 1 = draft.revision
    /\ verdict' = r
    /\ rounds' = rounds + 1
    /\ demanded' = demanded \cup {r.changes}
    /\ \/ r.decision = "approved" /\ standing' = "completed"
       \/ /\ r.decision = "revision_required"
          /\ r.changes \in demanded \/ rounds' = MaxRounds
          /\ standing' = "degraded"
       \/ /\ r.decision = "revision_required"
          /\ r.changes \notin demanded /\ rounds' < MaxRounds
          /\ standing' = "open"
    /\ UNCHANGED draft

\* A revision of an assessed draft keeps its topology and does what was demanded.
Revise(p) ==
    /\ standing = "open" /\ draft # None /\ rounds = draft.revision
    /\ p.revision = draft.revision + 1
    /\ p.topology = draft.topology
    /\ \A i \in 1..Len(verdict.changes) : Meets(p, verdict.changes[i])
    /\ draft' = p
    /\ UNCHANGED <<verdict, rounds, demanded, standing>>

\* An error or a timeout; what was achieved is kept.
GiveUp ==
    /\ standing = "open"
    /\ standing' \in {"failed", "timeout"}
    /\ UNCHANGED <<draft, verdict, rounds, demanded>>

Next == \/ \E p \in Plans : Propose(p) \/ Revise(p)
        \/ \E r \in Reviews : Assess(r)
        \/ GiveUp

\* Whoever is silent, the collaboration does not stay open for ever.
Spec == Init /\ [][Next]_vars /\ WF_vars(GiveUp)
=============================================================================
