------------------------------ MODULE MCEngine ------------------------------
(* Instances of Engine that start with one branch in service. *)
EXTENDS Engine, SequencesExt

CONSTANTS r1, p, k1, r2, c, k2, l1, l2

\* Operations and faults: two at once and a fault, or none; one and two faults.
MCOneFault == {<<2, 1>>}
MCNoFault == {<<2, 0>>}
MCEither == {<<2, 0>>, <<1, 2>>}

MCInit == ReadyInit(r1, p, k1)
MCSpec == MCInit /\ [][EngineNext]_engineVars

\* The same, or with a child of that branch in service too.
MCFamilyInit == MCInit \/ FamilyInit(r1, p, k1, r2, c, k2, <<l1>>)
MCFairSpec == MCFamilyInit /\ [][EngineNext]_engineVars /\ Fairness

\* The same, or with a second layer below the parent only.
MCDeepInit == MCFamilyInit \/ FamilyInit(r1, p, k1, r2, c, k2, <<l1, l2>>)
MCDeepSpec == MCDeepInit /\ [][EngineNext]_engineVars

\* Branching: a row in service is "on", one that lives otherwise "off"; its stack is
\* its layer chain, oldest first, and its rw volume.  A layer whose row is gone from
\* under it is no segment.
PhaseOf(id) == CASE branches[id].state = "absent" -> "none"
                 [] branches[id].state = "destroyed" -> "gone"
                 [] branches[id].state = "ready" -> "on"
                 [] OTHER -> "off"
SegmentOf(l) == IF layers[l].st = "live" THEN layers[l].vol ELSE None
BelowOf(id) == LET chain == Reverse(LayerChain(id))
               IN IF Live(id) THEN [i \in DOMAIN chain |-> SegmentOf(chain[i])] ELSE << >>

BranchingOf ==
    INSTANCE Branching WITH
        Branches <- RowIds, Segments <- Vols, NoSegment <- None,
        phase <- [id \in RowIds |-> PhaseOf(id)],
        below <- [id \in RowIds |-> BelowOf(id)],
        top <- [id \in RowIds |-> IF Live(id) THEN branches[id].rw ELSE None]

\* The sagas implement Branching: whatever they interleave and whatever fails, to
\* its users a branch is made on a fresh volume, keeps the stack it has, and forks
\* at once (CommitFreeze), with every layer of the parent below parent and child.
ImplementsBranching == BranchingOf!BranchingSpec

\* recover.go: RecoverBranch is the way back for "a freeze or clone parent
\* interrupted by a crash, restart or cancelled request (reconcile fails such a
\* parent but keeps its volume)": the first branch keeps its data until it is
\* itself destroyed.
ParentKeepsVolume ==
    branches[r1].state \in {"ready", "resetting", "failed"} => HasData(branches[r1].rw)
=============================================================================
