----------------------------- MODULE Branching ------------------------------
(***************************************************************************)
(* What pgoverlay promises about branches, without sagas, containers,      *)
(* faults or garbage collection: a branch is made on a segment of its own, *)
(* goes in and out of service, and forks in one step.  A branch writes to  *)
(* its top segment only and reads through the segments below it, oldest    *)
(* first, which nobody writes any more.                                    *)
(*                                                                         *)
(* That Engine.tla implements this is checked in small instances: a        *)
(* segment is a volume, `below' the frozen layers of a row and `top' its   *)
(* rw volume (BranchingOf in MCEngine.tla).                                *)
(***************************************************************************)
EXTENDS Sequences

CONSTANTS Branches,   \* branches, each made once
          Segments,   \* units of storage
          NoSegment   \* no segment

VARIABLES phase,      \* per branch: "none", "off", "on" or "gone"
          below,      \* per branch: the frozen segments it reads through
          top         \* per branch: the segment it writes to

branchingVars == <<phase, below, top>>

Made(b) == phase[b] \in {"off", "on"}

Frozen(b) == {below[b][i] : i \in DOMAIN below[b]}

\* A segment in nobody's stack.
Fresh(s) == \A b \in Branches : s # top[b] /\ s \notin Frozen(b)

\* A branch sees nobody else's writes: the segment it writes to is in no other
\* branch's stack, and not frozen below itself.
Private ==
    \A b, c \in Branches : Made(b) /\ Made(c) =>
        /\ b # c => top[b] # top[c]
        /\ top[b] \notin Frozen(c)

\* Some branches may be in service already, as earlier operations left them.
BranchingInit ==
    /\ phase \in [Branches -> {"none", "on"}]
    /\ below \in [Branches -> Seq(Segments)]
    /\ top \in [Branches -> Segments \cup {NoSegment}]
    /\ \A b \in Branches : phase[b] = "none" => below[b] = << >> /\ top[b] = NoSegment
    /\ Private

Make(b, s) ==
    /\ phase[b] = "none" /\ Fresh(s)
    /\ phase' = [phase EXCEPT ![b] = "off"] /\ top' = [top EXCEPT ![b] = s]
    /\ UNCHANGED below

\* Into service and out of it: the stack stays.
Turn(b, to) ==
    /\ Made(b) /\ to \in {"off", "on"}
    /\ phase' = [phase EXCEPT ![b] = to] /\ UNCHANGED <<below, top>>

\* b is out of service: what it wrote is frozen, b and the new branch c go on above
\* it, b on a new segment.  c may be gone by now, then only b changes.  What is frozen
\* is the segment that b writes to now; the code commits the rw volume it read before
\* it took b out of service, and is to have the same effect.
Fork(b, c, s) ==
    LET frozen == Append(below[b], top[b]) IN
    /\ phase[b] = "off" /\ b # c /\ Fresh(s)
    /\ \/ phase[c] = "off" /\ below[c] = << >>
       \/ phase[c] = "gone"
    /\ phase' = [phase EXCEPT ![b] = "on"] /\ top' = [top EXCEPT ![b] = s]
    /\ below' = IF phase[c] = "gone" THEN [below EXCEPT ![b] = frozen]
                ELSE [below EXCEPT ![b] = frozen, ![c] = frozen]

Drop(b) ==
    /\ phase[b] = "off"
    /\ phase' = [phase EXCEPT ![b] = "gone"] /\ top' = [top EXCEPT ![b] = NoSegment]
    /\ below' = [below EXCEPT ![b] = << >>]

BranchingNext ==
    \E b \in Branches :
        \/ \E to \in {"off", "on"} : Turn(b, to)
        \/ Drop(b)
        \/ \E s \in Segments : Make(b, s) \/ \E c \in Branches : Fork(b, c, s)

BranchingSpec == BranchingInit /\ [][BranchingNext]_branchingVars
=============================================================================
