------------------------------ MODULE MCHelper ------------------------------
(***************************************************************************)
(* Instances of Helper for TLC: several calls whose names may collide and  *)
(* nothing fails, and one call alone with every fault.                     *)
(***************************************************************************)
EXTENDS Helper

Alone(c) == [d \in Calls |-> IF d = c THEN Idle ELSE [Idle EXCEPT !.pc = "done"]]

MCInit ==
    /\ pods = [n \in Names |-> NoPod] /\ secrets = {} /\ drawn = {} /\ clashed = {}
    /\ plan = {}
    /\ \/ call = [c \in Calls |-> Idle] /\ faults = 0
       \/ \E c \in Calls : call = Alone(c) /\ faults = MaxFaults

MCFairSpec ==
    /\ MCInit /\ [][HelperNext]_vars
    /\ \A c \in Calls : WF_vars(Step(c))
    /\ \A n \in Names : WF_vars(Reconciling(n)) /\ WF_vars(GrowOld(n))
=============================================================================
