---------------------------- MODULE MCLeadership ----------------------------
(***************************************************************************)
(* Two situations: an election of all replicas, with no request to come;   *)
(* and the requests of replica a, the others having shut down in the first *)
(* term.                                                                   *)
(***************************************************************************)
EXTENDS Leadership

CONSTANT a

MCInit ==
    /\ \E solo \in BOOLEAN :
        /\ lease = [holder |-> Nobody, terms |-> 0]
        /\ elector = [r \in Replicas |->
              [pc |-> IF solo /\ r # a THEN "exit" ELSE "contend", term |-> 0]]
        /\ server = [r \in Replicas |-> IF solo /\ r # a THEN "down" ELSE "up"]
        /\ clean = [r \in Replicas |-> solo /\ r # a]
        /\ muts = [m \in Muts |-> [pc |-> IF solo THEN "none" ELSE "done", at |-> Nobody,
                                   term |-> 0, cancelled |-> FALSE]]
    /\ pending = [r \in Replicas |-> {}]
    /\ gate = [r \in Replicas |-> [open |-> FALSE, term |-> 0]]
    /\ marker = [r \in Replicas |-> [pc |-> "off", term |-> 0, seen |-> {}]]
    /\ loops = [r \in Replicas |-> {}]
    /\ labels = {} /\ late = {} /\ mishaps = MaxMishaps

MCSpec == MCInit /\ [][LeadershipNext]_leadershipVars /\ Fairness
=============================================================================
