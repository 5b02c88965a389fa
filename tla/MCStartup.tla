------------------------------ MODULE MCStartup ------------------------------
(***************************************************************************)
(* Instances of Startup for TLC: first starts on a new state directory,    *)
(* with all processes but no change of keys, and key and token rotation on *)
(* a directory that is already migrated.                                   *)
(***************************************************************************)
EXTENDS Startup, TLC

MCInit ==
    /\ \/ FreshInit /\ ops = 0
       \/ UpgradeInit(Latest) /\ ops = MaxOps
    /\ proc = [p \in Procs |-> Down] /\ faults = MaxFaults

MCSpec == MCInit /\ [][StartupNext]_vars

\* Replicas, keys and tokens are interchangeable.
Symmetry == Permutations(Daemons) \cup Permutations(OpKeys) \cup Permutations(Tokens)
=============================================================================
