------------------------------ MODULE MCClones ------------------------------
(* Clones from a parent and its child at rest, on either backend: two        *)
(* operations at once, or one with two faults.                               *)
EXTENDS Clones

CONSTANTS p, c, tw   \* branch names

MCNames == {p, c, tw}
MCBudgets == {<<2, 0>>, <<1, 2>>}
MCSpec == CloneInit(p, c) /\ [][CloneNext]_cloneVars
=============================================================================
