------------------------------ MODULE Runtime ------------------------------
(***************************************************************************)
(* The container runtime, from how the engine uses runtime.Driver          *)
(* (internal/runtime: docker.go, kube.go with hostPath volumes): named     *)
(* volumes, and containers that mount a writable volume over frozen ones.  *)
(* Every driver call is atomic.                                            *)
(*                                                                         *)
(* A volume is reduced to whose data it holds: a row's, nobody's because a *)
(* mount created it ("bare"), nobody's but with an entrypoint installed    *)
(* ("blank"), or it does not exist (None).  A container is reduced to what *)
(* the engine reads back: its id, name, branch.id label, mounts and        *)
(* whether it runs.  The source volume is left to Sources.tla.             *)
(***************************************************************************)
EXTENDS Registry

CONSTANT Docker   \* TRUE: docker driver; FALSE: kube driver, hostPath volumes

ASSUME RuntimeAssumption ==
    /\ Docker \in BOOLEAN
    /\ ~Docker => Names \subseteq Cids

VARIABLES
    vols,     \* the row whose data a volume holds, "bare", "blank", or None
    ctrs      \* the containers (pods) that exist: id, name, row, mounted volumes, running

world == <<vols, ctrs>>

HasCtr(c) == \E k \in ctrs : k.cid = c
Up(c) == \E k \in ctrs : k.cid = c /\ k.up
InUse(v) == \E k \in ctrs : v = k.rw \/ v \in k.lowers

\* Data of some row.
HasData(v) == vols[v] \notin {None, "bare", "blank"}

\* CreateVolume: docker refuses an existing name, hostPath's mkdir -p adopts it.
CanCreate(v) == Docker => vols[v] = None
Created(v, id) == IF HasData(v) THEN vols ELSE [vols EXCEPT ![v] = id]

\* listVolumes and docker's label filter: what CreateVolume labelled, never a
\* volume that a mount created.
Managed(v) == HasData(v)

\* RemoveVolume: docker refuses a volume a container references, rm -rf does not.
CanRemove(v) == Docker => ~InUse(v)
Removed(v) == [vols EXCEPT ![v] = None]

\* StopRemove: idempotent, returns once the container is gone.
Stopped(c) == {k \in ctrs : k.cid # c}

\* StartBranch: the container name must be free.  A mounted volume that is
\* missing is created empty; the entrypoint lives in the rw volume, so without
\* an install the container of an empty one exits at once.
NameFree(n) == \A k \in ctrs : k.name # n
Started(c, n, id, rw, lowers, up) ==
    ctrs \cup {[cid |-> c, name |-> n, row |-> id, rw |-> rw, lowers |-> lowers, up |-> up]}
Mounted(rw, lowers, install) ==
    [v \in Vols |-> CASE install /\ v = rw /\ vols[v] \in {None, "bare"} -> "blank"
                      [] v \in lowers \cup {rw} /\ vols[v] = None -> "bare"
                      [] OTHER -> vols[v]]
Boots(rw, install) == install \/ vols[rw] \notin {None, "bare"}
=============================================================================
