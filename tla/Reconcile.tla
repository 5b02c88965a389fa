----------------------------- MODULE Reconcile ------------------------------
(***************************************************************************)
(* The reconcile pass (internal/engine/reconcile.go): PlanReconcile reads  *)
(* the registry and the runtime, ApplyReconcile applies one action after   *)
(* another.  Each action re-checks its claim when it is applied, so        *)
(* anything may happen between its plan step and its apply step.  Actions  *)
(* on branches, their layers, containers and volumes; the actions on       *)
(* sources are in Sources.tla.                                             *)
(***************************************************************************)
EXTENDS Sagas

Plan(p, op) == /\ p \in Reconcilers /\ proc[p].pc = "idle" /\ op \in Ops
               /\ NoFault /\ UNCHANGED <<regVars, world, ops>>

\* ApplyReconcile takes up one planned action; its target is a name.
Planned(p, op, n) == GoWith(p, [Idle EXCEPT !.op = op, !.pc = op, !.name = n])

\* reap: re-checked by name; some TTL, and at rest.
PlanReap(p) ==
    /\ Plan(p, "reap")
    /\ \E id \in RowIds : Expired(id) /\ Planned(p, "reap", branches[id].name)

ApplyReap(p) ==
    /\ At(p, "reap") /\ NoFault /\ OnlyLocal
    /\ IF \E id \in ByName(proc[p].name) :
             branches[id].ttl # "never" /\ branches[id].state \in {"ready", "failed"}
       THEN Go(p, "destroy")
       ELSE End(p)

\* retry_destroy: re-checked by name; still destroying.
PlanRetry(p) ==
    /\ Plan(p, "retry")
    /\ \E id \in RowIds : StuckDestroying(id) /\ Planned(p, "retry", branches[id].name)

ApplyRetry(p) ==
    /\ At(p, "retry") /\ NoFault /\ OnlyLocal
    /\ IF \E id \in ByName(proc[p].name) : branches[id].state = "destroying"
       THEN Go(p, "destroy")
       ELSE End(p)

\* fail_stuck: the swap repeats the plan's criterion with the plan's cut-off, so
\* planning, reading the row and swapping act as one step.
FailStuck(p) ==
    /\ p \in Reconcilers /\ proc[p].pc = "idle" /\ "failstuck" \in Ops /\ OnlyRegistry
    /\ \E id \in RowIds :
        /\ FailStuckBranch(id)
        /\ GoWith(p, [Idle EXCEPT !.op = "failstuck", !.pc = "reread", !.id = id,
              !.name = branches[id].name, !.rw = branches[id].rw,
              !.cid = branches[id].cid, !.guarded = TRUE])

\* Re-read the container: the saga may have recorded one before the swap.
Reread(p) ==
    LET q == proc[p] IN
    /\ At(p, "reread") /\ NoFault /\ OnlyLocal
    /\ GoWith(p, [q EXCEPT !.pc = "halt",
          !.cid = IF q.id \in ByName(q.name) THEN branches[q.id].cid ELSE @])

\* readyDrift: a ready row whose container is gone or stopped.
readyDrift(id) == branches[id].state = "ready" /\ ~Up(branches[id].cid)

\* restart_branch: a drifted row that is not being reaped; re-read by name.
PlanLost(p) ==
    /\ Plan(p, "lost")
    /\ \E id \in RowIds : /\ readyDrift(id) /\ ~Expired(id)
                          /\ Planned(p, "lost", branches[id].name)

ApplyLost(p) ==
    LET drift == {id \in ByName(proc[p].name) : readyDrift(id)} IN
    /\ At(p, "lost") /\ NoFault /\ OnlyLocal
    /\ IF drift # {}
       THEN \E id \in drift : GoWith(p, [proc[p] EXCEPT !.pc = "halt", !.id = id,
                                  !.rw = branches[id].rw, !.cid = branches[id].cid])
       ELSE End(p)

\* removeStrayBranchContainer: another container of this row under its name
\* goes; anybody else's stops the restart.
Stray(p) ==
    LET q == proc[p]
        holders == {k \in ctrs : k.name = q.name} IN
    /\ At(p, "stray") /\ UNCHANGED <<regVars, vols, ops>>
    /\ \/ /\ \A k \in holders : k.row = q.id
          /\ ctrs' = ctrs \ holders /\ NoFault /\ Go(p, "lostart")
       \/ /\ IF \A k \in holders : k.row = q.id THEN Fault ELSE NoFault
          /\ UNCHANGED ctrs /\ End(p)

\* Read the chain and start on the row's volumes as read at the apply check.
LostStart(p) ==
    LET q == proc[p] IN
    /\ At(p, "lostart") /\ UNCHANGED <<regVars, ops>>
    /\ IF ChainOK(q.id)
       THEN StartOn(p, q.name, q.id, q.rw, VolsOf(LayerChain(q.id)), FALSE,
                    [q EXCEPT !.pc = "lostown", !.new = NewCid(q.name)], Idle)
       ELSE NoFault /\ End(p) /\ UNCHANGED world

\* Record the new container if the row is still ready on the old one.
LostOwn(p) ==
    LET q == proc[p] IN
    /\ At(p, "lostown") /\ OnlyRegistry
    /\ IF branches[q.id].state = "ready" /\ branches[q.id].cid = q.cid
       THEN UpdateBranchEndpoint(q.id, q.cid, q.new) /\ Go(p, "lostmark")
       ELSE Go(p, "lostdrop") /\ UNCHANGED regVars

\* Ready in time: journal the repair.  Never ready: drop the container and fail
\* the row.
LostMark(p) ==
    LET q == proc[p] IN
    /\ At(p, "lostmark") /\ UNCHANGED <<world, ops>>
    /\ \/ /\ Up(q.new) /\ NoFault /\ End(p)
          /\ BestEffort(branches[q.id].state = "ready" /\ branches[q.id].cid = q.new,
                        UpdateBranchEndpointCtx(q.id, q.new, q.new))
       \/ /\ IF Up(q.new) THEN Fault ELSE NoFault
          /\ Go(p, "lostfail") /\ UNCHANGED regVars

\* Remove the container this restart started (best effort).
LostDrop(p) ==
    /\ proc[p].pc \in {"lostdrop", "lostfail"} /\ UNCHANGED <<regVars, vols, ops>>
    /\ \/ NoFault /\ ctrs' = Stopped(proc[p].new)
       \/ Fault /\ UNCHANGED ctrs
    /\ IF At(p, "lostdrop") THEN End(p) ELSE Go(p, "failready")

FailReady(p) ==
    LET q == proc[p] IN
    /\ At(p, "failready") /\ End(p) /\ OnlyRegistry
    /\ BestEffort(branches[q.id].state = "ready" /\ branches[q.id].cid = q.new,
                  FailReadyBranch(q.id, q.new))

\* Mutant: a saga in flight is forgotten.
MayOwnReady == {id \in RowIds : branches[id].state = "ready"}

\* ownedInFlight: a live row that may still record a container of its own.
MayOwn == {id \in RowIds : branches[id].state \in {"creating", "resetting", "ready"}}
Recorded == {branches[id].cid : id \in LiveRows}

\* remove_orphan_container: re-checked against the rows, then against the
\* container's label; the rows are read before the container.
PlanOrphan(p) ==
    /\ Plan(p, "orphan")
    /\ \E k \in ctrs : /\ k.cid \notin Recorded /\ k.row \notin MayOwn
                       /\ GoWith(p, [Idle EXCEPT !.op = "orphan", !.pc = "orphan", !.cid = k.cid])

CheckOrphan(p) ==
    /\ At(p, "orphan") /\ NoFault /\ OnlyLocal
    /\ IF proc[p].cid \in Recorded
       THEN End(p)
       ELSE GoWith(p, [proc[p] EXCEPT !.pc = "inspect", !.seen = MayOwn])

RmOrphan(p) ==
    /\ At(p, "inspect") /\ NoFault /\ UNCHANGED <<regVars, vols, ops>>
    /\ ctrs' = {k \in ctrs : k.cid = proc[p].cid => k.row \in proc[p].seen}
    /\ End(p)

\* gc_layer: a layer no live branch references, re-checked by GCCheck.
PlanGCLayer(p) ==
    /\ Plan(p, "gclayer")
    /\ \E l \in LiveLayers : /\ ReferencingLayer(l) = {}
                             /\ GoWith(p, [Idle EXCEPT !.op = "gclayer", !.pc = "gc",
                                                       !.chain = <<l>>])

\* gc_volume: a managed volume outside LiveVolumeSet.  The re-check reads the
\* rows' rw volumes first and the layers and claims in later queries.
PlanGCVolume(p) ==
    /\ Plan(p, "gcvolume")
    /\ \E v \in Vols : /\ Managed(v) /\ v \notin LiveVolumeSet
                       /\ GoWith(p, [Idle EXCEPT !.op = "gcvolume", !.pc = "livevols", !.rw = v])

CheckLiveRows(p) ==
    /\ At(p, "livevols") /\ NoFault /\ OnlyLocal
    /\ IF proc[p].rw \in {branches[id].rw : id \in LiveRows}
       THEN End(p) ELSE Go(p, "livelayers")

\* The later queries: frozen layers, and the claims of rows in flight.
CheckLiveLayers(p) ==
    /\ At(p, "livelayers") /\ NoFault /\ OnlyLocal
    /\ IF \/ \E l \in LiveLayers : layers[l].vol = proc[p].rw
          \/ \E id \in RowIds : /\ branches[id].state \in {"creating", "resetting"}
                                /\ branches[id].pending = proc[p].rw
       THEN End(p) ELSE Go(p, "rmorphan")

RmOrphanVolume(p) ==
    /\ At(p, "rmorphan") /\ NoFault /\ UNCHANGED <<regVars, ctrs, ops>>
    /\ vols' = IF CanRemove(proc[p].rw) THEN Removed(proc[p].rw) ELSE vols
    /\ End(p)
=============================================================================
