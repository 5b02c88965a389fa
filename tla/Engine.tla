------------------------------- MODULE Engine -------------------------------
(***************************************************************************)
(* The whole engine: API calls and reconcile passes interleaved over one   *)
(* registry and one runtime, with processes that die between two steps,    *)
(* containers that disappear from outside and time that passes.            *)
(***************************************************************************)
EXTENDS Reconcile

CONSTANT TimelyHeartbeats   \* keepAlive always touches a row before the stuck cut-off

ASSUME EngineAssumption == TimelyHeartbeats \in BOOLEAN

(* The environment: crashes, lost containers, time. *)

\* A process dies between two steps; its heartbeats stop with it.
Crash(p) == /\ proc[p].pc # "idle" /\ Fault /\ End(p) /\ OnlyLocal

\* A container is removed, or stopped for good, from outside.
LoseContainer(k) ==
    /\ Fault /\ ctrs' \in {ctrs \ {k}, (ctrs \ {k}) \cup {[k EXCEPT !.up = FALSE]}}
    /\ ctrs' # ctrs /\ UNCHANGED <<regVars, vols, proc, ops>>

\* The rows a process's keepAlive touches.
KeptAlive(q) == IF q.op \in {"create", "from", "reset", "recover"} /\ q.pc # "reset"
                THEN {q.id, q.pid} \ {None} ELSE {}

AgeRow(id) == /\ TimelyHeartbeats => \A p \in Procs : id \notin KeptAlive(proc[p])
              /\ Age(id) /\ UNCHANGED <<world, proc, ops, faults>>

ExpireRow(id) == Expire(id) /\ UNCHANGED <<world, proc, ops, faults>>

-----------------------------------------------------------------------------

\* An API call (or a local pgb) picks its operation and its arguments.
Request(p) ==
    \E n \in Names :
        \/ \E ttl \in {"never", "later"} : StartCreate(p, n, ttl)
        \/ \E pn \in Names : StartFrom(p, n, pn)
        \/ ReadForRestart(p, n, "reset")
        \/ ReadForRestart(p, n, "recover")
        \/ /\ Begin(p, "destroy")
           /\ GoWith(p, [Idle EXCEPT !.op = "destroy", !.pc = "destroy", !.name = n])

Provision(p) ==
    \/ InsertRow(p) \/ MkVol(p) \/ Start(p) \/ Own(p) \/ Mark(p)
    \/ UndoStep(p) \/ Undone(p) \/ MarkFailed(p)

FreezeSaga(p) ==
    \/ FreezePlan(p) \/ Freeze(p) \/ StopParent(p) \/ Unfreeze(p) \/ Claim(p)
    \/ MkFreezeVol(p) \/ StartParent(p) \/ OwnParent(p) \/ TouchParent(p)
    \/ TouchChild(p) \/ StartChild(p) \/ OwnChild(p) \/ Commit(p) \/ MarkChild(p)
    \/ Restart(p) \/ Reown(p) \/ Remark(p) \/ Restop(p) \/ FailTarget(p)

Teardown(p) ==
    \/ ToResetting(p) \/ ReadDestroy(p) \/ ToDestroying(p) \/ Halt(p) \/ Guard(p)
    \/ RmVol(p) \/ FailNote(p) \/ ToDestroyed(p) \/ GCCheck(p) \/ GCVol(p) \/ GCRow(p)

PlanStep(p) ==
    \/ PlanReap(p) \/ PlanRetry(p) \/ FailStuck(p) \/ PlanLost(p) \/ PlanOrphan(p)
    \/ PlanGCLayer(p) \/ PlanGCVolume(p)

ReconcileStep(p) ==
    \/ ApplyReap(p) \/ ApplyRetry(p) \/ Reread(p) \/ ApplyLost(p) \/ Stray(p)
    \/ LostStart(p) \/ LostOwn(p) \/ LostMark(p) \/ LostDrop(p) \/ FailReady(p)
    \/ CheckOrphan(p) \/ RmOrphan(p) \/ CheckLiveRows(p) \/ CheckLiveLayers(p)
    \/ RmOrphanVolume(p)

\* The next step of a process that is in the middle of something.
Step(p) == Provision(p) \/ FreezeSaga(p) \/ Teardown(p) \/ ReconcileStep(p)

EngineNext ==
    \/ \E p \in Procs : \/ Request(p) \/ Step(p) \/ PlanStep(p)
                        \/ StepFails(p) \/ Crash(p)
    \/ \E k \in ctrs : LoseContainer(k)
    \/ \E id \in RowIds : AgeRow(id) \/ ExpireRow(id)

Idles == /\ proc = [p \in Procs |-> Idle]
         /\ \E b \in Budgets : ops = b[1] /\ faults = b[2]

EngineInit == /\ RegistryInit /\ Idles
              /\ vols = [v \in Vols |-> None] /\ ctrs = {}

\* The journal of a created branch, and what a freeze adds to its parent's.
Born == <<<<"absent", "creating">>, <<"creating", "ready">>>>
Refrozen == <<<<"ready", "resetting">>, <<"resetting", "ready">>>>

\* One branch n has been created, as row id on container c.
ReadyInit(id, n, c) ==
    /\ branches = [i \in RowIds |-> IF i = id
          THEN [NoRow EXCEPT !.name = n, !.state = "ready", !.rw = <<n, 1>>, !.cid = c]
          ELSE NoRow]
    /\ layers = [l \in LayerIds |-> NoLayer]
    /\ journal = [i \in RowIds |-> IF i = id /\ KeepJournal THEN Born ELSE << >>]
    /\ vols = [v \in Vols |-> IF v = <<n, 1>> THEN id ELSE None]
    /\ ctrs = {[cid |-> c, name |-> n, row |-> id, rw |-> <<n, 1>>, lowers |-> {}, up |-> TRUE]}
    /\ Idles

\* Then branch kn was created from it, as row kid on kc: the parent's first
\* volume is the layer below both.  Each further layer of ls, oldest first, is from
\* a freeze of the parent for a child that is destroyed by now.
FamilyInit(id, n, c, kid, kn, kc, ls) ==
    LET frozen(k) == {<<n, i>> : i \in 1..k}
        depth(i) == IF i = id THEN Len(ls) ELSE 1
        row(i) == IF i = id THEN [NoRow EXCEPT !.name = n, !.rw = <<n, Len(ls) + 1>>, !.cid = c]
                  ELSE [NoRow EXCEPT !.name = kn, !.rw = <<kn, 1>>, !.cid = kc, !.parent = n]
    IN
    /\ branches = [i \in RowIds |-> IF i \in {id, kid}
          THEN [row(i) EXCEPT !.state = "ready", !.base = ls[depth(i)]] ELSE NoRow]
    /\ layers = [m \in LayerIds |-> IF \E i \in DOMAIN ls : ls[i] = m
          THEN LET i == CHOOSE k \in DOMAIN ls : ls[k] = m
               IN [st |-> "live", vol |-> <<n, i>>, prev |-> IF i = 1 THEN None ELSE ls[i - 1]]
          ELSE NoLayer]
    /\ journal = [i \in RowIds |->
          CASE i = id /\ KeepJournal -> Born \o [k \in 1..(2 * Len(ls)) |-> Refrozen[2 - (k % 2)]]
            [] i = kid /\ KeepJournal -> Born
            [] OTHER -> << >>]
    /\ vols = [v \in Vols |-> CASE v \in frozen(Len(ls) + 1) -> id
                                [] v = <<kn, 1>> -> kid [] OTHER -> None]
    /\ ctrs = {[cid |-> row(i).cid, name |-> row(i).name, row |-> i, rw |-> row(i).rw,
                lowers |-> frozen(depth(i)), up |-> TRUE] : i \in {id, kid}}
    /\ Idles

EngineSpec == EngineInit /\ [][EngineNext]_engineVars

\* RunReconcile repeats the pass as long as the daemon lives, and a pass applies
\* every action it planned; a call returns or times out; time passes.
Fairness ==
    /\ \A p \in Procs : WF_engineVars(Step(p))
    /\ \A p \in Reconcilers :
        /\ SF_engineVars(PlanReap(p)) /\ SF_engineVars(PlanRetry(p))
        /\ SF_engineVars(FailStuck(p)) /\ SF_engineVars(PlanLost(p))
        /\ SF_engineVars(PlanOrphan(p)) /\ SF_engineVars(PlanGCLayer(p))
        /\ SF_engineVars(PlanGCVolume(p))
    /\ \A id \in RowIds : WF_engineVars(AgeRow(id))

-----------------------------------------------------------------------------
(* Properties. *)

Serving(id) == branches[id].state = "ready" /\ Up(branches[id].cid)

\* A branch in service writes to its own data: nothing that runs beside it (a
\* freeze's swap and its undo, a reset, fail_stuck, gc_volume) removes, replaces
\* or hands out the volume its row names.
OwnDataIntact ==
    \A id \in RowIds : Serving(id) => vols[branches[id].rw] = id

\* No live branch is left with a hole in its layer chain: gcLayers and gc_layer
\* count references in one step and delete the row in a later one, and a
\* branch-from-branch may chain layers in between.
ChainsLive == \A id \in LiveRows : ChainOK(id)

\* The frozen layers below a live branch are all there, and below a branch in
\* service so are their volumes.
StackIntact ==
    /\ ChainsLive
    /\ \A id \in RowIds : Serving(id) => \A v \in VolsOf(LayerChain(id)) : HasData(v)

\* No two containers write to one volume: a postgres never shares its data
\* directory, whatever sagas, retries and leftovers of crashed ones overlap.
OneWriter == \A j, k \in ctrs : j.rw = k.rw => j = k

\* The container a row records is its own (docker), or at least one of its name
\* (kube, where a pod is known by its name): connections are never routed to
\* another branch.
RoutesToOwn ==
    \A id \in RowIds, k \in ctrs : k.cid = branches[id].cid =>
        k.name = branches[id].name /\ (Docker => k.row = id)

\* The container a ready row routes to mounts exactly the row's own stack: the
\* columns MarkBranchReady, CommitFreeze and SetBranchContainer write agree with
\* what was started, whichever sagas overlapped.
ServesOwnStack ==
    \A id \in RowIds, k \in ctrs :
        branches[id].state = "ready" /\ k.cid = branches[id].cid =>
            k.row = id /\ k.rw = branches[id].rw /\ k.lowers = VolsOf(LayerChain(id))

\* No process takes away the container of a branch in service whose row it has
\* not moved, unless it started that container itself: sagas and reconcile remove
\* only what is nobody's, or theirs.
SparesServing ==
    [][\A p \in Procs, id \in RowIds :
          (/\ proc'[p] # proc[p] /\ proc[p].new # branches[id].cid
           /\ Serving(id) /\ branches'[id] = branches[id])
          => Serving(id)']_engineVars

\* A step of a process takes away only containers of the branch it works for, or
\* of its parent in a freeze; the removal of an orphan only that one, and only if
\* no row that was read before could own it.
SparesOthers ==
    [][\A p \in Procs, k \in ctrs :
          proc'[p] # proc[p] /\ k \notin ctrs' =>
             IF proc[p].op = "orphan" THEN k.cid = proc[p].cid /\ k.row \notin proc[p].seen
             ELSE /\ k.name \in {proc[p].name, proc[p].pname}
                  /\ Docker => k.row \in {proc[p].id, proc[p].pid}]_engineVars

\* A row's rw volume changes only by a freeze, which makes the old one the live
\* layer right below the new one: the data written so far stays in the stack.
FreezeKeepsData ==
    [][\A id \in RowIds :
        Exists(id) /\ branches'[id].rw # branches[id].rw =>
            \E l \in LayerIds : /\ branches'[id].base = l
                                /\ layers'[l].st = "live"
                                /\ layers'[l].vol = branches[id].rw
                                /\ layers'[l].prev = branches[id].base]_engineVars

\* Reconcile has nothing left to do: no row is in flight or expired, every ready
\* row's container runs, every container belongs to a row, every frozen layer is
\* below somebody, every volume is accounted for, unless the container that a
\* failed row still records holds it: that one goes when the row is recovered,
\* reset or destroyed.
HeldByFailed(v) == \E k \in ctrs, id \in RowIds :
    /\ branches[id].state = "failed" /\ branches[id].cid = k.cid
    /\ v \in k.lowers \cup {k.rw}

Converged ==
    /\ \A id \in LiveRows : branches[id].state \in {"ready", "failed"} /\ ~Expired(id)
    /\ \A id \in RowIds : branches[id].state = "ready" => Up(branches[id].cid)
    /\ \A k \in ctrs : k.cid \in Recorded
    /\ \A l \in LiveLayers : ReferencingLayer(l) # {}
    /\ \A v \in Vols : Managed(v) => v \in LiveVolumeSet \/ HeldByFailed(v)

\* Whatever crashes and errors did, reconcile ends with nothing left to repair.
Converges == <>[]Converged
=============================================================================
