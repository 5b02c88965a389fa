------------------------------- MODULE Clones -------------------------------
(***************************************************************************)
(* The clone backends on kubernetes: csi, where a branch's writable layer  *)
(* is a PVC cloned from its base, and zfs, where it is a dataset cloned    *)
(* from a snapshot of its base (internal/engine: csi.go, zfs.go, saga.go,  *)
(* diff.go; internal/runtime/kube_csi.go).                                 *)
(*                                                                         *)
(* The base is the source's volume or the parent branch's own volume, so   *)
(* unlike the overlay sagas a child depends on the parent's live data each *)
(* time it is provisioned: csi stops the parent around the clone, zfs      *)
(* takes an atomic snapshot.  A pod is identified by its branch's name.    *)
(*                                                                         *)
(* A step is one call on the registry or the cluster, with the checks      *)
(* before it; `proc' holds what the code holds in variables.  A fault is a *)
(* call that fails, with or without effect, or a crash.                    *)
(***************************************************************************)
EXTENDS Naturals, FiniteSets

CONSTANTS
    RowCount,      \* bound on rows ever inserted; a row's id is its age
    Names,         \* branch names
    TwName,        \* the random name a diff's throwaway takes, one of Names
    MaxGen,        \* bound on a name's volume generations
    Procs,         \* processes running operations
    Reconcilers,   \* those of them that run reconcile passes instead
    Budgets,       \* bounds on operations started and faults, as pairs
    Source,        \* the source's current volume
    None

ASSUME ClonesAssumption == /\ RowCount \in Nat \ {0} /\ MaxGen \in Nat \ {0}
                           /\ Budgets \subseteq Nat \X Nat
                           /\ TwName \in Names /\ Reconcilers \subseteq Procs

VARIABLES
    backend,   \* "csi" or "zfs", fixed for good
    rows,      \* the registry's branch rows
    vols,      \* PVCs or datasets
    snaps,     \* zfs snapshots
    pods,      \* the pod under each branch name
    proc, ops, faults

world == <<vols, snaps, pods>>
cloneVars == <<backend, rows, vols, snaps, pods, proc, ops, faults>>

RowIds == 1..RowCount
Vols == {Source} \cup (Names \X (1..MaxGen))
csi == backend = "csi"
zfs == backend = "zfs"

-----------------------------------------------------------------------------
(* The registry. `rec': a container is recorded. `base' is no column: the    *)
(* row whose data this one was branched from (a history variable).           *)

NoRow == [state |-> "absent", name |-> None, rw |-> None, src |-> None, parent |-> None,
          rec |-> FALSE, ttl |-> "never", stale |-> FALSE, base |-> None]

LiveRows == {id \in RowIds : rows[id].state \notin {"absent", "destroyed"}}
ByName(n) == {id \in LiveRows : rows[id].name = n}
Unused == {id \in RowIds : rows[id].state = "absent"}

legalBranch(s) == CASE s \in {"creating", "resetting"} -> {"ready", "failed"}
                    [] s \in {"ready", "failed"}       -> {"resetting", "destroying"}
                    [] s = "destroying"                -> {"destroyed"}
                    [] OTHER                           -> {}

Can(id, to) == to \in legalBranch(rows[id].state)
TransitionBranch(id, to) ==
    rows' = IF Can(id, to) THEN [rows EXCEPT ![id].state = to, ![id].stale = FALSE] ELSE rows

CountLiveBranchesByVolume(v) == Cardinality({id \in LiveRows : rows[id].src = v})
CountLiveBranchesByRWVolume(v) == Cardinality({id \in LiveRows : rows[id].rw = v})
InFlightChildren(n) == {id \in RowIds : rows[id].state = "creating" /\ rows[id].parent = n}

\* No clone backend row has a base layer, so naming the parent is enough.
CountLiveBranchesReferencingRW(n, v) ==
    {id \in LiveRows : rows[id].name # n /\ (rows[id].src = v \/ rows[id].parent = n)}

\* freshBranchLayer: zfs keeps the plain name; csi takes a name no row ever had.
FreshGens(n) == IF zfs THEN {1} ELSE {g \in 1..MaxGen : \A id \in RowIds : rows[id].rw # <<n, g>>}
freshBranchLayer(n) == <<n, CHOOSE g \in FreshGens(n) : \A h \in FreshGens(n) : g <= h>>

-----------------------------------------------------------------------------
(* The cluster.  A volume holds the data `of' a row, copied `from' the data  *)
(* of another.  A PVC clone is filled when its first consumer runs; until    *)
(* then it is not `full', and it is `torn' once a pod has run on the volume  *)
(* it copies.  A PVC in use is deleted (`term') when its pod goes.           *)

Volume(id, from, src, full, torn) ==
    [of |-> id, from |-> from, src |-> src, full |-> full, torn |-> torn, term |-> FALSE]

Has(v) == vols[v] # None
InUse(v) == \E n \in Names : pods[n] # None /\ pods[n].vol = v
Up(n) == pods[n] # None /\ Has(pods[n].vol) /\ vols[pods[n].vol].full

Marked(v) == [w \in Vols |-> IF Has(w) /\ ~vols[w].full /\ vols[w].src = v
                             THEN [vols[w] EXCEPT !.torn = TRUE] ELSE vols[w]]

StartBranch(n, id, v) ==
    /\ pods' = [pods EXCEPT ![n] = [row |-> id, vol |-> v]]
    /\ vols' = Marked(v) /\ UNCHANGED snaps

StopRemove(n) ==
    /\ pods' = [pods EXCEPT ![n] = None]
    /\ vols' = [v \in Vols |-> IF Has(v) /\ vols[v].term /\ v[1] = n THEN None ELSE vols[v]]
    /\ UNCHANGED snaps

\* cloneVolume: the PVC with its dataSource; nothing is copied yet.
cloneVolume(id, src, dst) ==
    /\ vols' = [vols EXCEPT ![dst] = Volume(id, None, src, FALSE, InUse(src))]
    /\ UNCHANGED <<snaps, pods>>

\* The clone's first consumer: the data is copied now.
Consume(v) ==
    /\ vols' = [vols EXCEPT ![v].full = TRUE, ![v].from = vols[vols[v].src].of,
                            ![v].torn = @ \/ InUse(vols[v].src)]
    /\ UNCHANGED <<snaps, pods>>

Delete(v) == vols' = [vols EXCEPT ![v] = None] /\ UNCHANGED <<snaps, pods>>

\* zfs snapshot src@n, and the clone of it.
ZFSSnapshot(src, n) ==
    /\ snaps' = snaps \cup {[ds |-> src, name |-> n, from |-> vols[src].of]}
    /\ UNCHANGED <<vols, pods>>

ZFSClone(id, snap, dst) ==
    /\ vols' = [vols EXCEPT ![dst] = Volume(id, snap.from, <<snap.ds, snap.name>>, TRUE, FALSE)]
    /\ UNCHANGED <<snaps, pods>>

\* zfs destroy refuses a dataset that is mounted or has a cloned snapshot, and
\* a snapshot that is cloned; -r takes the dataset's own snapshots along.
Cloned(ds, n) == \E v \in Vols : Has(v) /\ vols[v].src = <<ds, n>>
CanDestroy(v) == ~InUse(v) /\ \A n \in Names : ~Cloned(v, n)
ZFSDestroy(v) == /\ vols' = [vols EXCEPT ![v] = None]
                 /\ snaps' = {s \in snaps : s.ds # v} /\ UNCHANGED pods
ZFSDestroySnapshot(ds, n) == /\ snaps' = {s \in snaps : <<s.ds, s.name>> # <<ds, n>>}
                             /\ UNCHANGED <<vols, pods>>

-----------------------------------------------------------------------------
(* Steps of a process. `pid': the parent this process stopped and has to     *)
(* bring back; `again': its second attempt; `undo': what it has made.        *)

Idle == [op |-> "none", pc |-> "idle", id |-> None, name |-> None, rw |-> None,
         src |-> None, rec |-> FALSE, par |-> None, pid |-> None, again |-> FALSE,
         guarded |-> FALSE, waits |-> FALSE, late |-> FALSE, undo |-> {}]

At(p, pc) == proc[p].pc = pc
GoWith(p, q) == proc' = [proc EXCEPT ![p] = q]
Go(p, pc) == proc' = [proc EXCEPT ![p].pc = pc]
End(p) == GoWith(p, Idle)
NoFault == UNCHANGED faults
Fault == faults > 0 /\ faults' = faults - 1
Reading == NoFault /\ UNCHANGED <<backend, rows, world, ops>>
Registering == NoFault /\ UNCHANGED <<backend, world, ops>>

\* A call on the cluster: its effect, or an error with or without it.
Call(p, possible, effect, ok, err) ==
    /\ UNCHANGED <<backend, rows, ops>>
    /\ \/ possible /\ effect /\ NoFault /\ GoWith(p, ok)
       \/ possible /\ (effect \/ UNCHANGED world) /\ Fault /\ GoWith(p, err)
       \/ ~possible /\ UNCHANGED world /\ NoFault /\ GoWith(p, err)

\* A call under the request's context, which ends at the API's deadline.
CtxCall(p, possible, effect, ok, err) == Call(p, ~proc[p].late /\ possible, effect, ok, err)

\* csi's RemoveVolume deletes the PVC and waits until it is gone, for ever or up
\* to a time limit (`bounded'); zfs destroy fails at once if it has to.
RemoveLayer(p, v, bounded, ok, err) ==
    \/ zfs /\ Call(p, CanDestroy(v), ZFSDestroy(v), ok, err)
    \/ csi /\ ~InUse(v) /\ Call(p, TRUE, Delete(v), [ok EXCEPT !.waits = FALSE],
                                                [err EXCEPT !.waits = FALSE])
    \/ /\ csi /\ InUse(v) /\ Has(v) /\ ~proc[p].waits /\ NoFault
       /\ vols' = [vols EXCEPT ![v].term = TRUE] /\ proc' = [proc EXCEPT ![p].waits = TRUE]
       /\ UNCHANGED <<backend, rows, snaps, pods, ops>>
    \/ /\ csi /\ proc[p].waits /\ InUse(v) /\ bounded /\ Reading
       /\ GoWith(p, [err EXCEPT !.waits = FALSE])

\* A compare-and-swap on a row's state.
Swap(p, id, to, ok, err) ==
    /\ Registering /\ TransitionBranch(id, to)
    /\ GoWith(p, IF Can(id, to) THEN ok ELSE err)

\* The next request; which of the idle processes takes it makes no difference.
Begin(p) == /\ p \notin Reconcilers /\ \A i \in Procs \ Reconcilers : At(i, "idle") => p <= i
            /\ At(p, "idle") /\ ops > 0 /\ ops' = ops - 1
            /\ NoFault /\ UNCHANGED <<backend, rows, world>>

\* Where provisioning starts.
Provision == IF zfs THEN "snapshot" ELSE "target"

-----------------------------------------------------------------------------
(* CreateBranch, CreateBranchFrom, DiffBranch: up to the row. *)

\* A csi child's parent is live, on the volume the child was cloned from, and
\* no younger than the child.
checkCSIChildBase(id) ==
    csi /\ rows[id].parent # None =>
        \E b \in ByName(rows[id].parent) : rows[b].rw = rows[id].src /\ b <= id

CreateBranch(p, n) ==
    /\ Begin(p) /\ FreshGens(n) # {}
    /\ GoWith(p, [Idle EXCEPT !.op = "create", !.pc = "insert", !.name = n,
                              !.rw = freshBranchLayer(n), !.src = Source])

CreateBranchFrom(p, n, pn) ==
    /\ Begin(p) /\ FreshGens(n) # {}
    /\ \E b \in ByName(pn) :
        /\ rows[b].state = "ready"
        /\ GoWith(p, [Idle EXCEPT !.op = "from", !.pc = "insert", !.name = n, !.par = b,
                                  !.rw = freshBranchLayer(n), !.src = rows[b].rw])

\* The throwaway copies the target's base; on csi it names the target's parent.
\* Its name is random: no row has had it.
DiffBranch(p, n) ==
    /\ Begin(p) /\ \A id \in RowIds : rows[id].name # TwName
    /\ \E b \in ByName(n) :
        /\ rows[b].state = "ready" /\ checkCSIChildBase(b)
        /\ GoWith(p, [Idle EXCEPT !.op = "diff", !.pc = "insert", !.name = TwName, !.par = b,
                                  !.rw = <<TwName, 1>>, !.src = rows[b].src])

\* The row each of them inserts.
RowOf(q) ==
    [NoRow EXCEPT !.state = "creating", !.name = q.name, !.rw = q.rw, !.src = q.src,
        !.parent = CASE q.op = "from"          -> rows[q.par].name
                     [] q.op = "diff" /\ csi   -> rows[q.par].parent
                     [] OTHER                  -> None,
        !.ttl = IF q.op = "diff" THEN "later" ELSE "never",
        !.base = CASE q.op = "from" -> q.par
                   [] q.op = "diff" -> rows[q.par].base
                   [] OTHER         -> Source]

InsertRow(p) ==
    LET q == proc[p]
        id == CHOOSE i \in Unused : \A j \in Unused : i <= j IN
    /\ At(p, "insert") /\ Registering
    /\ IF ByName(q.name) = {}
       THEN /\ Unused # {} /\ rows' = [rows EXCEPT ![id] = RowOf(q)]
            /\ GoWith(p, [q EXCEPT !.id = id, !.pc = Provision])
       ELSE End(p) /\ UNCHANGED rows

-----------------------------------------------------------------------------
(* provisionCSI. *)

\* Mutant: only a branch-from-branch stops the parent.
QuiesceFromOnly(q) ==
    {b \in ByName(rows[q.id].parent) : q.op = "from" /\ rows[b].rw = q.src /\ rows[b].rec}

\* csiQuiesceTarget: the live parent whose volume is about to be cloned.
csiQuiesceTarget(q) ==
    {b \in ByName(rows[q.id].parent) : rows[b].rw = q.src /\ rows[b].rec}

Target(p) ==
    LET q == proc[p]  par == csiQuiesceTarget(q) IN
    /\ At(p, "target") /\ Reading
    /\ GoWith(p, CASE par = {} -> [q EXCEPT !.pc = "clone"]
                   [] \E b \in par : rows[b].state # "ready" -> [q EXCEPT !.pc = "fail"]
                   [] OTHER -> [q EXCEPT !.pc = "quiesce", !.pid = CHOOSE b \in par : TRUE])

Quiesce(p) ==
    LET q == proc[p] IN
    /\ At(p, "quiesce")
    /\ Swap(p, q.pid, "resetting", [q EXCEPT !.pc = "checkpoint"],
            [q EXCEPT !.pc = "fail", !.pid = None])

\* CHECKPOINT in the parent's pod; on failure the parent is ready again.
Checkpoint(p) ==
    LET q == proc[p] IN
    /\ At(p, "checkpoint")
    /\ CtxCall(p, Up(rows[q.pid].name), UNCHANGED world, [q EXCEPT !.pc = "stop"],
            [q EXCEPT !.pc = "unquiesce"])

Unquiesce(p) ==
    LET q == proc[p] IN
    /\ At(p, "unquiesce") /\ Registering /\ TransitionBranch(q.pid, "ready")
    /\ GoWith(p, [q EXCEPT !.pc = "fail", !.pid = None])

\* Stop the parent; not knowing whether it stopped, fail it.
StopParent(p) ==
    LET q == proc[p] IN
    /\ At(p, "stop")
    /\ Call(p, TRUE, StopRemove(rows[q.pid].name), [q EXCEPT !.pc = "clone"],
            [q EXCEPT !.pc = "failparent"])

\* The parent could not be stopped, or could not be restarted.
FailParent(p) ==
    LET q == proc[p] IN
    /\ At(p, "failparent") /\ Registering /\ TransitionBranch(q.pid, "failed")
    /\ GoWith(p, IF q.op = "recover" THEN Idle ELSE [q EXCEPT !.pc = "fail", !.pid = None])

CloneVolume(p) ==
    LET q == proc[p] IN
    /\ At(p, "clone")
    /\ CtxCall(p, ~Has(q.rw), cloneVolume(q.id, q.src, q.rw),
            [q EXCEPT !.pc = "install", !.undo = {"vol"}], [q EXCEPT !.pc = "undo"])

\* installDirectEntrypoint, then the parent, if it was stopped, comes back.
Install(p) ==
    LET q == proc[p]  v == q.rw IN
    /\ At(p, "install")
    /\ CtxCall(p, Has(v) /\ (vols[v].full \/ (Has(vols[v].src) /\ vols[vols[v].src].full)),
            IF vols[v].full THEN UNCHANGED world ELSE Consume(v),
            [q EXCEPT !.pc = IF q.pid # None THEN "pstart" ELSE "start"],
            [q EXCEPT !.pc = "undo"])

-----------------------------------------------------------------------------
(* restartAndMarkReady: the quiesced parent, or a recovered branch, on its   *)
(* own volume.                                                               *)

\* A first failure unwinds the clone and tries again; a second fails the row.
RestartFailed(q) == [q EXCEPT !.pc = IF q.again THEN "failparent" ELSE "undo"]

RestartStart(p) ==
    LET q == proc[p]  n == rows[q.pid].name IN
    /\ At(p, "pstart")
    /\ Call(p, pods[n] = None, StartBranch(n, q.pid, rows[q.pid].rw), [q EXCEPT !.pc = "pown"],
            RestartFailed(q))

RestartOwn(p) ==
    LET q == proc[p] IN
    /\ At(p, "pown") /\ Registering /\ Go(p, "pmark")
    /\ rows' = [rows EXCEPT ![q.pid].rec = TRUE, ![q.pid].stale = FALSE]

\* A branch that is back lets its child's saga go on, or ends the recovery.
RestartMark(p) ==
    LET q == proc[p] IN
    /\ At(p, "pmark")
    /\ \/ /\ Up(rows[q.pid].name)
          /\ Swap(p, q.pid, "ready",
                  CASE q.op = "recover" -> Idle
                    [] q.again          -> [q EXCEPT !.pc = "fail", !.pid = None]
                    [] OTHER            -> [q EXCEPT !.pc = "start", !.pid = None],
                  [q EXCEPT !.pc = "pdrop"])
       \/ /\ ~Up(rows[q.pid].name) /\ Reading /\ Go(p, "pdrop")

RestartDrop(p) ==
    LET q == proc[p] IN
    /\ At(p, "pdrop")
    /\ Call(p, TRUE, StopRemove(rows[q.pid].name), RestartFailed(q), RestartFailed(q))

-----------------------------------------------------------------------------
(* provisionZFS, and the tail both share. *)

Snapshot(p) ==
    LET q == proc[p] IN
    /\ At(p, "snapshot")
    /\ CtxCall(p, Has(q.src) /\ ~\E s \in snaps : s.ds = q.src /\ s.name = q.name,
            ZFSSnapshot(q.src, q.name), [q EXCEPT !.pc = "zclone", !.undo = {"snap"}],
            [q EXCEPT !.pc = "undo"])

CloneSnapshot(p) ==
    LET q == proc[p]  of == {s \in snaps : s.ds = q.src /\ s.name = q.name} IN
    /\ At(p, "zclone")
    /\ CtxCall(p, ~Has(q.rw) /\ of # {}, ZFSClone(q.id, CHOOSE s \in of : TRUE, q.rw),
            [q EXCEPT !.pc = "start", !.undo = @ \cup {"vol"}], [q EXCEPT !.pc = "undo"])

\* The entrypoint is installed (zfs: here) and the pod started.
Start(p) ==
    LET q == proc[p] IN
    /\ At(p, "start")
    /\ CtxCall(p, pods[q.name] = None, StartBranch(q.name, q.id, q.rw),
            [q EXCEPT !.pc = "own", !.undo = @ \cup {"pod"}], [q EXCEPT !.pc = "undo"])

\* awaitAndMark: record the pod, wait for it, mark the row ready.  A diff then
\* dumps both instances, which changes nothing, and destroys its throwaway.
Own(p) ==
    /\ At(p, "own") /\ Registering /\ Go(p, "mark")
    /\ rows' = [rows EXCEPT ![proc[p].id].rec = TRUE, ![proc[p].id].stale = FALSE]

Mark(p) ==
    LET q == proc[p]  undo == [q EXCEPT !.pc = "undo"] IN
    /\ At(p, "mark")
    /\ \/ /\ Up(q.name) /\ ~q.late
          /\ Swap(p, q.id, "ready", IF q.op = "diff" THEN [q EXCEPT !.pc = "destroy"] ELSE Idle,
                  undo)
       \/ /\ (~Up(q.name) \/ q.late) /\ Reading /\ GoWith(p, undo)
       \/ /\ Up(q.name) /\ Fault /\ UNCHANGED <<backend, rows, world, ops>> /\ GoWith(p, undo)

\* The compensations, last made first; each may fail and is not repeated.
Undo(p) ==
    LET q == proc[p]  done(what) == [q EXCEPT !.undo = @ \ {what}] IN
    /\ At(p, "undo")
    /\ CASE "pod" \in q.undo -> Call(p, TRUE, StopRemove(q.name), done("pod"), done("pod"))
         [] "pod" \notin q.undo /\ "vol" \in q.undo ->
                RemoveLayer(p, q.rw, FALSE, done("vol"), done("vol"))
         [] q.undo = {"snap"} ->
                Call(p, ~Cloned(q.src, q.name), ZFSDestroySnapshot(q.src, q.name),
                     done("snap"), done("snap"))
         [] OTHER -> /\ Reading
                     /\ GoWith(p, IF q.pid # None THEN [q EXCEPT !.pc = "pstart", !.again = TRUE]
                                                  ELSE [q EXCEPT !.pc = "fail"])

\* The caller fails the row; a diff destroys its throwaway all the same.
Fail(p) ==
    LET q == proc[p] IN
    /\ At(p, "fail") /\ Registering /\ TransitionBranch(q.id, "failed")
    /\ GoWith(p, IF q.op = "diff" THEN [q EXCEPT !.pc = "destroy"] ELSE Idle)

-----------------------------------------------------------------------------
(* ResetBranch, RecoverBranch, DestroyBranch. *)

checkChildrenAllowReprovision(id) ==
    /\ zfs => CountLiveBranchesByVolume(rows[id].rw) = 0
    /\ InFlightChildren(rows[id].name) = {}

\* The row as an operation reads it.
RowRead(op, pc, id) ==
    [Idle EXCEPT !.op = op, !.pc = pc, !.id = id, !.name = rows[id].name, !.rw = rows[id].rw,
                 !.src = rows[id].src, !.rec = rows[id].rec]

ResetBranch(p, n) ==
    /\ Begin(p)
    /\ \E id \in ByName(n) : /\ checkCSIChildBase(id) /\ checkChildrenAllowReprovision(id)
                             /\ GoWith(p, RowRead("reset", "resetting", id))

\* checkBranchData: the PVC, or the dataset, is there.
RecoverBranch(p, n) ==
    /\ Begin(p)
    /\ \E id \in ByName(n) : /\ rows[id].state = "failed" /\ checkChildrenAllowReprovision(id)
                             /\ Has(rows[id].rw)
                             /\ GoWith(p, RowRead("recover", "resetting", id))

ToResetting(p) ==
    /\ At(p, "resetting")
    /\ Swap(p, proc[p].id, "resetting", [proc[p] EXCEPT !.pc = "halt"], Idle)

Destroys(q) == q.op \in {"destroy", "reap", "retry", "diff"}

\* Remove the recorded pod.  Recover then restarts on the volume.
Halt(p) ==
    LET q == proc[p]
        next == [q EXCEPT !.pc = CASE q.op = "recover" -> "pstart"
                                   [] q.op = "reset"   -> "rmlayer"
                                   [] OTHER            -> "guard",
                          !.pid = IF q.op = "recover" THEN q.id ELSE None,
                          !.again = q.op = "recover"] IN
    /\ At(p, "halt")
    /\ IF q.rec
       THEN Call(p, TRUE, StopRemove(q.name), next,
                 CASE Destroys(q)          -> Idle
                   [] q.op = "failstuck"   -> next
                   [] OTHER                -> [q EXCEPT !.pc = "fail"])
       ELSE Reading /\ GoWith(p, next)

\* A forced teardown keeps a volume another live branch refers to.
Guard(p) ==
    LET q == proc[p] IN
    /\ At(p, "guard") /\ Reading
    /\ GoWith(p, IF q.guarded /\ CountLiveBranchesReferencingRW(q.name, q.rw) # {}
                 THEN IF Destroys(q) THEN [q EXCEPT !.pc = "destroyed"] ELSE Idle
                 ELSE [q EXCEPT !.pc = "rmlayer"])

\* removeBranchLayer: the volume, then on zfs the snapshot it was cloned from.
AfterLayer(q) == CASE Destroys(q)      -> [q EXCEPT !.pc = "destroyed"]
                   [] q.op = "reset"   -> [q EXCEPT !.pc = Provision]
                   [] OTHER            -> Idle
LayerFailed(q) == IF q.op = "reset" THEN [q EXCEPT !.pc = "fail"] ELSE Idle

RmLayer(p) ==
    LET q == proc[p] IN
    /\ At(p, "rmlayer")
    /\ RemoveLayer(p, q.rw, TRUE, IF zfs THEN [q EXCEPT !.pc = "rmsnap"] ELSE AfterLayer(q),
                   LayerFailed(q))

RmSnap(p) ==
    LET q == proc[p] IN
    /\ At(p, "rmsnap")
    /\ Call(p, ~Cloned(q.src, q.name), ZFSDestroySnapshot(q.src, q.name),
            AfterLayer(q), LayerFailed(q))

\* DestroyBranch reads the row; a zfs parent stays while children live.  A retry
\* is journaled, which touches the row (NoteBranchCtx).
ReadDestroy(p) ==
    LET q == proc[p] IN
    /\ At(p, "destroy") /\ Registering
    /\ rows' = [id \in RowIds |->
          IF id \in ByName(q.name) /\ rows[id].state = "destroying"
          THEN [rows[id] EXCEPT !.stale = FALSE] ELSE rows[id]]
    /\ GoWith(p, IF \E id \in ByName(q.name) : zfs => CountLiveBranchesByVolume(rows[id].rw) = 0
                 THEN LET id == CHOOSE i \in ByName(q.name) : TRUE IN
                      [RowRead(q.op, CASE rows[id].state = "destroying"          -> "halt"
                                       [] rows[id].state \in {"ready", "failed"} -> "destroying"
                                       [] OTHER                                  -> "force", id)
                          EXCEPT !.guarded = rows[id].state \notin {"ready", "failed"}]
                 ELSE Idle)

\* A row wedged in creating or resetting is forced to failed first.
Force(p) ==
    /\ At(p, "force") /\ Swap(p, proc[p].id, "failed", [proc[p] EXCEPT !.pc = "destroying"], Idle)
ToDestroying(p) ==
    /\ At(p, "destroying") /\ Swap(p, proc[p].id, "destroying", [proc[p] EXCEPT !.pc = "halt"], Idle)
ToDestroyed(p) ==
    /\ At(p, "destroyed") /\ Swap(p, proc[p].id, "destroyed", [proc[p] EXCEPT !.pc = "gc"], Idle)

\* Mutant: a volume that is a live branch's own counts as unused.
GCCheckSourceOnly(p) ==
    LET q == proc[p] IN
    /\ At(p, "gc") /\ Reading
    /\ GoWith(p, IF q.src = Source \/ CountLiveBranchesByVolume(q.src) > 0
                 THEN Idle ELSE [q EXCEPT !.pc = "gcvol"])

\* gcSourceVolume: the base goes with its last user, unless it is the source's
\* current generation or a live branch's own volume.
GCCheck(p) ==
    LET q == proc[p] IN
    /\ At(p, "gc") /\ Reading
    /\ GoWith(p, IF \/ q.src = Source \/ CountLiveBranchesByVolume(q.src) > 0
                    \/ CountLiveBranchesByRWVolume(q.src) > 0
                 THEN Idle ELSE [q EXCEPT !.pc = "gcvol"])

GCVol(p) == At(p, "gcvol") /\ RemoveLayer(p, proc[p].src, TRUE, Idle, Idle)

-----------------------------------------------------------------------------
(* Reconcile's part, and the environment. *)

Plans(p) == p \in Reconcilers /\ At(p, "idle")

\* fail_stuck: the swap repeats the plan's criterion.
FailStuck(p) ==
    /\ Plans(p) /\ Registering
    /\ \E id \in RowIds :
        /\ rows[id].stale /\ rows[id].state \in {"creating", "resetting"}
        /\ TransitionBranch(id, "failed")
        /\ GoWith(p, [RowRead("failstuck", "reread", id) EXCEPT !.guarded = TRUE])

\* The saga may have recorded a container before the swap.
Reread(p) ==
    LET q == proc[p] IN
    /\ At(p, "reread") /\ Reading
    /\ GoWith(p, [q EXCEPT !.pc = "halt",
                           !.rec = IF q.id \in ByName(q.name) THEN rows[q.id].rec ELSE @])

\* reap and retry_destroy are planned for a row and re-checked by name, before
\* DestroyBranch reads the name again.
Reap(p) ==
    /\ Plans(p) /\ Reading
    /\ \E id \in RowIds : /\ rows[id].ttl = "expired" /\ rows[id].state \in {"ready", "failed"}
                          /\ GoWith(p, RowRead("reap", "recheck", id))
RetryDestroy(p) ==
    /\ Plans(p) /\ Reading
    /\ \E id \in RowIds : /\ rows[id].stale /\ rows[id].state = "destroying"
                          /\ GoWith(p, RowRead("retry", "recheck", id))

Recheck(p) ==
    LET q == proc[p] IN
    /\ At(p, "recheck") /\ Reading
    /\ IF \E id \in ByName(q.name) :
             IF q.op = "reap" THEN rows[id].ttl # "never" /\ rows[id].state \in {"ready", "failed"}
                              ELSE rows[id].state = "destroying"
       THEN Go(p, "destroy") ELSE End(p)

Crash(p) == /\ ~At(p, "idle") /\ Fault /\ End(p) /\ UNCHANGED <<backend, rows, world, ops>>

\* The rows a saga's keepAlive touches.  A diff has none, and only
\* CreateBranchFrom keeps the parent alive too.
KeptAlive(q) == CASE q.op \in {"create", "reset", "recover"} /\ q.pc # "resetting" -> {q.id}
                  [] q.op = "from" /\ q.pc # "insert" -> {q.id, q.par}
                  [] OTHER -> {}

\* A row not touched for the stuck timeout.  Heartbeats are in time, a destroy
\* gives up after destroyTimeout, half the stuck timeout, and a saga that holds
\* a row without a heartbeat has run into the API's deadline, the stuck timeout
\* since it began (mutateBranch), which is a fault: it can only unwind.
Holds(q, id) == q.pid = id \/ (q.op = "diff" /\ q.id = id)
Age(id) ==
    /\ rows[id].state \in {"creating", "resetting", "destroying"} /\ ~rows[id].stale
    /\ \A p \in Procs : /\ id \notin KeptAlive(proc[p])
                        /\ rows[id].state = "destroying" => proc[p].id # id
    /\ rows' = [rows EXCEPT ![id].stale = TRUE]
    /\ proc' = [p \in Procs |-> [proc[p] EXCEPT !.late = @ \/ Holds(proc[p], id)]]
    /\ IF \E p \in Procs : Holds(proc[p], id) THEN Fault ELSE NoFault
    /\ UNCHANGED <<backend, world, ops>>

Expire(id) ==
    /\ rows[id].ttl = "later" /\ id \in LiveRows
    /\ rows' = [rows EXCEPT ![id].ttl = "expired"] /\ UNCHANGED <<backend, world, proc, ops, faults>>

-----------------------------------------------------------------------------

Request(p) ==
    \E n \in Names :
        \/ n # TwName /\ CreateBranch(p, n)
        \/ \E pn \in Names \ {n} : n # TwName /\ CreateBranchFrom(p, n, pn)
        \/ n # TwName /\ DiffBranch(p, n)
        \/ ResetBranch(p, n)
        \/ RecoverBranch(p, n)
        \/ Begin(p) /\ GoWith(p, [Idle EXCEPT !.op = "destroy", !.pc = "destroy", !.name = n])

Step(p) ==
    \/ InsertRow(p) \/ Target(p) \/ Quiesce(p) \/ Checkpoint(p) \/ Unquiesce(p) \/ StopParent(p)
    \/ FailParent(p) \/ CloneVolume(p) \/ Install(p) \/ RestartStart(p) \/ RestartOwn(p)
    \/ RestartMark(p) \/ RestartDrop(p) \/ Snapshot(p) \/ CloneSnapshot(p) \/ Start(p) \/ Own(p)
    \/ Mark(p) \/ Undo(p) \/ Fail(p) \/ ToResetting(p) \/ Halt(p) \/ Guard(p) \/ RmLayer(p)
    \/ RmSnap(p) \/ ReadDestroy(p) \/ Reread(p) \/ Recheck(p) \/ Force(p)
    \/ ToDestroying(p) \/ ToDestroyed(p) \/ GCCheck(p) \/ GCVol(p)

Reconcile(p) == FailStuck(p) \/ Reap(p) \/ RetryDestroy(p)

CloneNext ==
    \/ \E p \in Procs : Request(p) \/ Step(p) \/ Reconcile(p) \/ Crash(p)
    \/ \E id \in RowIds : Age(id) \/ Expire(id)

\* A branch at rest: its row, its volume and its pod.
ReadyRow(n, v, src, parent, base) ==
    [NoRow EXCEPT !.state = "ready", !.name = n, !.rw = v, !.src = src, !.parent = parent,
                  !.rec = TRUE, !.base = base]

\* Branch pn, cloned from the source, and its child cn.  The parent is ready, or
\* failed with its data after reconcile could not restart it (FailReadyBranch).
CloneInit(pn, cn) ==
    LET pv == <<pn, 1>>  cv == <<cn, 1>> IN
    /\ backend \in {"csi", "zfs"}
    /\ \E state \in {"ready", "failed"} :
        /\ rows = [id \in RowIds |->
              CASE id = 1 -> [ReadyRow(pn, pv, Source, None, Source) EXCEPT !.state = state]
                [] id = 2 -> ReadyRow(cn, cv, pv, pn, 1)
                [] OTHER  -> NoRow]
        /\ pods = [n \in Names |->
              CASE n = pn /\ state = "ready" -> [row |-> 1, vol |-> pv]
                [] n = cn                    -> [row |-> 2, vol |-> cv]
                [] OTHER                     -> None]
    /\ snaps = IF zfs THEN {[ds |-> Source, name |-> pn, from |-> Source],
                            [ds |-> pv, name |-> cn, from |-> 1]} ELSE {}
    /\ vols = [v \in Vols |->
          CASE v = Source -> Volume(Source, None, None, TRUE, FALSE)
            [] v = pv -> Volume(1, Source, IF zfs THEN <<Source, pn>> ELSE Source, TRUE, FALSE)
            [] v = cv -> Volume(2, 1, IF zfs THEN <<pv, cn>> ELSE pv, TRUE, FALSE)
            [] OTHER -> None]
    /\ proc = [p \in Procs |-> Idle]
    /\ \E b \in Budgets : ops = b[1] /\ faults = b[2]

-----------------------------------------------------------------------------
(* Properties. *)

Serving(id) == rows[id].state = "ready" /\ Up(rows[id].name)

\* A branch that is ready and up runs on its own volume, and that volume is a
\* complete copy of what the branch was made from, taken while nothing wrote to
\* it: csi.go's stop-clone-install-restart order, the zfs snapshot, the refusal
\* to re-clone from a stranger under the parent's name, through resets, failed
\* steps, crashes and reconcile.
CloneIntact ==
    \A id \in RowIds : Serving(id) =>
        LET v == vols[pods[rows[id].name].vol] IN
        /\ pods[rows[id].name] = [row |-> id, vol |-> rows[id].rw]
        /\ v.of = id /\ v.from = rows[id].base /\ ~v.torn

Kept(v) == Has(v) /\ ~vols[v].term

\* The data of a live branch goes only with an operation on that branch: no
\* child's saga, compensation, teardown or garbage collection takes it
\* ("its PVC is untouched either way", and teardownBranch's guard).
DataKept ==
    [][\A id \in LiveRows :
          LET v == rows[id].rw IN
          Kept(v) /\ vols[v].of = id /\ ~Kept(v)' =>
              \E p \in Procs : proc[p].id = id /\ proc'[p] # proc[p]]_cloneVars
=============================================================================
