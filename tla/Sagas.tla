------------------------------- MODULE Sagas --------------------------------
(***************************************************************************)
(* The engine's overlay sagas over the registry and the runtime            *)
(* (internal/engine: saga.go, freeze.go, recover.go).                      *)
(*                                                                         *)
(* A process runs one operation at a time: an API call, a local pgb, or a  *)
(* reconcile pass's action.  Its local state is what the code holds in     *)
(* variables: the row as it was READ (id, rw, cid), the chain as read, the *)
(* containers it started and its undo stack.  Between two calls that touch *)
(* the registry or the runtime any other process may run; a step is one    *)
(* such call, with the checks and local work before it.                    *)
(*                                                                         *)
(* Faults, each costing one of the budget: a call fails without effect, a   *)
(* call takes effect but reports an error, a compensation fails.           *)
(***************************************************************************)
EXTENDS Runtime

CONSTANTS
    Procs,             \* processes running operations
    Reconcilers,       \* the processes that run reconcile passes instead
    Ops,               \* the operations they may start
    Budgets,           \* bounds on operations started and faults, as pairs
    MaxLayerDepth      \* --max-layer-depth

ASSUME SagasAssumption == Budgets \subseteq Nat \X Nat /\ MaxLayerDepth \in Nat

VARIABLES
    proc,     \* the local state of each process
    ops,      \* operations still to start
    faults    \* faults still to happen

engineVars == <<branches, layers, journal, vols, ctrs, proc, ops, faults>>

Idle == [op |-> "none", pc |-> "idle", id |-> None, name |-> None, rw |-> None,
         cid |-> None, ttl |-> "never", guarded |-> FALSE, pid |-> None,
         pname |-> None, prw |-> None, pcid |-> None, chain |-> << >>,
         newrw |-> None, new |-> None, pnew |-> None, seen |-> {}, undo |-> << >>]

-----------------------------------------------------------------------------
(* Steps of a process. *)

At(p, pc) == proc[p].pc = pc
Go(p, pc) == proc' = [proc EXCEPT ![p].pc = pc]
GoWith(p, new) == proc' = [proc EXCEPT ![p] = new]
End(p) == proc' = [proc EXCEPT ![p] = Idle]
Undo(p, kind, what) == Append(proc[p].undo, [kind |-> kind, what |-> what])
NoFault == UNCHANGED faults
Fault == faults > 0 /\ faults' = faults - 1

\* A registry call whose error is logged and ignored.
BestEffort(enabled, call) == IF enabled THEN call ELSE UNCHANGED regVars
CanGo(id, to) == to \in legalBranch(branches[id].state)

\* The last frame of every step: what it leaves alone.
OnlyRegistry == NoFault /\ UNCHANGED <<world, ops>>
OnlyLocal == UNCHANGED <<regVars, world, ops>>

\* newID: the next unused row.
Unused == {id \in RowIds : ~Exists(id)}
NewRow == CHOOSE id \in Unused : TRUE

\* Pick an operation: one of the budget, by an idle process.
Begin(p, op) == /\ p \notin Reconcilers /\ proc[p].pc = "idle" /\ op \in Ops /\ ops > 0
                /\ ops' = ops - 1
                /\ NoFault /\ UNCHANGED <<regVars, world>>

\* Ids known to somebody; docker never hands one of them out again.
KnownCids == {k.cid : k \in ctrs} \cup {branches[id].cid : id \in RowIds}
             \cup (UNION {{proc[p].cid, proc[p].pcid, proc[p].new, proc[p].pnew} : p \in Procs})
             \cup (UNION {{proc[p].undo[i].what : i \in DOMAIN proc[p].undo} : p \in Procs})

\* A pod is identified by its name; a docker container by a fresh id.
NewCid(n) == IF Docker THEN CHOOSE c \in Cids : c \notin KnownCids ELSE n

\* Bound: an id is left to hand out.
CidsLast == Docker => Cids \ KnownCids # {}

VolsOf(chain) == {layers[chain[i]].vol : i \in DOMAIN chain}

\* The server in a running container answers and has an address; one that has
\* exited or is gone never does.
waitReady(c) == Up(c)
inspectAddr(c) == Up(c)

\* freshBranchLayer: the lowest generation from g up that no row has used.
FreshGens(n, g) == {k \in g..MaxGen : ~VolumeNameUsed(<<n, k>>)}
FreshLayer(n, g) == <<n, CHOOSE k \in FreshGens(n, g) : \A j \in FreshGens(n, g) : k <= j>>

-----------------------------------------------------------------------------
(* CreateBranch, and the provision steps it shares with ResetBranch. *)

\* CreateBranch up to the insert: the volume name is picked.
StartCreate(p, n, ttl) ==
    /\ Begin(p, "create")
    /\ FreshGens(n, 1) # {}
    /\ GoWith(p, [Idle EXCEPT !.op = "create", !.pc = "insert", !.name = n,
                              !.rw = FreshLayer(n, 1), !.ttl = ttl])

\* Mutant: the name is checked by nobody at the insert.
InsertRowNoIndex(p) ==
    /\ At(p, "insert") /\ OnlyRegistry /\ Unused # {}
    /\ CreateBranchNoIndex(NewRow, proc[p].name, proc[p].rw, proc[p].pname, proc[p].ttl)
    /\ GoWith(p, [proc[p] EXCEPT !.id = NewRow,
          !.pc = IF proc[p].op = "create" THEN "mkvol" ELSE "plan"])

\* CreateBranchCtx, for a plain create and for a branch-from-branch child; the
\* index refuses a name that is live by now.
InsertRow(p) ==
    /\ At(p, "insert") /\ OnlyRegistry
    /\ IF ByName(proc[p].name) = {}
       THEN /\ Unused # {}
            /\ CreateBranch(NewRow, proc[p].name, proc[p].rw, proc[p].pname, proc[p].ttl)
            /\ GoWith(p, [proc[p] EXCEPT !.id = NewRow,
                  !.pc = IF proc[p].op = "create" THEN "mkvol" ELSE "plan"])
       ELSE End(p) /\ UNCHANGED regVars

\* provision: read the chain, CreateVolume.
MkVol(p) ==
    LET q == proc[p] IN
    /\ At(p, "mkvol") /\ UNCHANGED <<regVars, ctrs, ops>>
    /\ IF ChainOK(q.id) /\ CanCreate(q.rw)
       THEN /\ vols' = Created(q.rw, q.id)
            /\ \/ NoFault /\ GoWith(p, [q EXCEPT !.pc = "start", !.chain = LayerChain(q.id),
                                          !.undo = Undo(p, "vol", q.rw)])
               \/ Fault /\ Go(p, "undo")
       ELSE NoFault /\ Go(p, "undo") /\ UNCHANGED vols

\* StartBranch of row id's container, named n, on rw over the volumes in
\* lowers, after installOverlayEntrypoint if `install'.  `next' is the process
\* after it; `failed' after an error that left the container behind (docker:
\* created and never started).
StartOn(p, n, id, rw, lowers, install, next, failed) ==
    IF NameFree(n)
    THEN /\ CidsLast
         /\ vols' = Mounted(rw, lowers, install)
         /\ \/ /\ ctrs' = Started(NewCid(n), n, id, rw, lowers, Boots(rw, install))
               /\ NoFault /\ GoWith(p, next)
            \/ /\ ctrs' = Started(NewCid(n), n, id, rw, lowers, Boots(rw, install) /\ ~Docker)
               /\ Fault /\ GoWith(p, failed)
    ELSE NoFault /\ GoWith(p, failed) /\ UNCHANGED world

\* provision: install the entrypoint, StartBranch.
Start(p) ==
    LET q == proc[p] IN
    /\ At(p, "start") /\ UNCHANGED <<regVars, ops>>
    /\ StartOn(p, q.name, q.id, q.rw, VolsOf(q.chain), TRUE,
               [q EXCEPT !.pc = "own", !.new = NewCid(q.name),
                         !.undo = Undo(p, "ctr", NewCid(q.name))],
               [q EXCEPT !.pc = "undo"])

\* awaitAndMark: record the container before the readiness wait.
Own(p) ==
    /\ At(p, "own") /\ SetBranchContainer(proc[p].id, proc[p].new)
    /\ Go(p, "mark") /\ OnlyRegistry

\* awaitAndMark after the wait, masking and rotation (which need the container):
\* MarkBranchReadyCtx, or unwind when the row has moved on.
Mark(p) ==
    /\ At(p, "mark") /\ OnlyRegistry
    /\ IF waitReady(proc[p].new) /\ CanGo(proc[p].id, "ready")
       THEN MarkBranchReady(proc[p].id, proc[p].new) /\ End(p)
       ELSE Go(p, "undo") /\ UNCHANGED regVars

\* A call of the forward path fails without effect.  After a freeze has stopped
\* its parent, and in provision, the saga unwinds; elsewhere it fails its row.
StepFails(p) ==
    /\ \/ /\ proc[p].pc \in {"mkvol", "start", "own", "mark", "claim", "mknew", "startparent",
                            "touchparent", "mkchild", "startchild", "commit"}
          /\ Go(p, "undo")
       \/ /\ proc[p].pc \in {"plan", "freeze", "markchild"}
          /\ Go(p, "markfailed")
       \/ /\ proc[p].pc \in {"restart", "remark"}
          /\ Go(p, IF At(p, "restart") THEN "failtarget" ELSE "restop")
    /\ Fault /\ OnlyLocal

\* One compensation, newest first.  Its own failure is only logged.
UndoStep(p) ==
    LET last == Len(proc[p].undo)
        u    == proc[p].undo[last] IN
    /\ At(p, "undo") /\ proc[p].undo # << >> /\ UNCHANGED ops
    /\ GoWith(p, [proc[p] EXCEPT !.undo = SubSeq(@, 1, last - 1)])
    /\ \/ /\ NoFault
          /\ vols' = IF u.kind = "vol" /\ CanRemove(u.what) THEN Removed(u.what) ELSE vols
          /\ ctrs' = IF u.kind = "ctr" THEN Stopped(u.what) ELSE ctrs
          /\ IF u.kind = "claim" THEN SetBranchPendingVolume(u.what, None)
                                 ELSE UNCHANGED regVars
       \/ Fault /\ UNCHANGED <<regVars, world>>

\* The undo stack is empty: provision's caller fails the row; a freeze first
\* restores its parent.
Undone(p) ==
    /\ At(p, "undo") /\ proc[p].undo = << >>
    /\ Go(p, IF proc[p].op = "from" THEN "restart" ELSE "markfailed")
    /\ NoFault /\ OnlyLocal

\* The saga's last step on an error: its row to failed, if still legal.
MarkFailed(p) ==
    /\ At(p, "markfailed")
    /\ BestEffort(CanGo(proc[p].id, "failed"), TransitionBranch(proc[p].id, "failed"))
    /\ End(p) /\ OnlyRegistry

-----------------------------------------------------------------------------
(* CreateBranchFrom: the overlay freeze saga. *)

checkLayerDepth(pid) == Len(LayerChain(pid)) < MaxLayerDepth

\* Read the parent (ready, chain below the depth limit) and pick the child's
\* volume.  What is read here is used for the rest of the saga.
StartFrom(p, n, pn) ==
    /\ Begin(p, "from")
    /\ FreshGens(n, 1) # {}
    /\ \E pid \in ByName(pn) :
        /\ branches[pid].state = "ready" /\ ChainOK(pid)
        /\ checkLayerDepth(pid)
        /\ GoWith(p, [Idle EXCEPT !.op = "from", !.pc = "insert", !.name = n,
              !.rw = FreshLayer(n, 1), !.pid = pid, !.pname = pn,
              !.prw = branches[pid].rw, !.pcid = branches[pid].cid])

\* Mutant: the parent's older layers are left out of the frozen stack.
FreezePlanNoChain(p) ==
    LET q == proc[p]
        g == Len(LayerChain(q.pid)) + 2 IN
    /\ At(p, "plan") /\ NoFault /\ OnlyLocal
    /\ IF ChainOK(q.pid) /\ FreshGens(q.pname, g) # {}
       THEN GoWith(p, [q EXCEPT !.pc = "freeze", !.newrw = FreshLayer(q.pname, g)])
       ELSE Go(p, "markfailed")

\* freezeAndProvision: re-read the chain, name the parent's next rw volume.
FreezePlan(p) ==
    LET q == proc[p]
        g == Len(LayerChain(q.pid)) + 2 IN
    /\ At(p, "plan") /\ NoFault /\ OnlyLocal
    /\ IF ChainOK(q.pid) /\ FreshGens(q.pname, g) # {}
       THEN GoWith(p, [q EXCEPT !.pc = "freeze", !.chain = LayerChain(q.pid),
                                !.newrw = FreshLayer(q.pname, g)])
       ELSE Go(p, "markfailed")

\* The parent to resetting; this swap is the saga's only check that the parent
\* read at the start is still there.
Freeze(p) ==
    /\ At(p, "freeze") /\ OnlyRegistry
    /\ IF CanGo(proc[p].pid, "resetting")
       THEN TransitionBranch(proc[p].pid, "resetting") /\ Go(p, "stopparent")
       ELSE Go(p, "markfailed") /\ UNCHANGED regVars

\* CHECKPOINT in the parent's container (a failure leaves it running), then
\* StopRemove, whose failure leaves the container's state unknown.
StopParent(p) ==
    /\ At(p, "stopparent") /\ UNCHANGED <<regVars, vols, ops>>
    /\ \/ /\ Up(proc[p].pcid)
          /\ ctrs' = Stopped(proc[p].pcid) /\ NoFault /\ Go(p, "claim")
       \/ /\ Up(proc[p].pcid)
          /\ ctrs' \in {ctrs, Stopped(proc[p].pcid)} /\ Fault /\ Go(p, "failtarget")
       \/ /\ ~Up(proc[p].pcid)
          /\ UNCHANGED ctrs /\ NoFault /\ Go(p, "unfreeze")
       \/ /\ UNCHANGED ctrs /\ Fault /\ Go(p, "unfreeze")

\* The checkpoint failed: the parent back to ready.
Unfreeze(p) ==
    /\ At(p, "unfreeze")
    /\ BestEffort(CanGo(proc[p].pid, "ready"), TransitionBranch(proc[p].pid, "ready"))
    /\ Go(p, "markfailed") /\ OnlyRegistry

\* Mutant: the volume is created unclaimed.
ClaimSkipped(p) == At(p, "claim") /\ Go(p, "mknew") /\ NoFault /\ OnlyLocal

\* Claim the parent's new rw volume on its row before it exists.
Claim(p) ==
    LET q == proc[p] IN
    /\ At(p, "claim") /\ SetBranchPendingVolume(q.pid, q.newrw)
    /\ GoWith(p, [q EXCEPT !.pc = "mknew", !.undo = Undo(p, "claim", q.pid)])
    /\ OnlyRegistry

\* CreateVolume of the freeze: the parent's new rw volume, or the child's.
MkFreezeVol(p) ==
    LET q == proc[p]
        v == IF At(p, "mknew") THEN q.newrw ELSE q.rw
        id == IF At(p, "mknew") THEN q.pid ELSE q.id IN
    /\ proc[p].pc \in {"mknew", "mkchild"} /\ UNCHANGED <<regVars, ctrs, ops>>
    /\ IF CanCreate(v)
       THEN /\ vols' = Created(v, id)
            /\ \/ NoFault /\ GoWith(p, [q EXCEPT !.undo = Undo(p, "vol", v),
                     !.pc = IF At(p, "mknew") THEN "startparent" ELSE "startchild"])
               \/ Fault /\ Go(p, "undo")
       ELSE NoFault /\ Go(p, "undo") /\ UNCHANGED vols

\* The frozen stack both containers mount: the parent's old rw over its chain.
Frozen(q) == {q.prw} \cup VolsOf(q.chain)

\* Restart the parent on its new rw volume over the frozen stack.
StartParent(p) ==
    LET q == proc[p] IN
    /\ At(p, "startparent") /\ UNCHANGED <<regVars, ops>>
    /\ StartOn(p, q.pname, q.pid, q.newrw, Frozen(q), TRUE,
               [q EXCEPT !.pc = "ownparent", !.pnew = NewCid(q.pname),
                         !.undo = Undo(p, "ctr", NewCid(q.pname))],
               [q EXCEPT !.pc = "undo"])

OwnParent(p) ==
    /\ At(p, "ownparent") /\ SetBranchContainer(proc[p].pid, proc[p].pnew)
    /\ Go(p, "touchparent") /\ OnlyRegistry

\* The parent is back up: bump both rows' stuck timers.
TouchParent(p) ==
    /\ At(p, "touchparent") /\ OnlyRegistry
    /\ IF waitReady(proc[p].pnew)
       THEN TouchBranch(proc[p].pid) /\ Go(p, "touchchild")
       ELSE Go(p, "undo") /\ UNCHANGED regVars

TouchChild(p) ==
    /\ At(p, "touchchild") /\ TouchBranch(proc[p].id)
    /\ Go(p, "mkchild") /\ OnlyRegistry

\* The child on its own rw volume over the same stack.
StartChild(p) ==
    LET q == proc[p] IN
    /\ At(p, "startchild") /\ UNCHANGED <<regVars, ops>>
    /\ StartOn(p, q.name, q.id, q.rw, Frozen(q), TRUE,
               [q EXCEPT !.pc = "ownchild", !.new = NewCid(q.name),
                         !.undo = Undo(p, "ctr", NewCid(q.name))],
               [q EXCEPT !.pc = "undo"])

OwnChild(p) ==
    /\ At(p, "ownchild") /\ SetBranchContainer(proc[p].id, proc[p].new)
    /\ Go(p, "commit") /\ OnlyRegistry

\* Both containers answered: CommitFreezeCtx, with the rw volume read at the
\* start as the frozen one.
Commit(p) ==
    LET q == proc[p]
        free == {l \in LayerIds : layers[l].st = "absent"}
        l == CHOOSE x \in free : TRUE IN
    /\ At(p, "commit") /\ OnlyRegistry
    /\ free # {}
    /\ IF waitReady(q.new) /\ inspectAddr(q.pnew) /\ CanCommitFreeze(q.pid, q.id)
       THEN CommitFreeze(q.pid, q.id, l, q.prw, q.newrw, q.pnew) /\ Go(p, "markchild")
       ELSE Go(p, "undo") /\ UNCHANGED regVars

\* The child ready.  The freeze is committed, so nothing is unwound here.
MarkChild(p) ==
    /\ At(p, "markchild") /\ OnlyRegistry
    /\ IF CanGo(proc[p].id, "ready")
       THEN MarkBranchReady(proc[p].id, proc[p].new) /\ End(p)
       ELSE Go(p, "markfailed") /\ UNCHANGED regVars

-----------------------------------------------------------------------------
(* restartAndMarkReady: a container on the row's own data.  It restores a    *)
(* freeze's parent after the compensations, and it is RecoverBranch's tail.  *)

TargetId(q) == IF q.op = "from" THEN q.pid ELSE q.id
TargetName(q) == IF q.op = "from" THEN q.pname ELSE q.name
TargetRW(q) == IF q.op = "from" THEN q.prw ELSE q.rw

\* Recover installs the entrypoint again before it starts.
Restart(p) ==
    LET q == proc[p] IN
    /\ At(p, "restart") /\ UNCHANGED <<regVars, ops>>
    /\ StartOn(p, TargetName(q), TargetId(q), TargetRW(q), VolsOf(q.chain), q.op = "recover",
               [q EXCEPT !.pc = "reown", !.pnew = NewCid(TargetName(q))],
               [q EXCEPT !.pc = "failtarget"])

Reown(p) ==
    /\ At(p, "reown") /\ SetBranchContainer(TargetId(proc[p]), proc[p].pnew)
    /\ Go(p, "remark") /\ OnlyRegistry

Remark(p) ==
    LET id == TargetId(proc[p]) IN
    /\ At(p, "remark") /\ OnlyRegistry
    /\ IF waitReady(proc[p].pnew) /\ CanGo(id, "ready")
       THEN /\ MarkBranchReady(id, proc[p].pnew)
            /\ IF proc[p].op = "from" THEN Go(p, "markfailed") ELSE End(p)
       ELSE Go(p, "restop") /\ UNCHANGED regVars

\* The restart failed: its container goes (best effort), the data stays.
Restop(p) ==
    /\ At(p, "restop") /\ UNCHANGED <<regVars, vols, ops>>
    /\ \/ NoFault /\ ctrs' = Stopped(proc[p].pnew)
       \/ Fault /\ UNCHANGED ctrs
    /\ Go(p, "failtarget")

\* The restarted row to failed; a freeze then fails its child too.
FailTarget(p) ==
    LET id == TargetId(proc[p]) IN
    /\ At(p, "failtarget") /\ OnlyRegistry
    /\ BestEffort(CanGo(id, "failed"), TransitionBranch(id, "failed"))
    /\ IF proc[p].op = "from" THEN Go(p, "markfailed") ELSE End(p)

-----------------------------------------------------------------------------
(* ResetBranch, RecoverBranch and DestroyBranch. *)

\* A row that names a parent but has no base is a freeze that never committed.
checkChildCommitted(id) == branches[id].parent = None \/ branches[id].base # None

\* A child that is still being created may be mid-freeze on the branch's volume.
checkChildrenAllowReprovision(id) == InFlightChildren(branches[id].name) = {}

\* Every volume a restart on existing data would mount is there.
checkBranchData(id) == \A v \in VolsOf(LayerChain(id)) \cup {branches[id].rw} : Managed(v)

\* ResetBranch, RecoverBranch: read the row and make the checks that precede
\* the transition.  Recover also wants every volume it would mount.
ReadForRestart(p, n, op) ==
    /\ Begin(p, op)
    /\ \E id \in ByName(n) :
        /\ checkChildCommitted(id) /\ checkChildrenAllowReprovision(id)
        /\ op = "recover" => branches[id].state = "failed" /\ ChainOK(id) /\ checkBranchData(id)
        /\ GoWith(p, [Idle EXCEPT !.op = op, !.pc = "reset", !.id = id, !.name = n,
              !.rw = branches[id].rw, !.cid = branches[id].cid,
              !.chain = IF op = "recover" THEN LayerChain(id) ELSE << >>])

\* Mutant: the swap's error is ignored.
ToResettingNoCAS(p) ==
    /\ At(p, "reset") /\ OnlyRegistry /\ Go(p, "halt")
    /\ BestEffort(CanGo(proc[p].id, "resetting"), TransitionBranch(proc[p].id, "resetting"))

\* The swap to resetting: from here the row belongs to this saga.
ToResetting(p) ==
    /\ At(p, "reset") /\ OnlyRegistry
    /\ IF CanGo(proc[p].id, "resetting")
       THEN TransitionBranch(proc[p].id, "resetting") /\ Go(p, "halt")
       ELSE End(p) /\ UNCHANGED regVars

\* DestroyBranch: read the row and its chain.  A row caught in a transient
\* state, or already destroying, is torn down guarded.
ReadDestroy(p) ==
    /\ At(p, "destroy") /\ NoFault /\ OnlyLocal
    /\ IF \E id \in ByName(proc[p].name) : ChainOK(id)
       THEN \E id \in ByName(proc[p].name) :
            LET st == branches[id].state IN
            GoWith(p, [proc[p] EXCEPT !.id = id, !.rw = branches[id].rw,
                !.cid = branches[id].cid, !.chain = LayerChain(id),
                !.guarded = st \notin {"ready", "failed"},
                !.pc = CASE st \in {"creating", "resetting"} -> "force"
                         [] st \in {"ready", "failed"} -> "todestroying"
                         [] OTHER -> "note"])
       ELSE End(p)

\* Force a transient row to failed, then any row to destroying; a row already
\* destroying is noted in its journal.
ToDestroying(p) ==
    LET id == proc[p].id IN
    /\ proc[p].pc \in {"force", "todestroying", "note"} /\ OnlyRegistry
    /\ \/ /\ At(p, "force") /\ CanGo(id, "failed")
          /\ TransitionBranch(id, "failed") /\ Go(p, "todestroying")
       \/ /\ At(p, "todestroying") /\ CanGo(id, "destroying")
          /\ TransitionBranch(id, "destroying") /\ Go(p, "halt")
       \/ /\ At(p, "note")
          /\ NoteBranch(id) /\ Go(p, "halt")
       \/ /\ \/ At(p, "force") /\ ~CanGo(id, "failed")
             \/ At(p, "todestroying") /\ ~CanGo(id, "destroying")
          /\ End(p) /\ UNCHANGED regVars

\* StopRemove of the container the row recorded when it was read; where each
\* caller goes next, and what a failure means to it.
Halt(p) ==
    /\ At(p, "halt") /\ UNCHANGED <<regVars, vols, ops>>
    /\ \/ /\ NoFault /\ ctrs' = Stopped(proc[p].cid)
          /\ Go(p, CASE proc[p].op = "reset" -> "rmvol"
                     [] proc[p].op = "recover" -> "restart"
                     [] proc[p].op = "lost" -> "stray"
                     [] OTHER -> "guard")
       \/ /\ Fault /\ UNCHANGED ctrs
          /\ CASE proc[p].op \in {"reset", "recover"} -> Go(p, "markfailed")
               [] proc[p].op = "lost" -> End(p)
               [] proc[p].op = "failstuck" -> Go(p, "guard")
               [] OTHER -> Go(p, "failnote")

\* teardownBranch and fail_stuck: keep the volume while an uncommitted child
\* of this branch is alive.
Guard(p) ==
    /\ At(p, "guard") /\ NoFault /\ OnlyLocal
    /\ IF proc[p].guarded /\ ReferencingRW(proc[p].name, proc[p].rw) # {}
       THEN IF proc[p].op = "failstuck" THEN End(p) ELSE Go(p, "todestroyed")
       ELSE Go(p, "rmvol")

\* removeBranchLayer of the rw volume the row recorded when it was read.
RmVol(p) ==
    /\ At(p, "rmvol") /\ UNCHANGED <<regVars, ctrs, ops>>
    /\ \/ /\ CanRemove(proc[p].rw) /\ NoFault
          /\ vols' = Removed(proc[p].rw)
          /\ CASE proc[p].op = "reset" -> Go(p, "mkvol")
               [] proc[p].op = "failstuck" -> End(p)
               [] OTHER -> Go(p, "todestroyed")
       \/ /\ IF CanRemove(proc[p].rw) THEN Fault ELSE NoFault
          /\ UNCHANGED vols
          /\ CASE proc[p].op = "reset" -> Go(p, "markfailed")
               [] proc[p].op = "failstuck" -> End(p)
               [] OTHER -> Go(p, "failnote")

\* A failed teardown is journaled; the row stays destroying for a retry.
FailNote(p) ==
    /\ At(p, "failnote") /\ NoteBranch(proc[p].id) /\ End(p) /\ OnlyRegistry

ToDestroyed(p) ==
    /\ At(p, "todestroyed") /\ OnlyRegistry
    /\ IF CanGo(proc[p].id, "destroyed")
       THEN TransitionBranch(proc[p].id, "destroyed") /\ Go(p, "gc")
       ELSE End(p) /\ UNCHANGED regVars

\* Mutant: the references are not counted.
GCCheckBlind(p) ==
    /\ At(p, "gc") /\ NoFault /\ OnlyLocal
    /\ IF proc[p].chain = << >> THEN End(p) ELSE Go(p, "gcvol")

\* gcLayers (and reconcile's gc_layer, on one layer): while the next layer is
\* referenced by no live branch, remove its volume, then its row.
GCCheck(p) ==
    /\ At(p, "gc") /\ NoFault /\ OnlyLocal
    /\ IF \/ proc[p].chain = << >> \/ ReferencingLayer(Head(proc[p].chain)) # {}
          \/ proc[p].op = "gclayer" /\ layers[Head(proc[p].chain)].st # "live"
       THEN End(p)
       ELSE Go(p, "gcvol")

GCVol(p) ==
    LET v == layers[Head(proc[p].chain)].vol IN
    /\ At(p, "gcvol") /\ UNCHANGED <<regVars, ctrs, ops>>
    /\ \/ CanRemove(v) /\ NoFault /\ vols' = Removed(v) /\ Go(p, "gcrow")
       \/ /\ IF CanRemove(v) THEN Fault ELSE NoFault
          /\ UNCHANGED vols /\ End(p)

GCRow(p) ==
    LET l == Head(proc[p].chain) IN
    /\ At(p, "gcrow") /\ OnlyRegistry
    /\ IF layers[l].st = "live" /\ \A k \in LiveLayers : layers[k].prev # l
       THEN DeleteLayer(l) /\ GoWith(p, [proc[p] EXCEPT !.pc = "gc", !.chain = Tail(@)])
       ELSE End(p) /\ UNCHANGED regVars
=============================================================================
